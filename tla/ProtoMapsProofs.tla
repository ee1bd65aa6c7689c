-------------------------- MODULE ProtoMapsProofs --------------------------
(* Theorems about ProtoMaps: any messages, dicts, fields and entries, and  *)
(* any number of operations.                                               *)
EXTENDS ProtoMaps, TLAPS

(* What is there is in use, and what a frozen message refers to is frozen: *)
(* Freeze stops at a message that is frozen already, and a dict made later *)
(* must not be born frozen.                                                *)
IInv ==
  /\ fields \in [Msg -> [MapField -> wins \cup {Unset}]]
  /\ dicts \in [Dict -> Contents]
  /\ wins \subseteq Window /\ raw \subseteq Dict
  /\ frozen \subseteq Object /\ frozen \cap Dict \subseteq Used
  /\ \A m \in Msg \cap frozen : Children(m) \subseteq frozen

(* Frozen objects stay as they are. *)
Kept ==
  /\ frozen \subseteq frozen'
  /\ \A m \in Msg \cap frozen : fields'[m] = fields[m] /\ Children(m) \subseteq frozen
  /\ \A d \in Dict \cap frozen : dicts'[d] = dicts[d]

(* What the operators on dicts make is a dict.                             *)
LEMMA EmptyType == <<>> \in Contents
<1>1. <<>> = [k \in {} |-> None]
  OBVIOUS
<1>2. QED
  BY <1>1 DEF Contents

LEMMA RestrictType ==
  ASSUME NEW s \in Contents, NEW K \in SUBSET DOMAIN s
  PROVE  Restrict(s, K) \in Contents
<1>1. PICK D \in SUBSET Key : s \in [D -> Value \cup {None}]
  BY DEF Contents
<1>2. Restrict(s, K) \in [K -> Value \cup {None}] /\ K \in SUBSET Key
  BY <1>1 DEF Restrict
<1>3. QED
  BY <1>2 DEF Contents

LEMMA OverType ==
  ASSUME NEW s \in Contents, NEW t \in Contents
  PROVE  /\ Over(s, t) \in Contents
         /\ DOMAIN Over(s, t) = DOMAIN s \cup DOMAIN t
<1>1. PICK D \in SUBSET Key : s \in [D -> Value \cup {None}]
  BY DEF Contents
<1>2. PICK E \in SUBSET Key : t \in [E -> Value \cup {None}]
  BY DEF Contents
<1>3. Over(s, t) \in [D \cup E -> Value \cup {None}] /\ D \cup E \in SUBSET Key
  BY <1>1, <1>2 DEF Over
<1>4. QED
  BY <1>1, <1>2, <1>3 DEF Contents

LEMMA SingleType ==
  ASSUME NEW k \in Key, NEW v \in Value \cup {None}
  PROVE  Entry(k, v) \in Contents
<1>1. Entry(k, v) \in [{k} -> Value \cup {None}] /\ {k} \in SUBSET Key
  BY DEF Entry
<1>2. QED
  BY <1>1 DEF Contents

LEMMA SetAllType ==
  ASSUME NEW f, NEW s \in Contents, NEW t \in Contents
  PROVE  SetAll(f, s, t) \in Contents
<1>1. (DOMAIN s \ DOMAIN t) \cup Stays(f, t) \in SUBSET DOMAIN Over(s, t)
  BY OverType DEF Stays
<1>2. QED
  BY <1>1, OverType, RestrictType DEF SetAll

LEMMA UnionType ==
  ASSUME NEW f, NEW s \in Contents, NEW t \in Contents
  PROVE  Union(f, s, t) \in Contents
<1>1. UnionOrder(s, t)[1] = s /\ UnionOrder(s, t)[2] = t
  BY DEF UnionOrder
<1>2. SetAll(f, <<>>, s) \in Contents
  BY EmptyType, SetAllType
<1>3. QED
  BY <1>1, <1>2, SetAllType DEF Union

LEMMA InitInv == Init => IInv
BY EmptyType DEF Init, IInv

(* A step that freezes nothing and writes to no frozen object. *)
LEMMA WriteStep ==
  ASSUME IInv, frozen' = frozen, raw \subseteq raw', raw' \subseteq Dict,
         wins \subseteq wins', wins' \subseteq Window,
         fields' \in [Msg -> [MapField -> wins' \cup {Unset}]],
         dicts' \in [Dict -> Contents],
         \A m \in Msg \cap frozen : fields'[m] = fields[m],
         \A d \in Dict \cap frozen : dicts'[d] = dicts[d]
  PROVE  IInv' /\ Kept
BY DEF IInv, Kept, Used, Children

(* An error leaves everything alone, and so does a read. *)
LEMMA SameStep == ASSUME IInv, UNCHANGED maps PROVE IInv' /\ Kept
BY DEF IInv, Kept, Used, Children, maps

LEMMA DictWritten ==
  ASSUME IInv, NEW d \in Dict, NEW s \in Contents, Write(d, s)
  PROVE  IInv' /\ Kept
<1>1. CASE Mutable(d) /\ dicts' = [dicts EXCEPT ![d] = s] /\ UNCHANGED <<fields, frozen, raw, wins>>
  <2>1. dicts' \in [Dict -> Contents] /\ \A e \in Dict \cap frozen : dicts'[e] = dicts[e]
    BY <1>1 DEF IInv, Mutable
  <2>2. QED
    BY <1>1, <2>1, WriteStep DEF IInv
<1>2. CASE Refused
  BY <1>2, SameStep DEF Refused
<1>3. QED
  BY <1>1, <1>2 DEF Write

(* A window is put into a mutable message. *)
LEMMA FieldWritten ==
  ASSUME IInv, NEW m \in Msg, Mutable(m), NEW f \in MapField, NEW w \in Window, Put(m, f, w),
         UNCHANGED <<frozen, raw>>, dicts' \in [Dict -> Contents],
         \A d \in Dict \cap frozen : dicts'[d] = dicts[d]
  PROVE  IInv' /\ Kept
<1>1. wins' = wins \cup {w} /\ fields' = [fields EXCEPT ![m][f] = w]
  BY DEF Put
<1>2. wins \subseteq wins' /\ wins' \subseteq Window
  BY <1>1 DEF IInv
<1>3. fields' \in [Msg -> [MapField -> wins' \cup {Unset}]]
  BY <1>1 DEF IInv
<1>4. \A n \in Msg \cap frozen : fields'[n] = fields[n]
  BY <1>1 DEF IInv, Mutable
<1>5. QED
  BY <1>2, <1>3, <1>4, WriteStep DEF IInv

LEMMA RawSteps == ASSUME IInv, RawStep PROVE IInv' /\ Kept
<1>1. ASSUME NEW d \in Dict, NewDict(d) PROVE IInv' /\ Kept
  BY <1>1, WriteStep DEF NewDict, IInv
<1>2. ASSUME NEW d \in raw, NEW s \in Contents, Write(d, s) PROVE IInv' /\ Kept
  BY <1>2, DictWritten DEF IInv
<1>3. ASSUME NEW d \in raw, NEW k \in Key, NEW v \in Value \cup {None}
      PROVE  Over(dicts[d], Entry(k, v)) \in Contents /\ Without(dicts[d], k) \in Contents
  <2>1. dicts[d] \in Contents
    BY DEF IInv
  <2>2. DOMAIN dicts[d] \ {k} \in SUBSET DOMAIN dicts[d]
    OBVIOUS
  <2>3. QED
    BY <2>1, <2>2, SingleType, OverType, RestrictType DEF Without
<1>4. QED
  BY <1>1, <1>2, <1>3 DEF RawStep, RawSet, RawDelete

LEMMA AssignStep ==
  ASSUME IInv, NEW m \in Msg, NEW f \in MapField, NEW d \in Dict, AssignDict(m, f, d)
  PROVE  IInv' /\ Kept
<1> DEFINE s == dicts[d]
           w == [desc |-> f, dict |-> d]
<1>1. CASE Refused
  BY <1>1, SameStep DEF Refused
<1>2. CASE /\ Mutable(d) \/ WithoutNone(f, s) = s
           /\ dicts' = [dicts EXCEPT ![d] = WithoutNone(f, s)]
           /\ Put(m, f, w)
           /\ UNCHANGED <<frozen, raw>>
  <2>1. w \in Window
    BY DEF Window
  <2>2. dicts[d] \in Contents /\ Stays(f, s) \in SUBSET DOMAIN s
    BY DEF IInv, Stays
  <2>3. WithoutNone(f, s) \in Contents
    BY <2>2, RestrictType DEF WithoutNone
  <2>4. dicts' \in [Dict -> Contents] /\ \A e \in Dict \cap frozen : dicts'[e] = dicts[e]
    BY <1>2, <2>3 DEF IInv, Mutable
  <2>5. QED
    BY <1>2, <2>1, <2>4, FieldWritten DEF AssignDict
<1>3. QED
  BY <1>1, <1>2 DEF AssignDict

LEMMA AttrStep ==
  ASSUME IInv, NEW m \in Msg, NEW f \in MapField, NEW d \in Dict, Attr(m, f, d)
  PROVE  IInv' /\ Kept
<1> DEFINE w == [desc |-> f, dict |-> d]
<1>1. w \in Window
  BY DEF Window
<1>2. UNCHANGED <<dicts, frozen, raw>>
  BY DEF Attr
<1>3. CASE Mutable(m)
  BY <1>1, <1>2, <1>3, FieldWritten DEF Attr, IInv
<1>4. CASE ~Mutable(m)
  <2>1. wins' = wins \cup {w} /\ fields' = fields
    BY <1>4 DEF Attr
  <2>2. fields' \in [Msg -> [MapField -> wins' \cup {Unset}]]
    BY <2>1 DEF IInv
  <2>3. wins \subseteq wins' /\ wins' \subseteq Window
    BY <1>1, <2>1 DEF IInv
  <2>4. QED
    BY <1>2, <2>1, <2>2, <2>3, WriteStep DEF IInv
<1>5. QED
  BY <1>3, <1>4

LEMMA AssignWindowStep ==
  ASSUME IInv, NEW m \in Msg, NEW f \in MapField, NEW w \in wins, AssignWindow(m, f, w)
  PROVE  IInv' /\ Kept
<1>1. CASE Refused
  BY <1>1, SameStep DEF Refused
<1>2. CASE Put(m, f, w) /\ UNCHANGED <<dicts, frozen, raw>>
  BY <1>2, FieldWritten DEF AssignWindow, IInv
<1>3. QED
  BY <1>1, <1>2 DEF AssignWindow

(* The dict of a union is none that is in use, and so is not frozen. *)
LEMMA MergeStep ==
  ASSUME IInv, NEW m \in Msg, NEW n \in Msg, NEW f \in MapField, NEW d \in Dict, Merge(m, n, f, d)
  PROVE  IInv' /\ Kept
<1> DEFINE v == fields[m][f]
           w == fields[n][f]
           u == [desc |-> v.desc, dict |-> d]
<1>1. CASE Refused
  BY <1>1, SameStep DEF Refused
<1>2. CASE UNCHANGED maps
  BY <1>2, SameStep
<1>3. CASE Mutable(m) /\ Put(m, f, w) /\ UNCHANGED <<dicts, frozen, raw>>
  <2>1. w \in Window
    BY DEF Merge, IInv
  <2>2. QED
    BY <1>3, <2>1, FieldWritten DEF IInv
<1>4. ASSUME NEW s \in Contents, Mutable(m), v # Unset, d \notin Used, dicts' = [dicts EXCEPT ![d] = s],
             Put(m, f, u), UNCHANGED <<frozen, raw>>
      PROVE  IInv' /\ Kept
  <2>1. u \in Window
    BY <1>4 DEF IInv, Window
  <2>2. dicts' \in [Dict -> Contents] /\ \A e \in Dict \cap frozen : dicts'[e] = dicts[e]
    BY <1>4 DEF IInv
  <2>3. QED
    BY <1>4, <2>1, <2>2, FieldWritten
<1>5. v # Unset => Union(v.desc, dicts[v.dict], dicts[w.dict]) \in Contents
  BY UnionType DEF Merge, IInv, Window
<1>6. QED
  BY <1>1, <1>2, <1>3, <1>4, <1>5 DEF Merge, maps

LEMMA UpdateStep ==
  ASSUME IInv, NEW w \in wins, NEW t \in Contents, NEW done \in SUBSET DOMAIN t, Update(w, t, done)
  PROVE  IInv' /\ Kept
<1>1. CASE UNCHANGED maps
  BY <1>1, SameStep
<1>2. CASE /\ Mutable(w.dict)
           /\ dicts' = [dicts EXCEPT ![w.dict] = SetAll(w.desc, @, Restrict(t, done))]
           /\ UNCHANGED <<fields, frozen, raw, wins>>
  <2>1. w.dict \in Dict /\ dicts[w.dict] \in Contents
    BY DEF IInv, Window
  <2>2. SetAll(w.desc, dicts[w.dict], Restrict(t, done)) \in Contents
    BY <2>1, RestrictType, SetAllType
  <2>3. dicts' \in [Dict -> Contents] /\ \A e \in Dict \cap frozen : dicts'[e] = dicts[e]
    BY <1>2, <2>2 DEF IInv, Mutable
  <2>4. QED
    BY <1>2, <2>3, WriteStep DEF IInv
<1>3. QED
  BY <1>1, <1>2 DEF Update, Refused

LEMMA MapSteps == ASSUME IInv, NEW w \in wins, MapStep(w) PROVE IInv' /\ Kept
<1>1. w.dict \in Dict
  BY DEF IInv, Window
<1>2. ASSUME NEW k \in Key, NEW v \in Value \cup {None}, SetItem(w, k, v) PROVE IInv' /\ Kept
  <2>1. SetAll(w.desc, dicts[w.dict], Entry(k, v)) \in Contents
    BY <1>1, SingleType, SetAllType DEF IInv
  <2>2. QED
    BY <1>1, <1>2, <2>1, DictWritten, SameStep DEF SetItem, Refused
<1>3. ASSUME NEW k \in Key, NEW v \in Value \cup {None}, SetDefault(w, k, v) PROVE IInv' /\ Kept
  BY <1>2, <1>3, SameStep DEF SetDefault
<1>4. CASE Clear(w)
  BY <1>1, <1>4, EmptyType, DictWritten DEF Clear
<1>5. QED
  BY <1>2, <1>3, <1>4, UpdateStep DEF MapStep

LEMMA FreezeStep == ASSUME IInv, NEW o \in Msg \cup Used, Freeze(o) PROVE IInv' /\ Kept
<1>1. /\ frozen' = frozen \cup {o} \cup (IF o \in Msg \ frozen THEN Children(o) ELSE {})
      /\ UNCHANGED <<fields, dicts, raw, wins>>
  BY DEF Freeze
<1>2. \A m \in Msg : Children(m) \subseteq {w.dict : w \in wins}
  BY DEF Children, IInv
<1>3. frozen' \cap Dict \subseteq Used'
  BY <1>1, <1>2, MapsAssumption DEF IInv, Used
<1>4. \A m \in Msg \cap frozen' : Children(m)' \subseteq frozen'
  <2> SUFFICES ASSUME NEW m \in Msg \cap frozen' PROVE Children(m) \subseteq frozen'
    BY <1>1 DEF Children
  <2>1. m \in frozen \/ m = o \/ m \in Dict
    BY <1>1, <1>2 DEF IInv, Window
  <2>2. QED
    BY <1>1, <2>1, MapsAssumption DEF IInv
<1>5. frozen' \subseteq Object
  BY <1>1, <1>2 DEF IInv, Window, Used, Object
<1>6. IInv'
  BY <1>1, <1>3, <1>4, <1>5 DEF IInv
<1>7. Kept
  BY <1>1 DEF IInv, Kept
<1>8. QED
  BY <1>6, <1>7

LEMMA NextInv == IInv /\ [Next]_vars => IInv' /\ Kept
<1> SUFFICES ASSUME IInv, [Next]_vars PROVE IInv' /\ Kept
  OBVIOUS
<1>1. CASE UNCHANGED vars
  BY <1>1, SameStep DEF vars, maps
<1>2. ASSUME NEW m \in Msg, MsgStep(m) PROVE IInv' /\ Kept
  BY <1>2, AssignStep, AttrStep, AssignWindowStep, MergeStep, SameStep DEF MsgStep, FrozenRejected, Refused
<1>3. QED
  BY <1>1, <1>2, RawSteps, MapSteps, FreezeStep DEF Next, Step

(* Freezing is deep and final, however maps are shared between fields,     *)
(* messages and bare dicts: nothing writes to a frozen message or dict.    *)
THEOREM FrozenMapsStay == Spec => FrozenMaps
<1>1. Spec => []IInv
  BY InitInv, NextInv, PTL DEF Spec
<1>2. Spec => [][Kept]_vars
  BY <1>1, NextInv, PTL DEF Spec
<1>3. QED
  BY <1>2 DEF FrozenMaps, Kept

-----------------------------------------------------------------------------
(* The types of the entries.                                               *)

(* SetKey keeps the type of the entries.                                   *)
LEMMA SetAllConform ==
  ASSUME NEW f, NEW s \in Contents, NEW t \in Contents, Conform(f, s), AllAccepted(f, t)
  PROVE  Conform(f, SetAll(f, s, t))
BY DEF Conform, AllAccepted, Accepts, Stays, SetAll, Restrict, Over

LEMMA EmptyConforms == ASSUME NEW f PROVE Conform(f, <<>>)
BY DEF Conform

LEMMA UnionConform ==
  ASSUME NEW f, NEW s \in Contents, NEW t \in Contents, AllAccepted(f, s), AllAccepted(f, t)
  PROVE  Conform(f, Union(f, s, t))
<1>1. UnionOrder(s, t)[1] = s /\ UnionOrder(s, t)[2] = t
  BY DEF UnionOrder
<1>2. SetAll(f, <<>>, s) \in Contents /\ Conform(f, SetAll(f, <<>>, s))
  BY EmptyType, EmptyConforms, SetAllType, SetAllConform
<1>3. QED
  BY <1>1, <1>2, SetAllConform DEF Union

(* A dict that the program does not have as a bare dict is that of one     *)
(* window, whose type its entries have; one that is not in use is empty.   *)
CInv ==
  /\ \A d \in Dict \ Used : dicts[d] = <<>>
  /\ \A v, w \in wins : v.dict = w.dict /\ v.dict \notin raw => v = w
  /\ \A w \in wins : w.dict \notin raw => Conform(w.desc, dicts[w.dict])

(* A dict that is in use is written: unless it is bare, through a window,  *)
(* which checks the types.                                                 *)
LEMMA WrittenConforms ==
  ASSUME IInv, CInv, NEW d \in Used, NEW s, dicts' = [dicts EXCEPT ![d] = s],
         UNCHANGED <<raw, wins>>, \A w \in wins : w.dict = d /\ d \notin raw => Conform(w.desc, s)
  PROVE  CInv'
<1>1. Used' = Used
  BY DEF Used
<1>2. \A w \in wins : w.dict \in Dict
  BY DEF IInv, Window
<1>3. \A e \in Dict : dicts'[e] = IF e = d THEN s ELSE dicts[e]
  BY DEF IInv
<1>4. \A e \in Dict \ Used' : dicts'[e] = <<>>
  BY <1>1, <1>3 DEF CInv
<1>5. \A w \in wins : w.dict \notin raw => Conform(w.desc, dicts'[w.dict])
  BY <1>2, <1>3 DEF CInv
<1>6. QED
  BY <1>4, <1>5 DEF CInv

(* A window on a dict of its own, or on a bare dict.                       *)
LEMMA WindowConforms ==
  ASSUME IInv, CInv, NEW w \in Window, wins' = wins \cup {w}, UNCHANGED raw,
         w.dict \in raw \/ (w.dict \notin Used /\ Conform(w.desc, dicts'[w.dict])),
         \A e \in Dict \ {w.dict} : dicts'[e] = dicts[e]
  PROVE  CInv'
<1>1. Used' = Used \cup {w.dict} /\ w.dict \in Dict
  BY DEF Used, Window
<1>2. \A e \in Dict \ Used' : dicts'[e] = <<>>
  BY <1>1 DEF CInv
<1>3. \A v \in wins : v.dict \in Dict /\ v.dict \in Used
  BY DEF IInv, Window, Used
<1>4. \A u, v \in wins' : u.dict = v.dict /\ u.dict \notin raw' => u = v
  BY <1>3 DEF CInv
<1>5. \A v \in wins' : v.dict \notin raw' => Conform(v.desc, dicts'[v.dict])
  BY <1>3 DEF CInv
<1>6. QED
  BY <1>2, <1>4, <1>5 DEF CInv

LEMMA SameConforms ==
  ASSUME CInv, UNCHANGED <<dicts, wins>>, raw \subseteq raw' PROVE CInv'
BY DEF CInv, Used

LEMMA RawConforms == ASSUME IInv, CInv, RawStep PROVE CInv'
<1>1. ASSUME NEW d \in Dict, NewDict(d) PROVE CInv'
  BY <1>1, SameConforms DEF NewDict
<1>2. ASSUME NEW d \in raw, NEW s, Write(d, s) PROVE CInv'
  BY <1>2, WrittenConforms, SameConforms DEF Write, Refused, maps, Used
<1>3. QED
  BY <1>1, <1>2 DEF RawStep, RawSet, RawDelete

LEMMA MsgConforms == ASSUME IInv, CInv, NEW m \in Msg, MsgStep(m) PROVE CInv'
<1>1. CASE UNCHANGED maps
  BY <1>1, SameConforms DEF maps
<1>2. ASSUME NEW f \in MapField, NEW d \in Dict, AssignDict(m, f, d) PROVE CInv'
  <2> DEFINE w == [desc |-> f, dict |-> d]
  <2>1. CASE Refused
    BY <1>1, <2>1 DEF Refused
  <2>2. CASE dicts' = [dicts EXCEPT ![d] = WithoutNone(f, dicts[d])] /\ Put(m, f, w) /\ UNCHANGED raw
    <3>1. w \in Window /\ w.dict \in raw
      BY <1>2 DEF Window, AssignDict
    <3>2. \A e \in Dict \ {w.dict} : dicts'[e] = dicts[e]
      BY <2>2 DEF IInv
    <3>3. wins' = wins \cup {w} /\ raw' = raw
      BY <2>2 DEF Put
    <3>4. QED
      BY <3>1, <3>2, <3>3, WindowConforms
  <2>3. QED
    BY <1>2, <2>1, <2>2 DEF AssignDict
<1>3. ASSUME NEW f \in MapField, NEW d \in Dict, Attr(m, f, d) PROVE CInv'
  <2> DEFINE w == [desc |-> f, dict |-> d]
  <2>1. w \in Window /\ w.desc = f /\ w.dict = d /\ d \notin Used
    BY <1>3 DEF Window, Attr
  <2>2. wins' = wins \cup {w} /\ UNCHANGED <<raw, dicts>>
    BY <1>3 DEF Attr, Put
  <2>3. Conform(w.desc, dicts'[w.dict])
    BY <2>1, <2>2, EmptyConforms DEF CInv
  <2>4. QED
    BY <2>1, <2>2, <2>3, WindowConforms
<1>4. ASSUME NEW f \in MapField, NEW w \in wins, AssignWindow(m, f, w) PROVE CInv'
  BY <1>4, <1>1, SameConforms DEF AssignWindow, Refused, Put
<1>5. ASSUME NEW n \in Msg, NEW f \in MapField, NEW d \in Dict, Merge(m, n, f, d) PROVE CInv'
  <2> DEFINE v == fields[m][f]
             w == fields[n][f]
             s == Union(v.desc, dicts[v.dict], dicts[w.dict])
             u == [desc |-> v.desc, dict |-> d]
  <2>1. CASE Refused
    BY <1>1, <2>1 DEF Refused
  <2>2. CASE UNCHANGED <<fields, dicts, wins, raw>>
    BY <2>2, SameConforms
  <2>3. CASE Put(m, f, w) /\ UNCHANGED <<dicts, raw>>
    <3>1. w \in wins
      BY <1>5 DEF Merge, IInv
    <3>2. wins' = wins
      BY <2>3, <3>1 DEF Put
    <3>3. QED
      BY <2>3, <3>2, SameConforms
  <2>4. CASE /\ v # Unset /\ dicts' = [dicts EXCEPT ![d] = s] /\ Put(m, f, u) /\ UNCHANGED raw
             /\ AllAccepted(v.desc, dicts[v.dict]) /\ AllAccepted(v.desc, dicts[w.dict])
    <3>1. v \in Window /\ w \in Window /\ d \notin Used
      BY <1>5, <2>4 DEF Merge, IInv
    <3>2. dicts[v.dict] \in Contents /\ dicts[w.dict] \in Contents
      BY <3>1 DEF IInv, Window
    <3>3. Conform(v.desc, s)
      BY <2>4, <3>2, UnionConform
    <3>4. u \in Window /\ u.desc = v.desc /\ u.dict = d
      BY <3>1 DEF Window
    <3>5. /\ wins' = wins \cup {u} /\ dicts'[d] = s
          /\ \A e \in Dict \ {d} : dicts'[e] = dicts[e]
      BY <2>4 DEF Put, IInv
    <3>6. QED
      BY <2>4, <3>1, <3>3, <3>4, <3>5, WindowConforms
  <2>5. QED
    BY <1>5, <2>1, <2>2, <2>3, <2>4 DEF Merge
<1>6. QED
  BY <1>1, <1>2, <1>3, <1>4, <1>5 DEF MsgStep, FrozenRejected, Refused

(* A window has the type of what its dict holds, and so have the others on *)
(* the same dict unless it is bare.                                        *)
LEMMA ThroughWindow ==
  ASSUME IInv, CInv, NEW w \in wins, NEW s, w.dict \notin raw => Conform(w.desc, s),
         dicts' = [dicts EXCEPT ![w.dict] = s], UNCHANGED <<raw, wins>>
  PROVE  CInv'
<1>1. w.dict \in Used
  BY DEF Used
<1>2. \A v \in wins : v.dict = w.dict /\ w.dict \notin raw => Conform(v.desc, s)
  BY DEF CInv
<1>3. QED
  BY <1>1, <1>2, WrittenConforms

LEMMA MapConformStep == ASSUME IInv, CInv, NEW w \in wins, MapStep(w) PROVE CInv'
<1>1. CASE UNCHANGED maps
  BY <1>1, SameConforms DEF maps
<1>2. ASSUME NEW s, w.dict \notin raw => Conform(w.desc, s), Write(w.dict, s) PROVE CInv'
  BY <1>1, <1>2, ThroughWindow DEF Write, Refused
<1>3. w.dict \in Dict /\ dicts[w.dict] \in Contents
  BY DEF IInv, Window
<1>4. ASSUME NEW k \in Key, NEW v \in Value \cup {None}, SetItem(w, k, v) PROVE CInv'
  <2>1. Entry(k, v) \in Contents
    BY SingleType
  <2>2. Accepts(w.desc, k, v) => AllAccepted(w.desc, Entry(k, v))
    BY DEF AllAccepted, Entry
  <2>3. Accepts(w.desc, k, v) /\ w.dict \notin raw =>
          Conform(w.desc, SetAll(w.desc, dicts[w.dict], Entry(k, v)))
    BY <1>3, <2>1, <2>2, SetAllConform DEF CInv
  <2>4. QED
    BY <1>1, <1>2, <1>4, <2>3 DEF SetItem, Refused
<1>5. ASSUME NEW k \in Key, NEW v \in Value \cup {None}, SetDefault(w, k, v) PROVE CInv'
  BY <1>1, <1>4, <1>5 DEF SetDefault
<1>6. ASSUME NEW t \in Contents, NEW done \in SUBSET DOMAIN t, Update(w, t, done) PROVE CInv'
  <2> DEFINE s == SetAll(w.desc, dicts[w.dict], Restrict(t, done))
  <2>1. Restrict(t, done) \in Contents
    BY RestrictType
  <2>2. AllAccepted(w.desc, Restrict(t, done))
    BY <1>6 DEF Update, AllAccepted, Restrict
  <2>3. w.dict \notin raw => Conform(w.desc, s)
    BY <1>3, <2>1, <2>2, SetAllConform DEF CInv
  <2>4. CASE dicts' = [dicts EXCEPT ![w.dict] = s] /\ UNCHANGED <<raw, wins>>
    BY <2>3, <2>4, ThroughWindow
  <2>5. QED
    BY <1>1, <1>6, <2>4 DEF Update, Refused
<1>7. CASE Clear(w)
  BY <1>2, <1>7, EmptyConforms DEF Clear
<1>8. QED
  BY <1>4, <1>5, <1>6, <1>7 DEF MapStep

LEMMA NextConforms == IInv /\ CInv /\ [Next]_vars => CInv'
<1> SUFFICES ASSUME IInv, CInv, [Next]_vars PROVE CInv'
  OBVIOUS
<1>1. CASE UNCHANGED vars
  BY <1>1, SameConforms DEF vars
<1>2. ASSUME NEW o, Freeze(o) PROVE CInv'
  BY <1>2, SameConforms DEF Freeze
<1>3. QED
  BY <1>1, <1>2, RawConforms, MsgConforms, MapConformStep DEF Next, Step

LEMMA Invariant == Spec => [](IInv /\ CInv)
<1>1. Init => CInv
  BY DEF Init, CInv, Used
<1>2. QED
  BY <1>1, InitInv, NextInv, NextConforms, PTL DEF Spec

(* Every reachable state is well typed, for any messages, dicts and types  *)
(* of fields.                                                              *)
THEOREM TypeCorrect == Spec => []TypeOK
<1> DEFINE Rest == failed \in BOOLEAN /\ steps \in 0..MaxSteps
<1>1. Init => Rest
  <2>1. 0 \in 0..MaxSteps
    BY MapsAssumption
  <2>2. QED
    BY <2>1 DEF Init
<1>2. Rest /\ [Next]_vars => Rest'
  <2> SUFFICES ASSUME Rest, Next PROVE Rest'
    BY DEF vars
  <2>1. steps' \in 0..MaxSteps
    BY MapsAssumption DEF Next
  <2>2. RawStep => failed' \in BOOLEAN
    BY DEF RawStep, NewDict, RawSet, RawDelete, Write, Refused
  <2>3. ASSUME NEW m \in Msg, MsgStep(m) PROVE failed' \in BOOLEAN
    BY <2>3 DEF MsgStep, AssignDict, Attr, AssignWindow, FrozenRejected, Merge, Refused
  <2>4. ASSUME NEW w \in wins, MapStep(w) PROVE failed' \in BOOLEAN
    BY <2>4 DEF MapStep, SetItem, SetDefault, Update, Clear, Write, Refused
  <2>5. QED
    BY <2>1, <2>2, <2>3, <2>4 DEF Next, Step, Freeze
<1>3. Spec => []Rest
  <2> HIDE DEF Rest
  <2> QED
    BY <1>1, <1>2, PTL DEF Spec
<1>4. IInv /\ Rest => TypeOK
  BY DEF IInv, TypeOK
<1>5. QED
  BY <1>3, <1>4, Invariant, PTL

(* A map field holds an entry of the wrong type only through a bare dict   *)
(* or the map of a field that takes more.                                  *)
THEOREM MapsConform == Spec => []MapConforms
<1>1. IInv /\ CInv => MapConforms
  <2> SUFFICES ASSUME IInv, CInv, NEW m \in Msg, NEW f \in MapField,
                      fields[m][f] # Unset, fields[m][f].dict \notin raw,
                      Narrower(fields[m][f].desc, f)
               PROVE  Conform(f, dicts[fields[m][f].dict])
    BY DEF MapConforms
  <2>1. fields[m][f] \in wins
    BY DEF IInv
  <2>2. QED
    BY <2>1 DEF CInv, Conform, Narrower
<1>2. QED
  BY <1>1, Invariant, PTL
-----------------------------------------------------------------------------
(* Operations that fail, and merges.                                       *)

LEMMA UpdateContained ==
  ASSUME IInv, NEW w \in wins, NEW t \in Contents, NEW done \in SUBSET DOMAIN t,
         Update(w, t, done), failed'
  PROVE  Contained
<1>1. CASE UNCHANGED maps
  BY <1>1 DEF Contained, maps
<1>2. CASE /\ dicts' = [dicts EXCEPT ![w.dict] = SetAll(w.desc, @, Restrict(t, done))]
           /\ UNCHANGED <<fields, frozen, raw, wins>>
  <2> DEFINE d == w.dict
             u == dicts'[d]
  <2>1. d \in Dict /\ dicts[d] \in Contents
    BY DEF IInv, Window
  <2>2. u = SetAll(w.desc, dicts[d], Restrict(t, done)) /\ \A e \in Dict \ {d} : dicts'[e] = dicts[e]
    BY <1>2, <2>1 DEF IInv
  <2>3. \A k \in done : Accepts(w.desc, k, t[k])
    BY DEF Update
  <2>4. ASSUME NEW k \in DOMAIN dicts[d] \cup DOMAIN u
        PROVE  \/ k \in DOMAIN dicts[d] \cap DOMAIN u /\ u[k] = dicts[d][k]
               \/ Accepts(w.desc, k, IF k \in DOMAIN u THEN u[k] ELSE None)
    <3> DEFINE r == Restrict(t, done)
    <3>1. DOMAIN r = done /\ \A j \in done : r[j] = t[j]
      BY DEF Restrict
    <3>2. DOMAIN u = (DOMAIN dicts[d] \ done) \cup {j \in done : ~Drops(w.desc, t[j])}
      BY <2>2, <3>1 DEF SetAll, Stays, Restrict
    <3>3. \A j \in DOMAIN u : u[j] = IF j \in done THEN t[j] ELSE dicts[d][j]
      BY <2>2, <3>1, <3>2 DEF SetAll, Stays, Restrict, Over
    <3> HIDE DEF r, u, d
    <3>4. CASE k \notin done
      BY <3>2, <3>3, <3>4
    <3>5. CASE k \in done /\ ~Drops(w.desc, t[k])
      BY <2>3, <3>2, <3>3, <3>5
    <3>6. CASE k \in done /\ Drops(w.desc, t[k])
      BY <2>3, <3>2, <3>6 DEF Drops
    <3>7. QED
      BY <3>4, <3>5, <3>6
  <2>5. QED
    BY <1>2, <2>2, <2>4 DEF Contained
<1>3. QED
  BY <1>1, <1>2 DEF Update, Refused

LEMMA StepContained == ASSUME IInv, Step, failed' PROVE Contained
<1>1. CASE UNCHANGED maps
  BY <1>1 DEF Contained, maps
<1>2. CASE RawStep
  BY <1>1, <1>2 DEF RawStep, NewDict, RawSet, RawDelete, Write, Refused
<1>3. ASSUME NEW m \in Msg, MsgStep(m) PROVE Contained
  BY <1>1, <1>3 DEF MsgStep, AssignDict, Attr, AssignWindow, FrozenRejected, Merge, Refused
<1>4. ASSUME NEW w \in wins, MapStep(w) PROVE Contained
  BY <1>1, <1>4, UpdateContained DEF MapStep, SetItem, SetDefault, Clear, Write, Refused
<1>5. QED
  BY <1>2, <1>3, <1>4 DEF Step, Freeze

(* A failed operation leaves every field as it was; only update may have   *)
(* written to a dict, and what it has set was accepted.                    *)
THEOREM FailuresAreContained == Spec => FailureContained
<1> DEFINE Contains == failed' => Contained
<1>1. IInv /\ [Next]_vars => [Contains]_vars
  BY StepContained DEF Next
<1>2. Spec => [][Contains]_vars
  <2> HIDE DEF Contains
  <2> QED
    BY <1>1, Invariant, PTL DEF Spec
<1>3. QED
  BY <1>2 DEF FailureContained

LEMMA UnionIsOver ==
  ASSUME NEW f, NEW g \in MapField, NEW s, NEW t, Conform(g, s), Conform(g, t)
  PROVE  Union(f, s, t) = Over(s, t)
<1>1. UnionOrder(s, t)[1] = s /\ UnionOrder(s, t)[2] = t
  BY DEF UnionOrder
<1>2. ASSUME NEW x, Conform(g, x) PROVE Stays(f, x) = DOMAIN x
  BY <1>2, MapsAssumption DEF Conform, Stays, Drops
<1>3. QED
  BY <1>1, <1>2 DEF Union, SetAll, Over, Restrict

LEMMA MergeMakesUnion ==
  ASSUME IInv, NEW m \in Msg, NEW n \in Msg, NEW f \in MapField, NEW d \in Dict,
         Merge(m, n, f, d), ~failed', fields[m][f] # Unset,
         Conform(f, dicts[fields[m][f].dict]), Conform(f, dicts[fields[n][f].dict])
  PROVE  /\ dicts'[fields[m][f].dict] = dicts[fields[m][f].dict]
         /\ dicts'[fields[n][f].dict] = dicts[fields[n][f].dict]
         /\ dicts'[fields'[m][f].dict] = Over(dicts[fields[m][f].dict], dicts[fields[n][f].dict])
<1> DEFINE v == fields[m][f]
           w == fields[n][f]
           s == dicts[v.dict]
           t == dicts[w.dict]
           u == [desc |-> v.desc, dict |-> d]
<1>1. v \in wins /\ w \in wins /\ d \notin Used
  BY DEF Merge, IInv
<1>2. v.dict # d /\ w.dict # d
  BY <1>1 DEF Used
<1>3. Union(v.desc, s, t) = Over(s, t)
  BY UnionIsOver
<1>4. Conform(f, Over(s, t))
  BY DEF Conform, Over
<1>5. dicts' = [dicts EXCEPT ![d] = Over(s, t)] /\ Put(m, f, u)
  BY <1>3, <1>4 DEF Merge, Refused
<1>6. fields'[m][f].dict = d
  BY <1>5 DEF Put, IInv
<1>7. QED
  BY <1>2, <1>5, <1>6 DEF IInv

(* The merge of two maps of one type has the entries of both, those of the *)
(* source where both have one, in a dict of its own.                       *)
THEOREM MergesAreUnions == Spec => MergeUnion
<1> DEFINE Merges ==
      \A m, n \in Msg, f \in MapField, d \in Dict :
        LET v == fields[m][f]
            w == fields[n][f]
            s == dicts[v.dict]
            t == dicts[w.dict] IN
        Merge(m, n, f, d) /\ ~failed' /\ v # Unset /\ Conform(f, s) /\ Conform(f, t) =>
          /\ dicts'[v.dict] = s /\ dicts'[w.dict] = t
          /\ dicts'[fields'[m][f].dict] = Over(s, t)
<1>1. IInv => [Merges]_vars
  BY MergeMakesUnion
<1>2. Spec => [][Merges]_vars
  <2> HIDE DEF Merges
  <2> QED
    BY <1>1, Invariant, PTL
<1>3. QED
  BY <1>2 DEF MergeUnion

=============================================================================
