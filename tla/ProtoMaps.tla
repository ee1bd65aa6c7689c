------------------------------ MODULE ProtoMaps ------------------------------
(***************************************************************************)
(* Map fields (go/protomodule/protomodule_map.go): protoMap, a typed       *)
(* window on a starlark.Dict.  An assigned dict is not copied: it backs    *)
(* the field, and the program may go on writing to it unchecked, or        *)
(* through windows that are typed for other fields.                        *)
(*                                                                         *)
(* Each action is one operation of a Starlark program, run to its end.     *)
(* None as a value means "no entry" where the type of the values allows    *)
(* it.  A dict is a function.  Its order of insertion, in which it is      *)
(* walked, shows only in what update has set before an entry that it       *)
(* rejects, and is chosen there.                                           *)
(***************************************************************************)
EXTENDS Naturals, Functions

CONSTANTS
  Msg,        \* messages
  Dict,       \* starlark.Dict objects
  MapField,   \* the map fields of the messages
  Key, Value, \* what dicts hold
  None,       \* starlark.None, a value
  Unset,      \* a field that is not in the field map
  KeyFits,    \* for each field, the keys that have the type
  ValueFits,  \* for each field, the values that have the type
  NoneDrops,  \* the fields for whose values fieldAllowsNone
  MapType,    \* for each field, protoMap.Type()
  MaxSteps    \* bound on the number of operations

Object == Msg \cup Dict
Contents == UNION {[K -> Value \cup {None}] : K \in SUBSET Key}
Window == [desc : MapField, dict : Dict]

ASSUME MapsAssumption ==
  /\ Msg \cap Dict = {} /\ None \notin Value /\ Unset \notin Window
  /\ KeyFits \in [MapField -> SUBSET Key]
  /\ ValueFits \in [MapField -> SUBSET Value]
  /\ NoneDrops \subseteq MapField
  /\ DOMAIN MapType = MapField
  /\ MaxSteps \in Nat

VARIABLES
  fields,    \* the field map of each message
  dicts,     \* the entries of each dict, from keys to values
  frozen,    \* the objects with the frozen flag set
  raw,       \* the dicts that the program has as starlark.Dict
  wins,      \* the protoMap values made so far
  failed,    \* the last operation returned an error
  steps      \* the number of operations

maps == <<fields, dicts, frozen, raw, wins>>
vars == <<fields, dicts, frozen, raw, wins, failed, steps>>

TypeOK ==
  /\ fields \in [Msg -> [MapField -> wins \cup {Unset}]]
  /\ dicts \in [Dict -> Contents]
  /\ frozen \subseteq Object
  /\ raw \subseteq Dict
  /\ wins \subseteq Window
  /\ failed \in BOOLEAN
  /\ steps \in 0..MaxSteps

Init ==
  /\ fields = [m \in Msg |-> [f \in MapField |-> Unset]]
  /\ dicts = [d \in Dict |-> <<>>]
  /\ frozen = {} /\ raw = {} /\ wins = {}
  /\ failed = FALSE
  /\ steps = 0

-----------------------------------------------------------------------------

(* The dicts that a message refers to; a dict refers to nothing else. *)
Children(o) == {w.dict : w \in {fields[o][f] : f \in MapField} \ {Unset}}

Used == raw \cup {w.dict : w \in wins}

Refused == failed' = TRUE /\ UNCHANGED maps

(* Seeded fault: no flag is looked at. *)
AlwaysMutable(o) == TRUE

Mutable(o) == o \notin frozen

(* The entries of s with those of t set, and with one. *)
Over(s, t) == [k \in DOMAIN s \cup DOMAIN t |-> IF k \in DOMAIN t THEN t[k] ELSE s[k]]
Entry(k, v) == [j \in {k} |-> v]

(* protoMap.SetKey takes None as "no entry". *)
Drops(f, v) == f \in NoneDrops /\ v = None

(* protoMap.SetKey accepts the entry for a field. *)
Accepts(f, k, v) == k \in KeyFits[f] /\ (Drops(f, v) \/ v \in ValueFits[f])
AllAccepted(f, t) == \A k \in DOMAIN t : Accepts(f, k, t[k])

(* Seeded fault: None is stored. *)
KeepsNone(f, t) == DOMAIN t

(* The keys of t under which there is an entry once t has been set. *)
Stays(f, t) == {k \in DOMAIN t : ~Drops(f, t[k])}

(* What SetKey for each entry of t makes of s, in whatever order.          *)
SetAll(f, s, t) == Restrict(Over(s, t), (DOMAIN s \ DOMAIN t) \cup Stays(f, t))

Without(s, k) == Restrict(s, DOMAIN s \ {k})

(* valueFromStarlark accepts the entries for f: None is no value. *)
Conform(f, t) == \A k \in DOMAIN t : k \in KeyFits[f] /\ t[k] \in ValueFits[f]

-----------------------------------------------------------------------------
(* Bare dicts.                                                             *)

NewDict(d) ==
  /\ d \notin Used
  /\ raw' = raw \cup {d}
  /\ failed' = FALSE
  /\ UNCHANGED <<fields, dicts, frozen, wins>>

(* A write of the entries s to d. *)
Write(d, s) ==
  \/ /\ Mutable(d)
     /\ dicts' = [dicts EXCEPT ![d] = s]
     /\ failed' = FALSE
     /\ UNCHANGED <<fields, frozen, raw, wins>>
  \/ ~Mutable(d) /\ Refused

(* The methods of starlark.Dict check no type. *)
RawSet(d, k, v) == d \in raw /\ Write(d, Over(dicts[d], Entry(k, v)))
RawDelete(d, k) == d \in raw /\ Write(d, Without(dicts[d], k))

-----------------------------------------------------------------------------
(* Fields.                                                                 *)

Put(m, f, w) ==
  /\ fields' = [fields EXCEPT ![m][f] = w]
  /\ wins' = wins \cup {w}

WithoutNone(f, s) == Restrict(s, Stays(f, s))

(* Seeded fault: the None entries are removed before the others are checked. *)
AssignRemovesFirst(m, f, d) ==
  LET s == dicts[d] IN
    /\ Mutable(m)
    /\ d \in raw
    /\ dicts' = [dicts EXCEPT ![d] = IF Mutable(d) THEN WithoutNone(f, s) ELSE s]
    /\ UNCHANGED <<frozen, raw>>
    /\ IF AllAccepted(f, s) /\ (Mutable(d) \/ WithoutNone(f, s) = s)
         THEN Put(m, f, [desc |-> f, dict |-> d]) /\ failed' = FALSE
         ELSE failed' = TRUE /\ UNCHANGED <<fields, wins>>

(* m.f = d: the entries are checked, the None entries deleted from d,      *)
(* which fails if it is frozen, and d itself backs the field.              *)
AssignDict(m, f, d) ==
  LET s == dicts[d] IN
    /\ Mutable(m)
    /\ d \in raw
    /\ \/ /\ AllAccepted(f, s)
          /\ Mutable(d) \/ WithoutNone(f, s) = s
          /\ dicts' = [dicts EXCEPT ![d] = WithoutNone(f, s)]
          /\ Put(m, f, [desc |-> f, dict |-> d])
          /\ failed' = FALSE
          /\ UNCHANGED <<frozen, raw>>
       \/ ~AllAccepted(f, s) /\ Refused
       \/ AllAccepted(f, s) /\ ~Mutable(d) /\ WithoutNone(f, s) # s /\ Refused

(* m.f = w for the map of a field, of this or another message. *)
AssignWindow(m, f, w) ==
  /\ Mutable(m)
  /\ \/ /\ Conform(f, dicts[w.dict])
        /\ Put(m, f, w)
        /\ failed' = FALSE
        /\ UNCHANGED <<dicts, frozen, raw>>
     \/ ~Conform(f, dicts[w.dict]) /\ Refused

FrozenRejected(m) == ~Mutable(m) /\ Refused

(* m.f of an unset field: an empty map, attached unless m is frozen. *)
Attr(m, f, d) ==
  /\ fields[m][f] = Unset
  /\ d \notin Used
  /\ LET w == [desc |-> f, dict |-> d] IN
       IF Mutable(m) THEN Put(m, f, w) ELSE wins' = wins \cup {w} /\ UNCHANGED fields
  /\ failed' = FALSE
  /\ UNCHANGED <<dicts, frozen, raw>>

-----------------------------------------------------------------------------
(* protoMap.                                                               *)

(* w[k] = v *)
SetItem(w, k, v) ==
  \/ Accepts(w.desc, k, v) /\ Write(w.dict, SetAll(w.desc, dicts[w.dict], Entry(k, v)))
  \/ ~Accepts(w.desc, k, v) /\ Refused

(* w.setdefault(k, v): no write, hence no error, if there is an entry. *)
SetDefault(w, k, v) ==
  \/ /\ k \in DOMAIN dicts[w.dict]
     /\ failed' = FALSE
     /\ UNCHANGED maps
  \/ k \notin DOMAIN dicts[w.dict] /\ SetItem(w, k, v)

(* w.update(...): the arguments become a dict with the entries t, which    *)
(* are set one by one, up to the first that is not accepted: done are the  *)
(* keys of those before it, in some order.                                 *)
Update(w, t, done) ==
  /\ \A k \in done : Accepts(w.desc, k, t[k])
  /\ AllAccepted(w.desc, t) => done = DOMAIN t
  /\ \/ /\ Mutable(w.dict)
        /\ dicts' = [dicts EXCEPT ![w.dict] = SetAll(w.desc, @, Restrict(t, done))]
        /\ failed' = (done # DOMAIN t)
        /\ UNCHANGED <<fields, frozen, raw, wins>>
     \/ ~Mutable(w.dict) /\ t = <<>> /\ failed' = FALSE /\ UNCHANGED maps
     \/ ~Mutable(w.dict) /\ t # <<>> /\ Refused

Clear(w) == Write(w.dict, <<>>)

(* Seeded fault: the entries of the destination win. *)
SourceFirst(s, t) == <<t, s>>

(* The order in which the entries of the two maps are set in a new one. *)
UnionOrder(s, t) == <<s, t>>

(* Entries of both maps, s and t: as SetKey leaves them in a new map. *)
Union(f, s, t) == LET o == UnionOrder(s, t) IN SetAll(f, SetAll(f, <<>>, o[1]), o[2])

(* proto.merge(m, n) where n has no field but the map f (ProtoMerge has    *)
(* several fields): n's map, or a new one with the entries of both.  An    *)
(* error of the final SetField is ignored.                                 *)
Merge(m, n, f, d) ==
  LET v == fields[m][f]
      w == fields[n][f] IN
    /\ w # Unset
    /\ \A g \in MapField \ {f} : fields[n][g] = Unset
    /\ d \notin Used
    /\ \/ ~Mutable(m) /\ Refused
       \/ /\ Mutable(m) /\ v = Unset
          /\ IF Conform(f, dicts[w.dict]) THEN Put(m, f, w) ELSE UNCHANGED <<fields, wins>>
          /\ failed' = FALSE
          /\ UNCHANGED <<dicts, frozen, raw>>
       \/ /\ Mutable(m) /\ v # Unset
          /\ \/ MapType[v.desc] # MapType[w.desc]
             \/ ~AllAccepted(v.desc, dicts[v.dict])
             \/ ~AllAccepted(v.desc, dicts[w.dict])
          /\ Refused
       \/ /\ Mutable(m) /\ v # Unset
          /\ MapType[v.desc] = MapType[w.desc]
          /\ AllAccepted(v.desc, dicts[v.dict]) /\ AllAccepted(v.desc, dicts[w.dict])
          /\ LET s == Union(v.desc, dicts[v.dict], dicts[w.dict]) IN
               IF Conform(f, s)
                 THEN /\ dicts' = [dicts EXCEPT ![d] = s]
                      /\ Put(m, f, [desc |-> v.desc, dict |-> d])
                 ELSE UNCHANGED <<fields, dicts, wins>>
          /\ failed' = FALSE
          /\ UNCHANGED <<frozen, raw>>

(* o.Freeze(): a dict has no frozen field below it. *)
Freeze(o) ==
  /\ frozen' = frozen \cup {o} \cup (IF o \in Msg \ frozen THEN Children(o) ELSE {})
  /\ failed' = FALSE
  /\ UNCHANGED <<fields, dicts, raw, wins>>

RawStep ==
  \/ \E d \in Dict : NewDict(d)
  \/ \E d \in raw, k \in Key, v \in Value \cup {None} : RawSet(d, k, v)
  \/ \E d \in raw, k \in Key : RawDelete(d, k)

MsgStep(m) ==
  \/ \E f \in MapField, d \in Dict : AssignDict(m, f, d) \/ Attr(m, f, d)
  \/ \E f \in MapField, w \in wins : AssignWindow(m, f, w)
  \/ FrozenRejected(m)
  \/ \E n \in Msg, f \in MapField, d \in Dict : Merge(m, n, f, d)

MapStep(w) ==
  \/ \E k \in Key, v \in Value \cup {None} : SetItem(w, k, v) \/ SetDefault(w, k, v)
  \/ \E t \in Contents : \E done \in SUBSET DOMAIN t : Update(w, t, done)
  \/ Clear(w)

Step ==
  \/ RawStep
  \/ \E m \in Msg : MsgStep(m)
  \/ \E w \in wins : MapStep(w)
  \/ \E o \in Msg \cup Used : Freeze(o)

Next == steps < MaxSteps /\ steps' = steps + 1 /\ Step

Spec == Init /\ [][Next]_vars
-----------------------------------------------------------------------------

Narrower(f, g) == KeyFits[f] \subseteq KeyFits[g] /\ ValueFits[f] \subseteq ValueFits[g]

(* A map field holds an entry of the wrong type, or None, only through a   *)
(* dict that the program holds as a bare dict too, or through the map of   *)
(* another field that takes more: whatever mixture of item assignments,    *)
(* setdefault, update, merge and assignments led there.                    *)
MapConforms ==
  \A m \in Msg, f \in MapField :
    LET w == fields[m][f] IN
      w # Unset /\ w.dict \notin raw /\ Narrower(w.desc, f) => Conform(f, dicts[w.dict])

(* An operation that returns an error leaves every field as it was, and    *)
(* every dict that is no map field's yet: a rejected assignment does not   *)
(* remove the None entries of the caller's dict.  What update has set      *)
(* before the entry that it rejects stays, and has been checked.           *)
Contained ==
  /\ fields' = fields /\ wins' = wins
  /\ \A d \in Dict :
       \/ dicts'[d] = dicts[d]
       \/ \E w \in wins : w.dict = d /\ \A k \in DOMAIN dicts[d] \cup DOMAIN dicts'[d] :
            \/ k \in DOMAIN dicts[d] \cap DOMAIN dicts'[d] /\ dicts'[d][k] = dicts[d][k]
            \/ Accepts(w.desc, k, IF k \in DOMAIN dicts'[d] THEN dicts'[d][k] ELSE None)

FailureContained == [][failed' => Contained]_vars

(* Freezing a message freezes its maps, and no operation writes to a       *)
(* frozen message or dict: maps of loaded modules may be read by several   *)
(* calls of Main at once.                                                  *)
FrozenMaps ==
  [][/\ frozen \subseteq frozen'
     /\ \A m \in Msg \cap frozen : fields'[m] = fields[m] /\ Children(m) \subseteq frozen
     /\ \A d \in Dict \cap frozen : dicts'[d] = dicts[d]]_vars

(* proto.merge of two maps: every key of either, with the value of the     *)
(* source if both have it.  The maps that were merged stay as they are.    *)
MergeUnion ==
  [][\A m, n \in Msg, f \in MapField, d \in Dict :
       LET v == fields[m][f]
           w == fields[n][f]
           s == dicts[v.dict]
           t == dicts[w.dict] IN
       Merge(m, n, f, d) /\ ~failed' /\ v # Unset /\ Conform(f, s) /\ Conform(f, t) =>
         /\ dicts'[v.dict] = s /\ dicts'[w.dict] = t
         /\ dicts'[fields'[m][f].dict] = Over(s, t)]_vars
=============================================================================
