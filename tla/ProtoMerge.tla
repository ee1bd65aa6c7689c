----------------------------- MODULE ProtoMerge -----------------------------
(***************************************************************************)
(* proto.merge and proto.set_defaults (go/protomodule): the calls that     *)
(* write to several fields of a message, on the heap of ProtoHeap.         *)
(*                                                                         *)
(* Merge ranges over a Go map, in any order, and may stop at any of its    *)
(* fields, so each field is a step.  Merging two message fields merges     *)
(* both into a new message by the same code: the calls in progress are a   *)
(* stack.  One call is made; what the program does before it is ProtoHeap, *)
(* whose messages all have one type: merging two types fails at once.      *)
(***************************************************************************)
EXTENDS ProtoHeap

CONSTANTS
  Type,        \* Value.Type() of each scalar
  ElemType,    \* typeName of each list field
  Default,     \* the default of each field, or Unset
  FieldOrder,  \* the fields in the order of fieldNames
  NoCall,      \* nothing was merged yet
  MaxSteps     \* bound on the operations before the call

ASSUME TypeAssumption ==
  /\ DOMAIN Type = Scalar
  /\ DOMAIN ElemType = ListField

ASSUME DefaultAssumption ==
  /\ Default \in [Field -> Scalar \cup {Unset}]
  /\ \A f \in Field : Default[f] # Unset => f \notin ListField /\ Default[f] \in Fits[f]
  /\ FieldOrder \in Seq(Field) /\ ToSet(FieldOrder) = Field
  /\ \A i, j \in DOMAIN FieldOrder : FieldOrder[i] = FieldOrder[j] => i = j
  /\ MaxSteps \in Nat

(* All messages have one type.  Merge treats the message that a wrapper is *)
(* boxed in as any other: no field boxes scalars.                          *)
ASSUME MessageAssumption ==
  /\ IsFiniteSet(Msg)
  /\ \A f \in Field : Fits[f] \cap Msg \in {{}, Msg}
  /\ \A f \in Field, v \in Scalar : Wrapped[f][v] = v

(* What is known of the heap when proto.merge is called. *)
Snapshot ==
  [dst : Msg, src : Msg,
   fields : [Msg -> [Field -> Element \cup Repeated \cup {Unset}]],
   elems : [List -> Seq(Element)],
   lists : SUBSET List, msgs : SUBSET Msg]

ASSUME SnapshotAssumption == NoCall \notin Snapshot

VARIABLES
  stack,     \* the calls of protoMessage.Merge in progress, innermost first
  before,    \* the heap when proto.merge was called
  steps      \* the number of operations before it

mergeVars == <<fields, elems, frozen, raw, reps, failed, stack, before, steps>>

(* Merge of each of sources into the message to, which is to become the    *)
(* value of field in the caller's message.                                 *)
Set(m) == {f \in Field : fields[m][f] # Unset}

Frame(to, sources, field) ==
  [to |-> to, sources |-> sources, field |-> field, todo |-> Set(Head(sources))]

Frames ==
  [to : Msg, sources : Seq(Msg), field : Field \cup {Unset}, todo : SUBSET Field]

Top == Head(stack)
Old(f) == fields[Top.to][f]
New(f) == fields[Head(Top.sources)][f]

MergeInit == Init /\ stack = <<>> /\ before = NoCall /\ steps = 0

-----------------------------------------------------------------------------

(* Nothing refers to n: as good as one that is not allocated. *)
Unused(n) ==
  /\ n \notin frozen
  /\ Set(n) = {}
  /\ \A o \in Object : n \notin Children(o)

(* NewMessage returns n: no message that the program has. *)
Fresh(n) ==
  /\ Unused(n)
  /\ n \notin before.msgs
  /\ \A i \in DOMAIN stack : n # stack[i].to /\ n \notin ToSet(stack[i].sources)

(* Seeded fault: the destination may be frozen. *)
MergeUnchecked(d, s) ==
  /\ before = NoCall
  /\ before' = [dst |-> d, src |-> s, fields |-> fields, elems |-> elems,
                lists |-> Used, msgs |-> {d, s} \cup {m \in Msg : ~Unused(m)}]
  /\ stack' = <<Frame(d, <<s>>, Unset)>>
  /\ failed' = FALSE
  /\ UNCHANGED <<heap, steps>>

(* proto.merge(d, s), as far as the range over the fields of s. *)
Merge(d, s) ==
  /\ before = NoCall
  /\ before' = [dst |-> d, src |-> s, fields |-> fields, elems |-> elems,
                lists |-> Used, msgs |-> {d, s} \cup {m \in Msg : ~Unused(m)}]
  /\ \/ /\ Mutable(d)
        /\ stack' = <<Frame(d, <<s>>, Unset)>>
        /\ failed' = FALSE
        /\ UNCHANGED heap
     \/ ~Mutable(d) /\ Refused /\ UNCHANGED stack
  /\ UNCHANGED steps

(* The field f of the innermost of calls is done.  SetField removed and    *)
(* added a member of a oneof, and if it is that map which is ranged over   *)
(* the range may meet the field once more.                                 *)
Done(f, calls) ==
  LET c == Head(calls) IN
    \/ stack' = <<[c EXCEPT !.todo = @ \ {f}]>> \o Tail(calls)
    \/ c.to = Head(c.sources) /\ f \in Oneof /\ stack' = calls

(* Seeded fault: the result of mergeField is stored without SetField. *)
StoreOnly(m, f, v) == PutOnly(m, f, v)

(* m.SetField(f, v), whose error is ignored. *)
Store(m, f, v) ==
  IF Conforms(f, Converted(f, v)) THEN Put(m, f, Converted(f, v)) ELSE UNCHANGED fields

(* dst.Type() = src.Type(). *)
SameType(v, w) ==
  \/ {v, w} \subseteq Msg
  \/ {v, w} \subseteq Scalar /\ Type[v] = Type[w]
  \/ {v, w} \subseteq reps /\ ElemType[v.desc] = ElemType[w.desc]

(* A scalar, or a value that the destination does not have, is taken over. *)
Replace(f) ==
  /\ f \in Top.todo
  /\ Old(f) = Unset \/ (Old(f) \in Scalar /\ SameType(Old(f), New(f)))
  /\ IF f \in ListField THEN CheckableList(f, elems[New(f).list]) ELSE Checkable(f, New(f))
  /\ Store(Top.to, f, New(f))
  /\ Done(f, stack)
  /\ UNCHANGED <<elems, frozen, raw, reps, failed, before, steps>>

(* Seeded fault: the source's elements come first. *)
SourceFirst(f) == elems[New(f).list] \o elems[Old(f).list]

Both(f) == elems[Old(f).list] \o elems[New(f).list]

(* Seeded fault: the source is appended to the list that is there. *)
ExtendInPlace(f, l) ==
  /\ f \in Top.todo
  /\ {Old(f), New(f)} \subseteq reps
  /\ SameType(Old(f), New(f))
  /\ ToSet(Both(f)) \subseteq Fits[Old(f).desc]
  /\ elems' = [elems EXCEPT ![Old(f).list] = Both(f)]
  /\ Done(f, stack)
  /\ UNCHANGED <<fields, reps, frozen, raw, failed, before, steps>>

(* The elements of both lists, in a new list l of the destination's type. *)
Concatenate(f, l) ==
  /\ f \in Top.todo
  /\ {Old(f), New(f)} \subseteq reps
  /\ SameType(Old(f), New(f))
  /\ l \notin Used
  /\ ToSet(Both(f)) \subseteq Fits[Old(f).desc]
  /\ CheckableList(Old(f).desc, Both(f))
  /\ elems' = [elems EXCEPT ![l] = Both(f)]
  /\ reps' = reps \cup {[desc |-> Old(f).desc, list |-> l]}
  /\ IF ToSet(Both(f)) \subseteq Fits[f]
       THEN Put(Top.to, f, [desc |-> Old(f).desc, list |-> l])
       ELSE UNCHANGED fields
  /\ Done(f, stack)
  /\ UNCHANGED <<frozen, raw, failed, before, steps>>

(* Seeded fault: the message that is there is the destination. *)
DescendInPlace(f, n) ==
  /\ f \in Top.todo
  /\ {Old(f), New(f)} \subseteq Msg
  /\ Fresh(n)
  /\ stack' = <<Frame(Old(f), <<New(f)>>, f)>> \o stack
  /\ UNCHANGED <<heap, failed, before, steps>>

(* Two messages are merged into a new one, n. *)
Descend(f, n) ==
  /\ f \in Top.todo
  /\ {Old(f), New(f)} \subseteq Msg
  /\ Fresh(n)
  /\ stack' = <<Frame(n, <<Old(f), New(f)>>, f)>> \o stack
  /\ UNCHANGED <<heap, failed, before, steps>>

(* mergeField returns an error: the values have different types, or an     *)
(* element does not fit the list's type.                                   *)
Unmergeable(v, w) ==
  \/ v # Unset /\ ~SameType(v, w)
  \/ /\ {v, w} \subseteq reps
     /\ ~(ToSet(elems[v.list] \o elems[w.list]) \subseteq Fits[v.desc])

(* Seeded fault: every error is ignored. *)
FieldSkipped(f) ==
  /\ f \in Top.todo
  /\ Unmergeable(Old(f), New(f))
  /\ stack' = <<[Top EXCEPT !.todo = {}]>> \o Tail(stack)
  /\ UNCHANGED <<heap, failed, before, steps>>

(* The program's call returns the error; a call made for a field stops,    *)
(* and its error is ignored.                                               *)
FieldFails(f) ==
  /\ f \in Top.todo
  /\ Unmergeable(Old(f), New(f))
  /\ IF Len(stack) = 1
       THEN stack' = <<>> /\ failed' = TRUE
       ELSE stack' = <<[Top EXCEPT !.todo = {}]>> \o Tail(stack) /\ UNCHANGED failed
  /\ UNCHANGED <<heap, before, steps>>

(* newMessage.Merge(src), after newMessage.Merge(dst). *)
MergeSource ==
  /\ Top.todo = {}
  /\ Len(Top.sources) > 1
  /\ stack' = <<Frame(Top.to, Tail(Top.sources), Top.field)>> \o Tail(stack)
  /\ UNCHANGED <<heap, failed, before, steps>>

(* mergeField returns the new message to the Merge it was called by. *)
FieldMerged ==
  /\ Top.todo = {}
  /\ Len(Top.sources) = 1
  /\ Len(stack) > 1
  /\ Checkable(Top.field, Top.to)
  /\ Store(stack[2].to, Top.field, Top.to)
  /\ Done(Top.field, Tail(stack))
  /\ UNCHANGED <<elems, frozen, raw, reps, failed, before, steps>>

MergeReturns ==
  /\ Top.todo = {}
  /\ Len(stack) = 1
  /\ stack' = <<>>
  /\ failed' = FALSE
  /\ UNCHANGED <<heap, before, steps>>

MergeStep ==
  \/ \E f \in Field : Replace(f) \/ FieldFails(f)
  \/ \E f \in ListField, l \in List : Concatenate(f, l)
  \/ \E f \in Field, n \in Msg : Descend(f, n)
  \/ MergeSource
  \/ FieldMerged
  \/ MergeReturns

-----------------------------------------------------------------------------

(* Seeded fault: a default replaces a value. *)
OverwriteDefault(x, f) == IF Default[f] = Unset THEN x ELSE [x EXCEPT ![f] = Default[f]]

(* The field map x after the default of f was set, unless f was set. *)
ApplyDefault(x, f) ==
  IF x[f] # Unset \/ Default[f] = Unset THEN x
  ELSE [g \in Field |-> IF g = f THEN Default[f]
                        ELSE IF {f, g} \subseteq Oneof THEN Unset ELSE x[g]]

(* The field map x after those of the first fields, in the order of names. *)
WithDefaults(x) ==
  LET D[i \in 0..Len(FieldOrder)] ==
        IF i = 0 THEN x ELSE ApplyDefault(D[i - 1], FieldOrder[i])
  IN D[Len(FieldOrder)]

(* proto.set_defaults(m): wantSingleProtoMessage converts it first. *)
SetDefaults(m) ==
  /\ ~Endless(m)
  /\ Mutable(m)
  /\ fields' = [fields EXCEPT ![m] = WithDefaults(@)]
  /\ failed' = FALSE
  /\ UNCHANGED <<elems, frozen, raw, reps>>

Program ==
  /\ before = NoCall
  /\ steps < MaxSteps
  /\ steps' = steps + 1
  /\ Next \/ \E m \in Msg : SetDefaults(m)
  /\ UNCHANGED <<stack, before>>

MergeNext ==
  \/ Program
  \/ \E d, s \in Msg : Merge(d, s)
  \/ stack # <<>> /\ MergeStep

MergeSpec == MergeInit /\ [][MergeNext]_mergeVars

-----------------------------------------------------------------------------

MergeTypeOK ==
  /\ TypeOK
  /\ stack \in Seq(Frames)
  /\ steps \in 0..MaxSteps
  /\ \A i \in DOMAIN stack : stack[i].sources # <<>> /\ stack[i].to \notin frozen

Ended == before # NoCall /\ stack = <<>>

(* The value v of the field f without the identities of objects; below has *)
(* the trees of the messages.                                              *)
ValueTree(v, f, es, below) ==
  IF v = Unset THEN Unset
  ELSE IF f \in ListField THEN es[v.list]
  ELSE IF v \in Msg THEN below[v] ELSE v

Depth == Cardinality(Msg) + 1

(* The messages with what they contain, down to each depth. *)
Trees(fs, es) ==
  LET T[k \in 0..Depth] ==
        [m \in Msg |-> IF k = 0 THEN Unset
                       ELSE [f \in Field |-> ValueTree(fs[m][f], f, es, T[k - 1])]]
  IN T

(* What the documentation says proto.merge makes of a, given b; below has  *)
(* the trees, and merged the merges, of the messages in them.              *)
MergedTree(a, b, below, merged) ==
  [f \in Field |->
     LET v == before.fields[a][f]
         w == before.fields[b][f]
         tree(x) == ValueTree(x, f, before.elems, below)
         displaced == f \in Oneof /\ \E g \in Oneof : before.fields[b][g] # Unset IN
       IF w = Unset THEN IF displaced THEN Unset ELSE tree(v)
       ELSE IF v = Unset THEN tree(w)
       ELSE IF f \in ListField THEN tree(v) \o tree(w)
       ELSE IF {v, w} \subseteq Msg THEN merged[<<v, w>>]
       ELSE tree(w)]

Merged ==
  LET T == Trees(before.fields, before.elems)
      M[k \in 0..Depth] ==
        [p \in Msg \X Msg |-> IF k = 0 THEN Unset
                              ELSE MergedTree(p[1], p[2], T[k - 1], M[k - 1])]
  IN M[Depth][<<before.dst, before.src>>]

(* Neither of the messages contains the destination when Merge is called.  *)
Separate ==
  \E D \in SUBSET (before.msgs \ {before.dst}) :
    /\ before.src \in D
    /\ \A m \in D \cup {before.dst}, f \in Field :
         before.fields[m][f] \in Msg => before.fields[m][f] \in D

(* No two values of a field have different types, no list has an element   *)
(* that does not fit.                                                      *)
Mergeable ==
  \A a, b \in Msg, f \in Field :
    LET v == before.fields[a][f]
        w == before.fields[b][f] IN
      v # Unset /\ w # Unset =>
        /\ ~Unmergeable(v, w)
        /\ f \in ListField => ToSet(before.elems[v.list]) \subseteq Fits[f]

(* In whatever order Merge meets the fields, it makes of the destination   *)
(* what the documentation says, provided the values are mergeable.         *)
MergeExact ==
  Ended /\ ~failed /\ Separate /\ Mergeable
    => Trees(fields, elems)[Depth][before.dst] = Merged

(* proto.merge writes to its destination only: to no other message or list *)
(* that existed, although the destination may share some with the source.  *)
OnlyDestination ==
  before # NoCall =>
    /\ \A m \in before.msgs \ {before.dst} : fields[m] = before.fields[m]
    /\ \A l \in before.lists : elems[l] = before.elems[l]

(* The order in which Merge meets the fields does not decide whether the   *)
(* call fails: it does if the destination is frozen or some field of its   *)
(* own cannot be merged.                                                   *)
OutcomeDetermined ==
  Ended => (failed <=>
    \/ before.dst \in frozen
    \/ \E f \in Field :
         /\ before.fields[before.src][f] # Unset
         /\ Unmergeable(before.fields[before.dst][f], before.fields[before.src][f]))

Position(f) == CHOOSE i \in DOMAIN FieldOrder : FieldOrder[i] = f

HasDefault == {f \in Field : Default[f] # Unset}

(* f is the last of the members fs of the oneof, in the order of names. *)
LastOf(fs, f) == f \in fs /\ \A g \in fs : Position(g) <= Position(f)

(* What f is after the defaults of the members fs of the oneof, from x.    *)
OneofAfter(fs, x, f) ==
  IF fs = {} THEN x
  ELSE IF ~LastOf(fs, f) THEN Unset
  ELSE IF x = Unset \/ fs # {f} THEN Default[f] ELSE x

(* set_defaults keeps what is set outside the oneof, and sets the rest to  *)
(* its default, if it has one.  Of the oneof only the last member with a   *)
(* default stays, in the order of names, and with more than one such       *)
(* member it loses even the value that it had itself.  ("Sets every field  *)
(* to its default value" and "the same as clear", the documentation says;  *)
(* the comment of SetDefaults has "not already set".)                      *)
DefaultsExact ==
  [][\A m \in Msg : before' = NoCall /\ SetDefaults(m) =>
       /\ \A f \in Field \ Oneof :
            fields'[m][f] = IF fields[m][f] = Unset THEN Default[f] ELSE fields[m][f]
       /\ \A f \in Oneof :
            fields'[m][f] = OneofAfter(Oneof \cap HasDefault, fields[m][f], f)]_mergeVars

-----------------------------------------------------------------------------
(* What the documentation says, and the code does not do.                  *)

(* "Message fields are merged recursively": if the call returns no error.  *)
MergedRecursively ==
  Ended /\ ~failed /\ Separate => Trees(fields, elems)[Depth][before.dst] = Merged
=============================================================================
