----------------------------- MODULE ProtoBuild ------------------------------
(***************************************************************************)
(* How messages come to be (go/protomodule), on the heap of ProtoHeap: the *)
(* constructor, which sets its keyword arguments one after the other in    *)
(* the order of a Go map, and NewMessage, which proto.clone gives a copy   *)
(* of the message (and proto.decode_any, decode_json and decode_text one   *)
(* that they have parsed).                                                 *)
(*                                                                         *)
(* A message that is read from Protobuf has, of the fields without         *)
(* presence, those that differ from their default, and the values that the *)
(* conversion back to Starlark makes.                                      *)
(***************************************************************************)
EXTENDS ProtoHeap, FiniteSets

CONSTANTS
  RoundTrip,   \* for each field, what a scalar becomes in Protobuf and back,
               \* or Overflow: the number of an enum without a name for it
  Proto,       \* for each field, the Protobuf value of a scalar
  HasPresence, \* the fields with explicit presence
  Zero,        \* the Protobuf values that are defaults
  Bytes,       \* the repeated fields of bytes
  NoCall,      \* no constructor is running
  MaxArgs,     \* bound on the arguments of a constructor
  MaxSteps     \* bound on the operations

ASSUME BuildAssumption ==
  /\ HasPresence \subseteq Field \ ListField
  /\ Bytes \subseteq ListField
  /\ {MaxArgs, MaxSteps} \subseteq Nat
  /\ \A f \in Field, v \in Scalar : v \in Fits[f] =>
       \/ RoundTrip[f][v] = Overflow
       \/ RoundTrip[f][v] \in Fits[f] \cap Scalar /\ Proto[f][RoundTrip[f][v]] = Proto[f][v]
  /\ \A f \in Field : Fits[f] \cap Msg \in {{}, Msg}
  /\ IsFiniteSet(Msg)

VARIABLES
  call,      \* the constructor that is running
  cloned,    \* the argument and the result, if the last operation was proto.clone
  crashed,   \* a panic
  steps      \* the number of operations

buildVars == <<fields, elems, frozen, raw, reps, failed, call, cloned, crashed, steps>>

MsgField == {f \in Field : Fits[f] \cap Msg # {}}

(* Keyword arguments: None, values, bare lists and protoRepeated values.   *)
Args ==
  UNION {[F -> Element \cup raw \cup reps \cup {None}] :
           F \in {G \in SUBSET Field : Cardinality(G) <= MaxArgs}}

(* Nothing refers to m: as good as one that is not allocated.              *)
Blank(m) ==
  /\ m \notin frozen
  /\ \A f \in Field : fields[m][f] = Unset
  /\ \A o \in Object : m \notin Children(o)

(* A message with nothing set but one scalar. *)
Holding(m, f, v) ==
  [x \in Msg |-> [g \in Field |-> IF x = m /\ g = f THEN v ELSE Unset]]

(* The program may have made a list, and a message with one field, of the  *)
(* messages that the list holds if it holds any.                           *)
BuildInit ==
  /\ raw \in {{}} \cup {{l} : l \in List}
  /\ elems \in [List -> Contents]
  /\ \A l \in List \ raw : elems[l] = <<>>
  /\ \E m \in Msg, f \in Field \ ListField :
       \E v \in (Fits[f] \cap Scalar) \cup {Unset} : fields = Holding(m, f, v)
  /\ frozen = {} /\ reps = {} /\ failed = FALSE
  /\ call = NoCall /\ cloned = NoCall /\ crashed = FALSE /\ steps = 0

-----------------------------------------------------------------------------
(* The constructor.                                                        *)

(* Seeded fault: the arguments that were not given are set too. *)
AllFields(args) == Field

(* Arguments that were not given are nil, and passed over. *)
Given(args) == DOMAIN args

(* NewMessage of the empty message. *)
Construct(m, args) ==
  /\ Blank(m)
  /\ \A f \in DOMAIN args : args[f] # m
  /\ call' = [msg |-> m, args |-> args, todo |-> Given(args), ok |-> TRUE,
              elems |-> elems]
  /\ failed' = FALSE
  /\ UNCHANGED <<heap, crashed>>

(* out.SetField(f, v) *)
SetField(m, f, v) ==
  \/ v = None /\ SetNone(m, f)
  \/ SetValue(m, f, v)
  \/ ValueRejected(m, f, v)
  \/ v \in List /\ SetList(m, f, v)

(* Seeded fault: an argument that is rejected is left out. *)
SkipRejected(f) ==
  /\ SetField(call.msg, f, call.args[f])
  /\ call' = [call EXCEPT !.todo = @ \ {f}]

(* The first error ends the range over the arguments. *)
SetArg(f) ==
  /\ SetField(call.msg, f, call.args[f])
  /\ call' = [call EXCEPT !.todo = IF failed' THEN {} ELSE @ \ {f}, !.ok = ~failed']

(* The message is returned; after an error, which SetArg has reported, it  *)
(* is dropped.                                                             *)
Constructed ==
  /\ call.todo = {}
  /\ call' = NoCall
  /\ fields' = IF call.ok THEN fields ELSE [fields EXCEPT ![call.msg] = [f \in Field |-> Unset]]
  /\ failed' = FALSE
  /\ UNCHANGED <<elems, frozen, raw, reps, crashed>>

-----------------------------------------------------------------------------
(* proto.clone                                                             *)

(* toProtoMessage keeps v as the value of f: it leaves out what does not   *)
(* conform, and an empty list is no list.                                  *)
Kept(f, v) ==
  v # Unset /\ IF f \in ListField THEN Conforms(f, v) /\ elems[v.list] # <<>> ELSE v \in Fits[f]

(* The field f of x holds the message c; in a list, at the index i. *)
Holds(x, f, i, c) ==
  /\ Kept(f, fields[x][f])
  /\ IF f \in ListField THEN i \in DOMAIN elems[fields[x][f].list] /\ elems[fields[x][f].list][i] = c
                         ELSE i = 0 /\ fields[x][f] = c

Index == {0} \cup UNION {DOMAIN elems[l] : l \in List}
Hops == {h \in MsgField \X Index \X Msg : \E x \in Msg : Holds(x, h[1], h[2], h[3])}

(* A message in m by the way to it: the fields, and the message in each. *)
Stop(m, p, i) == IF i = 0 THEN m ELSE p[i][3]
At(m, p) == Stop(m, p, Len(p))
Places(m) ==
  {p \in UNION {[1..n -> Hops] : n \in 0..Cardinality(Msg) - 1} :
     \A i \in 1..Len(p) : Holds(Stop(m, p, i - 1), p[i][1], p[i][2], p[i][3])}

ListsIn(m) ==
  {pf \in Places(m) \X ListField : Kept(pf[2], fields[At(m, pf[1])][pf[2]])}

(* Seeded fault: the test for a default is made for every field. *)
DropsZero(f, v) == Proto[f][v] \notin Zero

(* The field is there when the message is read back. *)
IsSet(f, v) == f \in HasPresence \/ Proto[f][v] \notin Zero

(* The copy of the field f of x = At(m, p); msgs and lists are the new objects. *)
FieldCopy(x, p, f, msgs, lists) ==
  LET v == fields[x][f] IN
    IF ~Kept(f, v) THEN Unset
    ELSE IF f \in ListField THEN [desc |-> f, list |-> lists[<<p, f>>]]
    ELSE IF v \in Msg THEN msgs[Append(p, <<f, 0, v>>)]
    ELSE IF IsSet(f, v) THEN RoundTrip[f][v] ELSE Unset

(* Seeded fault: the messages in the list are the same. *)
SharedElems(x, p, f, msgs) ==
  LET s == elems[fields[x][f].list] IN
    [i \in DOMAIN s |-> IF s[i] \in Msg THEN s[i] ELSE RoundTrip[f][s[i]]]

(* The copy of the list of x's field f, with a copy of each message in it. *)
ElemsCopy(x, p, f, msgs) ==
  LET s == elems[fields[x][f].list] IN
    [i \in DOMAIN s |-> IF s[i] \in Msg THEN msgs[Append(p, <<f, i, s[i]>>)] ELSE RoundTrip[f][s[i]]]

(* ByNum knows no name of the number: it was set by a value of another     *)
(* enum type.                                                              *)
Nameless(x, f) ==
  LET v == fields[x][f] IN
    /\ Kept(f, v)
    /\ IF f \in ListField
         THEN \E e \in ToSet(elems[v.list]) \cap Scalar : RoundTrip[f][e] = Overflow
         ELSE v \in Scalar /\ IsSet(f, v) /\ RoundTrip[f][v] = Overflow

Fails(m) == \E p \in Places(m), f \in Field : Nameless(At(m, p), f)

(* isFieldSet takes the bytes of a list: a panic. *)
Panics(m) == \E pf \in ListsIn(m) : pf[2] \in Bytes

Injective(h) == \A x, y \in DOMAIN h : h[x] = h[y] => x = y

(* The copy is made of the new objects msgs and lists. *)
PutCopy(m, msgs, lists) ==
  /\ fields' = [x \in Msg |->
                  IF \E p \in Places(m) : msgs[p] = x
                    THEN LET p == CHOOSE q \in Places(m) : msgs[q] = x
                         IN [f \in Field |-> FieldCopy(At(m, p), p, f, msgs, lists)]
                    ELSE fields[x]]
  /\ elems' = [l \in List |->
                 IF \E pf \in ListsIn(m) : lists[pf] = l
                   THEN LET pf == CHOOSE q \in ListsIn(m) : lists[q] = l
                        IN ElemsCopy(At(m, pf[1]), pf[1], pf[2], msgs)
                   ELSE elems[l]]
  /\ reps' = reps \cup {[desc |-> pf[2], list |-> lists[pf]] : pf \in ListsIn(m)}

Clone(m, n) ==
  /\ ~Endless(m)
  /\ ~Panics(m) /\ ~Fails(m)
  /\ \E msgs \in [Places(m) -> {x \in Msg \ {m} : Blank(x)}],
        lists \in [ListsIn(m) -> List \ Used] :
       /\ msgs[<<>>] = n /\ Injective(msgs) /\ Injective(lists)
       /\ PutCopy(m, msgs, lists)
  /\ failed' = FALSE
  /\ cloned' = <<m, n>>
  /\ UNCHANGED <<frozen, raw, call, crashed>>

(* The first error ends the copying, and nothing is returned.  Which comes *)
(* first, an error or a panic, is up to the order of Range.                *)
CloneFails(m) ==
  /\ ~Endless(m)
  /\ Fails(m)
  /\ Refused
  /\ UNCHANGED <<call, crashed>>

CloneCrashes(m) ==
  /\ ~Endless(m)
  /\ Panics(m)
  /\ crashed' = TRUE
  /\ UNCHANGED <<heap, failed, call>>

-----------------------------------------------------------------------------

Program ==
  /\ call = NoCall
  /\ steps < MaxSteps
  /\ steps' = steps + 1
  /\ \/ \E m, n \in Msg : Clone(m, n)
     \/ /\ \/ Next /\ UNCHANGED <<call, crashed>>
           \/ \E m \in Msg : \E args \in Args : Construct(m, args)
           \/ \E m \in Msg : CloneFails(m) \/ CloneCrashes(m)
        /\ cloned' = NoCall

BuildNext ==
  /\ ~crashed
  /\ \/ Program
     \/ /\ call # NoCall
        /\ (\E f \in call.todo : SetArg(f) /\ UNCHANGED crashed) \/ Constructed
        /\ UNCHANGED <<cloned, steps>>

BuildSpec == BuildInit /\ [][BuildNext]_buildVars
-----------------------------------------------------------------------------

(* The types: constructors and clones leave the heap well typed too.  A    *)
(* constructor sets no field but those it was given, and works on no       *)
(* frozen message.                                                         *)
BuildTypeOK ==
  /\ TypeOK
  /\ steps \in 0..MaxSteps
  /\ crashed \in BOOLEAN
  /\ cloned \in {NoCall} \cup (Msg \X Msg)
  /\ call # NoCall =>
       /\ call.todo \subseteq DOMAIN call.args
       /\ call.ok \in BOOLEAN
       /\ call.msg \in Msg \ frozen

(* SetField accepts the argument v for f of a new message, es being the    *)
(* elements of the lists.                                                  *)
Acceptable(f, v, es) ==
  IF v = None THEN f \in Nullable
  ELSE IF f \notin ListField THEN Converted(f, v) \in Fits[f]
  ELSE IF v \in raw
    THEN ToSet(IF Mutable(v) THEN Boxed(f, es[v]) ELSE es[v]) \subseteq Fits[f]
  ELSE v \in reps /\ ToSet(es[v.list]) \subseteq Fits[f]

ListOf(v) == IF v \in raw THEN v ELSE IF v \in reps THEN v.list ELSE None

(* Two arguments with the same list, which may be converted in place. *)
ListsDiffer(args) ==
  \A f, g \in DOMAIN args : f # g /\ ListOf(args[f]) = ListOf(args[g]) => ListOf(args[f]) = None

(* Whatever the order of the arguments: the constructor returns a message  *)
(* if and only if each of them is acceptable, and then each field but      *)
(* those of the oneof is the one given; of the oneof, one that was given   *)
(* is set.  That is so unless two arguments share a list.                  *)
Stored(f, v) ==
  LET w == fields[call.msg][f] IN
    IF v = None THEN w = Unset
    ELSE IF v \in raw THEN w # Unset /\ w.list = v
    ELSE w = Converted(f, v)

ConstructDetermined ==
  call # NoCall /\ call.todo = {} /\ ListsDiffer(call.args) =>
    LET args == call.args
        members == {f \in Oneof \cap DOMAIN args : args[f] # None} IN
      /\ call.ok <=> \A f \in DOMAIN args : Acceptable(f, args[f], call.elems)
      /\ call.ok =>
           /\ \A f \in Field \ (DOMAIN args \cup Oneof) : fields[call.msg][f] = Unset
           /\ \A f \in DOMAIN args \ members : Stored(f, args[f])
           /\ members # {} => \E f \in members : Stored(f, args[f])

(* The Protobuf value of m, without the identities of objects; below holds *)
(* the values of the messages in it.                                       *)
ProtoValue(m, below) ==
  [f \in Field |->
     LET v == fields[m][f] IN
       IF v = Unset THEN <<>>
       ELSE IF f \in ListField
         THEN LET s == elems[v.list] IN
           IF ToSet(s) \subseteq Fits[f]
             THEN [i \in DOMAIN s |-> IF s[i] \in Msg THEN below[s[i]] ELSE Proto[f][s[i]]]
             ELSE <<>>
       ELSE IF v \in Msg THEN <<below[v]>>
       ELSE IF f \notin HasPresence /\ Proto[f][v] \in Zero THEN <<>> ELSE <<Proto[f][v]>>]

(* No message that can be copied is deeper than there are messages. *)
Tree ==
  LET T[k \in 0..Cardinality(Msg)] ==
        [m \in Msg |-> IF k = 0 THEN <<>> ELSE ProtoValue(m, T[k - 1])]
  IN T[Cardinality(Msg)]

(* "Clone returns a deep copy": what proto.clone returns, if it does, is   *)
(* equal to its argument as a Protobuf message, messages in fields and in  *)
(* lists and zero values in fields with presence included.                 *)
CloneExact == cloned # NoCall => Tree[cloned[1]] = Tree[cloned[2]]

Reach(o) ==
  {x \in Object : \A T \in SUBSET Object :
     o \in T /\ (\A y \in T : Children(y) \subseteq T) => x \in T}

(* A clone and its argument share no message and no list: no write to      *)
(* either shows in the other.                                              *)
CloneIndependent ==
  cloned # NoCall => Reach(cloned[1]) \cap Reach(cloned[2]) = {}

-----------------------------------------------------------------------------
(* What the documentation says, and the code does not do.                  *)

(* "Clone returns a deep copy of a Protobuf message."                      *)
CloneReturns == ~crashed
=============================================================================
