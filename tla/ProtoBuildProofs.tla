-------------------------- MODULE ProtoBuildProofs --------------------------
(***************************************************************************)
(* Proofs about Conversions, for every width and every enum, and about     *)
(* ProtoBuild, for any schema, any number of messages and lists and any    *)
(* number of arguments.                                                    *)
(*                                                                         *)
(* The constructor: the invariant says of the arguments that it is through *)
(* with what the property says of all of them.  The clone: a message that  *)
(* is copied has finitely many places, since a place as deep as there are  *)
(* messages would be on a cycle; the copy has a new object for each.       *)
(***************************************************************************)
EXTENDS ProtoBuild, Conversions, ProtoHeapProofs, FiniteSetTheorems, WellFoundedInduction

-----------------------------------------------------------------------------
(* Conversions.                                                            *)

(* The wrapper types and what each wraps. *)
LEMMA WrapsFacts ==
  /\ DOMAIN Wraps = {"Int32Value", "UInt32Value", "Int64Value", "UInt64Value",
                     "BoolValue", "StringValue", "BytesValue", "DoubleValue"}
  /\ Wraps["Int32Value"] = "int32" /\ Wraps["UInt32Value"] = "uint32"
  /\ Wraps["Int64Value"] = "int64" /\ Wraps["UInt64Value"] = "uint64"
  /\ Wraps["BoolValue"] = "bool" /\ Wraps["StringValue"] = "string"
  /\ Wraps["BytesValue"] = "bytes" /\ Wraps["DoubleValue"] = "double"
BY DEF Wraps

(* What a value is made of. *)
LEMMA ValEq ==
  ASSUME NEW t, NEW n, NEW x, x = Val(t, n)
  PROVE  x.type = t /\ x.v = n /\ \E o : x = [type |-> t, of |-> o, v |-> n]
BY DEF Val

(* scalarValueToStarlark, kind by kind. *)
LEMMA ToInt == ASSUME NEW k \in IntKind, NEW p PROVE ToStarlark(k, p) = {Val("int", p.v)}
BY WrapsFacts, ConversionsAssumption DEF ToStarlark, IntKind, MakeInt, BuiltIn, MessageType

(* The same for floats: a float and a double both become a float. *)
LEMMA ToFloat ==
  ASSUME NEW k \in {"float", "double"}, NEW p PROVE ToStarlark(k, p) = {Val("float", p.v)}
BY WrapsFacts, ConversionsAssumption DEF ToStarlark, IntKind, BuiltIn, MessageType

(* The same for bools. *)
LEMMA ToBool == ASSUME NEW p PROVE ToStarlark("bool", p) = {Val("bool", p.v)}
BY WrapsFacts, ConversionsAssumption DEF ToStarlark, IntKind, BuiltIn, MessageType

(* The same for strings and bytes, which both become a string. *)
LEMMA ToText ==
  ASSUME NEW k \in {"string", "bytes"}, NEW p PROVE ToStarlark(k, p) = {Val("string", p.v)}
BY WrapsFacts, ConversionsAssumption DEF ToStarlark, IntKind, BuiltIn, MessageType

(* The same for messages, which stay as they are. *)
LEMMA ToMessage == ASSUME NEW k \in MessageType, NEW p PROVE ToStarlark(k, p) = {p}
BY WrapsFacts, ConversionsAssumption DEF ToStarlark, IntKind, BuiltIn, MessageType

(* The same for enums: any of the names of the number. *)
LEMMA ToEnum ==
  ASSUME NEW k \in EnumType, NEW p
  PROVE  ToStarlark(k, p) =
           {[type |-> k, of |-> a, v |-> p.v] : a \in {b \in DOMAIN Enum[k] : Enum[k][b] = p.v}}
BY ConversionsAssumption DEF ToStarlark, IntKind, BuiltIn

(* The two range checks of the code, written apart, are one. *)
LEMMA RangesAgree == \A k \in IntKind : IntRange(k) = BoxRange(k) /\ IntRange(k) \subseteq Int
BY ConversionsAssumption DEF IntKind, IntRange, BoxRange, Int64, Uint64

(* scalarValueFromStarlark, kind by kind: the kinds exclude each other, so *)
(* the order of the cases does not matter.                                 *)
LEMMA FromInt ==
  ASSUME NEW k \in IntKind, NEW x
  PROVE FromStarlark(k, x) = IF x.type = "int" /\ x.v \in IntRange(k) THEN Val(k, x.v) ELSE Error
BY WrapsFacts, ConversionsAssumption DEF FromStarlark, IntKind, EnumType, MessageType, BuiltIn

(* The same for doubles. *)
LEMMA FromDouble ==
  ASSUME NEW x
  PROVE FromStarlark("double", x) = IF Numeric(x) THEN Val("double", AsFloat(x)) ELSE Error
BY WrapsFacts, ConversionsAssumption DEF FromStarlark, IntKind, EnumType, MessageType, BuiltIn

(* The same for floats, which are rounded. *)
LEMMA FromFloat ==
  ASSUME NEW x
  PROVE FromStarlark("float", x) = IF Numeric(x) THEN Val("float", Single(AsFloat(x))) ELSE Error
BY WrapsFacts, ConversionsAssumption DEF FromStarlark, IntKind, EnumType, MessageType, BuiltIn

(* The same for bools. *)
LEMMA FromBool ==
  ASSUME NEW x
  PROVE FromStarlark("bool", x) = IF x.type = "bool" THEN Val("bool", x.v) ELSE Error
BY WrapsFacts, ConversionsAssumption DEF FromStarlark, IntKind, EnumType, MessageType, BuiltIn

(* The same for strings and bytes. *)
LEMMA FromString ==
  ASSUME NEW k \in {"string", "bytes"}, NEW x
  PROVE FromStarlark(k, x) = IF x.type = "string" THEN Val(k, x.v) ELSE Error
BY WrapsFacts, ConversionsAssumption DEF FromStarlark, IntKind, EnumType, MessageType, BuiltIn

(* The same for enums, which take a value of any enum. *)
LEMMA FromEnum ==
  ASSUME NEW k \in EnumType, NEW x
  PROVE FromStarlark(k, x) = IF x.type \in EnumType THEN Val(k, x.v) ELSE Error
BY WrapsFacts, ConversionsAssumption DEF FromStarlark, IntKind, MessageType, BuiltIn

(* The same for messages; an Any takes any of the others. *)
LEMMA FromMessage ==
  ASSUME NEW k \in MessageType, NEW x
  PROVE FromStarlark(k, x) =
          IF x.type = k THEN x
          ELSE IF k = "Any" /\ x.type \in MessageType THEN [x EXCEPT !.type = "Any", !.of = x.type]
          ELSE Error
BY WrapsFacts, ConversionsAssumption DEF FromStarlark, IntKind, EnumType, MessageType, BuiltIn

(* A conversion of a value that is not for a wrapper field. *)
LEMMA BoxPlain ==
  ASSUME NEW k \in Kind \ DOMAIN Wraps, NEW x
  PROVE  Box(k, x) = x
BY DEF Box

(* maybeConvertToWrapper for the integer wrappers. *)
LEMMA BoxInt ==
  ASSUME NEW k \in DOMAIN Wraps, Wraps[k] \in IntKind, NEW x
  PROVE  Box(k, x) = IF x.type # "int" THEN x
                     ELSE IF x.v \in IntRange(Wraps[k]) THEN Val(k, x.v) ELSE Error
BY RangesAgree DEF Box, IntKind

(* maybeConvertToWrapper for the other wrappers. *)
LEMMA BoxOther ==
  ASSUME NEW k \in DOMAIN Wraps, Wraps[k] \notin IntKind, NEW x
  PROVE  Box(k, x) =
           IF \/ Wraps[k] = "bool" /\ x.type = "bool"
              \/ Wraps[k] \in {"string", "bytes"} /\ x.type = "string"
             THEN Val(k, x.v)
           ELSE IF Wraps[k] = "double" /\ Numeric(x) THEN Val(k, AsFloat(x)) ELSE x
BY WrapsFacts DEF Box, IntKind, Numeric

(* A number that was rounded is not rounded again. *)
LEMMA SingleIdempotent ==
  ASSUME NEW h \in Int
  PROVE  Single(h) \in Int /\ Single(Single(h)) = Single(h)
BY ConversionsAssumption DEF Single

(* A message, boxed or not, is taken as it is. *)
LEMMA MessageTaken ==
  ASSUME NEW k \in MessageType, NEW p, p.type = k
  PROVE  Box(k, p) = p /\ FromStarlark(k, p) = p
<1>1. k \notin {"int", "float", "bool", "string"}
  BY WrapsFacts DEF MessageType
<1>2. Box(k, p) = p
  <2>1. CASE k \notin DOMAIN Wraps
    BY <2>1 DEF Box
  <2>2. CASE k \in DOMAIN Wraps /\ Wraps[k] \in IntKind
    BY <1>1, <2>2, BoxInt
  <2>3. CASE k \in DOMAIN Wraps /\ Wraps[k] \notin IntKind
    BY <1>1, <2>3, BoxOther DEF Numeric
  <2> QED BY <2>1, <2>2, <2>3
<1> QED BY <1>2, FromMessage

(* The values of a program: numbers are integers, and an enum value has a  *)
(* number of its type.                                                     *)
LEMMA ValueFacts ==
  ASSUME NEW x \in Values
  PROVE  /\ x.type = "int" => x.v \in Int
         /\ x.type = "float" => x.v \in Int
         /\ x.type \in EnumType => \E a \in DOMAIN Enum[x.type] : x.v = Enum[x.type][a]
         /\ \E t, o, n : x = [type |-> t, of |-> o, v |-> n]
<1> DEFINE I == {Val("int", n) : n \in Ints}
           F == {Val("float", h) : h \in Halves}
           S == {Val(t, n) : t \in {"bool", "string"}, n \in 0..1}
           N == {Val("NoneType", 0)}
           E == UNION {{[type |-> e, of |-> a, v |-> Enum[e][a]] : a \in DOMAIN Enum[e]} : e \in EnumType}
           M == {Val(t, n) : t \in MessageType \ {"Any"}, n \in 0..1}
<1>0. Values = I \cup F \cup S \cup N \cup E \cup M
  BY DEF Values
<1>1. \A t \in EnumType : t \notin BuiltIn /\ t \notin {"int", "float", "NoneType"}
  BY ConversionsAssumption
<1>2. {"bool", "string"} \subseteq BuiltIn /\ MessageType \subseteq BuiltIn
  BY DEF BuiltIn
<1>3. CASE x \in I
  <2>1. PICK n \in Ints : x = Val("int", n)
    BY <1>3
  <2>2. x.type = "int" /\ x.v = n /\ \E o, i : x = [type |-> "int", of |-> o, v |-> i]
    BY <2>1, ValEq
  <2>3. n \in Int
    BY ConversionsAssumption DEF Ints
  <2> QED BY <2>2, <2>3, <1>1
<1>4. CASE x \in F
  <2>1. PICK h \in Halves : x = Val("float", h)
    BY <1>4
  <2> QED BY <2>1, <1>1, ConversionsAssumption DEF Val
<1>5. CASE x \in S \cup N
  <2>1. PICK t \in {"bool", "string", "NoneType"}, n \in 0..1 : x = Val(t, n)
    BY <1>5
  <2> QED BY <2>1, <1>1, <1>2 DEF Val
<1>6. CASE x \in E
  <2>1. PICK e \in EnumType : x \in {[type |-> e, of |-> a, v |-> Enum[e][a]] : a \in DOMAIN Enum[e]}
    BY <1>6
  <2>2. PICK a \in DOMAIN Enum[e] : x = [type |-> e, of |-> a, v |-> Enum[e][a]]
    BY <2>1
  <2> QED BY <2>1, <2>2, <1>1
<1>7. CASE x \in M
  <2>1. PICK t \in MessageType, n \in 0..1 : x = Val(t, n)
    BY <1>7
  <2>2. t \notin {"int", "float"}
    BY WrapsFacts DEF MessageType
  <2>3. x.type = t /\ \E o : x = [type |-> t, of |-> o, v |-> n]
    BY <2>1, ValEq
  <2>4. x.type \notin EnumType /\ x.type \notin {"int", "float"}
    BY <2>2, <2>3, <1>1, <1>2
  <2>5. \E u, o, i : x = [type |-> u, of |-> o, v |-> i]
    BY <2>3
  <2>6. /\ x.type = "int" => x.v \in Int
        /\ x.type = "float" => x.v \in Int
        /\ x.type \in EnumType => \E a \in DOMAIN Enum[x.type] : x.v = Enum[x.type][a]
    BY <2>4
  <2> QED BY <2>5, <2>6
<1> HIDE DEF I, F, S, N, E, M
<1> QED BY <1>0, <1>3, <1>4, <1>5, <1>6, <1>7

(* A value that a message field takes becomes a message of its type. *)
LEMMA ConvertedMessage ==
  ASSUME NEW k \in MessageType, NEW x \in Values, FromStarlark(k, x) # Error
  PROVE  FromStarlark(k, x).type = k
<1>1. CASE x.type = k
  BY <1>1, FromMessage
<1>2. CASE x.type # k
  <2>1. k = "Any" /\ FromStarlark(k, x) = [x EXCEPT !.type = "Any", !.of = x.type]
    BY <1>2, FromMessage
  <2> QED BY <2>1, ValueFacts
<1> QED BY <1>1, <1>2

(* What the wrapper conversion returns: its argument, a wrapper, or an     *)
(* error.                                                                  *)
LEMMA BoxResult ==
  ASSUME NEW k \in Kind, NEW x
  PROVE  Box(k, x) = x \/ Box(k, x).type = k \/ Box(k, x) = Error
<1>1. \A v : Val(k, v).type = k
  BY DEF Val
<1>2. CASE k \notin DOMAIN Wraps
  BY <1>2, BoxPlain
<1>3. CASE k \in DOMAIN Wraps /\ Wraps[k] \in IntKind
  <2>1. Box(k, x) = x \/ Box(k, x) = Val(k, x.v) \/ Box(k, x) = Error
    BY <1>3, BoxInt
  <2> QED BY <1>1, <2>1
<1>4. CASE k \in DOMAIN Wraps /\ Wraps[k] \notin IntKind
  <2>1. Box(k, x) = x \/ Box(k, x) = Val(k, x.v) \/ Box(k, x) = Val(k, AsFloat(x))
    BY <1>4, BoxOther
  <2> QED BY <1>1, <2>1
<1> QED BY <1>2, <1>3, <1>4

(* What is read back makes the same Protobuf value again. *)
LEMMA Again ==
  ASSUME NEW k \in Kind, NEW x \in Values, NEW p, p = FromStarlark(k, Box(k, x)), p # Error,
         NEW b \in ToStarlark(k, p)
  PROVE  FromStarlark(k, Box(k, b)) = p
<1>a. k \notin MessageType => Box(k, x) = x /\ Box(k, b) = b
  BY BoxPlain DEF MessageType
<1>1. CASE k \in IntKind
  <2>1. k \notin MessageType
    BY <1>1, WrapsFacts DEF MessageType, IntKind
  <2>2. x.v \in IntRange(k) /\ p = Val(k, x.v)
    BY <1>a, <1>1, <2>1, FromInt
  <2>3. b = Val("int", x.v)
    BY <1>1, <2>2, ToInt DEF Val
  <2> QED BY <1>a, <1>1, <2>1, <2>2, <2>3, FromInt DEF Val
<1>2. CASE k \in {"float", "double"}
  <2>1. k \notin MessageType
    BY <1>2, WrapsFacts DEF MessageType
  <2>2. Numeric(x)
    BY <1>a, <1>2, <2>1, FromDouble, FromFloat
  <2>3. AsFloat(x) \in Int
    BY <2>2, ValueFacts DEF Numeric, AsFloat
  <2>4. b = Val("float", p.v)
    BY <1>2, ToFloat
  <2>5. Numeric(b) /\ AsFloat(b) = p.v
    BY <2>4 DEF Numeric, AsFloat, Val
  <2>6. CASE k = "double"
    BY <1>a, <2>1, <2>2, <2>5, <2>6, FromDouble DEF Val
  <2>7. CASE k = "float"
    <3>1. p = Val("float", Single(AsFloat(x)))
      BY <1>a, <2>1, <2>2, <2>7, FromFloat
    <3>2. p.v = Single(AsFloat(x))
      <4>1. \A h : Val("float", h).v = h
        BY DEF Val
      <4> QED BY <3>1, <4>1
    <3>3. FromStarlark(k, b) = Val("float", Single(p.v))
      BY <2>5, <2>7, FromFloat
    <3> QED BY <1>a, <2>1, <2>3, <3>1, <3>2, <3>3, SingleIdempotent
  <2> QED BY <1>2, <2>6, <2>7
<1>3. CASE k = "bool"
  <2>1. k \notin MessageType
    BY <1>3, WrapsFacts DEF MessageType
  <2>2. b = Val("bool", p.v)
    BY <1>3, ToBool
  <2>3. x.type = "bool" /\ p = Val("bool", x.v)
    BY <1>a, <1>3, <2>1, FromBool
  <2>4. b.type = "bool" /\ b.v = x.v
    BY <2>2, <2>3, ValEq
  <2> QED BY <1>a, <1>3, <2>1, <2>3, <2>4, FromBool
<1>4. CASE k \in {"string", "bytes"}
  <2>1. k \notin MessageType
    BY <1>4, WrapsFacts DEF MessageType
  <2>2. b = Val("string", p.v)
    BY <1>4, ToText
  <2>3. p = Val(k, x.v)
    BY <1>a, <1>4, <2>1, FromString
  <2>4. b.type = "string" /\ b.v = x.v
    BY <2>2, <2>3, ValEq
  <2> QED BY <1>a, <1>4, <2>1, <2>3, <2>4, FromString
<1>5. CASE k \in MessageType
  <2>1. b = p
    BY <1>5, ToMessage
  <2>2. p.type = k
    <3>1. CASE Box(k, x) = x
      BY <1>5, <3>1, ConvertedMessage
    <3>2. CASE Box(k, x).type = k
      BY <1>5, <3>2, FromMessage
    <3>3. CASE Box(k, x) = Error
      <4>1. Error.type \notin MessageType
        BY WrapsFacts DEF Error, MessageType, Val
      <4> QED BY <1>5, <3>3, <4>1, FromMessage
    <3> QED BY <3>1, <3>2, <3>3, BoxResult
  <2> QED BY <1>5, <2>1, <2>2, MessageTaken
<1>6. CASE k \in EnumType
  <2>1. k \notin MessageType
    BY <1>6, ConversionsAssumption DEF BuiltIn
  <2>2. PICK a : b = [type |-> k, of |-> a, v |-> p.v]
    BY <1>6, ToEnum
  <2>3. p = Val(k, x.v)
    BY <1>a, <1>6, <2>1, FromEnum
  <2>4. b.type = k /\ b.v = p.v /\ p.v = x.v
    BY <2>2, <2>3, ValEq
  <2>5. FromStarlark(k, b) = Val(k, b.v)
    BY <1>6, <2>4, FromEnum
  <2> QED BY <1>a, <2>1, <2>3, <2>4, <2>5
<1> QED BY <1>1, <1>2, <1>3, <1>4, <1>5, <1>6 DEF Kind, BuiltIn

(* A value that no value is read back from. *)
LEMMA Readable ==
  ASSUME NEW k \in Kind, NEW x \in Values, NEW p, p = FromStarlark(k, Box(k, x)), p # Error,
         ToStarlark(k, p) = {}
  PROVE  k \in EnumType /\ x.type \in EnumType \ {k}
<1>1. k \in EnumType
  <2>1. k \notin IntKind /\ k \notin {"float", "double"} /\ k # "bool"
        /\ k \notin {"string", "bytes"} /\ k \notin MessageType
    BY ToInt, ToFloat, ToBool, ToText, ToMessage, Zenon
  <2> QED BY <2>1 DEF Kind, BuiltIn
<1>2. Box(k, x) = x
  BY <1>1, BoxPlain, ConversionsAssumption DEF BuiltIn, MessageType
<1>3. x.type \in EnumType /\ p.v = x.v
  <2>1. x.type \in EnumType /\ p = Val(k, x.v)
    BY <1>1, <1>2, FromEnum
  <2> QED BY <2>1, ValEq
<1>4. ASSUME x.type = k PROVE FALSE
  <2>1. PICK a \in DOMAIN Enum[k] : x.v = Enum[k][a]
    BY <1>1, <1>4, ValueFacts
  <2>2. a \in {b \in DOMAIN Enum[k] : Enum[k][b] = p.v}
    BY <1>3, <2>1
  <2>3. [type |-> k, of |-> a, v |-> p.v] \in
          {[type |-> k, of |-> c, v |-> p.v] : c \in {b \in DOMAIN Enum[k] : Enum[k][b] = p.v}}
    BY <2>2
  <2>4. ToStarlark(k, p) =
          {[type |-> k, of |-> c, v |-> p.v] : c \in {b \in DOMAIN Enum[k] : Enum[k][b] = p.v}}
    BY <1>1, ToEnum
  <2> QED BY <2>3, <2>4
<1> QED BY <1>1, <1>3, <1>4

(* How the variables of the one field belong together. *)
ConvInv ==
  \/ /\ kind = ""
     /\ given = Nothing /\ taken = Nothing /\ proto = Nothing /\ back = Nothing
  \/ /\ kind \in Kind /\ given \in Values
     /\ taken = Box(kind, given) /\ proto = FromStarlark(kind, taken)
     /\ back # Nothing => proto # Error /\ back \in ToStarlark(kind, proto)

(* The invariant holds after every assignment and every reading. *)
LEMMA ConvInvariant == ConvSpec => []ConvInv
<1>1. ConvInit => ConvInv
  BY DEF ConvInit, ConvInv
<1>2. ASSUME ConvInv, [ConvNext]_convVars PROVE ConvInv'
  <2>1. CASE Assign
    BY <2>1 DEF Assign, ConvInv
  <2>2. CASE ReadBack
    BY <1>2, <2>2 DEF ReadBack, ConvInv
  <2>3. CASE UNCHANGED convVars
    BY <1>2, <2>3 DEF convVars, ConvInv
  <2> QED BY <1>2, <2>1, <2>2, <2>3 DEF ConvNext
<1> QED BY <1>1, <1>2, PTL DEF ConvSpec

(* Whatever a field of whatever kind takes is read back as a value that    *)
(* makes the same Protobuf value, at every width; only a value of another  *)
(* enum can be lost.                                                       *)
THEOREM ConversionsStable == ConvSpec => []ReadBackStable
<1>1. ASSUME ConvInv PROVE ReadBackStable
  <2>1. CASE kind = "" /\ proto = Nothing /\ back = Nothing
    BY <2>1 DEF ReadBackStable
  <2>2. CASE kind \in Kind /\ given \in Values
    BY <1>1, <2>2, Again, Readable DEF ConvInv, ReadBackStable
  <2> QED BY <1>1, <2>1, <2>2 DEF ConvInv
<1> QED BY <1>1, ConvInvariant, PTL

(* A wrapper field takes what a field of the wrapped kind takes, at every  *)
(* bound of every width, although the code checks the two by different     *)
(* functions.                                                              *)
THEOREM BoxingIsExact == ConvSpec => []BoxingAgrees
<1>1. ASSUME ConvInv, kind \in DOMAIN Wraps, given.type # kind
      PROVE  LET p == FromStarlark(Wraps[kind], given) IN
               IF p # Error THEN taken = Val(kind, p.v)
                            ELSE taken \in {given, Error} /\ proto = Error
  <2> DEFINE w == Wraps[kind]  p == FromStarlark(w, given)
  <2>1. kind \in Kind /\ given \in Values /\ taken = Box(kind, given)
        /\ proto = FromStarlark(kind, taken) /\ kind \in MessageType
    BY <1>1, WrapsFacts DEF ConvInv, MessageType
  <2>2. \A q : q.type # kind => FromStarlark(kind, q) = Error
    BY <2>1, <1>1, FromMessage, WrapsFacts
  <2>3. FromStarlark(kind, Error) = Error
    BY <2>1, <2>2, WrapsFacts DEF MessageType, Error, Val
  <2>4. \/ p = Error /\ taken \in {given, Error}
        \/ \E u : p = Val(w, u) /\ taken = Val(kind, u)
    <3>1. CASE w \in IntKind
      BY <1>1, <2>1, <3>1, FromInt, BoxInt
    <3>2. CASE w = "bool"
      BY <1>1, <2>1, <3>2, FromBool, BoxOther DEF IntKind
    <3>3. CASE w \in {"string", "bytes"}
      BY <1>1, <2>1, <3>3, FromString, BoxOther DEF IntKind
    <3>4. CASE w = "double"
      BY <1>1, <2>1, <3>4, FromDouble, BoxOther DEF IntKind
    <3> QED BY <1>1, <3>1, <3>2, <3>3, <3>4, WrapsFacts DEF IntKind
  <2>5. CASE p = Error /\ taken \in {given, Error}
    BY <1>1, <2>1, <2>2, <2>3, <2>5
  <2>6. ASSUME NEW u, p = Val(w, u), taken = Val(kind, u)
        PROVE  p # Error /\ p.v = u
    <3>1. p.v = u /\ p.type = w
      BY <2>6, ValEq
    <3>2. w # "error" /\ Error.type = "error"
      BY <1>1, WrapsFacts, ValEq DEF Error
    <3> QED BY <3>1, <3>2
  <2> QED BY <2>4, <2>5, <2>6
<1>2. ConvInv => BoxingAgrees
  BY <1>1 DEF BoxingAgrees
<1> QED BY <1>2, ConvInvariant, PTL

-----------------------------------------------------------------------------

USE DEF Object, Element, Repeated

(* The constructor.                                                        *)

(* The values that the arguments of a constructor can be. *)
Argument == Element \cup raw \cup reps \cup {None}

(* What the assumptions say of arguments and of the fields that are lists. *)
LEMMA BuildSorts ==
  /\ None \notin Element \cup Repeated \cup List
  /\ List \cap Element = {} /\ List \cap Repeated = {}
  /\ Overflow \notin Element \cup Repeated
<1>1. /\ None \notin Element \cup Repeated \cup List
      /\ List \cap Element = {} /\ List \cap Repeated = {}
  BY SortsAssumption
<1>2. Overflow \notin Element \cup Repeated
  BY SchemaAssumption
<1> QED BY <1>1, <1>2

(* What the constructor has done with the arguments it is through with. *)
Finished == DOMAIN call.args \ call.todo

CallTyped ==
  call # NoCall =>
    /\ call = [msg |-> call.msg, args |-> call.args, todo |-> call.todo, ok |-> call.ok,
               elems |-> call.elems]
    /\ call.msg \in Msg \ frozen
    /\ DOMAIN call.args \subseteq Field
    /\ \A f \in DOMAIN call.args : call.args[f] \in Argument
    /\ call.todo \subseteq DOMAIN call.args
    /\ call.ok \in BOOLEAN
    /\ call.elems \in [List -> Seq(Element)]
    /\ cloned = NoCall

(* The lists that it has not come to are those that were given. *)
ListsLeft ==
  \A l \in List : elems[l] # call.elems[l] => \E f \in Finished : call.args[f] = l

(* The oneof members that were given a value. *)
Members(F) == {f \in Oneof \cap F : call.args[f] # None}

FieldsDone ==
  /\ \A f \in Field \ Finished : fields[call.msg][f] = Unset
  /\ \A f \in Finished \ Members(Finished) : Stored(f, call.args[f])
  /\ Members(Finished) # {} => \E f \in Members(Finished) : Stored(f, call.args[f])

SoFar ==
  call # NoCall /\ ListsDiffer(call.args) =>
    IF call.ok
      THEN /\ \A f \in Finished : Acceptable(f, call.args[f], call.elems)
           /\ ListsLeft
           /\ FieldsDone
      ELSE /\ call.todo = {}
           /\ \E f \in DOMAIN call.args : ~Acceptable(f, call.args[f], call.elems)

BInv == IInv /\ CallTyped /\ SoFar

-----------------------------------------------------------------------------

(* An argument of the constructor as a step of a program. *)
LEMMA SetFieldIsStep ==
  ASSUME NEW m \in Msg, NEW f \in Field, NEW v \in Argument, SetField(m, f, v)
  PROVE  MsgStep(m)
<1>1. CASE v = None /\ SetNone(m, f)
  BY <1>1 DEF MsgStep
<1>2. CASE SetValue(m, f, v) \/ ValueRejected(m, f, v)
  BY <1>2 DEF MsgStep, Argument
<1>3. CASE v \in List /\ SetList(m, f, v)
  <2>1. f \in ListField
    BY <1>3 DEF SetList
  <2> QED BY <1>3, <2>1 DEF MsgStep
<1> QED BY <1>1, <1>2, <1>3 DEF SetField

(* What SetField does with a value: it fails if and only if the value is   *)
(* not acceptable, and sets the field otherwise.                           *)
Sets(m, f, w) ==
  \A g \in Field :
    fields'[m][g] = IF g = f THEN w
                    ELSE IF w # Unset /\ {f, g} \subseteq Oneof THEN Unset ELSE fields[m][g]

(* The end of SetField sets the field and clears its oneof. *)
LEMMA PutSets ==
  ASSUME fields \in [Msg -> [Field -> Element \cup Repeated \cup {Unset}]],
         NEW m \in Msg, NEW f \in Field, NEW w \in Element \cup Repeated, Put(m, f, w)
  PROVE  Sets(m, f, w)
<1> DEFINE h == [g \in Field |->
                   IF g = f THEN w ELSE IF {f, g} \subseteq Oneof THEN Unset ELSE fields[m][g]]
<1>1. fields' = [fields EXCEPT ![m] = h]
  BY DEF Put
<1>2. fields'[m] = h
  BY <1>1
<1>3. \A g \in Field : h[g] = IF g = f THEN w ELSE IF {f, g} \subseteq Oneof THEN Unset ELSE fields[m][g]
  OBVIOUS
<1>4. w # Unset
  BY SortFacts
<1> QED BY <1>2, <1>3, <1>4 DEF Sets

(* SetField fails if and only if the argument is not acceptable, sets the  *)
(* field otherwise, and writes to no list but the argument.                *)
LEMMA SetFieldOutcome ==
  ASSUME IInv, NEW m \in Msg, NEW f \in Field, NEW v \in Argument, SetField(m, f, v),
         NEW es \in [List -> Seq(Element)],
         \A l \in List : l = ListOf(v) => elems[l] = es[l]
  PROVE  /\ failed' <=> ~Acceptable(f, v, es)
         /\ ~failed' => /\ v = None => Sets(m, f, Unset)
                        /\ v \in raw => f \in ListField /\ Sets(m, f, [desc |-> f, list |-> v])
                        /\ v \notin raw \cup {None} => Sets(m, f, Converted(f, v))
         /\ \A l \in List : elems'[l] # elems[l] => v = l /\ v \in raw
<1>0. /\ fields \in [Msg -> [Field -> Element \cup Repeated \cup {Unset}]]
      /\ elems \in [List -> Seq(Element)] /\ raw \subseteq List /\ reps \subseteq Repeated
      /\ Fits[f] \subseteq Element
  BY SortFacts DEF IInv, FieldsOK, ListsOK
<1>a. None \notin Scalar /\ None \notin reps /\ None \notin Fits[f]
  BY <1>0, BuildSorts
<1>b. \A l \in raw : l \notin Scalar /\ l \notin reps /\ l \notin Fits[f]
  BY <1>0, BuildSorts
<1>c. \A r \in reps : r \notin Scalar /\ r.list \in List /\ r \notin raw
  BY <1>0, BuildSorts, SortFacts
<1>1. CASE v = None /\ SetNone(m, f)
  <2>1. f \in Nullable /\ failed' = FALSE /\ elems' = elems /\ fields' = [fields EXCEPT ![m][f] = Unset]
    BY <1>1 DEF SetNone
  <2>2. Acceptable(f, v, es)
    BY <1>1, <2>1 DEF Acceptable
  <2>3. Sets(m, f, Unset)
    BY <1>0, <2>1 DEF Sets
  <2>4. v \notin raw
    BY <1>0, <1>1, BuildSorts
  <2> QED BY <1>1, <2>1, <2>2, <2>3, <2>4
<1>2. CASE SetValue(m, f, v)
  <2>1. /\ Plain(f, v) /\ Conforms(f, Converted(f, v)) /\ Put(m, f, Converted(f, v))
        /\ failed' = FALSE /\ elems' = elems
    BY <1>2 DEF SetValue
  <2>2. v # None
    BY <1>a, <2>1 DEF Converted, Conforms
  <2>3. v \notin raw
    BY <1>b, <2>1 DEF Converted, Conforms
  <2>4. Acceptable(f, v, es)
    <3>1. CASE f \notin ListField
      BY <2>1, <2>2, <3>1 DEF Acceptable, Conforms
    <3>2. CASE f \in ListField
      <4>1. v \notin Element
        BY <2>1, <3>2, <1>0, BuildSorts, ConvertedType, SortFacts DEF Conforms
      <4>2. v \in reps /\ Converted(f, v) = v
        BY <1>c, <2>2, <2>3, <4>1 DEF Argument, Converted
      <4>3. v.list \in List /\ ListOf(v) = v.list
        BY <1>c, <2>3, <4>2 DEF ListOf
      <4>4. ToSet(es[v.list]) \subseteq Fits[f]
        BY <2>1, <3>2, <4>2, <4>3 DEF Conforms
      <4> QED BY <2>2, <2>3, <3>2, <4>2, <4>4 DEF Acceptable
    <3> QED BY <3>1, <3>2
  <2>5. Sets(m, f, Converted(f, v))
    <3>1. Converted(f, v) \in Element \cup Repeated
      BY <1>0, <2>1 DEF Conforms
    <3> QED BY <1>0, <2>1, <3>1, PutSets
  <2> QED BY <2>1, <2>2, <2>3, <2>4, <2>5
<1>3. CASE ValueRejected(m, f, v)
  <2>1. Plain(f, v) /\ ~Conforms(f, Converted(f, v)) /\ failed' = TRUE /\ elems' = elems
    BY <1>3 DEF ValueRejected, Refused, heap
  <2>2. ASSUME Acceptable(f, v, es) PROVE FALSE
    <3>1. CASE v = None
      BY <1>0, <2>1, <2>2, <3>1, BuildSorts DEF Acceptable, Plain
    <3>2. CASE v # None /\ f \notin ListField
      BY <2>1, <2>2, <3>2 DEF Acceptable, Conforms
    <3>3. CASE v # None /\ f \in ListField
      <4>1. v \notin raw
        BY <1>0, <2>1, <3>3, BuildSorts DEF Plain
      <4>2. v \in reps /\ ToSet(es[v.list]) \subseteq Fits[f]
        BY <2>2, <3>3, <4>1 DEF Acceptable
      <4>3. v.list \in List /\ ListOf(v) = v.list /\ Converted(f, v) = v
        BY <1>c, <4>1, <4>2 DEF ListOf, Converted
      <4> QED BY <2>1, <3>3, <4>2, <4>3 DEF Conforms
    <3> QED BY <3>1, <3>2, <3>3
  <2> QED BY <2>1, <2>2
<1>4. CASE v \in List /\ SetList(m, f, v)
  <2>1. /\ f \in ListField /\ v \in raw
        /\ elems' = [elems EXCEPT ![v] = AfterBoxing(f, v)]
        /\ \/ /\ ToSet(AfterBoxing(f, v)) \subseteq Fits[f]
              /\ Put(m, f, [desc |-> f, list |-> v])
              /\ failed' = FALSE
           \/ ~(ToSet(AfterBoxing(f, v)) \subseteq Fits[f]) /\ failed' = TRUE
    BY <1>4 DEF SetList
  <2>2. v # None /\ ListOf(v) = v
    BY <1>0, <2>1, BuildSorts DEF ListOf
  <2>3. elems[v] = es[v]
    BY <1>4, <2>2
  <2>4. AfterBoxing(f, v) = IF Mutable(v) THEN Boxed(f, es[v]) ELSE es[v]
    BY <2>3 DEF AfterBoxing
  <2>5. Acceptable(f, v, es) <=> ToSet(AfterBoxing(f, v)) \subseteq Fits[f]
    BY <2>1, <2>2, <2>4 DEF Acceptable
  <2>6. ~failed' => Sets(m, f, [desc |-> f, list |-> v])
    <3>1. [desc |-> f, list |-> v] \in Repeated
      BY <1>0, <2>1
    <3> QED BY <1>0, <2>1, <3>1, PutSets
  <2>7. \A l \in List : elems'[l] # elems[l] => l = v
    BY <1>0, <2>1
  <2> QED BY <2>1, <2>2, <2>5, <2>6, <2>7
<1> QED BY <1>1, <1>2, <1>3, <1>4 DEF SetField

(* What an argument is does not change while the constructor runs. *)
LEMMA ArgumentSame ==
  ASSUME NEW v \in Argument, raw' = raw, reps \subseteq reps', reps' \subseteq Repeated,
         raw \subseteq List, frozen' = frozen
  PROVE  /\ v \in Argument'
         /\ ListOf(v)' = ListOf(v)
         /\ \A f, es : Acceptable(f, v, es)' <=> Acceptable(f, v, es)
<1>1. v \notin raw => (v \in reps' <=> v \in reps)
  BY BuildSorts, SortFacts DEF Argument
<1>2. v \in Argument'
  BY DEF Argument
<1>3. ListOf(v)' = ListOf(v)
  BY <1>1 DEF ListOf
<1>4. ASSUME NEW f, NEW es
      PROVE  Acceptable(f, v, es)' <=> Acceptable(f, v, es)
  BY <1>1 DEF Acceptable, Mutable
<1> QED BY <1>2, <1>3, <1>4

(* One more argument: what held of those before it still does, and holds   *)
(* of it, unless its list was that of another.                             *)
LEMMA SetArgKeeps ==
  ASSUME BInv, call # NoCall, NEW f \in call.todo, SetArg(f), UNCHANGED cloned,
         raw' = raw, reps \subseteq reps', reps' \subseteq Repeated, frozen' = frozen
  PROVE  CallTyped' /\ SoFar'
<1> DEFINE m == call.msg
           args == call.args
           v == call.args[f]
           es == call.elems
<1>1. /\ call = [msg |-> m, args |-> args, todo |-> call.todo, ok |-> call.ok, elems |-> es]
      /\ m \in Msg \ frozen /\ DOMAIN args \subseteq Field /\ f \in DOMAIN args /\ f \in Field
      /\ \A g \in DOMAIN args : args[g] \in Argument
      /\ call.todo \subseteq DOMAIN args /\ cloned = NoCall
      /\ es \in [List -> Seq(Element)]
  BY DEF BInv, CallTyped
<1>2. /\ call'.msg = m /\ call'.args = args /\ call'.elems = es
      /\ call'.todo = (IF failed' THEN {} ELSE call.todo \ {f})
      /\ call'.ok = ~failed'
      /\ call' = [msg |-> m, args |-> args, todo |-> call'.todo, ok |-> call'.ok, elems |-> es]
  BY <1>1 DEF SetArg
<1>3. raw \subseteq List /\ SetField(m, f, v)
  BY DEF BInv, IInv, ListsOK, SetArg
<1>4. \A u \in Argument :
        /\ u \in Argument'
        /\ ListOf(u)' = ListOf(u)
        /\ \A h, x : Acceptable(h, u, x)' <=> Acceptable(h, u, x)
  BY <1>3, ArgumentSame
<1>5. CallTyped'
  BY <1>1, <1>2, <1>4 DEF CallTyped
<1>6. ASSUME ListsDiffer(call.args)'
      PROVE  SoFar'
  <2>1. ListsDiffer(args)
    BY <1>1, <1>2, <1>4, <1>6 DEF ListsDiffer
  <2>2. /\ call.ok
        /\ \A g \in Finished : Acceptable(g, args[g], es)
        /\ ListsLeft /\ FieldsDone
    BY <2>1 DEF BInv, SoFar
  <2>3. \A l \in List : l = ListOf(v) => elems[l] = es[l]
    <3> SUFFICES ASSUME NEW l \in List, l = ListOf(v), elems[l] # es[l]
                 PROVE  FALSE
      OBVIOUS
    <3>1. PICK g \in Finished : args[g] = l
      BY <2>2 DEF ListsLeft
    <3>2. g \in DOMAIN args /\ g # f
      BY <3>1 DEF Finished
    <3>3. args[g] \in raw
      BY <1>1, <3>1, <3>2, BuildSorts DEF BInv, IInv, ListsOK, Argument
    <3>4. ListOf(args[g]) = l
      BY <3>1, <3>3 DEF ListOf
    <3>5. l # None
      BY BuildSorts
    <3> QED BY <1>1, <2>1, <3>2, <3>4, <3>5 DEF ListsDiffer
  <2>4. /\ failed' <=> ~Acceptable(f, v, es)
        /\ ~failed' => /\ v = None => Sets(m, f, Unset)
                       /\ v \in raw => f \in ListField /\ Sets(m, f, [desc |-> f, list |-> v])
                       /\ v \notin raw \cup {None} => Sets(m, f, Converted(f, v))
        /\ \A l \in List : elems'[l] # elems[l] => v = l /\ v \in raw
    BY <1>1, <1>3, <2>3, SetFieldOutcome DEF BInv
  <2>5. CASE failed'
    <3>1. call'.todo = {} /\ ~call'.ok
      BY <1>2, <2>5
    <3>2. ~Acceptable(f, v, es)'
      BY <1>1, <1>2, <1>4, <2>4, <2>5
    <3> QED BY <1>1, <1>2, <3>1, <3>2 DEF SoFar
  <2>6. CASE ~failed'
    <3>1. Finished' = Finished \cup {f} /\ f \notin Finished
      BY <1>1, <1>2, <2>6 DEF Finished
    <3>2. \A g \in Finished' : Acceptable(g, args[g], es)'
      BY <1>1, <1>2, <1>4, <2>2, <2>4, <2>6, <3>1 DEF Finished
    <3>3. ListsLeft'
      BY <1>2, <2>2, <2>4, <3>1 DEF ListsLeft
    <3>4. PICK w : /\ Sets(m, f, w)
                   /\ v = None => w = Unset
                   /\ v \in raw => f \in ListField /\ w = [desc |-> f, list |-> v]
                   /\ v \notin raw \cup {None} => w = Converted(f, v)
      BY <2>4, <2>6, <1>1, <1>3, BuildSorts
    <3>5. Stored(f, v)' /\ fields'[m][f] = w
      <4>1. fields'[m][f] = w
        BY <1>1, <3>4 DEF Sets
      <4>2. v \in raw => w # Unset /\ w.list = v
        BY <3>4, <1>3, SortFacts
      <4> QED BY <1>2, <3>4, <4>1, <4>2 DEF Stored, Converted
    <3>6. \A g \in Finished : g \notin Oneof \/ f \notin Oneof \/ v = None =>
            fields'[m][g] = fields[m][g]
      BY <1>1, <3>1, <3>4 DEF Sets, Finished
    <3>7. \A g \in Finished : fields'[m][g] \in {fields[m][g], Unset}
      BY <1>1, <3>1, <3>4 DEF Sets, Finished
    <3>8. \A g \in Finished :
            Stored(g, args[g]) /\ fields'[m][g] = fields[m][g] => Stored(g, args[g])'
      BY <1>2 DEF Stored, Converted
    <3>9. Members(Finished)' = IF f \in Oneof /\ v # None THEN Members(Finished) \cup {f}
                                                         ELSE Members(Finished)
      BY <1>2, <3>1 DEF Members
    <3>10. \A g \in Field \ Finished' : fields'[m][g] = Unset
      BY <2>2, <1>2, <3>1, <3>4 DEF Sets, FieldsDone
    <3>11. \A g \in Finished' \ Members(Finished)' : Stored(g, args[g])'
      <4> SUFFICES ASSUME NEW g \in Finished, g \notin Members(Finished)
                   PROVE  Stored(g, args[g])'
        BY <3>1, <3>5, <3>9
      <4>1. Stored(g, args[g])
        BY <2>2 DEF FieldsDone
      <4>2. CASE g \notin Oneof
        BY <3>6, <3>8, <4>1, <4>2
      <4>3. CASE g \in Oneof /\ args[g] = None
        BY <1>2, <3>7, <4>1, <4>3 DEF Stored
      <4> QED BY <4>2, <4>3 DEF Members
    <3>12. Members(Finished)' # {} => \E g \in Members(Finished)' : Stored(g, args[g])'
      <4>1. CASE f \in Oneof /\ v # None
        BY <3>5, <3>9, <4>1
      <4>2. CASE f \notin Oneof \/ v = None
        <5>1. ASSUME Members(Finished) # {}
              PROVE  \E g \in Members(Finished) : Stored(g, args[g])'
          <6>1. PICK g \in Members(Finished) : Stored(g, args[g])
            BY <2>2, <5>1 DEF FieldsDone
          <6> QED BY <3>6, <3>8, <4>2, <6>1 DEF Members
        <5> QED BY <3>9, <4>2, <5>1
      <4> QED BY <4>1, <4>2
    <3>13. FieldsDone'
      BY <1>2, <3>10, <3>11, <3>12 DEF FieldsDone
    <3> QED BY <1>2, <2>6, <3>2, <3>3, <3>13 DEF SoFar
  <2> QED BY <2>5, <2>6
<1>7. ~ListsDiffer(call.args)' => SoFar'
  BY DEF SoFar
<1> QED BY <1>5, <1>6, <1>7

-----------------------------------------------------------------------------
(* The places in a message.                                                *)

(* What a field holds, the message refers to, through the list if it is a  *)
(* field of messages.                                                      *)
LEMMA HoldsChild ==
  ASSUME IInv, NEW x \in Msg, NEW f \in Field, NEW i, NEW c \in Msg, Holds(x, f, i, c)
  PROVE  IF f \in ListField THEN \E l \in List : l \in Children(x) /\ c \in Children(l)
                            ELSE c \in Children(x)
<1>1. CASE f \in ListField
  <2>1. PICK l : l = fields[x][f].list
    OBVIOUS
  <2>2. fields[x][f] # Unset /\ fields[x][f] \in reps /\ i \in DOMAIN elems[l] /\ elems[l][i] = c
    BY <1>1, <2>1 DEF Holds, Kept, Conforms
  <2>3. l \in List
    BY <2>1, <2>2, SortFacts DEF IInv, ListsOK
  <2>4. l \in Children(x)
    BY <1>1, <2>1, <2>2, <2>3 DEF Children, MsgChildren
  <2>5. l \notin Msg /\ c \in ToSet(elems[l])
    BY <2>2, <2>3, SortsAssumption DEF ToSet
  <2> QED BY <1>1, <2>3, <2>4, <2>5 DEF Children
<1>2. CASE f \notin ListField
  BY <1>2 DEF Holds, Children, MsgChildren
<1> QED BY <1>1, <1>2

(* A place is a sequence of steps, each of which leads to a message. *)
LEMMA PlaceType ==
  ASSUME NEW m \in Msg, NEW p \in Places(m)
  PROVE  /\ Len(p) \in Nat
         /\ p \in Seq(Hops)
         /\ \A i \in 0..Len(p) : Stop(m, p, i) \in Msg
         /\ At(m, p) \in Msg
         /\ \A i \in 1..Len(p) : Holds(Stop(m, p, i - 1), p[i][1], p[i][2], p[i][3])
<1>1. PICK n \in 0..Cardinality(Msg) - 1 : p \in [1..n -> Hops]
  BY DEF Places
<1>2. n \in Nat
  BY BuildAssumption, FS_CardinalityType
<1>3. p \in Seq(Hops) /\ Len(p) = n
  BY <1>1, <1>2
<1>4. \A i \in 1..n : p[i] \in MsgField \X Index \X Msg
  BY <1>1 DEF Hops
<1>5. \A i \in 0..n : Stop(m, p, i) \in Msg
  BY <1>2, <1>4 DEF Stop
<1> QED BY <1>2, <1>3, <1>5 DEF At, Places

(* So many steps that a message is met again: the message is endless. *)
LEMMA LongWalk ==
  ASSUME IInv, NEW m \in Msg, NEW n \in Nat, Cardinality(Msg) <= n,
         NEW p \in [1..n -> Hops],
         \A i \in 1..n : Holds(Stop(m, p, i - 1), p[i][1], p[i][2], p[i][3])
  PROVE  Endless(m)
<1> DEFINE h == [k \in 0..n |-> Stop(m, p, k)]
<1>1. \A i \in 1..n : p[i] \in MsgField \X Index \X Msg
  BY DEF Hops
<1>2. \A k \in 0..n : Stop(m, p, k) \in Msg
  BY <1>1 DEF Stop
<1>3. h \in [0..n -> Msg]
  BY <1>2
<1>4. IsFiniteSet(Msg) /\ Cardinality(Msg) \in Nat
  BY BuildAssumption, FS_CardinalityType
<1>5. IsFiniteSet(0..n) /\ Cardinality(0..n) = n + 1
  <2>1. 0 \in Int /\ n \in Int
    OBVIOUS
  <2>2. IsFiniteSet(0..n) /\ Cardinality(0..n) = IF 0 > n THEN 0 ELSE n - 0 + 1
    BY <2>1, FS_Interval, Zenon
  <2> QED BY <2>2
<1>6. \E x, y \in 0..n : x # y /\ h[x] = h[y]
  <2>1. Cardinality(Msg) < Cardinality(0..n)
    BY <1>4, <1>5
  <2> HIDE DEF h
  <2> QED BY <1>3, <1>4, <1>5, <2>1, FS_PigeonHole
<1>7. PICK i \in 0..n, j \in 0..n : i < j /\ Stop(m, p, i) = Stop(m, p, j)
  <2>1. PICK x \in 0..n, y \in 0..n : x # y /\ h[x] = h[y]
    BY <1>6
  <2>2. CASE x < y
    BY <2>1, <2>2
  <2>3. CASE y < x
    BY <2>1, <2>3
  <2>4. x < y \/ y < x
    BY <2>1
  <2> QED BY <2>2, <2>3, <2>4
<1> DEFINE W == {Stop(m, p, k) : k \in 0..j}
           T == W \cup {l \in List : Children(l) \cap W # {}}
<1>8. T \in SUBSET Object /\ m \in T
  <2>1. Stop(m, p, 0) = m /\ 0 \in 0..j
    BY <1>7 DEF Stop
  <2>2. \A k \in 0..j : Stop(m, p, k) \in Msg
    BY <1>2, <1>7
  <2> QED BY <2>1, <2>2
<1>9. ASSUME NEW k \in 0..j - 1
      PROVE  Children(Stop(m, p, k)) \cap T # {}
  <2>1. k + 1 \in 1..n /\ k + 1 \in 0..j /\ k \in 0..n /\ k + 1 - 1 = k /\ k + 1 # 0
    BY <1>7
  <2>2. p[k + 1] \in MsgField \X Index \X Msg
    BY <1>1, <2>1
  <2>3. PICK x \in Msg, f \in Field, i1 \in Index, c \in Msg :
          x = Stop(m, p, k) /\ f = p[k + 1][1] /\ i1 = p[k + 1][2] /\ c = p[k + 1][3]
    BY <1>2, <2>1, <2>2 DEF MsgField
  <2>4. Holds(x, f, i1, c)
    BY <2>1, <2>3
  <2>5. c = Stop(m, p, k + 1)
    BY <2>1, <2>3 DEF Stop
  <2>6. c \in W
    BY <2>1, <2>5
  <2> HIDE DEF W
  <2>7. CASE f \in ListField
    <3>1. PICK l \in List : l \in Children(x) /\ c \in Children(l)
      BY <2>4, <2>7, HoldsChild
    <3> QED BY <2>3, <2>6, <3>1
  <2>8. CASE f \notin ListField
    BY <2>3, <2>4, <2>6, <2>8, HoldsChild
  <2> QED BY <2>7, <2>8
<1>10. ASSUME NEW x \in W PROVE Children(x) \cap T # {}
  <2>1. PICK k \in 0..j : x = Stop(m, p, k)
    OBVIOUS
  <2> HIDE DEF T
  <2>2. CASE k = j
    <3>1. i \in 0..j - 1 /\ x = Stop(m, p, i)
      BY <1>7, <2>1, <2>2
    <3> QED BY <1>9, <3>1
  <2>3. CASE k # j
    <3>1. k \in 0..j - 1
      BY <1>7, <2>3
    <3> QED BY <1>9, <2>1, <3>1
  <2> QED BY <2>2, <2>3
<1> HIDE DEF W
<1>11. \A x \in T : Children(x) \cap T # {}
  BY <1>10
<1> HIDE DEF T
<1> QED BY <1>8, <1>11 DEF Endless

(* The message that a field of a place holds is at a place too. *)
LEMMA PlaceNext ==
  ASSUME IInv, NEW m \in Msg, ~Endless(m), NEW p \in Places(m), NEW f \in MsgField,
         NEW j \in Index, NEW c \in Msg, Holds(At(m, p), f, j, c)
  PROVE  Append(p, <<f, j, c>>) \in Places(m) /\ At(m, Append(p, <<f, j, c>>)) = c
<1> DEFINE n == Len(p)
           q == Append(p, <<f, j, c>>)
<1>1. /\ n \in Nat /\ p \in Seq(Hops) /\ At(m, p) \in Msg /\ At(m, p) = Stop(m, p, n)
      /\ \A i \in 1..n : Holds(Stop(m, p, i - 1), p[i][1], p[i][2], p[i][3])
  BY PlaceType DEF At
<1>2. <<f, j, c>> \in Hops
  BY <1>1 DEF Hops
<1>3. PICK h \in Hops : h = <<f, j, c>> /\ h[1] = f /\ h[2] = j /\ h[3] = c
  BY <1>2
<1>4. q \in Seq(Hops) /\ Len(q) = n + 1 /\ q[n + 1] = h
      /\ \A i \in 1..n : q[i] = p[i]
  BY <1>1, <1>3
<1> HIDE DEF q
<1>5. q \in [1..n + 1 -> Hops]
  BY <1>1, <1>4
<1>6. \A i \in 0..n : Stop(m, q, i) = Stop(m, p, i)
  BY <1>1, <1>4 DEF Stop
<1>7. \A i \in 1..n + 1 : Holds(Stop(m, q, i - 1), q[i][1], q[i][2], q[i][3])
  <2> SUFFICES ASSUME NEW i \in 1..n + 1
               PROVE  Holds(Stop(m, q, i - 1), q[i][1], q[i][2], q[i][3])
    OBVIOUS
  <2>1. i - 1 \in 0..n /\ Stop(m, q, i - 1) = Stop(m, p, i - 1)
    BY <1>1, <1>6
  <2>2. CASE i = n + 1
    <3>1. i - 1 = n /\ q[i] = h
      BY <1>1, <1>4, <2>2
    <3>2. Stop(m, q, i - 1) = At(m, p)
      BY <1>1, <2>1, <3>1
    <3> QED BY <1>3, <3>1, <3>2
  <2>3. CASE i # n + 1
    <3>1. i \in 1..n /\ q[i] = p[i]
      BY <1>1, <1>4, <2>3
    <3> QED BY <1>1, <2>1, <3>1
  <2> QED BY <2>2, <2>3
<1>8. Cardinality(Msg) \in Nat
  BY BuildAssumption, FS_CardinalityType
<1>9. n + 1 \in 0..Cardinality(Msg) - 1
  <2> SUFFICES ASSUME Cardinality(Msg) <= n + 1 PROVE FALSE
    BY <1>1, <1>8
  <2> HIDE DEF n
  <2>1. n + 1 \in Nat
    BY <1>1
  <2> QED BY <1>5, <1>7, <2>1, LongWalk
<1>10. q \in Places(m)
  BY <1>4, <1>5, <1>7, <1>9 DEF Places
<1>11. At(m, q) = c
  <2>1. Len(q) # 0 /\ q[Len(q)] = h
    BY <1>1, <1>4
  <2> QED BY <1>3, <2>1 DEF At, Stop
<1> QED BY <1>10, <1>11 DEF q

(* So is the message in a singular field, *)
LEMMA PlaceField ==
  ASSUME IInv, NEW m \in Msg, ~Endless(m), NEW p \in Places(m), NEW f \in Field \ ListField,
         NEW v \in Msg, v = fields[At(m, p)][f]
  PROVE  Append(p, <<f, 0, v>>) \in Places(m) /\ At(m, Append(p, <<f, 0, v>>)) = v
<1>1. At(m, p) \in Msg
  BY PlaceType
<1>2. v # Unset
  BY SortFacts
<1>3. v \in Fits[f]
  BY <1>1, <1>2 DEF IInv, FieldsOK, SingularFit
<1>4. f \in MsgField /\ 0 \in Index /\ Holds(At(m, p), f, 0, v)
  BY <1>2, <1>3 DEF MsgField, Index, Holds, Kept
<1> QED BY <1>4, PlaceNext

(* and each message in a list that is kept. *)
LEMMA PlaceElement ==
  ASSUME IInv, NEW m \in Msg, ~Endless(m), NEW p \in Places(m), NEW f \in ListField,
         Kept(f, fields[At(m, p)][f]), NEW s, s = elems[fields[At(m, p)][f].list],
         NEW i \in DOMAIN s, s[i] \in Msg
  PROVE  Append(p, <<f, i, s[i]>>) \in Places(m) /\ At(m, Append(p, <<f, i, s[i]>>)) = s[i]
<1>1. PICK l : l = fields[At(m, p)][f].list
  OBVIOUS
<1>2. l \in List /\ ToSet(s) \subseteq Fits[f]
  BY <1>1, SortFacts DEF Kept, Conforms, IInv, ListsOK
<1>3. s[i] \in Fits[f]
  BY <1>2 DEF ToSet
<1>4. f \in MsgField
  BY <1>3, SortFacts DEF MsgField
<1>5. i \in Index
  BY <1>1, <1>2 DEF Index
<1>6. Holds(At(m, p), f, i, s[i])
  BY DEF Holds
<1> QED BY <1>4, <1>5, <1>6, PlaceNext

-----------------------------------------------------------------------------
(* Induction, which the values of messages in messages need.               *)

(* Induction over the natural numbers, for a set: its least element that   *)
(* is missing would have a predecessor that is not.                        *)
LEMMA LeastOf ==
  ASSUME NEW S \in SUBSET Nat, S # {}
  PROVE \E x \in S : \A y \in S : x <= y
<1> DEFINE T == {1..n : n \in S}
<1>1. IsWellFoundedOn(StrictSubsetOrdering(Nat), FiniteSubsetsOf(Nat))
  BY FS_StrictSubsetOrderingWellFounded
<1>2. T \subseteq FiniteSubsetsOf(Nat) /\ T # {}
  <2>1. ASSUME NEW n \in S PROVE IsFiniteSet(1..n) /\ 1..n \in SUBSET Nat
    <3>1. 1 \in Int /\ n \in Int
      OBVIOUS
    <3>2. IsFiniteSet(1..n)
      BY <3>1, FS_Interval, Zenon
    <3> QED BY <3>2
  <2> QED BY <2>1 DEF FiniteSubsetsOf
<1>3. PICK A \in T : \A B \in T : ~(<<B, A>> \in StrictSubsetOrdering(Nat))
  <2> HIDE DEF T
  <2> QED BY <1>1, <1>2, WFMin
<1>4. PICK x \in S : A = 1..x
  OBVIOUS
<1>5. ASSUME NEW y \in S, y < x PROVE FALSE
  <2>1. 1..y \in T /\ 1..y \subseteq 1..x /\ x \in 1..x /\ x \notin 1..y
    BY <1>5
  <2>2. <<1..y, 1..x>> \in StrictSubsetOrdering(Nat)
    BY <2>1, <1>2, <1>4 DEF StrictSubsetOrdering, FiniteSubsetsOf
  <2> QED BY <1>3, <1>4, <2>1, <2>2
<1> QED BY <1>5

(* A set with 0 and the successor of each of its numbers has them all. *)
LEMMA SetInduction ==
  ASSUME NEW T \in SUBSET Nat, 0 \in T, \A n \in T : n + 1 \in T
  PROVE  T = Nat
<1>1. SUFFICES ASSUME Nat \ T # {} PROVE FALSE
  OBVIOUS
<1>2. PICK x \in Nat \ T : \A y \in Nat \ T : x <= y
  BY LeastOf, <1>1
<1>3. x # 0 /\ x - 1 \in Nat
  BY <1>2
<1>4. x - 1 \in T
  BY <1>2, <1>3
<1> QED BY <1>4, <1>2, <1>3

(* T holds the values of the messages, to each depth up to n. *)
Levels(T, n) ==
  T = [k \in 0..n |-> [m \in Msg |-> IF k = 0 THEN <<>> ELSE ProtoValue(m, T[k - 1])]]

(* The values exist to every depth: the recursive definition of Tree       *)
(* defines a function.                                                     *)
LEMMA LevelsExist == ASSUME NEW n \in Nat PROVE \E T : Levels(T, n)
<1> DEFINE S == {k \in Nat : \E T : Levels(T, k)}
<1>1. 0 \in S
  <2>1. PICK T : T = [k \in 0..0 |-> [m \in Msg |-> <<>>]]
    OBVIOUS
  <2>2. \A k \in 0..0 : k = 0
    OBVIOUS
  <2>3. Levels(T, 0)
    BY <2>1, <2>2 DEF Levels
  <2> QED BY <2>3
<1>2. ASSUME NEW k \in S PROVE k + 1 \in S
  <2>1. PICK T : Levels(T, k)
    OBVIOUS
  <2> DEFINE row(m) == ProtoValue(m, T[k])
             U == [i \in 0..k + 1 |-> IF i = k + 1 THEN [m \in Msg |-> row(m)] ELSE T[i]]
  <2>2. k \in Nat
    OBVIOUS
  <2>3. \A i \in 0..k + 1 : i # k + 1 => i \in 0..k
    BY <2>2
  <2>4. \A i \in 0..k : i \in 0..k + 1 /\ U[i] = T[i]
    BY <2>2
  <2>5. \A i \in 0..k + 1 : i # 0 => i - 1 \in 0..k
    BY <2>2
  <2>6. \A i \in 0..k : T[i] = [m \in Msg |-> IF i = 0 THEN <<>> ELSE ProtoValue(m, T[i - 1])]
    BY <2>1 DEF Levels
  <2>7. U[k + 1] = [m \in Msg |-> ProtoValue(m, T[k])] /\ k + 1 # 0 /\ k + 1 - 1 = k
    BY <2>2
  <2>8. ASSUME NEW i \in 0..k + 1
        PROVE  U[i] = [m \in Msg |-> IF i = 0 THEN <<>> ELSE ProtoValue(m, U[i - 1])]
    <3> HIDE DEF U
    <3>1. CASE i = k + 1
      <4>1. U[k] = T[k] /\ i # 0 /\ i - 1 = k
        BY <2>2, <2>4, <2>7, <3>1
      <4> QED BY <2>7, <3>1, <4>1
    <3>2. CASE i # k + 1
      <4>1. U[i] = T[i] /\ i \in 0..k /\ (i # 0 => U[i - 1] = T[i - 1])
        BY <2>3, <2>4, <2>5, <3>2
      <4>2. i = 0 \/ U[i - 1] = T[i - 1]
        BY <4>1
      <4> QED BY <2>6, <4>1, <4>2
    <3> QED BY <3>1, <3>2
  <2>9. U = [i \in 0..k + 1 |-> U[i]]
    OBVIOUS
  <2>10. Levels(U, k + 1)
    <3> HIDE DEF U
    <3> QED BY <2>8, <2>9 DEF Levels
  <2> QED BY <2>10
<1> HIDE DEF S
<1>3. S = Nat
  <2>1. S \in SUBSET Nat
    BY DEF S
  <2> QED BY <1>1, <1>2, <2>1, SetInduction
<1> QED BY <1>3 DEF S

(* The values that Tree stands for. *)
LEMMA TreeLevels == \E T : Levels(T, Cardinality(Msg)) /\ Tree = T[Cardinality(Msg)]
<1>1. Cardinality(Msg) \in Nat
  BY BuildAssumption, FS_CardinalityType
<1>2. PICK U : Levels(U, Cardinality(Msg))
  BY <1>1, LevelsExist
<1>3. PICK T : T = CHOOSE V : Levels(V, Cardinality(Msg))
  OBVIOUS
<1>4. Levels(T, Cardinality(Msg))
  BY <1>2, <1>3
<1>5. Tree = T[Cardinality(Msg)]
  BY <1>3 DEF Tree, Levels
<1> QED BY <1>4, <1>5

-----------------------------------------------------------------------------
(* proto.clone.                                                            *)

(* The new objects that a copy of m is made of. *)
Target(m, msgs, lists) ==
  /\ m \in Msg /\ ~Endless(m) /\ ~Fails(m)
  /\ msgs \in [Places(m) -> {x \in Msg \ {m} : Blank(x)}]
  /\ lists \in [ListsIn(m) -> List \ Used]
  /\ Injective(msgs) /\ Injective(lists)

(* The copy of a field: nothing, a new list, the copy of the message, or a *)
(* value that fits.                                                        *)
CopyOf(m, msgs, lists, p, f, c) ==
  /\ c # Unset => fields[At(m, p)][f] # Unset
  /\ \/ c = Unset
     \/ f \in ListField /\ <<p, f>> \in ListsIn(m) /\ c = [desc |-> f, list |-> lists[<<p, f>>]]
     \/ f \notin ListField /\ c \in Fits[f] /\ c \in Scalar
     \/ f \notin ListField /\ c \in Fits[f] /\ \E q \in Places(m) : c = msgs[q]

(* Each field of a copy is of one of these forms. *)
LEMMA CopyOfField ==
  ASSUME IInv, NEW m, NEW msgs, NEW lists, Target(m, msgs, lists),
         NEW p \in Places(m), NEW f \in Field
  PROVE  CopyOf(m, msgs, lists, p, f, FieldCopy(At(m, p), p, f, msgs, lists))
<1> DEFINE v == fields[At(m, p)][f]
<1>0. PICK c : c = FieldCopy(At(m, p), p, f, msgs, lists)
  OBVIOUS
<1>1. At(m, p) \in Msg
  BY PlaceType DEF Target
<1>2. v \in {Unset} \cup (IF f \in ListField THEN reps ELSE Element)
  BY <1>1 DEF IInv, FieldsOK
<1>3. CASE ~Kept(f, v)
  BY <1>0, <1>3 DEF FieldCopy, CopyOf
<1>4. CASE Kept(f, v) /\ f \in ListField
  <2>1. <<p, f>> \in ListsIn(m)
    BY <1>4 DEF ListsIn
  <2> QED BY <1>0, <1>4, <2>1 DEF FieldCopy, Kept, CopyOf
<1>5. CASE Kept(f, v) /\ f \notin ListField /\ v \in Msg
  <2>1. Append(p, <<f, 0, v>>) \in Places(m)
    BY <1>5, PlaceField DEF Target
  <2>2. c = msgs[Append(p, <<f, 0, v>>)]
    BY <1>0, <1>5 DEF FieldCopy
  <2>3. c \in Msg
    BY <2>1, <2>2 DEF Target
  <2>4. Fits[f] \cap Msg = Msg
    BY <1>5, BuildAssumption DEF Kept
  <2> QED BY <1>0, <1>5, <2>1, <2>2, <2>3, <2>4 DEF Kept, CopyOf
<1>6. CASE Kept(f, v) /\ f \notin ListField /\ v \notin Msg
  <2>1. v \in Scalar /\ v \in Fits[f]
    BY <1>2, <1>6 DEF Kept
  <2>2. c = Unset \/ (IsSet(f, v) /\ c = RoundTrip[f][v])
    BY <1>0, <1>6 DEF FieldCopy
  <2>3. IsSet(f, v) => RoundTrip[f][v] \in Fits[f] \cap Scalar
    <3>1. ~Nameless(At(m, p), f)
      BY DEF Target, Fails
    <3>2. IsSet(f, v) => RoundTrip[f][v] # Overflow
      BY <1>6, <2>1, <3>1 DEF Nameless
    <3> QED BY <2>1, <3>2, BuildAssumption
  <2> QED BY <1>0, <1>6, <2>2, <2>3 DEF Kept, CopyOf
<1> QED BY <1>3, <1>4, <1>5, <1>6

(* What a copy writes, and to what. *)
NewMsgs(m, msgs) == {msgs[p] : p \in Places(m)}
NewLists(m, lists) == {lists[pf] : pf \in ListsIn(m)}

CopiedElems(m, pf, msgs) == ElemsCopy(At(m, pf[1]), pf[1], pf[2], msgs)

(* The copy of an element: the copy of the message, or a value that fits   *)
(* and makes the same Protobuf value.                                      *)
LEMMA CopyOfElement ==
  ASSUME IInv, NEW m, NEW msgs, NEW lists, Target(m, msgs, lists),
         NEW p \in Places(m), NEW f \in ListField, Kept(f, fields[At(m, p)][f]),
         NEW s \in Seq(Element), s = elems[fields[At(m, p)][f].list],
         NEW c, c = ElemsCopy(At(m, p), p, f, msgs), NEW i \in DOMAIN s
  PROVE  /\ DOMAIN c = DOMAIN s
         /\ s[i] \in Fits[f] /\ c[i] \in Fits[f]
         /\ s[i] \in Msg => \E q \in Places(m) : c[i] = msgs[q] /\ At(m, q) = s[i]
         /\ s[i] \notin Msg => c[i] \in Scalar /\ Proto[f][c[i]] = Proto[f][s[i]]
<1>1. c = [k \in DOMAIN s |-> IF s[k] \in Msg THEN msgs[Append(p, <<f, k, s[k]>>)]
                                            ELSE RoundTrip[f][s[k]]]
  BY DEF ElemsCopy
<1>2. /\ ToSet(s) \subseteq Fits[f] /\ s[i] \in ToSet(s) /\ s[i] \in Element
      /\ f \in Field
  BY SortFacts DEF Kept, Conforms, ToSet
<1>3. CASE s[i] \in Msg
  <2>0. Append(p, <<f, i, s[i]>>) \in Places(m) /\ At(m, Append(p, <<f, i, s[i]>>)) = s[i]
    BY <1>3, PlaceElement DEF Target
  <2>1. PICK q \in Places(m) : q = Append(p, <<f, i, s[i]>>) /\ At(m, q) = s[i]
    BY <2>0
  <2>2. c[i] = msgs[q]
    BY <1>1, <1>3, <2>1
  <2>3. msgs[q] \in Msg
    BY DEF Target
  <2>4. Fits[f] \cap Msg = Msg
    BY <1>2, <1>3, BuildAssumption
  <2> QED BY <1>1, <1>2, <1>3, <2>1, <2>2, <2>3, <2>4
<1>4. CASE s[i] \notin Msg
  <2>1. s[i] \in Scalar /\ c[i] = RoundTrip[f][s[i]]
    BY <1>1, <1>2, <1>4
  <2>2. ~Nameless(At(m, p), f)
    BY <1>2 DEF Target, Fails
  <2>3. RoundTrip[f][s[i]] # Overflow
    BY <1>2, <2>1, <2>2 DEF Nameless
  <2>4. /\ RoundTrip[f][s[i]] \in Fits[f] \cap Scalar
        /\ Proto[f][RoundTrip[f][s[i]]] = Proto[f][s[i]]
    BY <1>2, <2>1, <2>3, BuildAssumption
  <2> QED BY <1>1, <1>2, <1>4, <2>1, <2>4
<1> QED BY <1>3, <1>4

Written(m, msgs, lists) ==
  /\ fields' \in [Msg -> [Field -> Element \cup Repeated \cup {Unset}]]
  /\ \A x \in Msg \ NewMsgs(m, msgs) : fields'[x] = fields[x]
  /\ \A x \in NewMsgs(m, msgs) : \E p \in Places(m) :
       /\ msgs[p] = x
       /\ \A f \in Field : fields'[x][f] = FieldCopy(At(m, p), p, f, msgs, lists)
  /\ elems' \in [List -> Seq(Element)]
  /\ \A l \in List \ NewLists(m, lists) : elems'[l] = elems[l]
  /\ \A pf \in ListsIn(m) : /\ pf[2] \in ListField /\ lists[pf] \in List
                            /\ ToSet(elems'[lists[pf]]) \subseteq Fits[pf[2]]
                            /\ ToSet(elems'[lists[pf]]) \subseteq Scalar \cup NewMsgs(m, msgs)
                            /\ elems'[lists[pf]] = CopiedElems(m, pf, msgs)
  /\ reps' \subseteq Repeated

(* A copy writes to the new objects, and to no other. *)
LEMMA CopyWrites ==
  ASSUME IInv, NEW m, NEW msgs, NEW lists, Target(m, msgs, lists), PutCopy(m, msgs, lists)
  PROVE  Written(m, msgs, lists)
<1>1. \A pf \in ListsIn(m) : /\ pf[1] \in Places(m) /\ pf[2] \in ListField /\ lists[pf] \in List \ Used
                             /\ Kept(pf[2], fields[At(m, pf[1])][pf[2]])
  BY DEF ListsIn, Target
<1>2. \A p \in Places(m) : msgs[p] \in Msg
  BY DEF Target
<1> DEFINE G(p) == [f \in Field |-> FieldCopy(At(m, p), p, f, msgs, lists)]
<1>3. \A p \in Places(m) : G(p) \in [Field -> Element \cup Repeated \cup {Unset}]
  <2> SUFFICES ASSUME NEW p \in Places(m), NEW f \in Field, NEW c, c = FieldCopy(At(m, p), p, f, msgs, lists)
               PROVE  c \in Element \cup Repeated \cup {Unset}
    OBVIOUS
  <2>0. CopyOf(m, msgs, lists, p, f, c)
    BY CopyOfField
  <2>1. \/ c = Unset
        \/ f \in ListField /\ <<p, f>> \in ListsIn(m) /\ c = [desc |-> f, list |-> lists[<<p, f>>]]
        \/ c \in Fits[f]
    BY <2>0 DEF CopyOf
  <2>2. Fits[f] \subseteq Element
    BY SortFacts
  <2> QED BY <1>1, <2>1, <2>2
<1>4. fields' = [x \in Msg |->
                  IF \E p \in Places(m) : msgs[p] = x
                    THEN G(CHOOSE q \in Places(m) : msgs[q] = x)
                    ELSE fields[x]]
  BY DEF PutCopy
<1>5. \A x \in NewMsgs(m, msgs) : \E p \in Places(m) : msgs[p] = x /\ fields'[x] = G(p)
  <2> SUFFICES ASSUME NEW x \in NewMsgs(m, msgs)
               PROVE  \E p \in Places(m) : msgs[p] = x /\ fields'[x] = G(p)
    OBVIOUS
  <2>1. x \in Msg /\ \E p \in Places(m) : msgs[p] = x
    BY <1>2 DEF NewMsgs
  <2>2. PICK p : p = CHOOSE q \in Places(m) : msgs[q] = x
    OBVIOUS
  <2>3. p \in Places(m) /\ msgs[p] = x
    BY <2>1, <2>2
  <2> HIDE DEF G
  <2>4. fields'[x] = G(p)
    BY <1>4, <2>1, <2>2
  <2> QED BY <2>3, <2>4
<1>6. \A x \in Msg \ NewMsgs(m, msgs) : fields'[x] = fields[x]
  <2> HIDE DEF G
  <2> QED BY <1>4 DEF NewMsgs
<1>7. fields' \in [Msg -> [Field -> Element \cup Repeated \cup {Unset}]]
  <2> HIDE DEF G
  <2>1. \A x \in Msg : fields'[x] \in [Field -> Element \cup Repeated \cup {Unset}]
    BY <1>3, <1>5, <1>6 DEF IInv, FieldsOK
  <2> QED BY <1>4, <2>1
<1> DEFINE C(pf) == CopiedElems(m, pf, msgs)
<1>8. \A pf \in ListsIn(m) : /\ C(pf) \in Seq(Element)
                              /\ ToSet(C(pf)) \subseteq Fits[pf[2]]
                              /\ ToSet(C(pf)) \subseteq Scalar \cup NewMsgs(m, msgs)
  <2> SUFFICES ASSUME NEW pf \in ListsIn(m)
               PROVE  /\ C(pf) \in Seq(Element)
                      /\ ToSet(C(pf)) \subseteq Fits[pf[2]]
                      /\ ToSet(C(pf)) \subseteq Scalar \cup NewMsgs(m, msgs)
    OBVIOUS
  <2>1. PICK p \in Places(m), f \in ListField, r \in reps :
          p = pf[1] /\ f = pf[2] /\ r = fields[At(m, p)][f] /\ Kept(f, r)
    BY <1>1 DEF Kept, Conforms
  <2>2. PICK s \in Seq(Element) : s = elems[r.list]
    BY <2>1 DEF IInv, ListsOK
  <2>3. Len(s) \in Nat /\ DOMAIN s = 1..Len(s) /\ f \in Field
    BY SortFacts
  <2>4. PICK c : c = C(pf)
    OBVIOUS
  <2>5. c = ElemsCopy(At(m, p), p, f, msgs)
    BY <2>1, <2>4 DEF CopiedElems
  <2>6. \A i \in DOMAIN s :
          /\ c[i] \in Fits[f]
          /\ s[i] \in Msg => \E q \in Places(m) : c[i] = msgs[q]
          /\ s[i] \notin Msg => c[i] \in Scalar
    BY <2>1, <2>2, <2>5, CopyOfElement
  <2>7. c = [i \in 1..Len(s) |-> IF s[i] \in Msg THEN msgs[Append(p, <<f, i, s[i]>>)]
                                                ELSE RoundTrip[f][s[i]]]
    BY <2>1, <2>2, <2>3, <2>5 DEF ElemsCopy
  <2>8. \A i \in 1..Len(s) : c[i] \in Element
    BY <1>2, <2>3, <2>6
  <2>9. c \in Seq(Element) /\ DOMAIN c = 1..Len(s)
    BY <2>3, <2>7, <2>8
  <2>10. \A i \in 1..Len(s) : c[i] \in Scalar \cup NewMsgs(m, msgs)
    BY <2>3, <2>6 DEF NewMsgs
  <2> HIDE DEF C
  <2> QED BY <2>1, <2>3, <2>4, <2>6, <2>9, <2>10 DEF ToSet
<1>9. elems' = [l \in List |->
                 IF \E pf \in ListsIn(m) : lists[pf] = l
                   THEN C(CHOOSE q \in ListsIn(m) : lists[q] = l) ELSE elems[l]]
  BY DEF PutCopy, CopiedElems
<1>10. \A pf \in ListsIn(m) : elems'[lists[pf]] = C(pf)
  <2> SUFFICES ASSUME NEW pf \in ListsIn(m) PROVE elems'[lists[pf]] = C(pf)
    OBVIOUS
  <2>1. PICK q : q = CHOOSE pg \in ListsIn(m) : lists[pg] = lists[pf]
    OBVIOUS
  <2>2. q \in ListsIn(m) /\ lists[q] = lists[pf]
    BY <2>1
  <2>3. q = pf
    BY <2>2 DEF Target, Injective
  <2> HIDE DEF C
  <2> QED BY <1>1, <1>9, <2>1, <2>3
<1>11. \A l \in List \ NewLists(m, lists) : elems'[l] = elems[l]
  <2> HIDE DEF C
  <2> QED BY <1>9 DEF NewLists
<1>12. elems' \in [List -> Seq(Element)]
  <2> HIDE DEF C
  <2>1. \A l \in List : elems'[l] \in Seq(Element)
    BY <1>8, <1>10, <1>11 DEF IInv, ListsOK, NewLists
  <2> QED BY <1>9, <2>1
<1>13. reps' \subseteq Repeated
  <2>1. reps' = reps \cup {[desc |-> pf[2], list |-> lists[pf]] : pf \in ListsIn(m)}
    BY DEF PutCopy
  <2>2. \A pf \in ListsIn(m) : [desc |-> pf[2], list |-> lists[pf]] \in Repeated
    BY <1>1
  <2>3. reps \subseteq Repeated
    BY DEF IInv, ListsOK
  <2> QED BY <2>1, <2>2, <2>3
<1>14. \A x \in NewMsgs(m, msgs) : \E p \in Places(m) :
         msgs[p] = x /\ \A f \in Field : fields'[x][f] = FieldCopy(At(m, p), p, f, msgs, lists)
  BY <1>5
<1>15. \A pf \in ListsIn(m) : C(pf) = CopiedElems(m, pf, msgs)
  OBVIOUS
<1> HIDE DEF C, G
<1> QED BY <1>1, <1>15, <1>14, <1>6, <1>7, <1>8, <1>10, <1>11, <1>12, <1>13 DEF Written

(* A copy keeps the heap in order and writes to nothing that is frozen. *)
LEMMA CopyGood ==
  ASSUME IInv, NEW m, NEW msgs, NEW lists, Target(m, msgs, lists), PutCopy(m, msgs, lists),
         UNCHANGED <<raw, frozen>>, failed' = FALSE
  PROVE  Good
<1>0. Written(m, msgs, lists)
  BY CopyWrites
<1>1. /\ fields' \in [Msg -> [Field -> Element \cup Repeated \cup {Unset}]]
      /\ \A x \in Msg \ NewMsgs(m, msgs) : fields'[x] = fields[x]
      /\ elems' \in [List -> Seq(Element)]
      /\ \A l \in List \ NewLists(m, lists) : elems'[l] = elems[l]
      /\ \A pf \in ListsIn(m) : /\ pf[2] \in ListField /\ lists[pf] \in List
                                /\ ToSet(elems'[lists[pf]]) \subseteq Fits[pf[2]]
      /\ reps' \subseteq Repeated
  BY <1>0 DEF Written
<1>2. reps' = reps \cup {[desc |-> pf[2], list |-> lists[pf]] : pf \in ListsIn(m)}
  BY DEF PutCopy
<1>3. /\ \A pf \in ListsIn(m) : lists[pf] \notin Used
      /\ \A p \in Places(m) : msgs[p] \in Msg /\ Blank(msgs[p])
  BY DEF Target
<1>4. ASSUME NEW x \in NewMsgs(m, msgs), NEW f \in Field
      PROVE  \E p \in Places(m) :
        /\ fields'[x][f] # Unset => fields[At(m, p)][f] # Unset
        /\ \/ fields'[x][f] = Unset
           \/ f \in ListField /\ <<p, f>> \in ListsIn(m)
              /\ fields'[x][f] = [desc |-> f, list |-> lists[<<p, f>>]]
           \/ f \notin ListField /\ fields'[x][f] \in Fits[f]
        /\ \A g \in Field : fields'[x][g] # Unset => fields[At(m, p)][g] # Unset
        /\ At(m, p) \in Msg
  <2>1. PICK p \in Places(m) :
          /\ msgs[p] = x
          /\ \A g \in Field : fields'[x][g] = FieldCopy(At(m, p), p, g, msgs, lists)
    BY <1>0 DEF Written
  <2>2. At(m, p) \in Msg
    BY PlaceType DEF Target
  <2>5. \A g \in Field : CopyOf(m, msgs, lists, p, g, FieldCopy(At(m, p), p, g, msgs, lists))
    BY CopyOfField
  <2>6. \A g \in Field : CopyOf(m, msgs, lists, p, g, fields'[x][g])
    BY <2>1, <2>5
  <2>3. \A g \in Field : fields'[x][g] # Unset => fields[At(m, p)][g] # Unset
    BY <2>6 DEF CopyOf
  <2>4. \/ fields'[x][f] = Unset
        \/ f \in ListField /\ <<p, f>> \in ListsIn(m)
           /\ fields'[x][f] = [desc |-> f, list |-> lists[<<p, f>>]]
        \/ f \notin ListField /\ fields'[x][f] \in Fits[f]
    BY <2>6 DEF CopyOf
  <2> QED BY <2>2, <2>3, <2>4
<1>5. FieldsOK'
  <2>1. ASSUME NEW x \in Msg, NEW f \in Field
        PROVE  fields'[x][f] \in {Unset} \cup (IF f \in ListField THEN reps' ELSE Element)
    <3>1. CASE x \in NewMsgs(m, msgs)
      <4>1. Fits[f] \subseteq Element
        BY SortFacts
      <4>2. PICK p \in Places(m) :
              \/ fields'[x][f] = Unset
              \/ f \in ListField /\ <<p, f>> \in ListsIn(m)
                 /\ fields'[x][f] = [desc |-> f, list |-> lists[<<p, f>>]]
              \/ f \notin ListField /\ fields'[x][f] \in Fits[f]
        BY <1>4, <3>1
      <4>3. <<p, f>> \in ListsIn(m) => [desc |-> f, list |-> lists[<<p, f>>]] \in reps'
        BY <1>2
      <4> QED BY <4>1, <4>2, <4>3
    <3>2. CASE x \notin NewMsgs(m, msgs)
      BY <1>1, <1>2, <3>2 DEF IInv, FieldsOK
    <3> QED BY <3>1, <3>2
  <2>2. OneofExclusive'
    <3> SUFFICES ASSUME NEW x \in Msg, NEW f \in Oneof, NEW g \in Oneof,
                        fields'[x][f] # Unset, fields'[x][g] # Unset
                 PROVE  f = g
      BY DEF OneofExclusive
    <3>1. f \in Field /\ g \in Field
      BY SortFacts
    <3>2. CASE x \in NewMsgs(m, msgs)
      <4>1. PICK y \in Msg : \A h \in Field : fields'[x][h] # Unset => fields[y][h] # Unset
        BY <1>4, <3>1, <3>2
      <4> QED BY <3>1, <4>1 DEF IInv, FieldsOK, OneofExclusive
    <3>3. CASE x \notin NewMsgs(m, msgs)
      BY <1>1, <3>3 DEF IInv, FieldsOK, OneofExclusive
    <3> QED BY <3>2, <3>3
  <2>3. SingularFit'
    <3> SUFFICES ASSUME NEW x \in Msg, NEW f \in Field \ ListField, fields'[x][f] # Unset
                 PROVE  fields'[x][f] \in Fits[f]
      BY DEF SingularFit
    <3>1. CASE x \in NewMsgs(m, msgs)
      BY <1>4, <3>1
    <3>2. CASE x \notin NewMsgs(m, msgs)
      BY <1>1, <3>2 DEF IInv, FieldsOK, SingularFit
    <3> QED BY <3>1, <3>2
  <2> QED BY <1>1, <2>1, <2>2, <2>3 DEF FieldsOK
<1>6. ListsOK'
  <2>0. \A r \in reps' : r \in reps \/ \E pf \in ListsIn(m) : r.desc = pf[2] /\ r.list = lists[pf]
    BY <1>2
  <2>1. \A r \in reps : r.list \in Used /\ r.list \in List /\ elems'[r.list] = elems[r.list]
    BY <1>1, <1>3 DEF Used, NewLists, IInv, ListsOK
  <2>2. ASSUME NEW r \in reps', r.list \notin raw
        PROVE  ToSet(elems'[r.list]) \subseteq Fits[r.desc]
    BY <1>1, <2>0, <2>1, <2>2 DEF IInv, ListsOK, ListsTyped
  <2>3. ASSUME NEW r \in reps', NEW s \in reps', r.list = s.list, r.list \notin raw
        PROVE  r = s
    <3>1. CASE r \in reps /\ s \in reps
      BY <2>3, <3>1 DEF IInv, ListsOK, OneWindow
    <3>2. CASE r \notin reps /\ s \notin reps
      <4>1. PICK pf \in ListsIn(m) : r.desc = pf[2] /\ r.list = lists[pf]
        BY <2>0, <3>2
      <4>2. PICK pg \in ListsIn(m) : s.desc = pg[2] /\ s.list = lists[pg]
        BY <2>0, <3>2
      <4>3. pf = pg
        BY <2>3, <4>1, <4>2 DEF Target, Injective
      <4>4. r \in Repeated /\ s \in Repeated
        BY <1>1
      <4> QED BY <4>1, <4>2, <4>3, <4>4
    <3>3. CASE (r \in reps /\ s \notin reps) \/ (r \notin reps /\ s \in reps)
      BY <1>3, <2>0, <2>1, <2>3, <3>3
    <3> QED BY <3>1, <3>2, <3>3
  <2>4. raw \subseteq List
    BY DEF IInv, ListsOK
  <2> QED BY <1>1, <2>2, <2>3, <2>4 DEF ListsOK, ListsTyped, OneWindow
<1>7. Untouched
  <2>1. \A x \in frozen \cap Msg : fields'[x] = fields[x]
    BY <1>1, <1>3 DEF NewMsgs, Blank
  <2>2. \A l \in frozen \cap List : elems'[l] = elems[l]
    BY <1>1, <1>3, BuildSorts DEF NewLists, IInv, FrozenExist
  <2> QED BY <2>1, <2>2 DEF Untouched
<1> QED BY <1>2, <1>5, <1>6, <1>7 DEF Good

(* A part of the heap that refers to nothing outside it. *)
Closed(T) == \A x \in T : Children(x) \subseteq T

(* The objects of a copy are a part of the heap of their own: what they    *)
(* refer to is in it, and nothing else refers to them.                     *)
LEMMA CopyApart ==
  ASSUME IInv, NEW m, NEW msgs, NEW lists, Target(m, msgs, lists), PutCopy(m, msgs, lists),
         NEW T \in SUBSET Object, T = NewMsgs(m, msgs) \cup NewLists(m, lists)
  PROVE  Closed(T)' /\ Closed(Object \ T)'
<1>0. Written(m, msgs, lists)
  BY CopyWrites
<1>1. /\ \A x \in Msg \ NewMsgs(m, msgs) : fields'[x] = fields[x]
      /\ \A l \in List \ NewLists(m, lists) : elems'[l] = elems[l]
      /\ \A pf \in ListsIn(m) : /\ lists[pf] \in List
                                /\ ToSet(elems'[lists[pf]]) \subseteq Scalar \cup NewMsgs(m, msgs)
  BY <1>0 DEF Written
<1>2. /\ \A pf \in ListsIn(m) : lists[pf] \in List \ Used
      /\ \A p \in Places(m) : msgs[p] \in Msg /\ Blank(msgs[p])
  BY DEF Target
<1>3. NewMsgs(m, msgs) \subseteq Msg /\ NewLists(m, lists) \subseteq List
  BY <1>2 DEF NewMsgs, NewLists
<1>4. Msg \cap List = {} /\ Msg \cap Scalar = {}
  BY SortsAssumption
<1>5. ASSUME NEW x \in NewMsgs(m, msgs)
      PROVE  Children(x)' \subseteq T
  <2>1. PICK p \in Places(m) :
          \A g \in Field : fields'[x][g] = FieldCopy(At(m, p), p, g, msgs, lists)
    BY <1>0 DEF Written
  <2>4. \A g \in Field : CopyOf(m, msgs, lists, p, g, FieldCopy(At(m, p), p, g, msgs, lists))
    BY CopyOfField
  <2>5. \A g \in Field : CopyOf(m, msgs, lists, p, g, fields'[x][g])
    BY <2>1, <2>4
  <2>2. \A f \in Field \ ListField, c \in Msg : fields'[x][f] = c => c \in NewMsgs(m, msgs)
    <3> SUFFICES ASSUME NEW f \in Field \ ListField, fields'[x][f] \in Msg
                 PROVE  fields'[x][f] \in NewMsgs(m, msgs)
      OBVIOUS
    <3>1. fields'[x][f] # Unset /\ fields'[x][f] \notin Scalar
      BY <1>4, SortFacts
    <3>3. \E q \in Places(m) : fields'[x][f] = msgs[q]
      BY <2>5, <3>1 DEF CopyOf
    <3> QED BY <3>3 DEF NewMsgs
  <2>3. \A f \in ListField : fields'[x][f] # Unset => fields'[x][f].list \in NewLists(m, lists)
    <3> SUFFICES ASSUME NEW f \in ListField, fields'[x][f] # Unset
                 PROVE  fields'[x][f].list \in NewLists(m, lists)
      OBVIOUS
    <3>1. <<p, f>> \in ListsIn(m) /\ fields'[x][f] = [desc |-> f, list |-> lists[<<p, f>>]]
      BY <2>5, SortFacts DEF CopyOf
    <3> QED BY <3>1 DEF NewLists
  <2> QED BY <1>3, <2>2, <2>3 DEF Children, MsgChildren
<1>6. ASSUME NEW l \in NewLists(m, lists)
      PROVE  Children(l)' \subseteq T
  <2>1. ToSet(elems'[l]) \subseteq Scalar \cup NewMsgs(m, msgs)
    BY <1>1 DEF NewLists
  <2> QED BY <1>3, <1>4, <2>1 DEF Children
<1>7. ASSUME NEW x \in Object \ T
      PROVE  Children(x)' \subseteq Object \ T
  <2>1. \A c \in Children(x) : c \in Object
    BY DEF Children, MsgChildren
  <2>2. Children(x) \cap NewMsgs(m, msgs) = {}
    BY <1>2 DEF NewMsgs, Blank
  <2>3. CASE x \in Msg
    <3>1. fields'[x] = fields[x]
      BY <1>1, <2>3
    <3>2. Children(x)' = Children(x)
      BY <2>3, <3>1 DEF Children, MsgChildren
    <3>3. ASSUME NEW f \in ListField, fields[x][f] # Unset
          PROVE  fields[x][f].list \in Used
      BY <2>3, <3>3, SortFacts DEF IInv, FieldsOK, Used
    <3>4. Children(x) \cap NewLists(m, lists) = {}
      BY <1>2, <1>4, <2>3, <3>3 DEF Children, MsgChildren, NewLists
    <3> QED BY <2>1, <2>2, <3>2, <3>4
  <2>4. CASE x \notin Msg
    <3>1. Children(x)' = Children(x)
      BY <1>1, <2>4 DEF Children
    <3>2. Children(x) \subseteq Msg
      BY <2>4 DEF Children
    <3> QED BY <1>3, <1>4, <2>2, <3>1, <3>2
  <2> QED BY <2>3, <2>4
<1>9. \A x \in T : Children(x)' \subseteq T
  BY <1>5, <1>6
<1>10. \A x \in Object \ T : Children(x)' \subseteq Object \ T
  BY <1>7
<1> QED BY <1>9, <1>10 DEF Closed

(* The message itself is at a place. *)
LEMMA FirstPlace ==
  ASSUME NEW m \in Msg
  PROVE  <<>> \in Places(m) /\ At(m, <<>>) = m
<1>1. Cardinality(Msg) \in Nat \ {0}
  BY BuildAssumption, FS_CardinalityType, FS_EmptySet
<1>2. 0 \in 0..Cardinality(Msg) - 1 /\ <<>> \in [1..0 -> Hops] /\ Len(<<>>) = 0
  BY <1>1
<1> QED BY <1>2 DEF Places, At, Stop

(* So the copy and its original share nothing. *)
LEMMA CloneApart ==
  ASSUME IInv, NEW m \in Msg, NEW n \in Msg, Clone(m, n)
  PROVE  (Reach(m) \cap Reach(n))' = {}
<1>1. PICK msgs \in [Places(m) -> {x \in Msg \ {m} : Blank(x)}],
           lists \in [ListsIn(m) -> List \ Used] :
        msgs[<<>>] = n /\ Injective(msgs) /\ Injective(lists) /\ PutCopy(m, msgs, lists)
  BY DEF Clone
<1>2. Target(m, msgs, lists)
  BY <1>1 DEF Clone, Target
<1>3. PICK T \in SUBSET Object : T = NewMsgs(m, msgs) \cup NewLists(m, lists)
  BY <1>1 DEF NewMsgs, NewLists
<1>4. Closed(T)' /\ Closed(Object \ T)'
  BY <1>1, <1>2, <1>3, CopyApart
<1>5. n \in T
  <2>1. <<>> \in Places(m)
    BY FirstPlace
  <2> QED BY <1>1, <1>3, <2>1 DEF NewMsgs
<1>6. m \in Object \ T
  <2>1. m \notin NewLists(m, lists)
    BY <1>1, SortsAssumption DEF NewLists
  <2> QED BY <1>1, <1>3, <2>1 DEF NewMsgs
<1>7. Reach(n)' \subseteq T
  BY <1>4, <1>5 DEF Reach, Closed
<1>8. Reach(m)' \subseteq Object \ T
  BY <1>4, <1>6 DEF Reach, Closed
<1> QED BY <1>7, <1>8

-----------------------------------------------------------------------------
(* The copy is equal to what it is a copy of.                              *)

(* The Protobuf value of a field. *)
FieldProto(f, v, es, below) ==
  IF v = Unset THEN <<>>
  ELSE IF f \in ListField
    THEN LET s == es[v.list] IN
      IF ToSet(s) \subseteq Fits[f]
        THEN [i \in DOMAIN s |-> IF s[i] \in Msg THEN below[s[i]] ELSE Proto[f][s[i]]]
        ELSE <<>>
  ELSE IF v \in Msg THEN <<below[v]>>
  ELSE IF f \notin HasPresence /\ Proto[f][v] \in Zero THEN <<>> ELSE <<Proto[f][v]>>

(* A message that is copied is none of the new ones. *)
LEMMA PlacesStay ==
  ASSUME IInv, NEW m, NEW msgs, NEW lists, Target(m, msgs, lists), NEW p \in Places(m)
  PROVE  At(m, p) \in Msg /\ At(m, p) \notin NewMsgs(m, msgs)
<1>1. /\ m \in Msg
      /\ \A q \in Places(m) : msgs[q] \in Msg /\ msgs[q] # m /\ Blank(msgs[q])
  BY DEF Target
<1>2. /\ Len(p) \in Nat /\ p \in Seq(Hops)
      /\ \A i \in 0..Len(p) : Stop(m, p, i) \in Msg
      /\ At(m, p) \in Msg
      /\ \A i \in 1..Len(p) : Holds(Stop(m, p, i - 1), p[i][1], p[i][2], p[i][3])
  BY <1>1, PlaceType
<1>3. CASE Len(p) = 0
  BY <1>1, <1>3 DEF At, Stop, NewMsgs
<1>4. CASE Len(p) # 0
  <2>1. PICK n \in 1..Len(p) : n = Len(p) /\ n - 1 \in 0..Len(p)
    BY <1>2, <1>4
  <2>2. p[n] \in MsgField \X Index \X Msg
    BY <1>2 DEF Hops
  <2>3. PICK y \in Msg, f \in Field, i \in Index, c \in Msg :
          y = Stop(m, p, n - 1) /\ f = p[n][1] /\ i = p[n][2] /\ c = p[n][3]
    BY <1>2, <2>1, <2>2 DEF MsgField
  <2>4. c = At(m, p) /\ Holds(y, f, i, c)
    BY <1>2, <1>4, <2>1, <2>3 DEF At, Stop
  <2>5. \E o \in Object : c \in Children(o)
    BY <2>4, HoldsChild
  <2>6. ~Blank(At(m, p))
    BY <2>4, <2>5 DEF Blank
  <2> QED BY <1>1, <1>2, <2>6 DEF NewMsgs
<1> QED BY <1>3, <1>4

(* The copy of a field has the same Protobuf value. *)
LEMMA FieldSame ==
  ASSUME IInv, NEW m, NEW msgs, NEW lists, Target(m, msgs, lists), PutCopy(m, msgs, lists),
         NEW p \in Places(m), NEW f \in Field, NEW below,
         \A q \in Places(m) : below[At(m, q)] = below[msgs[q]]
  PROVE  FieldProto(f, fields[At(m, p)][f], elems', below) =
           FieldProto(f, FieldCopy(At(m, p), p, f, msgs, lists), elems', below)
<1>0. Written(m, msgs, lists)
  BY CopyWrites
<1>1. PICK v : v = fields[At(m, p)][f]
  OBVIOUS
<1>2. PICK c : c = FieldCopy(At(m, p), p, f, msgs, lists)
  OBVIOUS
<1>3. /\ At(m, p) \in Msg
      /\ v \in {Unset} \cup (IF f \in ListField THEN reps ELSE Element)
      /\ f \notin ListField => v = Unset \/ v \in Fits[f]
  BY <1>1, PlacesStay DEF IInv, FieldsOK, SingularFit
<1>4. CASE v = Unset
  BY <1>1, <1>2, <1>4 DEF FieldCopy, Kept
<1>5. CASE f \in ListField /\ v # Unset
  <2>1. v \in reps /\ v.list \in Used /\ v.list \in List
    BY <1>3, <1>5 DEF Used, IInv, ListsOK
  <2>2. elems'[v.list] = elems[v.list]
    <3>1. v.list \notin NewLists(m, lists)
      BY <2>1 DEF NewLists, Target
    <3> QED BY <1>0, <2>1, <3>1 DEF Written
  <2>3. PICK s \in Seq(Element) : s = elems[v.list]
    BY <2>1 DEF IInv, ListsOK
  <2>4. CASE ~(ToSet(s) \subseteq Fits[f])
    <3>1. c = Unset
      BY <1>1, <1>2, <1>5, <2>3, <2>4 DEF FieldCopy, Kept, Conforms
    <3> QED BY <1>1, <1>2, <1>5, <2>2, <2>3, <2>4, <3>1 DEF FieldProto
  <2>5. CASE ToSet(s) \subseteq Fits[f] /\ s = <<>>
    <3>1. c = Unset
      BY <1>1, <1>2, <1>5, <2>3, <2>5 DEF FieldCopy, Kept
    <3>2. [i \in DOMAIN s |-> IF s[i] \in Msg THEN below[s[i]] ELSE Proto[f][s[i]]] = <<>>
      BY <2>5
    <3> QED BY <1>1, <1>2, <1>5, <2>2, <2>3, <2>5, <3>1, <3>2 DEF FieldProto
  <2>6. CASE ToSet(s) \subseteq Fits[f] /\ s # <<>>
    <3>1. <<p, f>> \in ListsIn(m)
      BY <1>1, <1>5, <2>1, <2>3, <2>6 DEF ListsIn, Kept, Conforms
    <3>2. c = [desc |-> f, list |-> lists[<<p, f>>]]
      BY <1>1, <1>2, <1>5, <2>1, <2>3, <2>6 DEF FieldCopy, Kept, Conforms
    <3>3. PICK t : t = elems'[lists[<<p, f>>]]
      OBVIOUS
    <3>4. t = ElemsCopy(At(m, p), p, f, msgs) /\ ToSet(t) \subseteq Fits[f]
      BY <1>0, <3>1, <3>3 DEF Written, CopiedElems
    <3>5. Kept(f, fields[At(m, p)][f]) /\ s = elems[fields[At(m, p)][f].list]
      BY <1>1, <1>5, <2>1, <2>3, <2>6 DEF Kept, Conforms
    <3>6. DOMAIN t = DOMAIN s
      BY <3>4, <3>5 DEF ElemsCopy
    <3> DEFINE value(x) == IF x \in Msg THEN below[x] ELSE Proto[f][x]
    <3>7. ASSUME NEW i \in DOMAIN s
          PROVE  value(t[i]) = value(s[i])
      <4>1. /\ s[i] \in Msg => \E q \in Places(m) : t[i] = msgs[q] /\ At(m, q) = s[i]
            /\ s[i] \notin Msg => t[i] \in Scalar /\ Proto[f][t[i]] = Proto[f][s[i]]
        BY <1>5, <3>4, <3>5, CopyOfElement
      <4>2. CASE s[i] \in Msg
        <5>1. PICK q \in Places(m) : t[i] = msgs[q] /\ At(m, q) = s[i]
          BY <4>1, <4>2
        <5>2. t[i] \in Msg /\ below[s[i]] = below[t[i]]
          BY <5>1 DEF Target
        <5> QED BY <4>2, <5>2
      <4>3. CASE s[i] \notin Msg
        BY <4>1, <4>3, SortsAssumption
      <4> QED BY <4>2, <4>3
    <3>8. [i \in DOMAIN t |-> value(t[i])] = [i \in DOMAIN s |-> value(s[i])]
      <4> HIDE DEF value
      <4> QED BY <3>6, <3>7
    <3>9. c # Unset /\ c.list = lists[<<p, f>>]
      <4>1. c \in Repeated
        BY <1>0, <1>5, <3>1, <3>2 DEF Written
      <4> QED BY <3>2, <4>1, SortFacts
    <3>10. FieldProto(f, v, elems', below) = [i \in DOMAIN s |-> value(s[i])]
      BY <1>5, <2>2, <2>3, <2>6 DEF FieldProto
    <3>11. FieldProto(f, c, elems', below) = [i \in DOMAIN t |-> value(t[i])]
      BY <1>5, <3>3, <3>4, <3>9 DEF FieldProto
    <3> QED BY <1>1, <1>2, <3>8, <3>10, <3>11
  <2> QED BY <2>4, <2>5, <2>6
<1>6. CASE f \notin ListField /\ v \in Msg
  <2>1. v # Unset /\ v \in Fits[f]
    BY <1>3, <1>6, SortFacts
  <2>2. Append(p, <<f, 0, v>>) \in Places(m) /\ At(m, Append(p, <<f, 0, v>>)) = v
    BY <1>1, <1>6, PlaceField DEF Target
  <2>3. PICK q \in Places(m) : q = Append(p, <<f, 0, v>>) /\ At(m, q) = v
    BY <2>2
  <2>4. c = msgs[q] /\ c \in Msg /\ c # Unset
    <3>1. c = msgs[q]
      BY <1>1, <1>2, <1>6, <2>1, <2>3 DEF FieldCopy, Kept
    <3>2. c \in Msg
      BY <3>1 DEF Target
    <3> QED BY <3>1, <3>2, SortFacts
  <2>5. below[v] = below[c]
    BY <2>3, <2>4
  <2> QED BY <1>1, <1>2, <1>6, <2>1, <2>4, <2>5 DEF FieldProto
<1>7. CASE f \notin ListField /\ v \notin Msg /\ v # Unset
  <2>1. v \in Fits[f] /\ v \in Scalar
    BY <1>3, <1>7
  <2>2. c = IF IsSet(f, v) THEN RoundTrip[f][v] ELSE Unset
    BY <1>1, <1>2, <1>7, <2>1 DEF FieldCopy, Kept
  <2>3. IsSet(f, v) => RoundTrip[f][v] \in Scalar /\ Proto[f][RoundTrip[f][v]] = Proto[f][v]
    <3>1. ~Nameless(At(m, p), f)
      BY DEF Target, Fails
    <3>2. IsSet(f, v) => RoundTrip[f][v] # Overflow
      BY <1>1, <1>7, <2>1, <3>1 DEF Nameless, Kept
    <3> QED BY <2>1, <3>2, BuildAssumption
  <2>4. \A x \in Scalar : x # Unset /\ x \notin Msg
    BY SortsAssumption
  <2>5. CASE IsSet(f, v)
    BY <1>1, <1>2, <1>7, <2>1, <2>2, <2>3, <2>4, <2>5 DEF FieldProto
  <2>6. CASE ~IsSet(f, v)
    BY <1>1, <1>2, <1>7, <2>1, <2>2, <2>3, <2>4, <2>6 DEF FieldProto, IsSet
  <2> QED BY <2>5, <2>6
<1> QED BY <1>4, <1>5, <1>6, <1>7

(* To every depth, the copy of each message has the value of the message. *)
LEMMA CopyExact ==
  ASSUME IInv, NEW m, NEW msgs, NEW lists, Target(m, msgs, lists), PutCopy(m, msgs, lists),
         NEW n \in Nat, NEW T, Levels(T, n)'
  PROVE  \A p \in Places(m) : T[n][At(m, p)] = T[n][msgs[p]]
<1> DEFINE Same(k) == \A p \in Places(m) : T[k][At(m, p)] = T[k][msgs[p]]
           S == {k \in Nat : k <= n => Same(k)}
<1>0. Written(m, msgs, lists)
  BY CopyWrites
<1>1. \A k \in 0..n : \A x \in Msg :
        T[k][x] = IF k = 0 THEN <<>> ELSE ProtoValue(x, T[k - 1])'
  BY DEF Levels
<1>2. \A p \in Places(m) : msgs[p] \in Msg /\ At(m, p) \in Msg
  BY PlacesStay DEF Target
<1>3. \A x, below : ProtoValue(x, below)' = [f \in Field |-> FieldProto(f, fields'[x][f], elems', below)]
  BY DEF ProtoValue, FieldProto
<1>4. ASSUME NEW p \in Places(m), NEW f \in Field
      PROVE  /\ fields'[At(m, p)][f] = fields[At(m, p)][f]
             /\ fields'[msgs[p]][f] = FieldCopy(At(m, p), p, f, msgs, lists)
  <2>1. fields'[At(m, p)] = fields[At(m, p)]
    BY <1>0, PlacesStay DEF Written
  <2>2. msgs[p] \in NewMsgs(m, msgs)
    BY DEF NewMsgs
  <2>3. PICK q \in Places(m) :
          msgs[q] = msgs[p] /\ \A g \in Field : fields'[msgs[p]][g] = FieldCopy(At(m, q), q, g, msgs, lists)
    BY <1>0, <2>2 DEF Written
  <2>4. q = p
    BY <2>3 DEF Target, Injective
  <2> QED BY <2>1, <2>3, <2>4
<1>5. 0 \in S
  BY <1>1, <1>2
<1>6. ASSUME NEW k \in S PROVE k + 1 \in S
  <2> SUFFICES ASSUME k + 1 <= n, NEW p \in Places(m)
               PROVE  T[k + 1][At(m, p)] = T[k + 1][msgs[p]]
    OBVIOUS
  <2>1. k \in Nat /\ k + 1 \in 0..n /\ k + 1 # 0 /\ k + 1 - 1 = k
    OBVIOUS
  <2>2. Same(k)
    BY <2>1
  <2>3. T[k + 1][At(m, p)] = ProtoValue(At(m, p), T[k])' /\ T[k + 1][msgs[p]] = ProtoValue(msgs[p], T[k])'
    BY <1>1, <1>2, <2>1
  <2>4. \A f \in Field :
          FieldProto(f, fields'[At(m, p)][f], elems', T[k]) = FieldProto(f, fields'[msgs[p]][f], elems', T[k])
    <3> SUFFICES ASSUME NEW f \in Field
                 PROVE  FieldProto(f, fields'[At(m, p)][f], elems', T[k])
                          = FieldProto(f, fields'[msgs[p]][f], elems', T[k])
      OBVIOUS
    <3>1. FieldProto(f, fields[At(m, p)][f], elems', T[k])
            = FieldProto(f, FieldCopy(At(m, p), p, f, msgs, lists), elems', T[k])
      BY <2>2, FieldSame
    <3> QED BY <1>4, <3>1
  <2> QED BY <1>3, <2>3, <2>4
<1> HIDE DEF S
<1>7. S = Nat
  <2>1. S \in SUBSET Nat
    BY DEF S
  <2> QED BY <1>5, <1>6, <2>1, SetInduction
<1>8. n \in S
  BY <1>7
<1> QED BY <1>8 DEF S

(* So the clone has the Protobuf value of its argument. *)
LEMMA CloneSame ==
  ASSUME IInv, NEW m \in Msg, NEW n \in Msg, Clone(m, n)
  PROVE  (Tree[m] = Tree[n])'
<1>1. PICK msgs \in [Places(m) -> {x \in Msg \ {m} : Blank(x)}],
           lists \in [ListsIn(m) -> List \ Used] :
        msgs[<<>>] = n /\ Injective(msgs) /\ Injective(lists) /\ PutCopy(m, msgs, lists)
  BY DEF Clone
<1>2. Target(m, msgs, lists)
  BY <1>1 DEF Clone, Target
<1>3. Cardinality(Msg) \in Nat
  BY BuildAssumption, FS_CardinalityType
<1>4. (\E T : Levels(T, Cardinality(Msg)) /\ Tree = T[Cardinality(Msg)])'
  BY TreeLevels, PTL
<1>5. PICK T : Levels(T, Cardinality(Msg))' /\ Tree' = T[Cardinality(Msg)]
  BY <1>4
<1>6. \A p \in Places(m) : T[Cardinality(Msg)][At(m, p)] = T[Cardinality(Msg)][msgs[p]]
  BY <1>1, <1>2, <1>3, <1>5, CopyExact
<1>7. <<>> \in Places(m) /\ At(m, <<>>) = m
  BY FirstPlace
<1> QED BY <1>1, <1>5, <1>6, <1>7

-----------------------------------------------------------------------------
(* The steps.                                                              *)

(* The invariant of the module. *)
BuildInv ==
  /\ BInv
  /\ steps \in 0..MaxSteps
  /\ crashed \in BOOLEAN
  /\ cloned \in {NoCall} \cup (Msg \X Msg)
  /\ CloneExact
  /\ CloneIndependent

(* A good step that freezes nothing keeps the invariant of the heap. *)
LEMMA GoodKeeps ==
  ASSUME IInv, Good, UNCHANGED frozen, failed' \in BOOLEAN
  PROVE  IInv' /\ Untouched /\ (failed' => Contained)
<1>1. FrozenClosed'
  BY ClosedKept DEF Good, IInv
<1>2. Used \subseteq Used'
  BY DEF Good, IInv, ListsOK, Used
<1>3. FrozenExist'
  BY <1>2 DEF FrozenExist, IInv
<1> QED BY <1>1, <1>3 DEF Good, IInv

(* A program starts with an empty heap, but for a list and a field. *)
LEMMA BuildStarts == BuildInit => BuildInv
<1> SUFFICES ASSUME BuildInit PROVE BuildInv
  OBVIOUS
<1>1. FieldsOK
  <2>0. PICK m \in Msg, f \in Field \ ListField :
          \E v \in (Fits[f] \cap Scalar) \cup {Unset} : fields = Holding(m, f, v)
    BY DEF BuildInit
  <2>1. PICK v \in (Fits[f] \cap Scalar) \cup {Unset} : fields = Holding(m, f, v)
    BY <2>0
  <2>2. \A x \in Msg, g \in Field : fields[x][g] = IF x = m /\ g = f THEN v ELSE Unset
    BY <2>1 DEF Holding
  <2>3. fields \in [Msg -> [Field -> Element \cup Repeated \cup {Unset}]]
    BY <2>1 DEF Holding
  <2>4. OneofExclusive /\ SingularFit
    BY <2>2, SortFacts DEF OneofExclusive, SingularFit
  <2>5. \A x \in Msg, g \in Field :
          fields[x][g] \in {Unset} \cup (IF g \in ListField THEN reps ELSE Element)
    BY <2>2
  <2> QED BY <2>3, <2>4, <2>5 DEF FieldsOK
<1>2. ListsOK
  <2>1. \A n \in 0..MaxLen : [1..n -> Element] \subseteq Seq(Element)
    BY SchemaAssumption
  <2>2. Contents \subseteq Seq(Element)
    BY <2>1 DEF Contents
  <2>3. elems \in [List -> Seq(Element)] /\ raw \subseteq List /\ reps = {}
    BY <2>2 DEF BuildInit
  <2> QED BY <2>3 DEF ListsOK, ListsTyped, OneWindow
<1>3. FrozenExist /\ FrozenClosed /\ failed \in BOOLEAN
  BY DEF BuildInit, FrozenExist, FrozenClosed
<1>4. CallTyped /\ SoFar /\ CloneExact /\ CloneIndependent
  BY DEF BuildInit, CallTyped, SoFar, CloneExact, CloneIndependent
<1>5. steps \in 0..MaxSteps /\ crashed \in BOOLEAN /\ cloned \in {NoCall} \cup (Msg \X Msg)
  <2>1. MaxSteps \in Nat
    BY BuildAssumption
  <2>2. 0 \in 0..MaxSteps
    BY <2>1
  <2> QED BY <2>2 DEF BuildInit
<1> QED BY <1>1, <1>2, <1>3, <1>4, <1>5 DEF BuildInv, BInv, IInv

(* The constructor has done nothing yet. *)
LEMMA ConstructStep ==
  ASSUME BuildInv, NEW m \in Msg, NEW args \in Args, Construct(m, args), cloned' = NoCall
  PROVE  IInv' /\ CallTyped' /\ SoFar'
<1>1. /\ call' = [msg |-> m, args |-> args, todo |-> DOMAIN args, ok |-> TRUE, elems |-> elems]
      /\ UNCHANGED heap /\ failed' = FALSE
  BY DEF Construct, Given
<1>2. UNCHANGED <<fields, elems, frozen, raw, reps>>
  BY <1>1 DEF heap
<1>3. IInv'
  BY <1>1, SameHeap, GoodKeeps DEF BuildInv, BInv
<1>4. /\ call'.msg = m /\ call'.args = args /\ call'.todo = DOMAIN args
      /\ call'.ok = TRUE /\ call'.elems = elems
  BY <1>1
<1>5. DOMAIN args \subseteq Field /\ \A f \in DOMAIN args : args[f] \in Argument
  BY DEF Args, Argument
<1>6. m \notin frozen /\ \A f \in Field : fields[m][f] = Unset
  BY DEF Construct, Blank
<1>7. CallTyped'
  BY <1>1, <1>2, <1>4, <1>5, <1>6 DEF CallTyped, Argument, BuildInv, BInv, IInv, ListsOK
<1>8. Finished' = {} /\ Members(Finished)' = {}
  BY <1>4 DEF Finished, Members
<1>9. ListsLeft' /\ FieldsDone'
  BY <1>2, <1>4, <1>6, <1>8 DEF ListsLeft, FieldsDone
<1> QED BY <1>3, <1>4, <1>7, <1>8, <1>9 DEF SoFar

(* The constructor returns, or drops the message that it made. *)
LEMMA ConstructedStep ==
  ASSUME BuildInv, call # NoCall, Constructed
  PROVE  IInv' /\ Untouched /\ failed' = FALSE /\ call' = NoCall
<1>1. /\ UNCHANGED <<elems, frozen, raw, reps>> /\ failed' = FALSE /\ call' = NoCall
      /\ fields' = IF call.ok THEN fields ELSE [fields EXCEPT ![call.msg] = [f \in Field |-> Unset]]
  BY DEF Constructed
<1>2. CASE call.ok
  BY <1>1, <1>2, SameHeap, GoodKeeps DEF BuildInv, BInv, heap
<1>3. CASE ~call.ok
  <2>1. PICK m \in Msg : m = call.msg /\ m \notin frozen
    BY DEF BuildInv, BInv, CallTyped
  <2>2. PICK h \in [Field -> Element \cup Repeated \cup {Unset}] : h = [f \in Field |-> Unset]
    OBVIOUS
  <2>3. FieldsOK' /\ \A x \in Msg \ {m} : fields'[x] = fields[x]
    BY <1>1, <1>3, <2>1, <2>2, UnsetKeeps DEF BuildInv, BInv, IInv
  <2>4. Good
    BY <1>1, <2>1, <2>3, FieldStep DEF BuildInv, BInv, Mutable
  <2> QED BY <1>1, <2>4, GoodKeeps DEF BuildInv, BInv
<1> QED BY <1>2, <1>3

(* proto.clone keeps the heap in order; its result is equal to its         *)
(* argument and shares nothing with it.                                    *)
LEMMA CloneStep ==
  ASSUME BuildInv, call = NoCall, NEW m \in Msg, NEW n \in Msg, Clone(m, n)
  PROVE  IInv' /\ Untouched /\ failed' = FALSE /\ call' = NoCall
         /\ CloneExact' /\ CloneIndependent'
<1>1. PICK msgs \in [Places(m) -> {x \in Msg \ {m} : Blank(x)}],
           lists \in [ListsIn(m) -> List \ Used] :
        msgs[<<>>] = n /\ Injective(msgs) /\ Injective(lists) /\ PutCopy(m, msgs, lists)
  BY DEF Clone
<1>2. Target(m, msgs, lists)
  BY <1>1 DEF Clone, Target
<1>3. /\ UNCHANGED <<raw, frozen>> /\ failed' = FALSE /\ call' = call /\ cloned' = <<m, n>>
  BY DEF Clone
<1>4. IInv
  BY DEF BuildInv, BInv
<1>5. Good
  BY <1>1, <1>2, <1>3, <1>4, CopyGood
<1>6. IInv' /\ Untouched
  BY <1>3, <1>4, <1>5, GoodKeeps
<1>7. (Reach(m) \cap Reach(n))' = {}
  BY <1>4, CloneApart
<1>8. (Tree[m] = Tree[n])'
  BY <1>4, CloneSame
<1>9. CloneExact' /\ CloneIndependent'
  BY <1>3, <1>7, <1>8 DEF CloneExact, CloneIndependent
<1> QED BY <1>3, <1>6, <1>9

(* Every step keeps the invariant, writes to nothing frozen, and changes   *)
(* nothing but lists if it fails.                                          *)
LEMMA BuildStep ==
  ASSUME BuildInv, [BuildNext]_buildVars
  PROVE  BuildInv' /\ [Untouched]_vars /\ [failed' => Contained]_vars
<1>0. BInv /\ IInv /\ CallTyped /\ SoFar
  BY DEF BuildInv, BInv
<1>1. CASE UNCHANGED buildVars
  <2>1. UNCHANGED <<fields, elems, frozen, raw, reps, failed, call, cloned, crashed, steps>>
    BY <1>1 DEF buildVars
  <2>2. UNCHANGED vars
    BY <2>1 DEF vars
  <2>3. IInv'
    BY <1>0, <2>2, StepGood
  <2>4. CallTyped'
    BY <1>0, <2>1 DEF CallTyped, Argument
  <2>5. SoFar'
    BY <1>0, <2>1 DEF SoFar, Finished, ListsLeft, FieldsDone, Members, Stored, Converted,
      ListsDiffer, ListOf, Acceptable, Mutable
  <2>6. CloneIndependent'
    BY <2>1 DEF BuildInv, CloneIndependent, Reach, Children, MsgChildren
  <2>7. Tree' = Tree
    BY <2>1 DEF Tree, ProtoValue
  <2>8. CloneExact'
    BY <2>1, <2>7 DEF BuildInv, CloneExact
  <2> QED BY <2>1, <2>2, <2>3, <2>4, <2>5, <2>6, <2>8 DEF BuildInv, BInv
<1>2. ASSUME Program PROVE steps' \in 0..MaxSteps /\ call = NoCall
  BY <1>2, BuildAssumption DEF Program, BuildInv
<1>3. ASSUME NEW m \in Msg, NEW n \in Msg, Clone(m, n), Program
      PROVE  BuildInv' /\ [Untouched]_vars /\ [failed' => Contained]_vars
  <2>1. IInv' /\ Untouched /\ failed' = FALSE /\ call' = NoCall /\ CloneExact' /\ CloneIndependent'
    BY <1>2, <1>3, CloneStep
  <2>2. cloned' = <<m, n>> /\ crashed' = crashed
    BY <1>3 DEF Clone
  <2>3. CallTyped' /\ SoFar'
    BY <2>1 DEF CallTyped, SoFar
  <2> QED BY <1>2, <1>3, <2>1, <2>2, <2>3 DEF BuildInv, BInv
<1>4. ASSUME Next, UNCHANGED <<call, crashed>>, cloned' = NoCall, Program
      PROVE  BuildInv' /\ [Untouched]_vars /\ [failed' => Contained]_vars
  <2>1. IInv' /\ Untouched /\ (~UNCHANGED vars /\ failed' => Contained)
    BY <1>0, <1>4, StepGood
  <2>2. call' = NoCall
    BY <1>2, <1>4
  <2>3. CallTyped' /\ SoFar' /\ CloneExact' /\ CloneIndependent'
    BY <1>4, <2>2 DEF CallTyped, SoFar, CloneExact, CloneIndependent
  <2> QED BY <1>2, <1>4, <2>1, <2>3 DEF BuildInv, BInv
<1>5. ASSUME NEW m \in Msg, NEW args \in Args, Construct(m, args), cloned' = NoCall, Program
      PROVE  BuildInv' /\ [Untouched]_vars /\ [failed' => Contained]_vars
  <2>1. IInv' /\ CallTyped' /\ SoFar'
    BY <1>5, ConstructStep
  <2>2. UNCHANGED heap /\ failed' = FALSE /\ crashed' = crashed
    BY <1>5 DEF Construct
  <2>3. Untouched
    BY <2>2 DEF Untouched, heap
  <2>4. CloneExact' /\ CloneIndependent'
    BY <1>5 DEF CloneExact, CloneIndependent
  <2> QED BY <1>2, <1>5, <2>1, <2>2, <2>3, <2>4 DEF BuildInv, BInv
<1>6. ASSUME NEW m \in Msg, CloneCrashes(m), cloned' = NoCall, Program
      PROVE  BuildInv' /\ [Untouched]_vars /\ [failed' => Contained]_vars
  <2>1. UNCHANGED heap /\ failed' = failed /\ call' = call /\ crashed' = TRUE
    BY <1>6 DEF CloneCrashes
  <2>2. UNCHANGED vars
    BY <2>1 DEF heap, vars
  <2>3. IInv'
    BY <1>0, <2>2, StepGood
  <2>4. CallTyped' /\ SoFar' /\ CloneExact' /\ CloneIndependent'
    BY <1>2, <1>6, <2>1 DEF CallTyped, SoFar, CloneExact, CloneIndependent
  <2> QED BY <1>2, <1>6, <2>1, <2>2, <2>3, <2>4 DEF BuildInv, BInv
<1>7. ASSUME NEW m \in Msg, CloneFails(m), cloned' = NoCall, Program
      PROVE  BuildInv' /\ [Untouched]_vars /\ [failed' => Contained]_vars
  <2>1. UNCHANGED heap /\ failed' = TRUE /\ call' = call /\ crashed' = crashed
    BY <1>7 DEF CloneFails, Refused
  <2>2. IInv' /\ Untouched /\ (failed' => Contained)
    BY <1>0, <2>1, SameHeap, GoodKeeps DEF heap
  <2>3. CallTyped' /\ SoFar' /\ CloneExact' /\ CloneIndependent'
    BY <1>2, <1>7, <2>1 DEF CallTyped, SoFar, CloneExact, CloneIndependent
  <2> QED BY <1>2, <1>7, <2>1, <2>2, <2>3 DEF BuildInv, BInv
<1>8. ASSUME call # NoCall, NEW f \in call.todo, SetArg(f), UNCHANGED <<crashed, cloned, steps>>
      PROVE  BuildInv' /\ [Untouched]_vars /\ [failed' => Contained]_vars
  <2>1. call.msg \in Msg /\ f \in Field /\ call.args[f] \in Argument /\ cloned = NoCall
    BY <1>0, <1>8 DEF CallTyped
  <2>2. SetField(call.msg, f, call.args[f])
    BY <1>8 DEF SetArg
  <2>3. MsgStep(call.msg)
    BY <2>1, <2>2, SetFieldIsStep
  <2>4. Good /\ UNCHANGED frozen
    BY <1>0, <2>1, <2>3, MsgStepGood
  <2>5. IInv' /\ Untouched /\ (~UNCHANGED vars /\ failed' => Contained)
    BY <1>0, <2>1, <2>3, StepGood DEF Next
  <2>6. raw' = raw /\ reps \subseteq reps' /\ reps' \subseteq Repeated
    BY <2>4, <2>5 DEF Good, IInv, ListsOK
  <2>7. CallTyped' /\ SoFar'
    BY <1>0, <1>8, <2>4, <2>6, SetArgKeeps
  <2>8. CloneExact' /\ CloneIndependent'
    BY <1>8, <2>1 DEF CloneExact, CloneIndependent
  <2> QED BY <1>8, <2>5, <2>7, <2>8 DEF BuildInv, BInv
<1>9. ASSUME call # NoCall, Constructed, UNCHANGED <<cloned, steps>>
      PROVE  BuildInv' /\ [Untouched]_vars /\ [failed' => Contained]_vars
  <2>1. IInv' /\ Untouched /\ failed' = FALSE /\ call' = NoCall
    BY <1>9, ConstructedStep
  <2>2. crashed' = crashed /\ cloned = NoCall
    BY <1>0, <1>9 DEF Constructed, CallTyped
  <2>3. CallTyped' /\ SoFar' /\ CloneExact' /\ CloneIndependent'
    BY <1>9, <2>1, <2>2 DEF CallTyped, SoFar, CloneExact, CloneIndependent
  <2> QED BY <1>9, <2>1, <2>2, <2>3 DEF BuildInv, BInv
<1>10. CASE BuildNext /\ Program
  BY <1>3, <1>4, <1>5, <1>6, <1>7, <1>10 DEF Program
<1>11. CASE BuildNext /\ ~Program
  BY <1>8, <1>9, <1>11 DEF BuildNext
<1> QED BY <1>1, <1>10, <1>11

(* The inductive invariant holds in every reachable state. *)
THEOREM BuildInductive == BuildSpec => []BuildInv
BY BuildStarts, BuildStep, PTL DEF BuildSpec

(* Constructors and clones leave the heap well typed. *)
THEOREM BuildTypeCorrect == BuildSpec => []BuildTypeOK
<1>1. ASSUME BuildInv PROVE BuildTypeOK
  <2>1. TypeOK
    <3>1. frozen \subseteq Object
      BY <1>1 DEF BuildInv, BInv, IInv, ListsOK, FrozenExist, Used
    <3> QED BY <1>1, <3>1 DEF BuildInv, BInv, IInv, FieldsOK, ListsOK, TypeOK
  <2> QED BY <1>1, <2>1 DEF BuildInv, BInv, CallTyped, BuildTypeOK
<1> QED BY <1>1, BuildInductive, PTL

(* Whether a constructor returns a message, and every field of it outside  *)
(* the oneof, depend on the arguments alone and not on the order in which  *)
(* it meets them, as long as no two of them share a list.  Of the members  *)
(* of the oneof that were given one stays: the last that it meets.         *)
THEOREM ConstructorDetermined == BuildSpec => []ConstructDetermined
<1>1. ASSUME BuildInv, call # NoCall, call.todo = {}, ListsDiffer(call.args)
      PROVE  LET args == call.args
                 members == {f \in Oneof \cap DOMAIN args : args[f] # None} IN
               /\ call.ok <=> \A f \in DOMAIN args : Acceptable(f, args[f], call.elems)
               /\ call.ok =>
                    /\ \A f \in Field \ (DOMAIN args \cup Oneof) : fields[call.msg][f] = Unset
                    /\ \A f \in DOMAIN args \ members : Stored(f, args[f])
                    /\ members # {} => \E f \in members : Stored(f, args[f])
  <2>1. Finished = DOMAIN call.args
    BY <1>1 DEF Finished
  <2>2. CASE call.ok
    BY <1>1, <2>1, <2>2 DEF BuildInv, BInv, SoFar, FieldsDone, Members
  <2>3. CASE ~call.ok
    BY <1>1, <2>3 DEF BuildInv, BInv, SoFar
  <2> QED BY <2>2, <2>3
<1>2. BuildInv => ConstructDetermined
  BY <1>1 DEF ConstructDetermined
<1> QED BY <1>2, BuildInductive, PTL

(* No message and no list is reachable both from a clone and from its      *)
(* argument.                                                               *)
THEOREM CloneSharesNothing == BuildSpec => []CloneIndependent
<1>1. BuildInv => CloneIndependent
  BY DEF BuildInv
<1> QED BY <1>1, BuildInductive, PTL

(* A clone that is returned has the Protobuf value of its argument,        *)
(* messages in fields and in lists and zero values in fields with presence *)
(* included.                                                               *)
THEOREM CloneIsEqual == BuildSpec => []CloneExact
<1>1. BuildInv => CloneExact
  BY DEF BuildInv
<1> QED BY <1>1, BuildInductive, PTL

(* Constructors and clones write to no frozen message and no frozen list,  *)
(* and to nothing that these refer to.                                     *)
THEOREM BuildNeverWritesFrozen == BuildSpec => FrozenImmutable
<1> DEFINE NoWrite == /\ frozen \subseteq frozen'
                      /\ \A m \in Visible \cap Msg : fields'[m] = fields[m]
                      /\ \A l \in Visible \cap List : elems'[l] = elems[l]
<1>1. ASSUME BuildInv, [BuildNext]_buildVars
      PROVE  [NoWrite]_vars
  <2>1. [Untouched]_vars
    BY <1>1, BuildStep
  <2>2. Visible = frozen
    BY <1>1, VisibleFrozen DEF BuildInv, BInv, IInv
  <2> QED BY <2>1, <2>2 DEF Untouched
<1> HIDE DEF NoWrite
<1>2. BuildSpec => [][NoWrite]_vars
  BY <1>1, BuildInductive, PTL DEF BuildSpec
<1> QED BY <1>2 DEF FrozenImmutable, NoWrite

(* An argument that is rejected leaves every field map as it was. *)
THEOREM BuildFailuresContained == BuildSpec => FailureContained
<1>1. BuildInv /\ [BuildNext]_buildVars => [failed' => Contained]_vars
  BY BuildStep
<1> QED BY <1>1, BuildInductive, PTL DEF BuildSpec, FailureContained

(* Neither a constructor with several members of a oneof nor a clone sets  *)
(* more than one of them.                                                  *)
THEOREM BuildSetsOneMember == BuildSpec => []OneofExclusive
<1>1. BuildInv => OneofExclusive
  BY DEF BuildInv, BInv, IInv, FieldsOK
<1> QED BY <1>1, BuildInductive, PTL
=============================================================================
