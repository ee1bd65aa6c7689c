----------------------------- MODULE Conversions -----------------------------
(***************************************************************************)
(* The conversion of single values between Starlark and Protobuf           *)
(* (go/protomodule/type_conversions.go), by kind of field, and the boxing  *)
(* of values in wrapper messages.  List and map fields convert each        *)
(* element with these.                                                     *)
(*                                                                         *)
(* Integers have their widths, scaled down.  A float is counted in halves; *)
(* strings and bytes, of which only the types differ, are numbered.        *)
(***************************************************************************)
EXTENDS Integers, FiniteSets

CONSTANTS
  Half32, Half64,  \* the integer kinds have 2 * Half32 or 2 * Half64 values
  Precise,         \* a float32 has every half up to this, then every other
  Halves,          \* the floats of the program, in halves
  Enum             \* for each enum type, the number of each of its names

(* Values of either side: of is the name of an enum value, or the type of  *)
(* the message in an Any.                                                  *)
Val(type, v) == [type |-> type, of |-> "", v |-> v]
Error == Val("error", 0)

EnumType == DOMAIN Enum
IntKind == {"int32", "uint32", "int64", "uint64"}

(* The wrapper types that are boxed; there is no FloatValue. *)
Wraps ==
  [w \in {"Int32Value", "UInt32Value", "Int64Value", "UInt64Value",
          "BoolValue", "StringValue", "BytesValue", "DoubleValue"} |->
     CASE w = "Int32Value" -> "int32" [] w = "UInt32Value" -> "uint32"
       [] w = "Int64Value" -> "int64" [] w = "UInt64Value" -> "uint64"
       [] w = "BoolValue" -> "bool"   [] w = "StringValue" -> "string"
       [] w = "BytesValue" -> "bytes" [] w = "DoubleValue" -> "double"]

MessageType == DOMAIN Wraps \cup {"FloatValue", "Any"}
BuiltIn == IntKind \cup {"bool", "string", "bytes", "float", "double"} \cup MessageType
Kind == BuiltIn \cup EnumType

ASSUME ConversionsAssumption ==
  /\ {Half32, Half64} \subseteq Nat \ {0} /\ 2 * Half32 <= Half64
  /\ Precise \in Nat /\ Halves \subseteq Int
  /\ EnumType \cap (BuiltIn \cup {"int", "float", "NoneType", "nothing", "error"}) = {}

(* starlark.Int's Int64 and Uint64 succeed. *)
Int64 == -Half64 .. Half64 - 1
Uint64 == 0 .. 2 * Half64 - 1

(* Seeded fault: a uint32 field is checked as an int64. *)
SignedRange(k) == IF k = "uint32" THEN {n \in Int64 : n <= 2 * Half32 - 1} ELSE Int64

(* What an integer field takes. *)
IntRange(k) ==
  CASE k = "int64" -> Int64
    [] k = "uint64" -> Uint64
    [] k = "int32" -> {n \in Int64 : n >= -Half32 /\ n <= Half32 - 1}
    [] k = "uint32" -> {n \in Uint64 : n <= 2 * Half32 - 1}

(* What is boxed in an integer wrapper: checked by other code. *)
BoxRange(k) ==
  CASE k = "int64" -> Int64
    [] k = "uint64" -> Uint64
    [] k = "int32" -> -Half32 .. Half32 - 1
    [] k = "uint32" -> {n \in Uint64 : n <= 2 * Half32 - 1}

(* starlark.AsFloat and float32(x). *)
Numeric(x) == x.type \in {"int", "float"}
AsFloat(x) == IF x.type = "int" THEN 2 * x.v ELSE x.v
Single(h) == IF h <= Precise /\ -h <= Precise THEN h ELSE h - (h % 2)

(* scalarValueFromStarlark: enum fields take values of every enum type. *)
FromStarlark(k, x) ==
  CASE k \in IntKind /\ x.type = "int" /\ x.v \in IntRange(k) -> Val(k, x.v)
    [] k = "double" /\ Numeric(x) -> Val(k, AsFloat(x))
    [] k = "float" /\ Numeric(x) -> Val(k, Single(AsFloat(x)))
    [] k = "bool" /\ x.type = "bool" -> Val(k, x.v)
    [] k \in {"string", "bytes"} /\ x.type = "string" -> Val(k, x.v)
    [] k \in EnumType /\ x.type \in EnumType -> Val(k, x.v)
    [] k \in MessageType /\ x.type = k -> x
    [] k = "Any" /\ x.type \in MessageType \ {"Any"} -> [x EXCEPT !.type = "Any", !.of = x.type]
    [] OTHER -> Error

(* Seeded fault: unsigned values go through MakeInt64. *)
MakeSigned(n) == IF n >= Half64 THEN n - 2 * Half64 ELSE n

(* MakeInt64 or MakeUint64. *)
MakeInt(n) == n

(* scalarValueToStarlark: any of the names of an enum number, which there  *)
(* may be none of.                                                         *)
ToStarlark(k, p) ==
  CASE k \in IntKind -> {Val("int", MakeInt(p.v))}
    [] k \in {"float", "double"} -> {Val("float", p.v)}
    [] k = "bool" -> {Val("bool", p.v)}
    [] k \in {"string", "bytes"} -> {Val("string", p.v)}
    [] k \in MessageType -> {p}
    [] k \in EnumType ->
         {[type |-> k, of |-> a, v |-> p.v] : a \in {b \in DOMAIN Enum[k] : Enum[k][b] = p.v}}

(* maybeConvertToWrapper: x itself if there is no conversion. *)
Box(k, x) ==
  IF k \notin DOMAIN Wraps THEN x
  ELSE LET w == Wraps[k] IN
    CASE w \in IntKind /\ x.type = "int" /\ x.v \in BoxRange(w) -> Val(k, x.v)
      [] w \in IntKind /\ x.type = "int" /\ x.v \notin BoxRange(w) -> Error
      [] w = "bool" /\ x.type = "bool" -> Val(k, x.v)
      [] w \in {"string", "bytes"} /\ x.type = "string" -> Val(k, x.v)
      [] w = "double" /\ Numeric(x) -> Val(k, AsFloat(x))
      [] OTHER -> x

-----------------------------------------------------------------------------

(* The values of a Starlark program, beyond both ends of every width. *)
Ints == -Half64 - 1 .. 2 * Half64
Values ==
  {Val("int", n) : n \in Ints} \cup {Val("float", h) : h \in Halves}
  \cup {Val(t, n) : t \in {"bool", "string"}, n \in 0..1} \cup {Val("NoneType", 0)}
  \cup (UNION {{[type |-> e, of |-> a, v |-> Enum[e][a]] : a \in DOMAIN Enum[e]} : e \in EnumType})
  \cup {Val(t, n) : t \in MessageType \ {"Any"}, n \in 0..1}

(* One field of a message, from an assignment to the next. *)
VARIABLES
  kind,   \* the kind of the field
  given,  \* the value that was assigned
  taken,  \* what the wrapper conversion makes of it
  proto,  \* its Protobuf value, or Error
  back    \* the value that is read back

convVars == <<kind, given, taken, proto, back>>

Nothing == Val("nothing", 0)

ConvInit ==
  /\ kind = ""
  /\ given = Nothing /\ taken = Nothing /\ proto = Nothing /\ back = Nothing

(* An assignment converts the value twice: to a message, if it is for a    *)
(* wrapper field, and to Protobuf, to see that it can be.                  *)
Assign ==
  /\ kind' \in Kind
  /\ given' \in Values
  /\ taken' = Box(kind', given')
  /\ proto' = FromStarlark(kind', taken')
  /\ back' = Nothing

(* The message was made Protobuf, and a new one is made of that. *)
ReadBack ==
  /\ proto \notin {Nothing, Error}
  /\ back' \in ToStarlark(kind, proto)
  /\ UNCHANGED <<kind, given, taken, proto>>

ConvNext == Assign \/ ReadBack
ConvSpec == ConvInit /\ [][ConvNext]_convVars

(* What a field takes is read back, if not as the same value (an int comes *)
(* back as a float, an enum value under another of its names), as one that *)
(* makes the same Protobuf value when it is assigned again.  Only a value  *)
(* of another enum type may come back as an error.                         *)
ReadBackStable ==
  /\ back # Nothing => FromStarlark(kind, Box(kind, back)) = proto
  /\ proto \notin {Nothing, Error} /\ ToStarlark(kind, proto) = {} =>
       kind \in EnumType /\ given.type \in EnumType \ {kind}

(* A wrapper field takes the values that a field of the wrapped kind does, *)
(* at every bound, and no others; and boxes no value as another.           *)
BoxingAgrees ==
  kind \in DOMAIN Wraps /\ given.type # kind =>
    LET p == FromStarlark(Wraps[kind], given) IN
      IF p # Error THEN taken = Val(kind, p.v) ELSE taken \in {given, Error} /\ proto = Error
=============================================================================
