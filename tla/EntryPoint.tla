----------------------------- MODULE EntryPoint -----------------------------
(***************************************************************************)
(* Config.Main and Config.MainNonProtobuf of skycfg.go: the call of the    *)
(* entry point and what becomes of the list it returns, nested lists       *)
(* included (FlattenProtoList, FlattenStringList).                         *)
(*                                                                         *)
(* The recursion of the flatten functions is the stack: the bottom frame   *)
(* is the loop of Main, the others are calls of the flatten function.  The *)
(* two functions do the same to messages and to strings; kind says which   *)
(* runs, and "good" leaves are what it accepts.  A list that contains      *)
(* itself overflows the Go stack: lists are acyclic here.                  *)
(***************************************************************************)
EXTENDS Naturals, SequencesExt

CONSTANTS
  List,       \* starlark.List objects
  MainList,   \* the one that the entry point returns
  Good,       \* messages for Main, strings for MainNonProtobuf
  Bad         \* any other value that is not a list

ASSUME EntryAssumption ==
  /\ MainList \in List
  /\ List \cap (Good \cup Bad) = {} /\ Good \cap Bad = {}

VARIABLES
  contents,   \* the elements of each list
  kind,       \* "proto" for Main, "string" for MainNonProtobuf
  flatten,    \* WithFlattenLists was given
  stack,      \* the active loops, innermost last: list, next element, output
  returned    \* what the caller got: err and the slice, or none yet

mainVars == <<contents, kind, flatten, stack, returned>>

Value == Good \cup Bad \cup List
Frame == [list : List, next : Nat \ {0}, out : Seq(Good)]
Returned == [err : BOOLEAN, values : Seq(Good)]
NotReturned == [err |-> FALSE]

MainTypeOK ==
  /\ contents \in [List -> Seq(Value)]
  /\ kind \in {"proto", "string"}
  /\ flatten \in BOOLEAN
  /\ stack \in Seq(Frame)
  /\ returned \in Returned \cup {NotReturned}

(* A list that reaches itself would be descended into without end. *)
Acyclic ==
  \A T \in (SUBSET List) \ {{}} : \E l \in T : \A i \in DOMAIN contents[l] : contents[l][i] \notin T

Idle == stack = <<>> /\ returned = NotReturned
MainInit == MainTypeOK /\ Acyclic /\ Idle

-----------------------------------------------------------------------------

(* The loop over l starts. *)
Enter(l) == [list |-> l, next |-> 1, out |-> <<>>]
Top == stack[Len(stack)]
AtEnd == Top.next > Len(contents[Top.list])
Element == contents[Top.list][Top.next]

Answer(err, values) == returned' = [err |-> err, values |-> values]

(* No such function, not a function, an error of the call, None, or a      *)
(* value that is not a list: a nil slice in every case.                    *)
NoList ==
  /\ Idle
  /\ \E err \in BOOLEAN : Answer(err, <<>>)
  /\ UNCHANGED <<contents, kind, flatten, stack>>

(* The entry point returned a list. *)
Call ==
  /\ Idle
  /\ stack' = <<Enter(MainList)>>
  /\ UNCHANGED <<contents, kind, flatten, returned>>

(* A message, or a string, is appended to the output of its list. *)
Collect ==
  /\ stack # <<>> /\ ~AtEnd
  /\ Element \in Good
  /\ stack' = [stack EXCEPT ![Len(stack)].next = @ + 1,
                            ![Len(stack)].out = Append(@, Element)]
  /\ UNCHANGED <<contents, kind, flatten, returned>>

(* Main descends only with the option, the flatten functions always. *)
Flattens == flatten \/ Len(stack) > 1

Descend ==
  /\ stack # <<>> /\ ~AtEnd
  /\ Element \in List
  /\ Flattens
  /\ stack' = Append(stack, Enter(Element))
  /\ UNCHANGED <<contents, kind, flatten, returned>>

(* Seeded fault: the caller forgets the call and makes it again. *)
RepeatElement(inner) == stack' = Front(stack)

(* Seeded fault: what was flattened is put before the rest. *)
PrependNested(inner) ==
  stack' = [Front(stack) EXCEPT ![Len(stack) - 1].next = @ + 1,
                                ![Len(stack) - 1].out = inner \o @]

(* The caller appends what the nested call returned. *)
AppendNested(inner) ==
  stack' = [Front(stack) EXCEPT ![Len(stack) - 1].next = @ + 1,
                                ![Len(stack) - 1].out = @ \o inner]

(* The end of a nested list. *)
Ascend ==
  /\ Len(stack) > 1 /\ AtEnd
  /\ AppendNested(Top.out)
  /\ UNCHANGED <<contents, kind, flatten, returned>>

(* Seeded fault: the error result carries the innermost output. *)
InnermostOutput == Top.out

(* Main returns nil with an error, MainNonProtobuf the strings of its own  *)
(* loop: what a nested call had collected is dropped on the way.           *)
OutputOnError == IF kind = "proto" THEN <<>> ELSE stack[1].out

(* An element is of the wrong type: every active call returns the error. *)
Reject ==
  /\ stack # <<>> /\ ~AtEnd
  /\ Element \notin Good
  /\ ~(Element \in List /\ Flattens)
  /\ Answer(TRUE, OutputOnError)
  /\ stack' = <<>>
  /\ UNCHANGED <<contents, kind, flatten>>

(* The end of the main list. *)
Return ==
  /\ Len(stack) = 1 /\ AtEnd
  /\ Answer(FALSE, Top.out)
  /\ stack' = <<>>
  /\ UNCHANGED <<contents, kind, flatten>>

MainNext == NoList \/ Call \/ Collect \/ Descend \/ Ascend \/ Reject \/ Return

(* The call runs on one goroutine until it returns. *)
MainSpec == MainInit /\ [][MainNext]_mainVars /\ WF_mainVars(MainNext)
-----------------------------------------------------------------------------

(* The leaves below each list, left to right. *)
LeavesIn[l \in List] ==
  FlattenSeq([i \in DOMAIN contents[l] |->
    IF contents[l][i] \in List THEN LeavesIn[contents[l][i]] ELSE <<contents[l][i]>>])

LeavesOf(v) == IF v \in List THEN LeavesIn[v] ELSE <<v>>
Leaves == LeavesIn[MainList]

(* What the active loops have collected, outermost first, is the beginning *)
(* of the leaves in order: nothing is lost, repeated or moved.             *)
CollectedInOrder ==
  IsPrefix(FlattenSeq([i \in DOMAIN stack |-> stack[i].out]), Leaves)

(* A result without error is all the leaves.  With an error Main returns   *)
(* nil, and MainNonProtobuf the leaves of the elements before the one that *)
(* holds the bad value.  And every error has a cause: a value of the wrong *)
(* type below the main list, or a nested list without the option.  (The    *)
(* comment of MainNonProtobuf has nested lists flattened without it: the   *)
(* code, and this property, do not.)                                       *)
ResultExact ==
  [][Return => returned'.values = Leaves]_mainVars
  /\ [][Reject =>
         /\ returned'.values =
              IF kind = "proto" THEN <<>>
              ELSE FlattenSeq([i \in 1..stack[1].next - 1 |-> LeavesOf(contents[MainList][i])])
         /\ \/ \E i \in DOMAIN Leaves : Leaves[i] \in Bad
            \/ ~flatten /\ \E i \in DOMAIN contents[MainList] :
                             contents[MainList][i] \in List]_mainVars

(* The call returns. *)
Terminates == <>(returned # NotReturned)
=============================================================================
