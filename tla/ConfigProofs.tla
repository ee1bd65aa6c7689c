---------------------------- MODULE ConfigProofs ----------------------------
(***************************************************************************)
(* Theorems about the two ways to use a Config: EntryPoint, for any lists, *)
(* of any length and nesting, and TestRun, for any test, any nesting of    *)
(* calls and any number of runs.                                           *)
(***************************************************************************)
EXTENDS EntryPoint, TestRun, SequenceTheorems, FiniteSetTheorems, WellFoundedInduction, TLAPS

(* What is left of a sequence without its last element. *)
LEMMA FrontFacts ==
  ASSUME NEW S, NEW s \in Seq(S), s # <<>>
  PROVE  /\ Front(s) \in Seq(S)
         /\ Len(Front(s)) = Len(s) - 1
         /\ \A i \in 1..Len(s)-1 : Front(s)[i] = s[i]
<1>1. Len(s) - 1 \in 0..Len(s) /\ Len(s) \in Nat \ {0}
  OBVIOUS
<1>2. Front(s) = Restrict(s, 1..Len(s)-1)
  BY <1>1, SubSeqRestrict DEF Front
<1>3. Front(s) = [i \in 1..Len(s)-1 |-> s[i]]
  BY <1>1, <1>2 DEF Restrict
<1>4. QED
  BY <1>1, <1>3

-----------------------------------------------------------------------------
(* Test.Run.                                                               *)

(* What holds of the error and the result besides the types. *)
ErrorAndResult ==
  /\ state = "running" => error = 0
  /\ state # "idle" => result = "none"
  /\ ~Errored /\ state = "idle" => error = 0
  /\ Errored => result = Report

IInv == TypeOK /\ ErrorAndResult /\ FailuresAccounted

(* One call is left: the innermost was not the test function. *)
LEMMA PopCall ==
  ASSUME NEW s \in Seq(CallKind), s # <<>>, s[1] = "test", Last(s) # "test"
  PROVE  /\ Len(s) > 1
         /\ Front(s) \in Seq(CallKind)
         /\ Front(s) # <<>>
         /\ Front(s)[1] = "test"
         /\ Last(Front(s)) = s[Len(s) - 1]
<1>1. Len(s) \in Nat /\ Len(s) > 1
  BY DEF Last
<1>2. QED
  BY <1>1, FrontFacts DEF Last

(* Every step keeps the types. *)
LEMMA StepTypeOK ==
  ASSUME TypeOK, [Next]_vars
  PROVE  TypeOK'
<1>1. CASE Run
  BY <1>1 DEF Run, NewContext, TypeOK, CallKind, Result
<1>2. CASE CallFunction
  BY <1>2, AppendProperties DEF CallFunction, InFunction, TypeOK, CallKind
<1>3. CASE CallAssertFails
  <2>1. calls # <<>> /\ calls \in Seq(CallKind)
    BY <1>3 DEF CallAssertFails, InFunction, TypeOK
  <2>2. calls' = calls \o <<"fails", "fn">> /\ <<"fails", "fn">> \in Seq(CallKind)
    BY <1>3 DEF CallAssertFails, CallKind
  <2>3. calls' \in Seq(CallKind) /\ Len(calls') = Len(calls) + 2 /\ calls'[1] = calls[1]
    BY <2>1, <2>2
  <2>4. calls' # <<>>
    BY <2>1, <2>3
  <2> QED BY <1>3, <2>1, <2>3, <2>4 DEF CallAssertFails, InFunction, TypeOK
<1>4. CASE AssertionFails
  BY <1>4 DEF AssertionFails, InFunction, Fail, TypeOK
<1>5. CASE PlainError
  BY <1>5 DEF PlainError, InFunction, TypeOK
<1>6. CASE FunctionReturns \/ Unwind
  <2>1. calls # <<>> /\ Last(calls) # "test" /\ calls' = Front(calls)
    BY <1>6 DEF FunctionReturns, Unwind, InFunction, TypeOK
  <2> QED BY <1>6, <2>1, PopCall DEF FunctionReturns, Unwind, InFunction, TypeOK
<1>7. CASE ShouldHaveFailed
  <2>1. calls # <<>> /\ Last(calls) # "test" /\ calls' = Front(Front(calls))
    BY <1>7 DEF ShouldHaveFailed, InFunction, TypeOK
  <2>2. Last(Front(calls)) = "fails"
    BY <1>7, <2>1, PopCall DEF ShouldHaveFailed, CalledByFails, TypeOK
  <2>3. calls' \in Seq(CallKind) /\ calls' # <<>> /\ calls'[1] = "test"
    BY <2>1, <2>2, PopCall DEF TypeOK
  <2> QED BY <1>7, <2>1, <2>3 DEF ShouldHaveFailed, Fail, TypeOK
<1>8. CASE ErrorStopped
  <2>1. calls # <<>> /\ Last(calls) # "test" /\ calls' = Front(calls)
    BY <1>8 DEF ErrorStopped, TypeOK
  <2> QED BY <1>8, <2>1, PopCall DEF ErrorStopped, TypeOK
<1>9. CASE TestPasses \/ TestErrors
  <2>1. calls' = <<>> /\ state' = "idle" /\ result' \in Result
    BY <1>9 DEF TestPasses, TestErrors, Report, Result
  <2>2. UNCHANGED <<runs, error, failures, swallowed>>
    BY <1>9 DEF TestPasses, TestErrors
  <2>3. calls' \in Seq(CallKind)
    BY <2>1
  <2> QED BY <2>1, <2>2, <2>3 DEF TypeOK
<1>10. CASE UNCHANGED vars
  BY <1>10 DEF vars, TypeOK
<1>11. QED
  BY <1>1, <1>2, <1>3, <1>4, <1>5, <1>6, <1>7, <1>8, <1>9, <1>10 DEF Next

(* Every step keeps the error and the result consistent. *)
LEMMA StepErrorAndResult ==
  ASSUME TypeOK, ErrorAndResult, [Next]_vars
  PROVE  ErrorAndResult'
<1>1. CASE Run \/ CallFunction \/ CallAssertFails \/ AssertionFails \/ PlainError
  BY <1>1 DEF Run, CallFunction, CallAssertFails, AssertionFails, PlainError, InFunction,
              Fail, ErrorAndResult, Errored
<1>2. CASE FunctionReturns \/ ShouldHaveFailed \/ Unwind \/ ErrorStopped
  BY <1>2 DEF FunctionReturns, ShouldHaveFailed, Unwind, ErrorStopped, InFunction,
              Fail, ErrorAndResult, Errored
<1>3. CASE TestPasses \/ TestErrors
  BY <1>3 DEF TestPasses, TestErrors, Report, ErrorAndResult, Errored
<1>4. CASE UNCHANGED vars
  BY <1>4 DEF vars, ErrorAndResult, Errored, Report
<1>5. QED
  BY <1>1, <1>2, <1>3, <1>4 DEF Next

(* Every step accounts for the failures. *)
LEMMA StepFailuresAccounted ==
  ASSUME TypeOK, ErrorAndResult, FailuresAccounted, [Next]_vars
  PROVE  FailuresAccounted'
<1>1. CASE Run
  BY <1>1 DEF Run, NewContext, FailuresAccounted, Live, Errored
<1>2. CASE CallFunction \/ CallAssertFails \/ FunctionReturns \/ Unwind
  BY <1>2 DEF CallFunction, CallAssertFails, FunctionReturns, Unwind,
              FailuresAccounted, Live, Errored
<1>3. CASE AssertionFails \/ ShouldHaveFailed
  <2>1. /\ state = "running" /\ state' = "unwinding"
        /\ failures' = failures + 1 /\ error' = failures + 1
        /\ UNCHANGED swallowed
    BY <1>3 DEF AssertionFails, ShouldHaveFailed, InFunction, Fail
  <2>2. Live = {} /\ Live' = {failures + 1}
    BY <2>1 DEF Live, ErrorAndResult, Errored, TypeOK
  <2>3. swallowed = 1..failures
    BY <2>2 DEF FailuresAccounted
  <2> QED BY <2>1, <2>2, <2>3 DEF FailuresAccounted, TypeOK
<1>4. CASE PlainError
  <2>1. Live = {} /\ Live' = {}
    BY <1>4 DEF PlainError, InFunction, Live, ErrorAndResult
  <2> QED BY <1>4, <2>1 DEF PlainError, FailuresAccounted
<1>5. CASE ErrorStopped
  <2>1. /\ Live = {error} \ {0} /\ Live' = {}
        /\ swallowed' = swallowed \cup Live /\ UNCHANGED failures
    BY <1>5 DEF ErrorStopped, Live, ErrorAndResult, Errored
  <2> QED BY <2>1 DEF FailuresAccounted
<1>6. CASE TestPasses \/ TestErrors
  <2>1. UNCHANGED <<error, failures, swallowed>> /\ Live' = Live
    BY <1>6 DEF TestPasses, TestErrors, Report, Live, Errored, ErrorAndResult
  <2> QED BY <2>1 DEF FailuresAccounted
<1>7. CASE UNCHANGED vars
  BY <1>7 DEF vars, FailuresAccounted, Live, Errored
<1>8. QED
  BY <1>1, <1>2, <1>3, <1>4, <1>5, <1>6, <1>7 DEF Next

(* The three invariants together are inductive. *)
THEOREM Inductive == Spec => []IInv
<1>1. Init => IInv
  BY DEF Init, IInv, TypeOK, ErrorAndResult, FailuresAccounted, Live, Errored
<1>2. IInv /\ [Next]_vars => IInv'
  BY StepTypeOK, StepErrorAndResult, StepFailuresAccounted DEF IInv
<1>3. QED
  BY <1>1, <1>2, PTL DEF Spec

(* The calls in progress are well formed: the test function is outermost. *)
THEOREM TypeCorrect == Spec => []TypeOK
BY Inductive, PTL DEF IInv

(* However the calls of assert.fails nest, a failed assertion is either    *)
(* stopped by one of them or is the error that unwinds or ends the test.   *)
THEOREM EveryFailureAccounted == Spec => []FailuresAccounted
BY Inductive, PTL DEF IInv

(* A test whose failed assertions all escape is reported exactly, and its  *)
(* run does not panic.                                                     *)
THEOREM ReportsExact == Spec => []ReportExact
<1>1. IInv => ReportExact
  <2> SUFFICES ASSUME IInv, Errored, swallowed = {}
               PROVE  IF error = 0 THEN result = "error" ELSE result = "failed" /\ error = 1
    BY DEF ReportExact
  <2>1. failures \in Nat /\ error \in Nat /\ result = Report
    BY DEF IInv, TypeOK, ErrorAndResult
  <2>2. 1..failures = {error} \ {0}
    BY DEF IInv, FailuresAccounted, Live
  <2>3. CASE error = 0
    <3>1. failures = 0
      BY <2>1, <2>2, <2>3
    <3> QED BY <2>1, <2>3, <3>1 DEF Report
  <2>4. CASE error # 0
    <3>1. 1..failures = {error}
      BY <2>2, <2>4
    <3>2. failures >= 1
      BY <2>1, <3>1
    <3>3. 1 \in {error} /\ failures \in {error}
      BY <2>1, <3>1, <3>2
    <3> QED BY <2>1, <2>4, <3>3 DEF Report
  <2> QED BY <2>3, <2>4
<1>2. QED
  BY <1>1, Inductive, PTL

-----------------------------------------------------------------------------
(* Config.Main: the types.                                                 *)

(* The innermost loop is at an element of its list, unless it is at the    *)
(* end.                                                                    *)
LEMMA Innermost ==
  ASSUME MainTypeOK, stack # <<>>
  PROVE  /\ Len(stack) \in Nat /\ Len(stack) > 0
         /\ Top \in Frame
         /\ ~AtEnd => Element \in Value
<1>1. Len(stack) \in Nat /\ Len(stack) > 0 /\ stack[Len(stack)] \in Frame
  BY EmptySeq, ElementOfSeq DEF MainTypeOK
<1>2. contents[Top.list] \in Seq(Value) /\ Top.next \in Nat \ {0}
  BY <1>1 DEF MainTypeOK, Top, Frame
<1>3. ~AtEnd => Top.next \in 1..Len(contents[Top.list])
  BY <1>2 DEF AtEnd
<1>4. QED
  BY <1>1, <1>2, <1>3, ElementOfSeq DEF Top, Element

(* A loop that goes on is a loop. *)
LEMMA NextFrame ==
  ASSUME NEW fr \in Frame, NEW o \in Seq(Good)
  PROVE  [fr EXCEPT !.next = @ + 1, !.out = o] \in Frame
<1>1. ASSUME NEW L, NEW N, NEW S, NEW g \in [list : L, next : N, out : S], NEW n \in N, NEW x \in S
      PROVE  [g EXCEPT !.next = n, !.out = x] \in [list : L, next : N, out : S]
  OBVIOUS
<1>2. fr.next + 1 \in Nat \ {0}
  BY DEF Frame
<1>3. QED
  BY <1>1, <1>2 DEF Frame

LEMMA MainStepTypeOK == MainTypeOK /\ [MainNext]_mainVars => MainTypeOK'
<1> SUFFICES ASSUME MainTypeOK, [MainNext]_mainVars PROVE MainTypeOK'
  OBVIOUS
<1>1. CASE NoList
  BY <1>1 DEF NoList, Answer, MainTypeOK, Returned
<1>2. CASE Call
  <2>1. Enter(MainList) \in Frame
    BY EntryAssumption DEF Enter, Frame
  <2>2. QED
    BY <1>2, <2>1 DEF Call, MainTypeOK
<1>3. CASE Collect
  <2> DEFINE top == [Top EXCEPT !.next = @ + 1, !.out = Append(Top.out, Element)]
  <2>1. stack # <<>> /\ Element \in Good /\ UNCHANGED <<contents, kind, flatten, returned>>
    BY <1>3 DEF Collect
  <2>2. top \in Frame
    <3>1. Top \in Frame /\ Append(Top.out, Element) \in Seq(Good)
      BY <2>1, Innermost DEF Frame
    <3>2. QED
      BY <3>1, NextFrame
  <2>3. stack' = [stack EXCEPT ![Len(stack)] = top]
    BY <1>3, <2>1, Innermost DEF Collect, Top, Frame
  <2>4. stack' \in Seq(Frame)
    BY <2>1, <2>2, <2>3, Innermost, ExceptSeq DEF MainTypeOK
  <2>5. QED
    BY <2>1, <2>4 DEF MainTypeOK
<1>4. CASE Descend
  <2>1. Enter(Element) \in Frame
    BY <1>4 DEF Descend, Enter, Frame
  <2>2. QED
    BY <1>4, <2>1 DEF Descend, MainTypeOK
<1>5. CASE Ascend
  <2> DEFINE n     == Len(stack) - 1
             outer == [stack[n] EXCEPT !.next = @ + 1, !.out = stack[n].out \o Top.out]
  <2>1. stack # <<>> /\ n \in Nat /\ n > 0 /\ UNCHANGED <<contents, kind, flatten, returned>>
    BY <1>5 DEF Ascend, MainTypeOK
  <2>2. stack[n] \in Frame /\ Top.out \in Seq(Good)
    <3>1. n \in 1..Len(stack) /\ stack \in Seq(Frame)
      BY <2>1, Innermost DEF MainTypeOK
    <3>2. stack[n] \in Frame
      BY <3>1, ElementOfSeq
    <3>3. Top.out \in Seq(Good)
      BY <2>1, Innermost DEF Frame
    <3>4. QED
      BY <3>2, <3>3
  <2>3. Front(stack) \in Seq(Frame) /\ Len(Front(stack)) = n
    BY <2>1, FrontFacts DEF MainTypeOK
  <2>4. Front(stack)[n] = stack[n]
    BY <2>1, FrontFacts DEF MainTypeOK
  <2>5. outer \in Frame
    <3>1. stack[n].out \o Top.out \in Seq(Good)
      BY <2>2 DEF Frame
    <3>2. QED
      BY <2>2, <3>1, NextFrame
  <2>6. stack' = [Front(stack) EXCEPT ![n] = outer]
    BY <1>5, <2>1, <2>2, <2>3, <2>4 DEF Ascend, AppendNested, Frame
  <2>7. stack' \in Seq(Frame)
    BY <2>1, <2>3, <2>5, <2>6, ExceptSeq
  <2>8. QED
    BY <2>1, <2>7 DEF MainTypeOK
<1>6. CASE Reject
  <2>1. OutputOnError \in Seq(Good)
    <3>1. stack[1] \in Frame
      BY <1>6, Innermost, ElementOfSeq DEF Reject, MainTypeOK
    <3>2. QED
      BY <3>1 DEF OutputOnError, Frame
  <2>2. QED
    BY <1>6, <2>1 DEF Reject, Answer, MainTypeOK, Returned
<1>7. CASE Return
  <2>1. stack # <<>> /\ Top.out \in Seq(Good)
    BY <1>7, Innermost DEF Return, Frame
  <2>2. QED
    BY <1>7, <2>1 DEF Return, Answer, MainTypeOK, Returned
<1>8. CASE UNCHANGED mainVars
  BY <1>8 DEF mainVars, MainTypeOK
<1>9. QED
  BY <1>1, <1>2, <1>3, <1>4, <1>5, <1>6, <1>7, <1>8 DEF MainNext

(* The variables stay in their sets: what is collected, and returned, with *)
(* an error too, are messages or strings only.                             *)
THEOREM MainTypeCorrect == MainSpec => []MainTypeOK
<1>1. MainInit => MainTypeOK
  BY DEF MainInit
<1>2. QED
  BY <1>1, MainStepTypeOK, PTL DEF MainSpec

-----------------------------------------------------------------------------
(* Induction over the natural numbers, for a set: its least element that   *)
(* is missing would have a predecessor that is not.                        *)
LEMMA LeastOf ==
  ASSUME NEW S \in SUBSET Nat, S # {}
  PROVE \E x \in S : \A y \in S : x <= y
<1> DEFINE T == {1..n : n \in S}
<1>1. IsWellFoundedOn(StrictSubsetOrdering(Nat), FiniteSubsetsOf(Nat))
  BY FS_StrictSubsetOrderingWellFounded
<1>2. T \subseteq FiniteSubsetsOf(Nat) /\ T # {}
  <2>1. ASSUME NEW n \in S PROVE IsFiniteSet(1..n) /\ 1..n \in SUBSET Nat
    <3>1. 1 \in Int /\ n \in Int
      OBVIOUS
    <3>2. IsFiniteSet(1..n)
      BY <3>1, FS_Interval, Zenon
    <3> QED BY <3>2
  <2> QED BY <2>1 DEF FiniteSubsetsOf
<1>3. PICK A \in T : \A B \in T : ~(<<B, A>> \in StrictSubsetOrdering(Nat))
  <2> HIDE DEF T
  <2> QED BY <1>1, <1>2, WFMin
<1>4. PICK x \in S : A = 1..x
  OBVIOUS
<1>5. ASSUME NEW y \in S, y < x PROVE FALSE
  <2>1. 1..y \in T /\ 1..y \subseteq 1..x /\ x \in 1..x /\ x \notin 1..y
    BY <1>5
  <2>2. <<1..y, 1..x>> \in StrictSubsetOrdering(Nat)
    BY <2>1, <1>2, <1>4 DEF StrictSubsetOrdering, FiniteSubsetsOf
  <2> QED BY <1>3, <1>4, <2>1, <2>2
<1> QED BY <1>5

(* A set with 0 and the successor of each of its numbers has them all. *)
LEMMA SetInduction ==
  ASSUME NEW T \in SUBSET Nat, 0 \in T, \A n \in T : n + 1 \in T
  PROVE  T = Nat
<1>1. SUFFICES ASSUME Nat \ T # {} PROVE FALSE
  OBVIOUS
<1>2. PICK x \in Nat \ T : \A y \in Nat \ T : x <= y
  BY LeastOf, <1>1
<1>3. x # 0 /\ x - 1 \in Nat
  BY <1>2
<1>4. x - 1 \in T
  BY <1>2, <1>3
<1> QED BY <1>4, <1>2, <1>3

-----------------------------------------------------------------------------
(* FlattenSeq, for sequences of any length.                                *)

(* The recursive function in the definition of FlattenSeq, up to n. *)
Partial(s, n, f) == f = [i \in 1..n |-> IF i = 1 THEN s[i] ELSE f[i - 1] \o s[i]]

(* The function exists. *)
LEMMA PartialExists == ASSUME NEW s, NEW n \in Nat PROVE \E f : Partial(s, n, f)
<1> DEFINE S == {k \in Nat : \E f : Partial(s, k, f)}
<1>1. 0 \in S
  <2>1. PICK f : f = [i \in 1..0 |-> <<>>]
    OBVIOUS
  <2>2. Partial(s, 0, f)
    BY <2>1 DEF Partial
  <2> QED BY <2>2
<1>2. ASSUME NEW k \in S PROVE k + 1 \in S
  <2>1. PICK f : Partial(s, k, f)
    OBVIOUS
  <2> DEFINE next == IF k = 0 THEN s[1] ELSE f[k] \o s[k + 1]
             g == [i \in 1..k + 1 |-> IF i = k + 1 THEN next ELSE f[i]]
  <2>2. k \in Nat
    OBVIOUS
  <2>3. \A i \in 1..k : f[i] = IF i = 1 THEN s[i] ELSE f[i - 1] \o s[i]
    BY <2>1 DEF Partial
  <2>4. \A i \in 1..k + 1 : i # k + 1 => i \in 1..k
    BY <2>2
  <2>5. \A i \in 1..k + 1 : i # 1 => i - 1 \in 1..k
    BY <2>2
  <2>6. \A i \in 1..k : i \in 1..k + 1 /\ g[i] = f[i]
    BY <2>2
  <2>7. g[k + 1] = next /\ k + 1 - 1 = k /\ (k + 1 = 1 <=> k = 0)
    BY <2>2
  <2>8. g = [i \in 1..k + 1 |-> g[i]]
    OBVIOUS
  <2>9. ASSUME NEW i \in 1..k + 1
        PROVE  g[i] = IF i = 1 THEN s[i] ELSE g[i - 1] \o s[i]
    <3> HIDE DEF g
    <3>1. CASE i = k + 1
      <4>1. i = 1 \/ g[i - 1] = f[k]
        BY <2>5, <2>6, <2>7, <3>1
      <4>2. CASE i = 1
        BY <2>7, <3>1, <4>2
      <4>3. CASE i # 1 /\ g[i - 1] = f[k]
        <5>1. k # 0 /\ g[i] = next
          BY <2>7, <3>1, <4>3
        <5> QED BY <3>1, <4>3, <5>1
      <4> QED BY <4>1, <4>2, <4>3
    <3>2. CASE i # k + 1
      <4>1. i \in 1..k /\ g[i] = f[i] /\ (i = 1 \/ g[i - 1] = f[i - 1])
        <5>1. i \in 1..k
          BY <2>4, <3>2
        <5>2. i = 1 \/ i - 1 \in 1..k
          BY <2>5
        <5> QED BY <2>6, <5>1, <5>2
      <4> QED BY <2>3, <4>1
    <3> QED BY <3>1, <3>2
  <2>10. Partial(s, k + 1, g)
    <3> HIDE DEF g
    <3> QED BY <2>8, <2>9 DEF Partial
  <2> QED BY <2>2, <2>10
<1> HIDE DEF S
<1>3. S = Nat
  <2>1. S \in SUBSET Nat
    BY DEF S
  <2> QED BY <1>1, <1>2, <2>1, SetInduction
<1> QED BY <1>3 DEF S

(* f and g are equal up to n. *)
Agree(f, g, n) == \A i \in 1..n : f[i] = g[i]

(* Two of them are, if the sequences are. *)
LEMMA PartialAgree ==
  ASSUME NEW s, NEW t, NEW n \in Nat, NEW m \in Nat, NEW f, NEW g,
         n <= m, Agree(s, t, n), Partial(s, n, f), Partial(t, m, g)
  PROVE  Agree(f, g, n)
<1> DEFINE S == {k \in Nat : k + 1 \in 1..n => f[k + 1] = g[k + 1]}
<1>1. \A i \in 1..n : s[i] = t[i] /\ i \in 1..m /\ f[i] = (IF i = 1 THEN s[i] ELSE f[i - 1] \o s[i])
                     /\ g[i] = (IF i = 1 THEN t[i] ELSE g[i - 1] \o t[i])
  <2>1. \A i \in 1..n : i \in 1..m
    OBVIOUS
  <2> QED BY <2>1 DEF Partial, Agree
<1>2. 0 \in S
  <2>1. 1 \in 1..n => f[1] = g[1]
    BY <1>1
  <2> QED BY <2>1
<1>3. ASSUME NEW k \in S PROVE k + 1 \in S
  <2>1. k \in Nat
    OBVIOUS
  <2>2. SUFFICES ASSUME k + 1 + 1 \in 1..n PROVE f[k + 1 + 1] = g[k + 1 + 1]
    BY <2>1
  <2>3. k + 1 \in 1..n /\ k + 1 + 1 # 1 /\ k + 1 + 1 - 1 = k + 1
    BY <2>1, <2>2
  <2>4. f[k + 1] = g[k + 1]
    BY <2>3
  <2> DEFINE j == k + 1 + 1
  <2>5. j \in 1..n /\ j # 1 /\ j - 1 = k + 1
    BY <2>2, <2>3
  <2> HIDE DEF j
  <2>6. f[j] = g[j]
    BY <1>1, <2>4, <2>5
  <2> QED BY <2>6 DEF j
<1> HIDE DEF S
<1>4. S = Nat
  <2>1. S \in SUBSET Nat
    BY DEF S
  <2> QED BY <1>2, <1>3, <2>1, SetInduction
<1> SUFFICES ASSUME NEW i \in 1..n PROVE f[i] = g[i]
  BY DEF Agree
<1>5. i - 1 \in Nat /\ i - 1 + 1 = i
  OBVIOUS
<1> QED BY <1>4, <1>5 DEF S

(* FlattenSeq is the last value of this function. *)
LEMMA FlattenLast ==
  ASSUME NEW S, NEW s \in Seq(S), s # <<>>
  PROVE  \E f : Partial(s, Len(s), f) /\ FlattenSeq(s) = f[Len(s)]
<1>1. Len(s) \in Nat /\ Len(s) # 0
  BY EmptySeq
<1>2. PICK g : Partial(s, Len(s), g)
  BY <1>1, PartialExists
<1>3. PICK f : f = CHOOSE h : Partial(s, Len(s), h)
  OBVIOUS
<1>4. Partial(s, Len(s), f)
  BY <1>2, <1>3
<1>5. FlattenSeq(s) = f[Len(s)]
  BY <1>1, <1>3 DEF FlattenSeq, Partial
<1> QED BY <1>4, <1>5

LEMMA FlattenEmpty == FlattenSeq(<<>>) = <<>>
BY DEF FlattenSeq

(* Flattening goes from left to right. *)
LEMMA FlattenAppend ==
  ASSUME NEW S, NEW s \in Seq(Seq(S)), NEW x \in Seq(S)
  PROVE  FlattenSeq(Append(s, x)) = FlattenSeq(s) \o x
<1>0. PICK t : t = Append(s, x)
  OBVIOUS
<1>1. /\ t \in Seq(Seq(S)) /\ t # <<>> /\ Len(t) = Len(s) + 1 /\ t[Len(t)] = x
      /\ \A i \in 1..Len(s) : s[i] = t[i]
      /\ Len(s) \in Nat
  BY <1>0, AppendProperties
<1>2. PICK g : Partial(t, Len(t), g) /\ FlattenSeq(t) = g[Len(t)]
  BY <1>1, FlattenLast
<1>3. \A i \in 1..Len(t) : g[i] = IF i = 1 THEN t[i] ELSE g[i - 1] \o t[i]
  BY <1>2 DEF Partial
<1>4. CASE s = <<>>
  <2>1. Len(t) = 1 /\ g[1] = x
    BY <1>1, <1>3, <1>4
  <2>2. FlattenSeq(s) \o x = x
    BY <1>4, FlattenEmpty, ConcatEmptySeq
  <2> QED BY <1>2, <1>0, <2>1, <2>2
<1>5. CASE s # <<>>
  <2>1. PICK f : Partial(s, Len(s), f) /\ FlattenSeq(s) = f[Len(s)]
    BY <1>5, FlattenLast
  <2>2. Len(s) \in 1..Len(s)
    BY <1>1, <1>5, EmptySeq
  <2>3. Len(s) <= Len(t) /\ Len(t) \in Nat
    BY <1>1
  <2>4. f[Len(s)] = g[Len(s)]
    <3>1. Agree(s, t, Len(s))
      BY <1>1 DEF Agree
    <3>2. Agree(f, g, Len(s))
      BY <1>1, <1>2, <2>1, <2>3, <3>1, PartialAgree
    <3> QED BY <2>2, <3>2 DEF Agree
  <2>5. g[Len(t)] = g[Len(s)] \o x
    <3>1. Len(t) \in 1..Len(t) /\ Len(t) # 1 /\ Len(t) - 1 = Len(s)
      BY <1>1, <2>2
    <3> QED BY <1>1, <1>3, <3>1
  <2> QED BY <1>2, <2>1, <2>2, <2>4, <2>5, <1>0
<1> QED BY <1>4, <1>5

(* What comes of sequences of elements of S is one. *)
LEMMA FlattenType ==
  ASSUME NEW S, NEW s \in Seq(Seq(S))
  PROVE  FlattenSeq(s) \in Seq(S)
<1>1. CASE s = <<>>
  <2>1. FlattenSeq(s) = <<>>
    BY <1>1, FlattenEmpty
  <2>2. <<>> \in Seq(S)
    OBVIOUS
  <2> QED BY <2>1, <2>2
<1>2. CASE s # <<>>
  <2>1. PICK f : Partial(s, Len(s), f) /\ FlattenSeq(s) = f[Len(s)]
    BY <1>2, FlattenLast
  <2>2. \A i \in 1..Len(s) : f[i] = (IF i = 1 THEN s[i] ELSE f[i - 1] \o s[i]) /\ s[i] \in Seq(S)
    BY <2>1, ElementOfSeq DEF Partial
  <2> DEFINE T == {k \in Nat : k + 1 \in 1..Len(s) => f[k + 1] \in Seq(S)}
  <2>3. 0 \in T
    <3>1. 1 \in 1..Len(s) => f[1] \in Seq(S)
      BY <2>2
    <3> QED BY <3>1
  <2>4. ASSUME NEW k \in T PROVE k + 1 \in T
    <3>1. k \in Nat /\ Len(s) \in Nat
      BY LenProperties
    <3>2. SUFFICES ASSUME k + 1 + 1 \in 1..Len(s) PROVE f[k + 1 + 1] \in Seq(S)
      BY <3>1
    <3> DEFINE j == k + 1 + 1
    <3>3. k + 1 \in 1..Len(s) /\ j \in 1..Len(s) /\ j # 1 /\ j - 1 = k + 1
      BY <3>1, <3>2
    <3>4. f[k + 1] \in Seq(S)
      BY <3>3
    <3> HIDE DEF j
    <3>5. f[j] = f[k + 1] \o s[j] /\ s[j] \in Seq(S)
      BY <2>2, <3>3
    <3>6. f[j] \in Seq(S)
      BY <3>4, <3>5, ConcatProperties
    <3> QED BY <3>6 DEF j
  <2> HIDE DEF T
  <2>5. T = Nat
    <3>1. T \in SUBSET Nat
      BY DEF T
    <3> QED BY <2>3, <2>4, <3>1, SetInduction
  <2>6. Len(s) - 1 \in Nat /\ Len(s) - 1 + 1 = Len(s) /\ Len(s) \in 1..Len(s)
    BY <1>2, EmptySeq
  <2> QED BY <2>1, <2>5, <2>6 DEF T
<1> QED BY <1>1, <1>2

(* What comes of the first n. *)
First(f, n) == FlattenSeq([i \in 1..n |-> f[i]])

LEMMA FirstFacts ==
  ASSUME NEW S, NEW f \in Seq(Seq(S))
  PROVE  /\ First(f, 0) = <<>>
         /\ \A n \in 0..Len(f) : First(f, n) \in Seq(S)
         /\ \A n \in 1..Len(f) : First(f, n) = First(f, n - 1) \o f[n]
         /\ First(f, Len(f)) = FlattenSeq(f)
<1> DEFINE part(n) == [i \in 1..n |-> f[i]]
<1>1. Len(f) \in Nat /\ \A i \in 1..Len(f) : f[i] \in Seq(S)
  BY ElementOfSeq
<1>2. ASSUME NEW n \in 0..Len(f)
      PROVE  part(n) \in Seq(Seq(S)) /\ First(f, n) \in Seq(S)
  <2>1. n \in Nat /\ \A i \in 1..n : i \in 1..Len(f)
    BY <1>1
  <2>2. part(n) \in Seq(Seq(S))
    BY <1>1, <2>1, IsASeq
  <2>3. FlattenSeq(part(n)) \in Seq(S)
    <3> HIDE DEF part
    <3> QED BY <2>2, FlattenType
  <2> QED BY <2>2, <2>3 DEF First
<1>3. ASSUME NEW n \in 1..Len(f)
      PROVE  First(f, n) = First(f, n - 1) \o f[n]
  <2>1. n - 1 \in 0..Len(f) /\ n \in 0..Len(f) /\ n \in Nat /\ n - 1 \in Nat
    BY <1>1
  <2>2. part(n - 1) \in Seq(Seq(S)) /\ part(n) \in Seq(Seq(S)) /\ f[n] \in Seq(S)
    BY <1>1, <1>2, <2>1
  <2>3. part(n) = Append(part(n - 1), f[n])
    <3> DEFINE p == part(n - 1)
               q == part(n)
    <3>1. /\ Len(p) = n - 1 /\ Len(q) = n
          /\ \A i \in 1..n - 1 : p[i] = f[i]
          /\ \A i \in 1..n : q[i] = f[i]
      BY <2>1
    <3>2. p \in Seq(Seq(S)) /\ q \in Seq(Seq(S))
      BY <2>2
    <3> HIDE DEF p, q
    <3>3. PICK r : r = Append(p, f[n])
      OBVIOUS
    <3>4. r \in Seq(Seq(S)) /\ Len(r) = n /\ \A i \in 1..n - 1 : r[i] = p[i]
      BY <2>1, <2>2, <3>1, <3>2, <3>3, AppendProperties
    <3>5. r[n] = f[n]
      <4>1. r[Len(p) + 1] = f[n]
        BY <2>2, <3>2, <3>3, AppendProperties
      <4> QED BY <2>1, <3>1, <4>1
    <3>6. \A i \in 1..n : r[i] = q[i]
      <4> SUFFICES ASSUME NEW i \in 1..n PROVE r[i] = q[i]
        OBVIOUS
      <4>1. i = n \/ i \in 1..n - 1
        BY <2>1
      <4> QED BY <3>1, <3>4, <3>5, <4>1
    <3>7. r = q
      BY <3>1, <3>2, <3>4, <3>6, SeqEqual
    <3> QED BY <3>3, <3>7 DEF p, q
  <2>4. FlattenSeq(part(n)) = FlattenSeq(part(n - 1)) \o f[n]
    <3> HIDE DEF part
    <3> QED BY <2>2, <2>3, FlattenAppend
  <2> QED BY <2>4 DEF First
<1>4. First(f, 0) = <<>>
  <2>1. part(0) = <<>>
    OBVIOUS
  <2> QED BY <2>1, FlattenEmpty DEF First
<1>5. First(f, Len(f)) = FlattenSeq(f)
  <2>1. f = part(Len(f))
    BY <1>1
  <2> QED BY <2>1 DEF First
<1> HIDE DEF part
<1> QED BY <1>2, <1>3, <1>4, <1>5

-----------------------------------------------------------------------------
(* The leaves below a list.                                                *)

Leaf == Good \cup Bad

(* The lists in l. *)
Sub(l) == {contents[l][i] : i \in DOMAIN contents[l]} \cap List

(* The elements of l with g for the lists among them. *)
Parts(l, g) ==
  [i \in DOMAIN contents[l] |->
     IF contents[l][i] \in List THEN g[contents[l][i]] ELSE <<contents[l][i]>>]

(* g is what the definition of LeavesIn asks for, for the lists in T. *)
Solves(T, g) ==
  /\ T \subseteq List
  /\ \A l \in T : Sub(l) \subseteq T
  /\ g = [l \in T |-> FlattenSeq(Parts(l, g))]

LEMMA SameParts ==
  ASSUME NEW l, NEW g, NEW h, \A c \in Sub(l) : g[c] = h[c]
  PROVE  Parts(l, g) = Parts(l, h)
<1>1. \A i \in DOMAIN contents[l] : contents[l][i] \in List => contents[l][i] \in Sub(l)
  BY DEF Sub
<1> QED BY <1>1 DEF Parts

(* Of any lists, one has none of the others in it. *)
LEMMA Innermore ==
  ASSUME Acyclic, NEW D \in SUBSET List, D # {}
  PROVE  \E l \in D : Sub(l) \cap D = {}
<1>1. PICK l \in D : \A i \in DOMAIN contents[l] : contents[l][i] \notin D
  BY DEF Acyclic
<1> QED BY <1>1 DEF Sub

(* There is at most one solution. *)
LEMMA SolutionsAgree ==
  ASSUME Acyclic, NEW T, NEW U, NEW g, NEW h, Solves(T, g), Solves(U, h)
  PROVE  \A l \in T \cap U : g[l] = h[l]
<1> DEFINE D == {l \in T \cap U : g[l] # h[l]}
<1>1. SUFFICES ASSUME D # {} PROVE FALSE
  OBVIOUS
<1>2. D \in SUBSET List
  BY DEF Solves
<1>3. PICK l \in D : Sub(l) \cap D = {}
  <2> HIDE DEF D
  <2> QED BY <1>1, <1>2, Innermore
<1>4. l \in T /\ l \in U /\ Sub(l) \subseteq T \cap U
  BY DEF Solves
<1>5. \A c \in Sub(l) : g[c] = h[c]
  BY <1>3, <1>4
<1>6. Parts(l, g) = Parts(l, h)
  BY <1>5, SameParts
<1>7. g[l] = FlattenSeq(Parts(l, g)) /\ h[l] = FlattenSeq(Parts(l, h))
  BY <1>4 DEF Solves
<1> QED BY <1>6, <1>7

(* There is a solution, since no list is below itself. *)
LEMMA SolutionExists == ASSUME Acyclic PROVE \E g : Solves(List, g)
<1> DEFINE U == {l \in List : \E T, g : l \in T /\ Solves(T, g)}
           value(l) == CHOOSE v : \E T, g : l \in T /\ Solves(T, g) /\ v = g[l]
<1>0. PICK G : G = [l \in U |-> value(l)]
  OBVIOUS
<1>1. ASSUME NEW T, NEW g, Solves(T, g), NEW l \in T
      PROVE  l \in U /\ G[l] = g[l]
  <2>1. l \in U
    BY <1>1 DEF Solves
  <2>2. \E v : \E S, h : l \in S /\ Solves(S, h) /\ v = h[l]
    BY <1>1
  <2>3. PICK S, h : l \in S /\ Solves(S, h) /\ value(l) = h[l]
    BY <2>2
  <2>4. h[l] = g[l]
    BY <1>1, <2>3, SolutionsAgree
  <2>5. G[l] = value(l)
    BY <1>0, <2>1
  <2> QED BY <2>1, <2>3, <2>4, <2>5
<1>2. ASSUME NEW l \in U
      PROVE  Sub(l) \subseteq U /\ G[l] = FlattenSeq(Parts(l, G))
  <2>1. PICK T, g : l \in T /\ Solves(T, g)
    OBVIOUS
  <2> HIDE DEF U
  <2>2. Sub(l) \subseteq T /\ g[l] = FlattenSeq(Parts(l, g))
    BY <2>1 DEF Solves
  <2>3. \A c \in Sub(l) : c \in U /\ G[c] = g[c]
    BY <1>1, <2>1, <2>2
  <2>4. Parts(l, G) = Parts(l, g)
    BY <2>3, SameParts
  <2>5. G[l] = g[l]
    BY <1>1, <2>1
  <2> QED BY <2>2, <2>3, <2>4, <2>5
<1>3. U = List
  <2>1. SUFFICES ASSUME List \ U # {} PROVE FALSE
    OBVIOUS
  <2>2. PICK l \in List \ U : Sub(l) \cap (List \ U) = {}
    <3> HIDE DEF U
    <3> QED BY <2>1, Innermore
  <2>3. Sub(l) \subseteq U
    BY <2>2 DEF Sub
  <2>4. PICK V : V = U \cup {l}
    OBVIOUS
  <2>5. PICK H : H = [x \in V |-> IF x = l THEN FlattenSeq(Parts(l, G)) ELSE G[x]]
    OBVIOUS
  <2>6. \A x \in U : H[x] = G[x]
    BY <2>2, <2>4, <2>5
  <2>7. \A x \in V : Sub(x) \subseteq U
    <3> HIDE DEF U
    <3> QED BY <1>2, <2>3, <2>4
  <2>8. ASSUME NEW x \in V PROVE H[x] = FlattenSeq(Parts(x, H))
    <3>1. Parts(x, H) = Parts(x, G)
      <4>1. \A c \in Sub(x) : H[c] = G[c]
        BY <2>6, <2>7
      <4> QED BY <4>1, SameParts
    <3>2. CASE x = l
      BY <2>4, <2>5, <3>1, <3>2
    <3>3. CASE x \in U
      <4> HIDE DEF U
      <4> QED BY <1>2, <2>6, <3>1, <3>3
    <3> QED BY <2>4, <3>2, <3>3
  <2>9. H = [x \in V |-> FlattenSeq(Parts(x, H))]
    BY <2>5, <2>8
  <2>10. V \subseteq List /\ \A x \in V : Sub(x) \subseteq V
    BY <2>4, <2>7
  <2>11. Solves(V, H)
    BY <2>9, <2>10 DEF Solves
  <2> QED BY <1>1, <2>2, <2>4, <2>11
<1>4. Solves(List, G)
  <2>1. G = [l \in List |-> G[l]]
    BY <1>0, <1>3
  <2>2. \A l \in List : Sub(l) \subseteq List /\ G[l] = FlattenSeq(Parts(l, G))
    BY <1>2, <1>3
  <2> HIDE DEF U, value
  <2>3. G = [l \in List |-> FlattenSeq(Parts(l, G))]
    BY <2>1, <2>2
  <2> QED BY <2>2, <2>3 DEF Solves
<1> QED BY <1>4

(* LeavesIn is a solution. *)
LEMMA LeavesSolve ==
  ASSUME Acyclic
  PROVE  \A l \in List :
           LeavesIn[l] = FlattenSeq([i \in DOMAIN contents[l] |-> LeavesOf(contents[l][i])])
<1>1. LeavesIn = CHOOSE g : g = [l \in List |-> FlattenSeq(Parts(l, g))]
  BY DEF LeavesIn, Parts
<1>2. PICK h : Solves(List, h)
  BY SolutionExists
<1>3. h = [l \in List |-> FlattenSeq(Parts(l, h))]
  BY <1>2 DEF Solves
<1>4. LeavesIn = [l \in List |-> FlattenSeq(Parts(l, LeavesIn))]
  BY <1>1, <1>3
<1>5. \A l \in List : Parts(l, LeavesIn) = [i \in DOMAIN contents[l] |-> LeavesOf(contents[l][i])]
  BY DEF Parts, LeavesOf
<1> HIDE DEF LeavesIn
<1> QED BY <1>4, <1>5

(* The leaves of a value are leaves. *)
LEMMA LeavesType ==
  ASSUME Acyclic, MainTypeOK
  PROVE  \A v \in Value : LeavesOf(v) \in Seq(Leaf)
<1> DEFINE D == {l \in List : LeavesIn[l] \notin Seq(Leaf)}
<1>1. ASSUME D # {} PROVE FALSE
  <2>1. PICK l \in D : Sub(l) \cap D = {}
    <3> HIDE DEF D
    <3>1. D \subseteq List
      BY DEF D
    <3> QED BY <1>1, <3>1, Innermore
  <2>2. contents[l] \in Seq(Value)
    BY DEF MainTypeOK
  <2>3. ASSUME NEW i \in DOMAIN contents[l] PROVE LeavesOf(contents[l][i]) \in Seq(Leaf)
    <3>1. contents[l][i] \in Value
      BY <2>2
    <3>2. CASE contents[l][i] \in List
      BY <2>1, <3>2 DEF Sub, LeavesOf
    <3>3. CASE contents[l][i] \notin List
      <4>1. contents[l][i] \in Leaf
        BY <3>1, <3>3 DEF Value, Leaf
      <4>2. <<contents[l][i]>> \in Seq(Leaf)
        BY <4>1
      <4> QED BY <3>3, <4>2 DEF LeavesOf
    <3> QED BY <3>2, <3>3
  <2>4. [i \in DOMAIN contents[l] |-> LeavesOf(contents[l][i])] \in Seq(Seq(Leaf))
    <3>1. DOMAIN contents[l] = 1..Len(contents[l]) /\ Len(contents[l]) \in Nat
      BY <2>2
    <3> QED BY <2>3, <3>1, IsASeq
  <2>5. LeavesIn[l] \in Seq(Leaf)
    BY <2>4, LeavesSolve, FlattenType
  <2> QED BY <2>1, <2>5
<1>2. \A l \in List : LeavesIn[l] \in Seq(Leaf)
  BY <1>1
<1> SUFFICES ASSUME NEW v \in Value PROVE LeavesOf(v) \in Seq(Leaf)
  OBVIOUS
<1>3. CASE v \in List
  BY <1>2, <1>3 DEF LeavesOf
<1>4. CASE v \notin List
  <2>1. v \in Leaf
    BY <1>4 DEF Value, Leaf
  <2>2. <<v>> \in Seq(Leaf)
    BY <2>1
  <2> QED BY <1>4, <2>2 DEF LeavesOf
<1> QED BY <1>3, <1>4

(* The leaves of the first n elements of l. *)
LeavesUpTo(l, n) == FlattenSeq([i \in 1..n |-> LeavesOf(contents[l][i])])

LEMMA UpToFacts ==
  ASSUME Acyclic, MainTypeOK, NEW l \in List
  PROVE  /\ Len(contents[l]) \in Nat
         /\ LeavesUpTo(l, 0) = <<>>
         /\ \A n \in 0..Len(contents[l]) : LeavesUpTo(l, n) \in Seq(Leaf)
         /\ \A n \in 1..Len(contents[l]) :
              /\ LeavesOf(contents[l][n]) \in Seq(Leaf)
              /\ LeavesUpTo(l, n) = LeavesUpTo(l, n - 1) \o LeavesOf(contents[l][n])
         /\ LeavesUpTo(l, Len(contents[l])) = LeavesIn[l]
<1>1. contents[l] \in Seq(Value) /\ Len(contents[l]) \in Nat /\ DOMAIN contents[l] = 1..Len(contents[l])
  BY DEF MainTypeOK
<1>2. PICK f : f = [i \in 1..Len(contents[l]) |-> LeavesOf(contents[l][i])]
  OBVIOUS
<1>3. \A i \in 1..Len(contents[l]) : LeavesOf(contents[l][i]) \in Seq(Leaf)
  <2>1. \A i \in 1..Len(contents[l]) : contents[l][i] \in Value
    BY <1>1
  <2> QED BY <2>1, LeavesType
<1>4. f \in Seq(Seq(Leaf)) /\ Len(f) = Len(contents[l])
  BY <1>1, <1>2, <1>3, IsASeq
<1>5. \A n \in 0..Len(contents[l]) : LeavesUpTo(l, n) = First(f, n)
  <2> SUFFICES ASSUME NEW n \in 0..Len(contents[l]) PROVE LeavesUpTo(l, n) = First(f, n)
    OBVIOUS
  <2>1. \A i \in 1..n : i \in 1..Len(contents[l])
    BY <1>1
  <2>2. [i \in 1..n |-> LeavesOf(contents[l][i])] = [i \in 1..n |-> f[i]]
    BY <1>2, <2>1
  <2> QED BY <2>2 DEF LeavesUpTo, First
<1>6. FlattenSeq(f) = LeavesIn[l]
  BY <1>1, <1>2, LeavesSolve
<1>7. /\ First(f, 0) = <<>>
      /\ \A n \in 0..Len(contents[l]) : First(f, n) \in Seq(Leaf)
      /\ \A n \in 1..Len(contents[l]) : First(f, n) = First(f, n - 1) \o f[n]
      /\ First(f, Len(contents[l])) = FlattenSeq(f)
  BY <1>4, FirstFacts
<1>8. /\ 0 \in 0..Len(contents[l]) /\ Len(contents[l]) \in 0..Len(contents[l])
      /\ \A n \in 1..Len(contents[l]) : n \in 0..Len(contents[l]) /\ n - 1 \in 0..Len(contents[l])
  BY <1>1
<1>9. \A n \in 1..Len(contents[l]) : f[n] = LeavesOf(contents[l][n])
  BY <1>2
<1> HIDE DEF First
<1> QED BY <1>1, <1>3, <1>5, <1>6, <1>7, <1>8, <1>9

-----------------------------------------------------------------------------
(* Prefixes.                                                               *)

Starts(s, t) == \E r \in Seq(Leaf) : t = s \o r

LEMMA StartsFacts ==
  /\ \A s \in Seq(Leaf) : Starts(s, s)
  /\ \A s, r \in Seq(Leaf) : Starts(s, s \o r)
  /\ \A s, t, u \in Seq(Leaf) : Starts(s, t) /\ Starts(t, u) => Starts(s, u)
  /\ \A s, t, u \in Seq(Leaf) : Starts(s, t) => Starts(u \o s, u \o t)
<1>1. \A s \in Seq(Leaf) : Starts(s, s)
  <2> SUFFICES ASSUME NEW s \in Seq(Leaf) PROVE Starts(s, s)
    OBVIOUS
  <2>1. s = s \o <<>> /\ <<>> \in Seq(Leaf)
    BY ConcatEmptySeq
  <2> QED BY <2>1 DEF Starts
<1>2. \A s, r \in Seq(Leaf) : Starts(s, s \o r)
  BY DEF Starts
<1>3. ASSUME NEW s \in Seq(Leaf), NEW t \in Seq(Leaf), NEW u \in Seq(Leaf), Starts(s, t), Starts(t, u)
      PROVE  Starts(s, u)
  <2>1. PICK p \in Seq(Leaf) : t = s \o p
    BY <1>3 DEF Starts
  <2>2. PICK q \in Seq(Leaf) : u = t \o q
    BY <1>3 DEF Starts
  <2>3. u = s \o (p \o q) /\ p \o q \in Seq(Leaf)
    BY <2>1, <2>2, ConcatAssociative, ConcatProperties
  <2> QED BY <2>3 DEF Starts
<1>4. ASSUME NEW s \in Seq(Leaf), NEW t \in Seq(Leaf), NEW u \in Seq(Leaf), Starts(s, t)
      PROVE  Starts(u \o s, u \o t)
  <2>1. PICK p \in Seq(Leaf) : t = s \o p
    BY <1>4 DEF Starts
  <2>2. u \o t = (u \o s) \o p
    BY <2>1, ConcatAssociative
  <2> QED BY <2>2 DEF Starts
<1> QED BY <1>1, <1>2, <1>3, <1>4

LEMMA StartsIsPrefix ==
  ASSUME NEW s \in Seq(Leaf), NEW t, Starts(s, t)
  PROVE  IsPrefix(s, t) /\ Len(s) <= Len(t) /\ \A i \in 1..Len(s) : s[i] = t[i]
<1>1. PICK r \in Seq(Leaf) : t = s \o r
  BY DEF Starts
<1>2. /\ t \in Seq(Leaf) /\ Len(t) = Len(s) + Len(r) /\ Len(s) \in Nat /\ Len(r) \in Nat
      /\ \A i \in 1..Len(s) + Len(r) : t[i] = IF i <= Len(s) THEN s[i] ELSE r[i - Len(s)]
  BY <1>1, ConcatProperties, LenProperties
<1>3. Len(s) <= Len(t) /\ \A i \in 1..Len(s) : i \in 1..Len(s) + Len(r) /\ s[i] = t[i]
  <2>1. Len(s) <= Len(t) /\ \A i \in 1..Len(s) : i \in 1..Len(s) + Len(r) /\ i <= Len(s)
    BY <1>2
  <2> QED BY <1>2, <2>1
<1>4. SubSeq(s, 1, Len(s)) = SubSeq(t, 1, Len(s))
  <2>1. SubSeq(s, 1, Len(s)) = [i \in 1..Len(s) |-> s[i]]
    BY <1>2
  <2>2. SubSeq(t, 1, Len(s)) = [i \in 1..Len(s) |-> t[i]]
    BY <1>2, <1>3
  <2> QED BY <1>3, <2>1, <2>2
<1> QED BY <1>3, <1>4 DEF IsPrefix

(* The first elements of a list have the first of its leaves. *)
LEMMA UpToStarts ==
  ASSUME Acyclic, MainTypeOK, NEW l \in List, NEW n \in 0..Len(contents[l])
  PROVE  Starts(LeavesUpTo(l, n), LeavesIn[l])
<1> DEFINE N == Len(contents[l])
           up(k) == LeavesUpTo(l, k)
           S == {k \in Nat : k <= N => Starts(up(N - k), LeavesIn[l])}
<1>1. /\ N \in Nat /\ up(N) = LeavesIn[l]
      /\ \A k \in 0..N : up(k) \in Seq(Leaf)
      /\ \A k \in 1..N : LeavesOf(contents[l][k]) \in Seq(Leaf) /\ up(k) = up(k - 1) \o LeavesOf(contents[l][k])
  BY UpToFacts
<1> HIDE DEF up, N
<1>2. LeavesIn[l] \in Seq(Leaf)
  BY <1>1
<1>3. 0 \in S
  <2>1. Starts(up(N), LeavesIn[l]) /\ N - 0 = N
    BY <1>1, <1>2, StartsFacts
  <2> QED BY <2>1
<1>4. ASSUME NEW k \in S PROVE k + 1 \in S
  <2>1. SUFFICES ASSUME k + 1 <= N PROVE Starts(up(N - (k + 1)), LeavesIn[l])
    OBVIOUS
  <2> DEFINE j == N - k
  <2>2. /\ k \in Nat /\ j \in 1..N /\ j \in 0..N /\ j - 1 \in 0..N /\ N - (k + 1) = j - 1
        /\ Starts(up(j), LeavesIn[l])
    BY <1>1, <2>1
  <2> HIDE DEF j
  <2>3. Starts(up(j - 1), up(j))
    <3> DEFINE x == up(j - 1)
               y == LeavesOf(contents[l][j])
    <3>1. x \in Seq(Leaf) /\ y \in Seq(Leaf) /\ up(j) = x \o y
      BY <1>1, <2>2
    <3> HIDE DEF x, y
    <3>2. Starts(x, x \o y)
      BY <3>1, StartsFacts
    <3> QED BY <3>1, <3>2 DEF x
  <2>4. Starts(up(j - 1), LeavesIn[l])
    BY <1>1, <1>2, <2>2, <2>3, StartsFacts
  <2> QED BY <2>2, <2>4
<1>5. S = Nat
  <2>1. S \in SUBSET Nat
    OBVIOUS
  <2> HIDE DEF S
  <2> QED BY <1>3, <1>4, <2>1, SetInduction
<1>6. N - n \in Nat /\ N - n <= N /\ N - (N - n) = n
  BY <1>1 DEF N
<1>7. Starts(up(n), LeavesIn[l])
  <2>1. N - n \in S
    BY <1>5, <1>6
  <2> QED BY <1>6, <2>1
<1> QED BY <1>7 DEF up

-----------------------------------------------------------------------------
(* The active loops.                                                       *)

(* Each loop has the leaves of the elements it has passed, and is at the   *)
(* list that the next one inwards goes through.                            *)
InOrder ==
  /\ stack # <<>> => stack[1].list = MainList
  /\ \A k \in 1..Len(stack) :
       /\ stack[k].next - 1 \in 0..Len(contents[stack[k].list])
       /\ stack[k].out = LeavesUpTo(stack[k].list, stack[k].next - 1)
  /\ \A k \in 1..Len(stack) - 1 :
       /\ stack[k].next \in 1..Len(contents[stack[k].list])
       /\ contents[stack[k].list][stack[k].next] = stack[k + 1].list

MInv == MainTypeOK /\ Acyclic /\ InOrder

(* The loops, one by one. *)
LEMMA LoopFacts ==
  ASSUME MInv, NEW k \in 1..Len(stack)
  PROVE  /\ stack[k] \in Frame /\ stack[k].list \in List
         /\ stack[k].next \in Nat \ {0}
         /\ stack[k].out \in Seq(Leaf)
         /\ Len(contents[stack[k].list]) \in Nat
<1>1. stack[k] \in Frame
  BY ElementOfSeq DEF MInv, MainTypeOK
<1>2. stack[k].list \in List /\ stack[k].next \in Nat \ {0}
  BY <1>1 DEF Frame
<1>3. Len(contents[stack[k].list]) \in Nat
  BY <1>2, UpToFacts DEF MInv
<1>4. stack[k].out \in Seq(Leaf)
  BY <1>2, UpToFacts DEF MInv, InOrder
<1> QED BY <1>1, <1>2, <1>3, <1>4

(* What the first k loops have. *)
CollectedBy(k) == FlattenSeq([i \in 1..k |-> stack[i].out])

LEMMA CollectedFacts ==
  ASSUME MInv
  PROVE  /\ CollectedBy(0) = <<>>
         /\ \A k \in 0..Len(stack) : CollectedBy(k) \in Seq(Leaf)
         /\ \A k \in 1..Len(stack) : CollectedBy(k) = CollectedBy(k - 1) \o stack[k].out
<1>0. Len(stack) \in Nat
  BY DEF MInv, MainTypeOK
<1>1. PICK f : f = [i \in 1..Len(stack) |-> stack[i].out]
  OBVIOUS
<1>2. \A i \in 1..Len(stack) : stack[i].out \in Seq(Leaf)
  BY LoopFacts
<1>3. f \in Seq(Seq(Leaf)) /\ Len(f) = Len(stack)
  BY <1>0, <1>1, <1>2, IsASeq
<1>4. \A k \in 0..Len(stack) : CollectedBy(k) = First(f, k)
  <2> SUFFICES ASSUME NEW k \in 0..Len(stack) PROVE CollectedBy(k) = First(f, k)
    OBVIOUS
  <2>1. \A i \in 1..k : i \in 1..Len(stack)
    BY <1>0
  <2>2. [i \in 1..k |-> stack[i].out] = [i \in 1..k |-> f[i]]
    BY <1>1, <2>1
  <2> QED BY <2>2 DEF CollectedBy, First
<1>5. /\ First(f, 0) = <<>>
      /\ \A k \in 0..Len(stack) : First(f, k) \in Seq(Leaf)
      /\ \A k \in 1..Len(stack) : First(f, k) = First(f, k - 1) \o f[k]
  BY <1>3, FirstFacts
<1>6. /\ 0 \in 0..Len(stack)
      /\ \A k \in 1..Len(stack) : k \in 0..Len(stack) /\ k - 1 \in 0..Len(stack)
  BY <1>0
<1>7. \A k \in 1..Len(stack) : f[k] = stack[k].out
  BY <1>1
<1> QED BY <1>4, <1>5, <1>6, <1>7

(* The outermost loops have the beginning of the leaves, and the rest      *)
(* starts with those of the list that the next loop goes through.          *)
LEMMA Outwards ==
  ASSUME MInv
  PROVE  /\ Leaves \in Seq(Leaf)
         /\ \A k \in 1..Len(stack) :
              Starts(CollectedBy(k - 1) \o LeavesIn[stack[k].list], Leaves)
<1> DEFINE N == Len(stack)
           lists(k) == LeavesIn[stack[k].list]
           S == {j \in Nat : j + 1 \in 1..N => Starts(CollectedBy(j) \o lists(j + 1), Leaves)}
<1>0. N \in Nat /\ MainList \in List /\ Leaves \in Seq(Leaf)
  <2>1. MainList \in List
    BY EntryAssumption
  <2>2. LeavesIn[MainList] \in Seq(Leaf)
    <3>1. LeavesOf(MainList) \in Seq(Leaf)
      BY <2>1, LeavesType DEF MInv, Value
    <3> QED BY <2>1, <3>1 DEF LeavesOf
  <2> QED BY <2>1, <2>2 DEF Leaves, MInv, MainTypeOK
<1>1. 0 \in S
  <2>1. SUFFICES ASSUME 1 \in 1..N PROVE Starts(CollectedBy(0) \o lists(1), Leaves)
    OBVIOUS
  <2>2. stack # <<>>
    BY <2>1
  <2>3. stack[1].list = MainList
    BY <2>2 DEF MInv, InOrder
  <2>4. CollectedBy(0) \o lists(1) = Leaves
    BY <1>0, <2>3, CollectedFacts, ConcatEmptySeq DEF Leaves
  <2> QED BY <1>0, <2>4, StartsFacts
<1>2. ASSUME NEW j \in S PROVE j + 1 \in S
  <2>0. j \in Nat /\ j + 1 \in Nat
    OBVIOUS
  <2>1. SUFFICES ASSUME j + 1 + 1 \in 1..N
                 PROVE  Starts(CollectedBy(j + 1) \o lists(j + 1 + 1), Leaves)
    BY <2>0
  <2>2. PICK k : k = j + 1
    OBVIOUS
  <2>3. /\ k \in 1..N /\ k \in 1..N - 1 /\ k - 1 = j /\ k + 1 \in 1..N
        /\ k \in 0..N /\ k - 1 \in 0..N
        /\ Starts(CollectedBy(k - 1) \o lists(k), Leaves)
    BY <1>0, <2>0, <2>1, <2>2
  <2>4. PICK l, n : l = stack[k].list /\ n = stack[k].next
    OBVIOUS
  <2>5. l \in List /\ n \in 1..Len(contents[l]) /\ contents[l][n] = stack[k + 1].list
    BY <2>3, <2>4, LoopFacts DEF MInv, InOrder
  <2>6. stack[k].out = LeavesUpTo(l, n - 1) /\ stack[k + 1].list \in List
    BY <2>3, <2>4, LoopFacts DEF MInv, InOrder
  <2>7. /\ LeavesUpTo(l, n) = LeavesUpTo(l, n - 1) \o lists(k + 1)
        /\ lists(k + 1) \in Seq(Leaf)
    BY <2>5, <2>6, UpToFacts DEF MInv, LeavesOf
  <2>8. n \in 0..Len(contents[l]) /\ n - 1 \in 0..Len(contents[l])
    BY <2>5, UpToFacts DEF MInv
  <2>9. Starts(LeavesUpTo(l, n), lists(k))
    BY <2>4, <2>5, <2>8, UpToStarts DEF MInv
  <2> DEFINE c == CollectedBy(k - 1)
             o == LeavesUpTo(l, n - 1)
             u == LeavesUpTo(l, n)
             x == lists(k)
             y == lists(k + 1)
  <2>10. c \in Seq(Leaf) /\ o \in Seq(Leaf) /\ u \in Seq(Leaf) /\ y \in Seq(Leaf) /\ x \in Seq(Leaf)
    <3>1. x \in Seq(Leaf)
      BY <2>4, <2>5, UpToFacts DEF MInv
    <3> QED BY <2>3, <2>5, <2>7, <2>8, <3>1, CollectedFacts, UpToFacts DEF MInv
  <2>11. CollectedBy(k) = c \o o /\ u = o \o y /\ Starts(u, x) /\ Starts(c \o x, Leaves)
    BY <2>3, <2>6, <2>7, <2>9, CollectedFacts
  <2> HIDE DEF c, o, u, x, y
  <2>12. CollectedBy(k) \o y = c \o u
    BY <2>10, <2>11, ConcatAssociative
  <2>13. Starts(c \o u, c \o x)
    BY <2>10, <2>11, StartsFacts
  <2>14. c \o u \in Seq(Leaf) /\ c \o x \in Seq(Leaf)
    BY <2>10, ConcatProperties
  <2>15. Starts(CollectedBy(k) \o y, Leaves)
    BY <1>0, <2>11, <2>12, <2>13, <2>14, StartsFacts
  <2> QED BY <2>2, <2>15 DEF y
<1>3. S = Nat
  <2>1. S \in SUBSET Nat
    OBVIOUS
  <2> HIDE DEF S
  <2> QED BY <1>1, <1>2, <2>1, SetInduction
<1>4. ASSUME NEW k \in 1..N PROVE Starts(CollectedBy(k - 1) \o lists(k), Leaves)
  <2>1. k - 1 \in S /\ k - 1 + 1 = k
    BY <1>0, <1>3
  <2> QED BY <2>1
<1> QED BY <1>0, <1>4

(* The innermost loop: what it has passed comes next in the leaves. *)
LEMMA NextLeaves ==
  ASSUME MInv, stack # <<>>, NEW n \in 0..Len(contents[Top.list])
  PROVE  Starts(CollectedBy(Len(stack) - 1) \o LeavesUpTo(Top.list, n), Leaves)
<1>1. Len(stack) \in 1..Len(stack) /\ Len(stack) - 1 \in 0..Len(stack)
  BY EmptySeq DEF MInv, MainTypeOK
<1>2. Top.list \in List
  BY <1>1, LoopFacts DEF Top
<1> DEFINE c == CollectedBy(Len(stack) - 1)
           u == LeavesUpTo(Top.list, n)
           x == LeavesIn[Top.list]
<1>3. Starts(c \o x, Leaves) /\ Leaves \in Seq(Leaf)
  BY <1>1, Outwards DEF Top
<1>4. c \in Seq(Leaf) /\ u \in Seq(Leaf) /\ x \in Seq(Leaf) /\ Starts(u, x)
  <2>1. x \in Seq(Leaf) /\ u \in Seq(Leaf)
    <3>1. PICK l \in List : l = Top.list
      BY <1>2
    <3>2. /\ Len(contents[l]) \in Nat /\ LeavesUpTo(l, Len(contents[l])) = LeavesIn[l]
          /\ \A i \in 0..Len(contents[l]) : LeavesUpTo(l, i) \in Seq(Leaf)
      BY UpToFacts DEF MInv
    <3> QED BY <3>1, <3>2
  <2>2. Starts(u, x)
    BY <1>2, UpToStarts DEF MInv
  <2> QED BY <1>1, <2>1, <2>2, CollectedFacts
<1> HIDE DEF c, u, x
<1>5. c \o u \in Seq(Leaf) /\ c \o x \in Seq(Leaf) /\ Starts(c \o u, c \o x)
  BY <1>4, StartsFacts, ConcatProperties
<1>6. Starts(c \o u, Leaves)
  BY <1>3, <1>5, StartsFacts
<1> QED BY <1>6 DEF c, u

LEMMA MInvOrder == MInv => CollectedInOrder
<1> SUFFICES ASSUME MInv PROVE CollectedInOrder
  OBVIOUS
<1>1. Len(stack) \in Nat /\ DOMAIN stack = 1..Len(stack)
  BY DEF MInv, MainTypeOK
<1>2. FlattenSeq([i \in DOMAIN stack |-> stack[i].out]) = CollectedBy(Len(stack))
  BY <1>1 DEF CollectedBy
<1>3. Leaves \in Seq(Leaf)
  BY Outwards
<1>4. Starts(CollectedBy(Len(stack)), Leaves) /\ CollectedBy(Len(stack)) \in Seq(Leaf)
  <2>1. CASE stack = <<>>
    <3>1. CollectedBy(Len(stack)) = <<>>
      BY <2>1, CollectedFacts
    <3>2. Leaves = <<>> \o Leaves /\ <<>> \in Seq(Leaf)
      BY <1>3, ConcatEmptySeq
    <3> QED BY <1>3, <3>1, <3>2 DEF Starts
  <2>2. CASE stack # <<>>
    <3>1. Len(stack) \in 1..Len(stack) /\ Len(stack) \in 0..Len(stack)
      BY <1>1, <2>2, EmptySeq DEF MInv, MainTypeOK
    <3>2. /\ Top.next - 1 \in 0..Len(contents[Top.list])
          /\ Top.out = LeavesUpTo(Top.list, Top.next - 1)
      BY <3>1 DEF MInv, InOrder, Top
    <3>3. CollectedBy(Len(stack)) = CollectedBy(Len(stack) - 1) \o Top.out
      BY <3>1, CollectedFacts DEF Top
    <3> QED BY <2>2, <3>1, <3>2, <3>3, NextLeaves, CollectedFacts
  <2> QED BY <2>1, <2>2
<1> QED BY <1>2, <1>4, StartsIsPrefix DEF CollectedInOrder

-----------------------------------------------------------------------------
(* The steps.                                                              *)

(* The leaves depend on the contents of the lists only. *)
LEMMA SameLeaves ==
  ASSUME contents' = contents
  PROVE  /\ \A l, n : LeavesUpTo(l, n)' = LeavesUpTo(l, n)
         /\ LeavesIn' = LeavesIn /\ Leaves' = Leaves
         /\ Acyclic => Acyclic'
<1>1. LeavesIn' = LeavesIn
  BY DEF LeavesIn
<1> HIDE DEF LeavesIn
<1>2. \A l, n : LeavesUpTo(l, n)' = LeavesUpTo(l, n)
  BY <1>1 DEF LeavesUpTo, LeavesOf
<1>3. Leaves' = Leaves
  BY <1>1 DEF Leaves
<1>4. Acyclic => Acyclic'
  BY DEF Acyclic
<1> QED BY <1>1, <1>2, <1>3, <1>4

(* The order of what is collected, in terms of the lists before the step. *)
LEMMA OrderFrom ==
  ASSUME contents' = contents,
         stack' # <<>> => stack'[1].list = MainList,
         \A k \in 1..Len(stack') :
           /\ stack'[k].next - 1 \in 0..Len(contents[stack'[k].list])
           /\ stack'[k].out = LeavesUpTo(stack'[k].list, stack'[k].next - 1),
         \A k \in 1..Len(stack') - 1 :
           /\ stack'[k].next \in 1..Len(contents[stack'[k].list])
           /\ contents[stack'[k].list][stack'[k].next] = stack'[k + 1].list
  PROVE  InOrder'
<1>1. ASSUME NEW k \in 1..Len(stack')
      PROVE  LeavesUpTo(stack[k].list, stack[k].next - 1)' = LeavesUpTo(stack'[k].list, stack'[k].next - 1)
  <2>1. PICK l, n : l = stack'[k].list /\ n = stack'[k].next - 1
    OBVIOUS
  <2>2. LeavesUpTo(l, n)' = LeavesUpTo(l, n)
    BY SameLeaves
  <2>3. LeavesUpTo(stack[k].list, stack[k].next - 1)' = LeavesUpTo(l, n)'
    BY <2>1 DEF LeavesUpTo
  <2>4. LeavesUpTo(stack'[k].list, stack'[k].next - 1) = LeavesUpTo(l, n)
    BY <2>1
  <2> QED BY <2>2, <2>3, <2>4
<1> QED BY <1>1 DEF InOrder

(* A loop that goes on, written out. *)
After(fr, n, x) == [fr EXCEPT !.next = n, !.out = x]

LEMMA FrameAfter ==
  ASSUME NEW fr \in Frame, NEW n \in Nat \ {0}, NEW x \in Seq(Good)
  PROVE  After(fr, n, x) = [list |-> fr.list, next |-> n, out |-> x]
<1>1. ASSUME NEW L, NEW N, NEW S, NEW g \in [list : L, next : N, out : S], n \in N, x \in S
      PROVE  After(g, n, x) = [list |-> g.list, next |-> n, out |-> x]
  <2> DEFINE h == [g EXCEPT !.next = n, !.out = x]
  <2>1. h \in [list : L, next : N, out : S]
    BY <1>1
  <2>2. h.list = g.list /\ h.next = n /\ h.out = x
    BY <1>1
  <2>3. h = [list |-> h.list, next |-> h.next, out |-> h.out]
    <3> HIDE DEF h
    <3> QED BY <2>1
  <2> QED BY <2>2, <2>3 DEF After
<1> QED BY <1>1 DEF Frame

LEMMA StepMInv == MInv /\ [MainNext]_mainVars => MInv'
<1> SUFFICES ASSUME MInv, [MainNext]_mainVars PROVE MInv'
  OBVIOUS
<1>1. MainTypeOK' /\ contents' = contents
  <2>1. MainTypeOK'
    BY MainStepTypeOK DEF MInv
  <2>2. contents' = contents
    BY DEF MainNext, mainVars, NoList, Call, Collect, Descend, Ascend, Reject, Return
  <2> QED BY <2>1, <2>2
<1>2. SUFFICES InOrder'
  BY <1>1, SameLeaves DEF MInv
<1> DEFINE N == Len(stack)
<1>3. N \in Nat /\ stack \in Seq(Frame) /\ InOrder
  BY DEF MInv, MainTypeOK
<1>4. CASE UNCHANGED stack
  BY <1>1, <1>3, <1>4, OrderFrom DEF InOrder
<1>5. CASE stack' = <<>>
  BY <1>1, <1>5, OrderFrom
<1>6. ASSUME NEW l \in List, NEW fr, fr = Enter(l)
      PROVE  fr.list = l /\ fr.next = 1 /\ fr.next - 1 \in 0..Len(contents[l]) /\ fr.out = LeavesUpTo(l, fr.next - 1)
  <2>1. LeavesUpTo(l, 0) = <<>> /\ Len(contents[l]) \in Nat
    BY UpToFacts DEF MInv
  <2> QED BY <1>6, <2>1 DEF Enter
<1>7. CASE Call
  <2>1. PICK fr : fr = Enter(MainList)
    OBVIOUS
  <2>2. stack' = <<fr>> /\ MainList \in List
    BY <1>7, <2>1, EntryAssumption DEF Call
  <2>3. Len(stack') = 1 /\ stack'[1] = fr
    BY <2>2
  <2> QED BY <1>1, <1>6, <2>1, <2>2, <2>3, OrderFrom
<1>8. CASE Collect
  <2>1. /\ stack # <<>> /\ N \in 1..N /\ Element \in Good /\ ~AtEnd
        /\ Top \in Frame
    BY <1>3, <1>8, Innermost, EmptySeq DEF Collect, MInv
  <2>2. PICK l, n : l = Top.list /\ n = Top.next
    OBVIOUS
  <2>3. l \in List /\ n \in 1..Len(contents[l]) /\ Len(contents[l]) \in Nat /\ contents[l][n] = Element
    <3>1. Len(contents[Top.list]) \in Nat /\ Top.list \in List /\ Top.next \in Nat \ {0}
      BY <2>1, LoopFacts DEF Top
    <3> QED BY <2>1, <2>2, <3>1 DEF AtEnd, Element
  <2>4. Top.out = LeavesUpTo(l, n - 1) /\ Top.out \in Seq(Leaf) /\ Top.out \in Seq(Good)
    BY <2>1, <2>2, LoopFacts DEF Top, MInv, InOrder, Frame
  <2>5. Append(Top.out, Element) = LeavesUpTo(l, n)
    <3>1. Element \in Leaf /\ Element \notin List
      BY <2>1, EntryAssumption DEF Leaf
    <3>2. LeavesUpTo(l, n) = LeavesUpTo(l, n - 1) \o <<Element>>
      BY <2>3, <3>1, UpToFacts DEF MInv, LeavesOf
    <3> QED BY <2>4, <3>1, <3>2, AppendIsConcat
  <2>6. PICK fr : fr = [list |-> l, next |-> n + 1, out |-> LeavesUpTo(l, n)]
    OBVIOUS
  <2>7. stack' = [stack EXCEPT ![N] = fr]
    <3>1. fr = After(Top, n + 1, Append(Top.out, Element))
      <4>1. n + 1 \in Nat \ {0}
        BY <2>3
      <4>2. Append(Top.out, Element) \in Seq(Good)
        BY <2>1, <2>4, AppendProperties
      <4> QED BY <2>1, <2>2, <2>5, <2>6, <4>1, <4>2, FrameAfter
    <3>2. stack' = [stack EXCEPT ![N] = After(Top, n + 1, Append(Top.out, Element))]
      BY <1>3, <1>8, <2>1, <2>2 DEF Collect, Top, After
    <3> QED BY <3>1, <3>2
  <2>8. Len(stack') = N /\ stack'[N] = fr /\ \A k \in 1..N : k # N => stack'[k] = stack[k]
    BY <1>3, <2>1, <2>7
  <2>9. fr.list = l /\ fr.next - 1 = n /\ fr.out = LeavesUpTo(l, n) /\ n \in 0..Len(contents[l])
    BY <2>3, <2>6
  <2>10. stack'[1].list = MainList
    <3>1. 1 \in 1..N /\ stack[1].list = MainList
      BY <1>3, <2>1 DEF InOrder
    <3> QED BY <2>2, <2>8, <2>9, <3>1 DEF Top
  <2>11. \A k \in 1..N : /\ stack'[k].next - 1 \in 0..Len(contents[stack'[k].list])
                         /\ stack'[k].out = LeavesUpTo(stack'[k].list, stack'[k].next - 1)
    BY <1>3, <2>8, <2>9 DEF InOrder
  <2>12. \A k \in 1..N - 1 : /\ stack'[k].next \in 1..Len(contents[stack'[k].list])
                             /\ contents[stack'[k].list][stack'[k].next] = stack'[k + 1].list
    <3> SUFFICES ASSUME NEW k \in 1..N - 1
                 PROVE  /\ stack'[k].next \in 1..Len(contents[stack'[k].list])
                        /\ contents[stack'[k].list][stack'[k].next] = stack'[k + 1].list
      OBVIOUS
    <3>1. k \in 1..N /\ k # N /\ k + 1 \in 1..N
      BY <1>3
    <3>2. stack'[k] = stack[k] /\ stack'[k + 1].list = stack[k + 1].list
      BY <2>2, <2>8, <2>9, <3>1 DEF Top
    <3> QED BY <1>3, <3>2 DEF InOrder
  <2> QED BY <1>1, <2>8, <2>10, <2>11, <2>12, OrderFrom
<1>9. CASE Descend
  <2>1. /\ stack # <<>> /\ N \in 1..N /\ Element \in List /\ ~AtEnd
    BY <1>3, <1>9, EmptySeq DEF Descend
  <2>2. PICK fr : fr = Enter(Element)
    OBVIOUS
  <2>3. stack' = Append(stack, fr) /\ fr \in Frame
    BY <1>9, <2>1, <2>2 DEF Descend, Enter, Frame
  <2>4. /\ Len(stack') = N + 1 /\ stack'[N + 1] = fr
        /\ \A k \in 1..N : stack'[k] = stack[k]
    BY <1>3, <2>3, AppendProperties
  <2>5. Top.next \in 1..Len(contents[Top.list])
    <3>1. Len(contents[Top.list]) \in Nat /\ Top.next \in Nat \ {0}
      BY <2>1, LoopFacts DEF Top
    <3> QED BY <2>1, <3>1 DEF AtEnd
  <2>6. fr.list = Element /\ fr.next - 1 \in 0..Len(contents[fr.list]) /\ fr.out = LeavesUpTo(fr.list, fr.next - 1)
    BY <1>6, <2>1, <2>2
  <2>7. stack'[1].list = MainList
    BY <1>3, <2>1, <2>4 DEF InOrder
  <2>8. \A k \in 1..N + 1 : k = N + 1 \/ k \in 1..N
    BY <1>3
  <2>9. \A k \in 1..N + 1 : /\ stack'[k].next - 1 \in 0..Len(contents[stack'[k].list])
                            /\ stack'[k].out = LeavesUpTo(stack'[k].list, stack'[k].next - 1)
    BY <1>3, <2>4, <2>6, <2>8 DEF InOrder
  <2>10. ASSUME NEW k \in 1..N
         PROVE  /\ stack'[k].next \in 1..Len(contents[stack'[k].list])
                /\ contents[stack'[k].list][stack'[k].next] = stack'[k + 1].list
    <3>1. CASE k = N
      BY <2>4, <2>5, <2>6, <3>1 DEF Top, Element
    <3>2. CASE k # N
      <4>1. k \in 1..N - 1 /\ k + 1 \in 1..N
        BY <1>3, <3>2
      <4> QED BY <1>3, <2>4, <4>1 DEF InOrder
    <3> QED BY <3>1, <3>2
  <2>11. Len(stack') - 1 = N
    BY <1>3, <2>4
  <2> QED BY <1>1, <2>4, <2>7, <2>9, <2>10, <2>11, OrderFrom
<1>10. CASE Ascend
  <2> DEFINE m == N - 1
  <2>1. N > 1 /\ m \in 1..m /\ m \in 1..N /\ N \in 1..N /\ stack # <<>> /\ AtEnd
    BY <1>3, <1>10 DEF Ascend
  <2>2. PICK l, n : l = stack[m].list /\ n = stack[m].next
    OBVIOUS
  <2>3. l \in List /\ n \in 1..Len(contents[l]) /\ contents[l][n] = Top.list /\ Top.list \in List
    <3>1. m + 1 = N
      BY <1>3
    <3> QED BY <2>1, <2>2, <3>1, LoopFacts DEF Top, MInv, InOrder
  <2>4. Top.out = LeavesIn[Top.list]
    <3>1. PICK u : u = Top.list
      OBVIOUS
    <3>2. /\ Top.next - 1 \in 0..Len(contents[u]) /\ Top.out = LeavesUpTo(u, Top.next - 1)
          /\ Top.next \in Nat /\ Len(contents[u]) \in Nat /\ u \in List
      BY <2>1, <3>1, LoopFacts DEF Top, MInv, InOrder
    <3>3. Top.next - 1 = Len(contents[u])
      BY <2>1, <3>1, <3>2 DEF AtEnd
    <3> QED BY <3>1, <3>2, <3>3, UpToFacts DEF MInv
  <2>5. stack[m].out \o Top.out = LeavesUpTo(l, n)
    <3>1. stack[m].out = LeavesUpTo(l, n - 1)
      BY <2>1, <2>2 DEF MInv, InOrder
    <3>2. LeavesUpTo(l, n) = LeavesUpTo(l, n - 1) \o LeavesOf(contents[l][n])
      BY <2>3, UpToFacts DEF MInv
    <3>3. LeavesOf(contents[l][n]) = Top.out
      BY <2>3, <2>4 DEF LeavesOf
    <3> QED BY <3>1, <3>2, <3>3
  <2>6. PICK fr : fr = [list |-> l, next |-> n + 1, out |-> LeavesUpTo(l, n)]
    OBVIOUS
  <2>7. /\ Front(stack) \in Seq(Frame) /\ Len(Front(stack)) = m
        /\ \A k \in 1..m : Front(stack)[k] = stack[k]
    BY <1>3, <2>1, FrontFacts
  <2>8. stack' = [Front(stack) EXCEPT ![m] = fr]
    <3>1. fr = After(stack[m], n + 1, stack[m].out \o Top.out)
      <4>1. stack[m] \in Frame /\ Top \in Frame
        BY <2>1, LoopFacts DEF Top
      <4>2. n + 1 \in Nat \ {0}
        BY <2>3
      <4>3. stack[m].out \o Top.out \in Seq(Good)
        <5>1. stack[m].out \in Seq(Good) /\ Top.out \in Seq(Good)
          BY <4>1 DEF Frame
        <5> QED BY <5>1, ConcatProperties
      <4> QED BY <2>2, <2>5, <2>6, <4>1, <4>2, <4>3, FrameAfter
    <3>2. Front(stack)[m] = stack[m]
      BY <2>1, <2>7
    <3>3. stack' = [Front(stack) EXCEPT ![m] = After(stack[m], n + 1, stack[m].out \o Top.out)]
      BY <1>3, <1>10, <2>1, <2>2, <2>7, <3>2 DEF Ascend, AppendNested, After
    <3> QED BY <3>1, <3>3
  <2>9. Len(stack') = m /\ stack'[m] = fr /\ \A k \in 1..m : k # m => stack'[k] = stack[k]
    BY <2>1, <2>7, <2>8
  <2>10. fr.list = l /\ fr.next - 1 = n /\ fr.out = LeavesUpTo(l, n) /\ n \in 0..Len(contents[l])
    <3>1. Len(contents[l]) \in Nat
      BY <2>3, UpToFacts DEF MInv
    <3> QED BY <2>3, <2>6, <3>1
  <2>11. \A k \in 1..m : k \in 1..N /\ stack'[k].list = stack[k].list
    BY <1>3, <2>2, <2>9, <2>10
  <2>12. stack'[1].list = MainList
    BY <1>3, <2>1, <2>11 DEF InOrder
  <2>13. \A k \in 1..m : /\ stack'[k].next - 1 \in 0..Len(contents[stack'[k].list])
                         /\ stack'[k].out = LeavesUpTo(stack'[k].list, stack'[k].next - 1)
    BY <1>3, <2>9, <2>10, <2>11 DEF InOrder
  <2>14. ASSUME NEW k \in 1..m - 1
         PROVE  /\ stack'[k].next \in 1..Len(contents[stack'[k].list])
                /\ contents[stack'[k].list][stack'[k].next] = stack'[k + 1].list
    <3>1. k \in 1..m /\ k # m /\ k + 1 \in 1..m /\ k \in 1..N - 1
      BY <1>3
    <3> QED BY <1>3, <2>9, <2>11, <3>1 DEF InOrder
  <2> HIDE DEF m
  <2> QED BY <1>1, <2>9, <2>12, <2>13, <2>14, OrderFrom
<1>11. QED
  BY <1>4, <1>5, <1>7, <1>8, <1>9, <1>10 DEF MainNext, mainVars, NoList, Reject, Return

LEMMA MInvariant == MainSpec => []MInv
<1>1. MainInit => MInv
  <2> SUFFICES ASSUME MainInit PROVE MInv
    OBVIOUS
  <2>1. MainTypeOK /\ Acyclic /\ stack = <<>>
    BY DEF MainInit, Idle
  <2>2. InOrder
    BY <2>1 DEF InOrder
  <2> QED BY <2>1, <2>2 DEF MInv
<1>2. QED
  BY <1>1, StepMInv, PTL DEF MainSpec

(* However deep the lists are nested, what the active loops have collected *)
(* is the beginning of the leaves of the returned list, from left to right *)
(* and each once.                                                          *)
THEOREM OrderKept == MainSpec => []CollectedInOrder
BY MInvariant, MInvOrder, PTL

(* What a call returns: all the leaves; or with an error nothing, and the  *)
(* strings of the elements before the one with the bad value; and an error *)
(* only for a bad value, or a nested list that may not be flattened.       *)
THEOREM ResultsExact == MainSpec => ResultExact
<1> DEFINE AllLeaves == Return => returned'.values = Leaves
           Before == FlattenSeq([i \in 1..stack[1].next - 1 |-> LeavesOf(contents[MainList][i])])
           Cause ==
             \/ \E i \in DOMAIN Leaves : Leaves[i] \in Bad
             \/ ~flatten /\ \E i \in DOMAIN contents[MainList] : contents[MainList][i] \in List
           Rejected ==
             Reject => /\ returned'.values = IF kind = "proto" THEN <<>> ELSE Before
                       /\ Cause
<1>1. MInv => AllLeaves
  <2> SUFFICES ASSUME MInv, Return PROVE returned'.values = Leaves
    OBVIOUS
  <2>1. Len(stack) = 1 /\ AtEnd /\ returned'.values = Top.out /\ Top = stack[1] /\ stack # <<>>
    BY DEF Return, Answer, Top
  <2>2. /\ Top.list = MainList /\ Top.next - 1 \in 0..Len(contents[MainList])
        /\ Top.out = LeavesUpTo(MainList, Top.next - 1)
    BY <2>1 DEF MInv, InOrder
  <2>3. MainList \in List /\ Len(contents[MainList]) \in Nat /\ Top.next \in Nat
    BY <2>1, <2>2, LoopFacts, EntryAssumption
  <2>4. Top.next - 1 = Len(contents[MainList])
    BY <2>1, <2>2, <2>3 DEF AtEnd
  <2> QED BY <2>1, <2>2, <2>3, <2>4, UpToFacts DEF MInv, Leaves
<1>2. MInv => Rejected
  <2> SUFFICES ASSUME MInv, Reject
               PROVE  returned'.values = (IF kind = "proto" THEN <<>> ELSE Before) /\ Cause
    OBVIOUS
  <2>1. /\ stack # <<>> /\ ~AtEnd /\ Element \notin Good /\ ~(Element \in List /\ Flattens)
        /\ returned'.values = OutputOnError
    BY DEF Reject, Answer
  <2>2. Len(stack) \in Nat /\ 1 \in 1..Len(stack) /\ Len(stack) \in 1..Len(stack)
    BY <2>1, EmptySeq DEF MInv, MainTypeOK
  <2>3. OutputOnError = IF kind = "proto" THEN <<>> ELSE Before
    <3>1. stack[1].list = MainList /\ stack[1].out = LeavesUpTo(stack[1].list, stack[1].next - 1)
      BY <2>1, <2>2 DEF MInv, InOrder
    <3> QED BY <3>1 DEF OutputOnError, LeavesUpTo
  <2>4. PICK l, n : l = Top.list /\ n = Top.next
    OBVIOUS
  <2>5. /\ l \in List /\ Len(contents[l]) \in Nat /\ n \in 1..Len(contents[l])
        /\ contents[l][n] = Element /\ Element \in Value
    <3>1. Top.list \in List /\ Top.next \in Nat \ {0} /\ Len(contents[Top.list]) \in Nat
      BY <2>2, LoopFacts DEF Top
    <3>2. Element \in Value
      BY <2>1, Innermost DEF MInv
    <3> QED BY <2>1, <2>4, <3>1, <3>2 DEF AtEnd, Element
  <2>6. CASE Element \in Bad
    <3> DEFINE c == CollectedBy(Len(stack) - 1)
               u == LeavesUpTo(l, n - 1)
               s == c \o LeavesUpTo(l, n)
    <3>1. n \in 0..Len(contents[l]) /\ n - 1 \in 0..Len(contents[l]) /\ Len(stack) - 1 \in 0..Len(stack)
      BY <2>2, <2>5
    <3>2. c \in Seq(Leaf) /\ u \in Seq(Leaf) /\ LeavesUpTo(l, n) \in Seq(Leaf)
      BY <2>5, <3>1, CollectedFacts, UpToFacts DEF MInv
    <3>3. LeavesUpTo(l, n) = u \o <<Element>>
      <4>1. Element \notin List
        BY <2>6, EntryAssumption
      <4> QED BY <2>5, <4>1, UpToFacts DEF MInv, LeavesOf
    <3>4. Starts(s, Leaves)
      BY <2>1, <2>4, <3>1, NextLeaves
    <3>5. Leaves \in Seq(Leaf)
      BY Outwards
    <3> HIDE DEF c, u
    <3>6. Element \in Leaf /\ <<Element>> \in Seq(Leaf) /\ Len(<<Element>>) = 1
      BY <2>6 DEF Leaf
    <3>7. s = (c \o u) \o <<Element>> /\ c \o u \in Seq(Leaf)
      BY <3>2, <3>3, <3>6, ConcatAssociative, ConcatProperties
    <3>8. s \in Seq(Leaf) /\ Len(s) \in 1..Len(s) /\ s[Len(s)] = Element
      <4>1. PICK b \in Seq(Leaf) : b = c \o u
        BY <3>7
      <4>2. s = Append(b, Element)
        BY <3>6, <3>7, <4>1, AppendIsConcat
      <4>3. /\ Append(b, Element) \in Seq(Leaf) /\ Len(Append(b, Element)) = Len(b) + 1
            /\ Append(b, Element)[Len(b) + 1] = Element /\ Len(b) \in Nat
        BY <3>6, <4>1, AppendProperties, LenProperties
      <4> HIDE DEF s
      <4> QED BY <4>2, <4>3
    <3> HIDE DEF s
    <3>9. Len(s) <= Len(Leaves) /\ s[Len(s)] = Leaves[Len(s)]
      BY <3>4, <3>8, StartsIsPrefix
    <3>10. Len(s) \in DOMAIN Leaves
      BY <3>5, <3>8, <3>9
    <3> QED BY <2>1, <2>3, <2>6, <3>8, <3>9, <3>10
  <2>7. CASE Element \in List
    <3>1. ~flatten /\ Len(stack) = 1
      <4>1. ~flatten /\ ~(Len(stack) > 1)
        BY <2>1, <2>7 DEF Flattens
      <4>2. \A k \in Nat : 1 \in 1..k /\ ~(k > 1) => k = 1
        OBVIOUS
      <4> QED BY <2>2, <4>1, <4>2
    <3>2. l = MainList
      BY <2>1, <2>4, <3>1 DEF MInv, InOrder, Top
    <3>3. n \in DOMAIN contents[MainList] /\ contents[MainList][n] \in List
      <4>1. contents[l] \in Seq(Value)
        BY <2>5 DEF MInv, MainTypeOK
      <4> QED BY <2>5, <2>7, <3>2, <4>1
    <3> QED BY <2>1, <2>3, <3>1, <3>3
  <2> QED BY <2>1, <2>5, <2>6, <2>7 DEF Value
<1>3. MainSpec => [][AllLeaves]_mainVars /\ [][Rejected]_mainVars
  <2> HIDE DEF AllLeaves, Rejected
  <2> QED BY <1>1, <1>2, MInvariant, PTL
<1>4. ([][AllLeaves]_mainVars /\ [][Rejected]_mainVars) => ResultExact
  BY DEF ResultExact
<1> HIDE DEF AllLeaves, Rejected
<1>5. QED
  BY <1>3, <1>4, PTL
=============================================================================
