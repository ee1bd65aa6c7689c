------------------------------ MODULE TestRun -------------------------------
(***************************************************************************)
(* Test.Run of skycfg.go with the assert module it hands to the test       *)
(* function: the Starlark calls in progress, the assertions that fail, the *)
(* errors that unwind the calls, and assert.fails, which stops an error.   *)
(*                                                                         *)
(* A test function is any sequence of calls, assertions and errors.  An    *)
(* assertion that holds changes nothing and is not a step.  Failures are   *)
(* numbered in the order they are appended to TestContext.Failures.        *)
(*                                                                         *)
(* starlark.Call turns every error of a callee into an *EvalError, so the  *)
(* type test of assert.fails lets through only the error of a first        *)
(* argument that is not callable: one of the PlainErrors here.             *)
(***************************************************************************)
EXTENDS Naturals, SequencesExt

CONSTANTS
  MaxDepth,     \* bound on the calls in progress
  MaxFailures,  \* bound on the failed assertions of one run
  MaxRuns       \* bound on the runs of the test

ASSUME BoundsAssumption == MaxDepth \in Nat /\ MaxFailures \in Nat /\ MaxRuns \in Nat

VARIABLES
  runs,         \* number of calls of Run so far
  calls,        \* the calls in progress, innermost last
  state,        \* "idle" between runs, "running", "unwinding" an error
  error,        \* the number of the failed assertion in flight, 0 for another error
  failures,     \* Len(TestContext.Failures)
  swallowed,    \* history: the failed assertions that assert.fails stopped
  result        \* what the last call of Run returned

vars == <<runs, calls, state, error, failures, swallowed, result>>

(* The function under test, a function it calls, and assert.fails: the     *)
(* call above it is the one it makes of its argument.                      *)
CallKind == {"test", "fn", "fails"}

(* (result, nil) with a nil Failure, (result, nil) with Failures[0],       *)
(* (nil, err), or no return at all.                                        *)
Result == {"passed", "failed", "error", "panic"}

TypeOK ==
  /\ runs \in Nat
  /\ calls \in Seq(CallKind)
  /\ state \in {"idle", "running", "unwinding"}
  /\ state = "idle" <=> calls = <<>>
  /\ calls # <<>> => calls[1] = "test"
  /\ error \in Nat
  /\ failures \in Nat
  /\ swallowed \subseteq Nat
  /\ result \in Result \cup {"none"}

Init ==
  /\ runs = 0
  /\ calls = <<>>
  /\ state = "idle"
  /\ error = 0
  /\ failures = 0
  /\ swallowed = {}
  /\ result = "none"

-----------------------------------------------------------------------------

(* Seeded fault: the TestContext of the previous run is used again. *)
SameContext == UNCHANGED failures

(* AssertModule(): a TestContext without failures. *)
NewContext == failures' = 0

(* Run calls the test function with a TestContext of its own. *)
Run ==
  /\ state = "idle"
  /\ runs < MaxRuns
  /\ runs' = runs + 1
  /\ calls' = <<"test">>
  /\ state' = "running"
  /\ error' = 0
  /\ NewContext
  /\ swallowed' = {}
  /\ result' = "none"

(* The function under test or one it called executes its next operation. *)
InFunction == state = "running" /\ Last(calls) \in {"test", "fn"}

CallFunction ==
  /\ InFunction
  /\ Len(calls) < MaxDepth
  /\ calls' = Append(calls, "fn")
  /\ UNCHANGED <<runs, state, error, failures, swallowed, result>>

(* assert.fails(fn, ...) calls its first argument. *)
CallAssertFails ==
  /\ InFunction
  /\ Len(calls) + 1 < MaxDepth
  /\ calls' = calls \o <<"fails", "fn">>
  /\ UNCHANGED <<runs, state, error, failures, swallowed, result>>

(* Seeded fault: the error is returned but not appended. *)
FailUnrecorded ==
  /\ error' = failures + 1
  /\ state' = "unwinding"
  /\ UNCHANGED failures

(* A new assertionError is appended to Failures and returned as the error. *)
Fail ==
  /\ failures < MaxFailures
  /\ failures' = failures + 1
  /\ error' = failures + 1
  /\ state' = "unwinding"

(* assert(FALSE), or a comparison that does not hold. *)
AssertionFails ==
  /\ InFunction
  /\ Fail
  /\ UNCHANGED <<runs, calls, swallowed, result>>

(* An error that is not a failed assertion: wrong arguments of an assert   *)
(* function, values that cannot be compared, fail(), any runtime error,    *)
(* assert.fails without an argument or with one that is not callable.      *)
PlainError ==
  /\ InFunction
  /\ error' = 0
  /\ state' = "unwinding"
  /\ UNCHANGED <<runs, calls, failures, swallowed, result>>

CalledByFails == Len(calls) > 1 /\ calls[Len(calls) - 1] = "fails"

(* A function returns to the function that called it. *)
FunctionReturns ==
  /\ InFunction
  /\ Last(calls) = "fn"
  /\ ~CalledByFails
  /\ calls' = Front(calls)
  /\ UNCHANGED <<runs, state, error, failures, swallowed, result>>

(* A function that assert.fails called returns: it should have failed. *)
ShouldHaveFailed ==
  /\ InFunction
  /\ Last(calls) = "fn"
  /\ CalledByFails
  /\ Fail
  /\ calls' = Front(Front(calls))
  /\ UNCHANGED <<runs, swallowed, result>>

(* An error leaves the function it occurred in. *)
Unwind ==
  /\ state = "unwinding"
  /\ Last(calls) = "fn"
  /\ calls' = Front(calls)
  /\ UNCHANGED <<runs, state, error, failures, swallowed, result>>

(* assert.fails gets the error of its function and returns its message;    *)
(* what a failed assertion appended to Failures stays there.               *)
ErrorStopped ==
  /\ state = "unwinding"
  /\ Last(calls) = "fails"
  /\ calls' = Front(calls)
  /\ state' = "running"
  /\ swallowed' = swallowed \cup ({error} \ {0})
  /\ error' = 0
  /\ UNCHANGED <<runs, failures, result>>

(* Run returns with a nil Failure, whatever Failures holds. *)
TestPasses ==
  /\ state = "running"
  /\ Last(calls) = "test"
  /\ calls' = <<>>
  /\ state' = "idle"
  /\ result' = "passed"
  /\ UNCHANGED <<runs, error, failures, swallowed>>

(* How Run reports an error of the test function. *)
Report == IF failures = 0 THEN "error" ELSE IF failures > 1 THEN "panic" ELSE "failed"

TestErrors ==
  /\ state = "unwinding"
  /\ Last(calls) = "test"
  /\ calls' = <<>>
  /\ state' = "idle"
  /\ result' = Report
  /\ UNCHANGED <<runs, error, failures, swallowed>>

Next ==
  \/ Run \/ CallFunction \/ CallAssertFails \/ AssertionFails \/ PlainError
  \/ FunctionReturns \/ ShouldHaveFailed \/ Unwind \/ ErrorStopped
  \/ TestPasses \/ TestErrors

Spec == Init /\ [][Next]_vars
-----------------------------------------------------------------------------

(* The last run ended with an error of the test function. *)
Errored == result \in {"failed", "error", "panic"}

(* The failed assertion that is unwinding the calls or has ended the run. *)
Live == IF (state = "unwinding" \/ Errored) THEN {error} \ {0} ELSE {}

(* Each failed assertion of the run was stopped by assert.fails, except    *)
(* the one in flight: a second failure takes a swallowed first one.        *)
FailuresAccounted ==
  /\ 1..failures = swallowed \cup Live
  /\ swallowed \cap Live = {}

(* As long as assert.fails stopped no failed assertion, Run reports what   *)
(* ended the test: the failed assertion itself, any other error as an      *)
(* error, and it never panics.                                             *)
ReportExact ==
  Errored /\ swallowed = {} =>
    IF error = 0 THEN result = "error" ELSE result = "failed" /\ error = 1

(* What the comment in Run says: each assertion failure halts execution,   *)
(* so there is only one and the panic is unreachable.                      *)
OneFailurePerRun == result # "panic"
=============================================================================
