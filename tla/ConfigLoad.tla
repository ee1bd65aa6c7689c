----------------------------- MODULE ConfigLoad -----------------------------
(***************************************************************************)
(* What skycfg.Load promises its caller: one step from the call to the     *)
(* result.  A Config exactly when the tree is loadable, with the tests of  *)
(* every reachable file; a nil Config and an error otherwise.              *)
(***************************************************************************)
EXTENDS SourceTree

VARIABLES
  outcome,    \* "pending", "config" or "error"
  tests       \* Config.tests, meaningful when the outcome is "config"

loadVars == <<tree, outcome, tests>>

Init ==
  /\ TreeTypeOK
  /\ outcome = "pending"
  /\ tests = <<>>

(* Load returns a Config. *)
ReturnConfig ==
  /\ outcome = "pending"
  /\ Loadable
  /\ outcome' = "config"
  /\ IsTestList(tests)'
  /\ UNCHANGED tree

(* Load returns (nil, err). *)
ReturnError ==
  /\ outcome = "pending"
  /\ ~Loadable
  /\ outcome' = "error"
  /\ tests' = <<>>
  /\ UNCHANGED tree

Next == ReturnConfig \/ ReturnError

Spec == Init /\ [][Next]_loadVars
=============================================================================
