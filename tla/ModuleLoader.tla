---------------------------- MODULE ModuleLoader ----------------------------
(***************************************************************************)
(* loadImpl of skycfg.go: the load callback that starlark.ExecFile calls   *)
(* back into for every load() statement, its cache, and the collection of  *)
(* test functions.  The recursion load -> ExecFile -> load is the explicit *)
(* stack of the files being executed.                                      *)
(*                                                                         *)
(* One step is one return from a call that can fail: Resolve, the cache    *)
(* lookup, ReadFile, one statement of a file, the end of ExecFile.         *)
(***************************************************************************)
EXTENDS SourceTree, SequencesExt

VARIABLES
  cache,      \* the map of cache entries; "loading" is the nil entry
  stack,      \* the active ExecFile calls, innermost last: path, next statement
  phase,      \* what runs: "load" callback, "exec" of a file, "return", "done"
  target,     \* the argument of the load callback, then the path it returns for
  failed,     \* the error result of the load callback that returned last
  found,      \* the slice tests of loadImpl
  outcome,    \* what Load returned
  execs       \* history: the paths given to ExecFile, in order

vars == <<tree, cache, stack, phase, target, failed, found, outcome, execs>>

Frame == [path : Path, pc : Nat \ {0}]
CacheState == {"absent", "loading", "ok", "err"}

TypeOK ==
  /\ TreeTypeOK
  /\ cache \in [Path -> CacheState]
  /\ stack \in Seq(Frame)
  /\ phase \in {"load", "exec", "return", "done"}
  /\ phase = "exec" => stack # <<>>
  /\ target \in Path \cup {NoPath}
  /\ failed \in BOOLEAN
  /\ found \in Seq(File \X Test)
  /\ outcome \in {"pending", "config", "error"}
  /\ execs \in Seq(Path)

(* Load calls loadImpl, whose first call of load is for the file itself. *)
LoaderInit ==
  /\ cache = [p \in Path |-> "absent"]
  /\ stack = <<>>
  /\ phase = "load"
  /\ target = MainPath
  /\ failed = FALSE
  /\ found = <<>>
  /\ outcome = "pending"
  /\ execs = <<>>

Init == TreeTypeOK /\ LoaderInit

-----------------------------------------------------------------------------

Top == stack[Len(stack)]
Running == FileAt(Top.path)
AtEnd == Top.pc > Len(body[Running])
Statement == body[Running][Top.pc]

(* Seeded fault: an entry with a result counts as no entry. *)
NotLoading(p) == cache[p] # "loading"

Unseen(p) == cache[p] = "absent"

(* ExecFile is called for p. *)
Enter(p) == stack' = Append(stack, [path |-> p, pc |-> 1])

(* The load callback returns to its caller. *)
Return(err) ==
  /\ phase' = "return"
  /\ failed' = err

(* reader.Resolve returns an error: no entry is cached. *)
ResolveFails ==
  /\ phase = "load"
  /\ target = NoPath
  /\ Return(TRUE)
  /\ UNCHANGED <<tree, cache, stack, target, found, outcome, execs>>

(* A non-nil entry: its globals and its error are returned as they are. *)
CacheHit ==
  /\ phase = "load"
  /\ target # NoPath
  /\ cache[target] \in {"ok", "err"}
  /\ Return(cache[target] = "err")
  /\ UNCHANGED <<tree, cache, stack, target, found, outcome, execs>>

(* Seeded fault: the nil entry is served like a result. *)
CycleServed ==
  /\ phase = "load"
  /\ target # NoPath
  /\ cache[target] = "loading"
  /\ Return(FALSE)
  /\ UNCHANGED <<tree, cache, stack, target, found, outcome, execs>>

(* Seeded fault: the nil entry is waited for, as if another goroutine were *)
(* to replace it.                                                          *)
CycleWaits == phase = "load" /\ target # NoPath /\ cache[target] = "loading" /\ UNCHANGED vars

(* A nil entry: the module is being executed further down the stack. *)
CycleFound ==
  /\ phase = "load"
  /\ target # NoPath
  /\ cache[target] = "loading"
  /\ Return(TRUE)
  /\ UNCHANGED <<tree, cache, stack, target, found, outcome, execs>>

(* reader.ReadFile returns an error, which is cached. *)
ReadFails ==
  /\ phase = "load"
  /\ target # NoPath
  /\ Unseen(target)
  /\ FileAt(target) \notin readable
  /\ cache' = [cache EXCEPT ![target] = "err"]
  /\ Return(TRUE)
  /\ UNCHANGED <<tree, stack, target, found, outcome, execs>>

(* The nil entry is stored and ExecFile starts. *)
BeginExec ==
  /\ phase = "load"
  /\ target # NoPath
  /\ Unseen(target)
  /\ FileAt(target) \in readable
  /\ cache' = [cache EXCEPT ![target] = "loading"]
  /\ Enter(target)
  /\ phase' = "exec"
  /\ execs' = Append(execs, target)
  /\ UNCHANGED <<tree, target, failed, found, outcome>>

(* Seeded fault: an error of ExecFile is returned before it is cached. *)
CacheOnSuccess(err) ==
  cache' = IF err THEN cache ELSE [cache EXCEPT ![Top.path] = "ok"]

CacheResult(err) ==
  cache' = [cache EXCEPT ![Top.path] = IF err THEN "err" ELSE "ok"]

(* Seeded fault: the tests of a file are put before those of its imports. *)
PrependTests(globals) ==
  \E order \in SetToSeqs(globals) :
    found' = [i \in DOMAIN order |-> <<Running, order[i]>>] \o found

(* The tests among the globals are appended in the order the map yields them. *)
CollectTests(globals) ==
  \E order \in SetToSeqs(globals) :
    found' = found \o [i \in DOMAIN order |-> <<Running, order[i]>>]

(* ExecFile of the innermost file returned, with the globals bound so far  *)
(* when it failed: its result is cached, its tests are collected, and the  *)
(* load callback returns to the importer.                                  *)
Finish(err, globals) ==
  /\ stack # <<>>
  /\ CacheResult(err)
  /\ CollectTests(globals)
  /\ stack' = Front(stack)
  /\ target' = Top.path
  /\ Return(err)
  /\ UNCHANGED <<tree, outcome, execs>>

(* A syntax or resolver error: no statement ran, the globals are nil. *)
ParseFails ==
  /\ phase = "exec"
  /\ Running \notin parses
  /\ Finish(TRUE, {})

(* A load() statement calls the load callback. *)
ExecLoad ==
  /\ phase = "exec"
  /\ Running \in parses
  /\ ~AtEnd
  /\ Statement.op = "load"
  /\ phase' = "load"
  /\ target' = Statement.arg
  /\ UNCHANGED <<tree, cache, stack, failed, found, outcome, execs>>

NextStatement == stack' = [stack EXCEPT ![Len(stack)].pc = @ + 1]

(* A test function is bound. *)
ExecDef ==
  /\ phase = "exec"
  /\ Running \in parses
  /\ ~AtEnd
  /\ Statement.op = "def"
  /\ NextStatement
  /\ UNCHANGED <<tree, cache, phase, target, failed, found, outcome, execs>>

(* A statement raises an error, which ends ExecFile. *)
ExecFails ==
  /\ phase = "exec"
  /\ Running \in parses
  /\ ~AtEnd
  /\ Statement.op = "fail"
  /\ Finish(TRUE, TestsIn(Running, Top.pc - 1))

ExecEnds ==
  /\ phase = "exec"
  /\ Running \in parses
  /\ AtEnd
  /\ Finish(FALSE, AllTests(Running))

(* The load() statement got the globals it asked for. *)
LoadSucceeded ==
  /\ phase = "return"
  /\ stack # <<>>
  /\ ~failed
  /\ NextStatement
  /\ phase' = "exec"
  /\ UNCHANGED <<tree, cache, target, failed, found, outcome, execs>>

(* The error of load() is the error of the importer. *)
LoadFailed ==
  /\ phase = "return"
  /\ stack # <<>>
  /\ failed
  /\ Finish(TRUE, TestsIn(Running, Top.pc - 1))

(* The outermost call returned: Load drops everything if it failed. *)
LoadReturns ==
  /\ phase = "return"
  /\ stack = <<>>
  /\ phase' = "done"
  /\ outcome' = IF failed THEN "error" ELSE "config"
  /\ UNCHANGED <<tree, cache, stack, target, failed, found, execs>>

Next ==
  \/ ResolveFails \/ CacheHit \/ CycleFound \/ ReadFails \/ BeginExec
  \/ ParseFails \/ ExecLoad \/ ExecDef \/ ExecFails \/ ExecEnds
  \/ LoadSucceeded \/ LoadFailed \/ LoadReturns

(* Load is one goroutine that runs until it returns. *)
Fairness == WF_vars(Next)

Spec == Init /\ [][Next]_vars /\ Fairness
-----------------------------------------------------------------------------

(* The nil entries of the cache are exactly the files being executed, and  *)
(* none is executed inside itself: what the cycle check of load() rests on.*)
LoadingIsStack ==
  /\ \A p \in Path :
       cache[p] = "loading" <=> \E i \in DOMAIN stack : stack[i].path = p
  /\ \A i, j \in DOMAIN stack : stack[i].path = stack[j].path => i = j

(* Once a module is cached with an error the loader only returns, up to    *)
(* Load itself: no module ever runs on after a failed load, and the error  *)
(* entries of the cache are never looked up.                               *)
ErrorUnwinds ==
  (\E p \in Path : cache[p] = "err") => failed /\ phase \in {"return", "done"}

(* A module with an "ok" entry is complete: it parsed, no statement of it  *)
(* fails, and everything it loads has an "ok" entry too, so the globals it *)
(* handed out never come from a module that failed later.                  *)
OkIsComplete ==
  \A p \in Path : cache[p] = "ok" =>
    LET f == FileAt(p) IN
      /\ Sound(f)
      /\ \A q \in Loads(f) : cache[q] = "ok"

(* A successful Load ran every file once, under either of its names, and   *)
(* ran nothing that the main file does not need.                           *)
ExecutedOnce ==
  outcome = "config" =>
    /\ \A i, j \in DOMAIN execs : FileAt(execs[i]) = FileAt(execs[j]) => i = j
    /\ {FileAt(execs[i]) : i \in DOMAIN execs} = Reachable

(* An entry of the cache is final: load() sees the same globals or the     *)
(* same error however often a module is loaded.                            *)
EntriesFinal ==
  [][\A p \in Path : cache[p] \in {"ok", "err"} => cache'[p] = cache[p]]_vars

(* Load returns: no tree makes it loop, whatever its cycles. *)
Terminates == <>(phase = "done")

(* The caller of Load sees the tests only with a Config. *)
Config == INSTANCE ConfigLoad WITH
  tests <- IF outcome = "config" THEN found ELSE <<>>

(* Load is the abstract one-step load: it gives a Config exactly for the   *)
(* loadable trees, with every test once and in dependency order.           *)
ImplementsConfigLoad == Config!Spec
=============================================================================
