------------------------- MODULE ModuleLoaderProofs -------------------------
(* Theorems about ModuleLoader, for every set of files and every tree. *)
EXTENDS ModuleLoader, SequenceTheorems, FiniteSetTheorems, TLAPS

-----------------------------------------------------------------------------
(* The strengthening: what the loader knows of the files it is inside of.  *)

(* The statements of f before n ran without error. *)
PrefixDone(f, n) ==
  \A k \in DOMAIN body[f] : k < n =>
    /\ body[f][k].op # "fail"
    /\ body[f][k].op = "load" => body[f][k].arg \in Path /\ cache[body[f][k].arg] = "ok"

(* The next statement of the frame is load(q). *)
WaitsFor(frame, q) ==
  LET f == FileAt(frame.path) IN
    /\ f \in parses
    /\ frame.pc \in DOMAIN body[f]
    /\ body[f][frame.pc].op = "load"
    /\ body[f][frame.pc].arg = q

FrameSound(frame) ==
  LET f == FileAt(frame.path) IN
    /\ f \in readable
    /\ frame.pc <= Len(body[f]) + 1
    /\ PrefixDone(f, frame.pc)

StackSound ==
  /\ \A i \in DOMAIN stack : FrameSound(stack[i])
  /\ \A i \in DOMAIN stack :
       i < Len(stack) => WaitsFor(stack[i], stack[i+1].path)
  /\ phase \in {"load", "return"} /\ stack # <<>> => WaitsFor(stack[Len(stack)], target)
  /\ phase \in {"return", "done"} /\ ~failed => target \in Path /\ cache[target] = "ok"

IInv == TypeOK /\ LoadingIsStack /\ ErrorUnwinds /\ OkIsComplete /\ StackSound
-----------------------------------------------------------------------------
(* Lemmas on the tree and on the stack.                                    *)

(* A path is never NoPath, and every path has a file. *)
LEMMA PathFacts ==
  /\ MainPath \in Path
  /\ File \subseteq Path
  /\ NoPath \notin Path
  /\ \A p \in Path : FileAt(p) \in File
BY MainFileAssumption, MainPathAssumption, NoPathAssumption DEF Path, FileAt

(* The globals of a file are finitely many test names. *)
LEMMA TestsInFinite ==
  ASSUME TreeTypeOK, NEW f \in File, NEW n \in Nat
  PROVE  IsFiniteSet(TestsIn(f, n)) /\ TestsIn(f, n) \subseteq Test
<1> DEFINE D == {j \in DOMAIN body[f] : j <= n /\ body[f][j].op = "def"}
           arg == [i \in D |-> body[f][i].arg]
<1>1. body[f] \in Seq(Stmt)
  BY DEF TreeTypeOK
<1>2. \A i \in DOMAIN body[f] : body[f][i] \in Stmt
  BY <1>1
<1>3. TestsIn(f, n) \subseteq Test
  BY <1>2 DEF TestsIn, Stmt
<1>4. IsFiniteSet(D)
  <2>1. Len(body[f]) \in Nat /\ D \subseteq 1..Len(body[f])
    BY <1>1
  <2>2. 1 \in Int /\ Len(body[f]) \in Int
    BY <2>1
  <2>3. IsFiniteSet(1..Len(body[f]))
    BY <2>2, FS_Interval, Zenon
  <2>4. QED
    BY <2>1, <2>3, FS_Subset
<1>5. arg \in Surjection(D, TestsIn(f, n))
  BY DEF TestsIn, Surjection
<1>6. QED
  BY <1>3, <1>4, <1>5, FS_Surjection

(* Whatever the order of the globals, the tests appended are tests. *)
LEMMA OrderedGlobals ==
  ASSUME NEW f \in File, NEW G, IsFiniteSet(G), G \subseteq Test, NEW order \in SetToSeqs(G)
  PROVE  [i \in DOMAIN order |-> <<f, order[i]>>] \in Seq(File \X Test)
<1>1. Cardinality(G) \in Nat
  BY FS_CardinalityType
<1>2. order \in [1..Cardinality(G) -> G]
  BY DEF SetToSeqs
<1>3. QED
  BY <1>1, <1>2, IsASeq

(* What Finish does to the stack. *)
LEMMA FrontFacts ==
  ASSUME NEW S, NEW s \in Seq(S), s # <<>>
  PROVE  /\ Len(s) \in Nat \ {0}
         /\ Front(s) \in Seq(S)
         /\ Len(Front(s)) = Len(s) - 1
         /\ \A i \in 1..Len(s)-1 : Front(s)[i] = s[i]
<1>1. Len(s) - 1 \in 0..Len(s) /\ Len(s) \in Nat \ {0}
  OBVIOUS
<1>2. Front(s) = Restrict(s, 1..Len(s)-1)
  BY <1>1, SubSeqRestrict DEF Front
<1>3. Front(s) = [i \in 1..Len(s)-1 |-> s[i]]
  BY <1>1, <1>2 DEF Restrict
<1>4. \A i \in 1..Len(s)-1 : s[i] \in S
  OBVIOUS
<1>5. QED
  BY <1>1, <1>3, <1>4

(* The innermost frame. *)
LEMMA TopFacts ==
  ASSUME TypeOK, stack # <<>>
  PROVE  /\ Len(stack) \in Nat \ {0}
         /\ Top \in Frame
         /\ Top.path \in Path
         /\ Top.pc \in Nat \ {0}
         /\ Running \in File
         /\ body[Running] \in Seq(Stmt)
<1>1. Len(stack) \in Nat \ {0} /\ Top \in Frame
  BY DEF TypeOK, Top
<1>2. Top.path \in Path /\ Top.pc \in Nat \ {0}
  BY <1>1 DEF Frame
<1>3. QED
  BY <1>1, <1>2, PathFacts DEF Running, TypeOK, TreeTypeOK

-----------------------------------------------------------------------------
(* Type correctness.                                                       *)

(* The end of an ExecFile call keeps the types. *)
LEMMA FinishTypeOK ==
  ASSUME TypeOK, NEW err \in BOOLEAN, NEW G, IsFiniteSet(G), G \subseteq Test,
         Finish(err, G)
  PROVE  TypeOK'
<1>1. stack # <<>> /\ Top.path \in Path /\ Running \in File
  BY TopFacts DEF Finish, CacheResult, CollectTests
<1>2. stack' \in Seq(Frame)
  BY <1>1, FrontFacts DEF Finish, CacheResult, CollectTests, TypeOK
<1>3. found' \in Seq(File \X Test)
  <2>1. PICK order \in SetToSeqs(G) :
          found' = found \o [i \in DOMAIN order |-> <<Running, order[i]>>]
    BY DEF Finish, CacheResult, CollectTests
  <2>2. [i \in DOMAIN order |-> <<Running, order[i]>>] \in Seq(File \X Test)
    BY <1>1, OrderedGlobals
  <2> QED BY <2>1, <2>2 DEF TypeOK
<1>4. cache' \in [Path -> CacheState]
  BY <1>1 DEF Finish, CacheResult, CollectTests, TypeOK, CacheState
<1>5. QED
  BY <1>1, <1>2, <1>3, <1>4 DEF Finish, CacheResult, CollectTests, Return, TypeOK, TreeTypeOK, tree

(* Moving to the next statement gives a stack again. *)
LEMMA NextStatementType ==
  ASSUME TypeOK, stack # <<>>, NextStatement
  PROVE  stack' \in Seq(Frame) /\ stack' # <<>>
<1>1. Top \in Frame /\ Len(stack) \in Nat \ {0}
  BY TopFacts
<1> DEFINE next == [Top EXCEPT !.pc = @ + 1]
<1>2. next \in Frame
  BY <1>1 DEF Frame
<1>3. stack' = [stack EXCEPT ![Len(stack)] = next]
  BY DEF NextStatement, Top
<1>4. stack \in Seq(Frame) /\ Len(stack) \in DOMAIN stack
  BY <1>1 DEF TypeOK
<1> HIDE DEF next
<1>5. stack' \in Seq(Frame) /\ Len(stack') = Len(stack)
  BY <1>2, <1>3, <1>4, ExceptSeq
<1>6. QED
  BY <1>1, <1>5

(* Every step of the loader keeps the types. *)
LEMMA StepTypeOK == TypeOK /\ [Next]_vars => TypeOK'
<1> SUFFICES ASSUME TypeOK, [Next]_vars PROVE TypeOK'
  OBVIOUS
<1>1. CASE ResolveFails
  BY <1>1 DEF ResolveFails, Return, TypeOK, TreeTypeOK, tree
<1>2. CASE CacheHit
  BY <1>2 DEF CacheHit, Return, TypeOK, TreeTypeOK, tree
<1>3. CASE CycleFound
  BY <1>3 DEF CycleFound, Return, TypeOK, TreeTypeOK, tree
<1>4. CASE ReadFails
  BY <1>4 DEF ReadFails, Unseen, Return, TypeOK, TreeTypeOK, tree, CacheState
<1>5. CASE BeginExec
  <2>1. target \in Path
    BY <1>5 DEF BeginExec, Unseen, Enter, TypeOK
  <2>2. [path |-> target, pc |-> 1] \in Frame
    BY <2>1 DEF Frame
  <2>3. stack' \in Seq(Frame) /\ stack' # <<>>
    BY <1>5, <2>2, AppendProperties DEF BeginExec, Unseen, Enter, TypeOK
  <2>4. execs' \in Seq(Path)
    BY <1>5, <2>1 DEF BeginExec, Unseen, Enter, TypeOK
  <2>5. cache' \in [Path -> CacheState]
    BY <1>5, <2>1 DEF BeginExec, Unseen, Enter, TypeOK, CacheState
  <2> QED BY <1>5, <2>1, <2>3, <2>4, <2>5 DEF BeginExec, Unseen, Enter, TypeOK, TreeTypeOK, tree
<1>6. CASE ParseFails
  <2>1. IsFiniteSet({})
    BY FS_EmptySet
  <2> QED BY <1>6, <2>1, FinishTypeOK DEF ParseFails
<1>7. CASE ExecLoad
  <2>1. stack # <<>> /\ Statement \in Stmt
    BY <1>7, TopFacts DEF ExecLoad, TypeOK, AtEnd, Statement
  <2>2. Statement.arg \in Path \cup {NoPath}
    BY <1>7, <2>1 DEF ExecLoad, Stmt, Resolution, Path
  <2> QED BY <1>7, <2>2 DEF ExecLoad, TypeOK, TreeTypeOK, tree
<1>8. CASE ExecDef
  <2>1. stack' \in Seq(Frame) /\ stack' # <<>>
    BY <1>8, NextStatementType DEF ExecDef, TypeOK
  <2> QED BY <1>8, <2>1 DEF ExecDef, TypeOK, TreeTypeOK, tree
<1>9. CASE ExecFails
  <2>1. Running \in File /\ Top.pc - 1 \in Nat
    BY <1>9, TopFacts DEF ExecFails, TypeOK
  <2> QED BY <1>9, <2>1, TestsInFinite, FinishTypeOK DEF ExecFails, TypeOK
<1>10. CASE ExecEnds
  <2>1. Running \in File /\ Len(body[Running]) \in Nat
    BY <1>10, TopFacts DEF ExecEnds, TypeOK
  <2> QED BY <1>10, <2>1, TestsInFinite, FinishTypeOK DEF ExecEnds, AllTests, TypeOK
<1>11. CASE LoadSucceeded
  <2>1. stack' \in Seq(Frame) /\ stack' # <<>>
    BY <1>11, NextStatementType DEF LoadSucceeded
  <2> QED BY <1>11, <2>1 DEF LoadSucceeded, TypeOK, TreeTypeOK, tree
<1>12. CASE LoadFailed
  <2>1. Running \in File /\ Top.pc - 1 \in Nat
    BY <1>12, TopFacts DEF LoadFailed
  <2> QED BY <1>12, <2>1, TestsInFinite, FinishTypeOK DEF LoadFailed, TypeOK
<1>13. CASE LoadReturns
  BY <1>13 DEF LoadReturns, TypeOK, TreeTypeOK, tree
<1>14. CASE UNCHANGED vars
  BY <1>14 DEF vars, TypeOK, TreeTypeOK, tree
<1> QED
  BY <1>1, <1>2, <1>3, <1>4, <1>5, <1>6, <1>7, <1>8, <1>9, <1>10, <1>11,
     <1>12, <1>13, <1>14 DEF Next

(* What a step can do to the cache and to the stack. *)
LEMMA StepKinds ==
  ASSUME TypeOK, [Next]_vars
  PROVE  \/ UNCHANGED <<cache, stack>>
         \/ ReadFails
         \/ BeginExec
         \/ NextStatement /\ stack # <<>> /\ UNCHANGED cache
         \/ \E err \in BOOLEAN, G \in SUBSET Test : Finish(err, G)
<1>1. CASE ResolveFails \/ CacheHit \/ CycleFound \/ ExecLoad \/ LoadReturns \/ UNCHANGED vars
  BY <1>1 DEF ResolveFails, CacheHit, CycleFound, ExecLoad, LoadReturns, vars
<1>2. CASE ExecDef \/ LoadSucceeded
  BY <1>2 DEF ExecDef, LoadSucceeded, TypeOK
<1>3. CASE ParseFails
  BY <1>3 DEF ParseFails
<1>4. CASE ExecFails \/ LoadFailed
  <2>1. Running \in File /\ Top.pc - 1 \in Nat
    <3>1. stack # <<>>
      BY <1>4 DEF ExecFails, LoadFailed, TypeOK
    <3> QED BY <3>1, TopFacts
  <2>2. TestsIn(Running, Top.pc - 1) \subseteq Test
    BY <2>1, TestsInFinite DEF TypeOK
  <2> QED BY <1>4, <2>2 DEF ExecFails, LoadFailed
<1>5. CASE ExecEnds
  <2>1. Running \in File /\ Len(body[Running]) \in Nat
    BY <1>5, TopFacts DEF ExecEnds, TypeOK
  <2>2. AllTests(Running) \subseteq Test
    BY <2>1, TestsInFinite DEF TypeOK, AllTests
  <2> QED BY <1>5, <2>2 DEF ExecEnds
<1>6. QED
  BY <1>1, <1>2, <1>3, <1>4, <1>5 DEF Next

(* The types hold before the first call of load. *)
LEMMA InitTypeOK == Init => TypeOK
<1> SUFFICES ASSUME Init PROVE TypeOK
  OBVIOUS
<1>1. cache \in [Path -> CacheState]
  BY DEF Init, LoaderInit, CacheState
<1>2. stack \in Seq(Frame) /\ found \in Seq(File \X Test) /\ execs \in Seq(Path)
  BY DEF Init, LoaderInit
<1>3. target \in Path
  BY PathFacts DEF Init, LoaderInit
<1>4. QED
  BY <1>1, <1>2, <1>3 DEF Init, LoaderInit, TypeOK

(* Every reachable state is well typed, for every tree. *)
THEOREM TypeCorrect == Spec => []TypeOK
BY InitTypeOK, StepTypeOK, PTL DEF Spec

-----------------------------------------------------------------------------
(* The nil entries are the files on the stack.                             *)

(* The innermost file has a nil entry. *)
LEMMA TopIsLoading ==
  ASSUME TypeOK, LoadingIsStack, stack # <<>>
  PROVE  cache[Top.path] = "loading"
<1>1. Len(stack) \in DOMAIN stack /\ Top.path \in Path
  BY TopFacts DEF TypeOK
<1>2. QED
  BY <1>1 DEF LoadingIsStack, Top

(* The end of an ExecFile call takes the nil entry and the frame away. *)
LEMMA FinishLoading ==
  ASSUME TypeOK, LoadingIsStack, NEW err \in BOOLEAN, NEW G, Finish(err, G)
  PROVE  LoadingIsStack'
<1> DEFINE n == Len(stack)
<1>1. stack # <<>> /\ stack \in Seq(Frame)
  BY DEF Finish, CacheResult, CollectTests, TypeOK
<1>2. /\ n \in Nat \ {0}
      /\ Len(stack') = n - 1
      /\ \A i \in 1..n-1 : stack'[i] = stack[i]
      /\ stack' \in Seq(Frame)
  BY <1>1, FrontFacts DEF Finish, CacheResult, CollectTests
<1>3. DOMAIN stack = 1..n /\ DOMAIN stack' = 1..n-1
  BY <1>1, <1>2
<1>4. \A i \in 1..n-1 : stack'[i].path = stack[i].path /\ stack[i].path # Top.path
  BY <1>2, <1>3 DEF LoadingIsStack, Top
<1>5. cache' = [cache EXCEPT ![Top.path] = IF err THEN "err" ELSE "ok"]
  BY DEF Finish, CacheResult, CollectTests
<1>6. ASSUME NEW p \in Path
      PROVE  cache'[p] = "loading" <=> \E i \in 1..n-1 : stack'[i].path = p
  <2>1. CASE p = Top.path
    BY <1>4, <1>5, <2>1 DEF TypeOK
  <2>2. CASE p # Top.path
    <3>1. cache'[p] = cache[p]
      BY <1>5, <2>2 DEF TypeOK
    <3>2. cache[p] = "loading" <=> \E i \in 1..n : stack[i].path = p
      BY <1>3 DEF LoadingIsStack
    <3>3. (\E i \in 1..n : stack[i].path = p) <=> \E i \in 1..n-1 : stack[i].path = p
      BY <1>2, <2>2 DEF Top
    <3> QED BY <1>4, <3>1, <3>2, <3>3
  <2> QED BY <2>1, <2>2
<1>7. \A i, j \in 1..n-1 : stack'[i].path = stack'[j].path => i = j
  BY <1>2, <1>3, <1>4 DEF LoadingIsStack
<1>8. QED
  BY <1>3, <1>6, <1>7 DEF LoadingIsStack

(* Moving to the next statement changes one counter of the stack only. *)
LEMMA NextStatementFacts ==
  ASSUME TypeOK, stack # <<>>, NextStatement
  PROVE  /\ Len(stack') = Len(stack)
         /\ DOMAIN stack' = DOMAIN stack
         /\ \A i \in DOMAIN stack : stack'[i].path = stack[i].path
         /\ \A i \in DOMAIN stack : i # Len(stack) => stack'[i] = stack[i]
         /\ stack'[Len(stack)] = [Top EXCEPT !.pc = @ + 1]
<1>1. Top \in Frame /\ Len(stack) \in Nat \ {0} /\ stack \in Seq(Frame)
  BY TopFacts DEF TypeOK
<1>2. stack' = [stack EXCEPT ![Len(stack)] = [Top EXCEPT !.pc = @ + 1]]
  BY DEF NextStatement, Top
<1>3. DOMAIN stack = 1..Len(stack) /\ DOMAIN stack' = DOMAIN stack
  BY <1>1, <1>2
<1>4. Len(stack') = Len(stack)
  BY <1>1, <1>3, NextStatementType DEF TypeOK
<1>5. QED
  BY <1>1, <1>2, <1>3, <1>4 DEF Frame, Top

(* Every step keeps the nil entries and the stack in step. *)
LEMMA StepLoadingIsStack ==
  ASSUME TypeOK, LoadingIsStack, [Next]_vars
  PROVE  LoadingIsStack'
<1>1. CASE UNCHANGED <<cache, stack>>
  BY <1>1 DEF LoadingIsStack
<1>2. CASE ReadFails
  <2>1. target \in Path /\ cache[target] = "absent"
    BY <1>2 DEF ReadFails, Unseen, TypeOK
  <2>2. \A p \in Path : cache'[p] = "loading" <=> cache[p] = "loading"
    BY <1>2, <2>1 DEF ReadFails, Unseen, TypeOK
  <2> QED BY <1>2, <2>2 DEF LoadingIsStack, ReadFails
<1>3. CASE BeginExec
  <2> DEFINE n == Len(stack)
  <2>1. target \in Path /\ cache[target] = "absent"
    BY <1>3 DEF BeginExec, Unseen, Enter, TypeOK
  <2>2. /\ n \in Nat
        /\ DOMAIN stack = 1..n
        /\ DOMAIN stack' = 1..n+1
        /\ \A i \in 1..n : stack'[i] = stack[i]
        /\ stack'[n+1].path = target
    BY <1>3 DEF BeginExec, Unseen, Enter, TypeOK
  <2>3. \A i \in 1..n : stack[i].path # target
    BY <2>1, <2>2 DEF LoadingIsStack
  <2>4. \A p \in Path : cache'[p] = IF p = target THEN "loading" ELSE cache[p]
    BY <1>3, <2>1 DEF BeginExec, Unseen, Enter, TypeOK
  <2>5. \A p \in Path : cache'[p] = "loading" <=> \E i \in 1..n+1 : stack'[i].path = p
    BY <2>2, <2>4 DEF LoadingIsStack
  <2>6. \A i, j \in 1..n+1 : stack'[i].path = stack'[j].path => i = j
    BY <2>2, <2>3 DEF LoadingIsStack
  <2> QED BY <2>2, <2>5, <2>6 DEF LoadingIsStack
<1>4. CASE NextStatement /\ stack # <<>> /\ UNCHANGED cache
  <2>1. /\ DOMAIN stack' = DOMAIN stack
        /\ \A i \in DOMAIN stack : stack'[i].path = stack[i].path
    BY <1>4, NextStatementFacts
  <2> QED BY <1>4, <2>1 DEF LoadingIsStack
<1>5. CASE \E err \in BOOLEAN, G \in SUBSET Test : Finish(err, G)
  BY <1>5, FinishLoading
<1>6. QED
  BY <1>1, <1>2, <1>3, <1>4, <1>5, StepKinds

(* The cycle check is exact: an entry is nil while, and only while, its    *)
(* file is being executed.                                                 *)
THEOREM CycleCheckExact == Spec => []LoadingIsStack
<1>1. Init => LoadingIsStack
  BY DEF Init, LoaderInit, LoadingIsStack
<1>2. TypeOK /\ LoadingIsStack /\ [Next]_vars => LoadingIsStack'
  BY StepLoadingIsStack
<1>3. QED
  BY <1>1, <1>2, TypeCorrect, PTL DEF Spec

(* An entry with a result is never looked up to be replaced: once executed, *)
(* a module keeps its globals or its error.                                 *)
LEMMA StepEntriesFinal ==
  ASSUME TypeOK, LoadingIsStack, [Next]_vars, NEW p \in Path, cache[p] \in {"ok", "err"}
  PROVE  cache'[p] = cache[p]
<1>1. CASE ReadFails \/ BeginExec
  BY <1>1 DEF ReadFails, BeginExec, Unseen, Enter, TypeOK
<1>2. CASE \E err \in BOOLEAN, G \in SUBSET Test : Finish(err, G)
  <2>1. Top.path # p /\ cache' = [cache EXCEPT ![Top.path] = cache'[Top.path]]
    BY <1>2, TopIsLoading, TopFacts DEF Finish, CacheResult, CollectTests, TypeOK
  <2> QED BY <2>1 DEF TypeOK
<1>3. QED
  BY <1>1, <1>2, StepKinds

(* A cached result, globals or error, is never replaced. *)
THEOREM ResultsFinal == Spec => EntriesFinal
<1>1. TypeOK /\ LoadingIsStack /\ [Next]_vars
      => \A p \in Path : cache[p] \in {"ok", "err"} => cache'[p] = cache[p]
  BY StepEntriesFinal
<1>2. QED
  BY <1>1, TypeCorrect, CycleCheckExact, PTL DEF Spec, EntriesFinal

-----------------------------------------------------------------------------
(* Errors end the load; complete modules only.                             *)

(* Every step after an error entry is a return. *)
LEMMA StepErrorUnwinds ==
  ASSUME TypeOK, ErrorUnwinds, [Next]_vars
  PROVE  ErrorUnwinds'
<1>1. CASE ResolveFails \/ CycleFound \/ ReadFails
  BY <1>1 DEF ResolveFails, CycleFound, ReadFails, Unseen, Return, ErrorUnwinds
<1>2. CASE CacheHit
  BY <1>2 DEF CacheHit, Return, ErrorUnwinds
<1>3. CASE BeginExec
  BY <1>3 DEF BeginExec, Enter, ErrorUnwinds, TypeOK
<1>4. CASE ParseFails \/ ExecFails \/ LoadFailed
  BY <1>4 DEF ParseFails, ExecFails, LoadFailed, Finish, CacheResult, Return, ErrorUnwinds
<1>5. CASE ExecEnds
  <2>1. \A p \in Path : cache[p] # "err"
    BY <1>5 DEF ExecEnds, ErrorUnwinds
  <2>2. cache' = [cache EXCEPT ![Top.path] = "ok"]
    BY <1>5 DEF ExecEnds, Finish, CacheResult
  <2> QED BY <2>1, <2>2 DEF ErrorUnwinds, TypeOK
<1>6. CASE ExecLoad \/ ExecDef \/ LoadSucceeded \/ LoadReturns \/ UNCHANGED vars
  BY <1>6 DEF ExecLoad, ExecDef, LoadSucceeded, LoadReturns, vars, ErrorUnwinds
<1>7. QED
  BY <1>1, <1>2, <1>3, <1>4, <1>5, <1>6 DEF Next

(* Once a module has failed, nothing executes any more and the load        *)
(* callback is never called again, so no error entry is ever served.       *)
THEOREM ErrorsUnwind == Spec => []ErrorUnwinds
<1>1. Init => ErrorUnwinds
  BY DEF Init, LoaderInit, ErrorUnwinds
<1>2. TypeOK /\ ErrorUnwinds /\ [Next]_vars => ErrorUnwinds'
  BY StepErrorUnwinds
<1>3. QED
  BY <1>1, <1>2, TypeCorrect, PTL DEF Spec

(* No step of the loader changes the files. *)
LEMMA TreeUnchanged ==
  ASSUME [Next]_vars
  PROVE  UNCHANGED tree
BY DEF Next, ResolveFails, CacheHit, CycleFound, ReadFails, BeginExec, ParseFails,
       ExecLoad, ExecDef, ExecFails, ExecEnds, LoadSucceeded, LoadFailed, LoadReturns,
       Finish, vars

(* Statements executed without error stay so while the cache grows. *)
LEMMA PrefixKept ==
  ASSUME TypeOK, LoadingIsStack, [Next]_vars,
         NEW f \in File, NEW n \in Nat, PrefixDone(f, n)
  PROVE  PrefixDone(f, n)'
<1>1. body' = body
  BY TreeUnchanged DEF tree
<1>2. \A p \in Path : cache[p] = "ok" => cache'[p] = "ok"
  BY StepEntriesFinal
<1>3. QED
  BY <1>1, <1>2 DEF PrefixDone

(* What is known of a frame stays true while other frames move. *)
LEMMA FrameKept ==
  ASSUME TypeOK, LoadingIsStack, [Next]_vars, NEW frame \in Frame, FrameSound(frame)
  PROVE  FrameSound(frame)'
<1>1. FileAt(frame.path) \in File /\ frame.pc \in Nat
  BY PathFacts DEF Frame
<1>2. PrefixDone(FileAt(frame.path), frame.pc)'
  BY <1>1, PrefixKept DEF FrameSound
<1>3. QED
  BY <1>2, TreeUnchanged DEF FrameSound, tree

(* No step changes which import a frame waits for. *)
LEMMA WaitKept ==
  ASSUME [Next]_vars, NEW frame, NEW q, WaitsFor(frame, q)
  PROVE  WaitsFor(frame, q)'
BY TreeUnchanged DEF WaitsFor, tree

(* The innermost file moves past a statement that ran without error. *)
LEMMA NextStatementSound ==
  ASSUME TypeOK, LoadingIsStack, StackSound, [Next]_vars, stack # <<>>, NextStatement,
         ~AtEnd, Statement.op # "fail", UNCHANGED cache,
         Statement.op = "load" => Statement.arg \in Path /\ cache[Statement.arg] = "ok"
  PROVE  /\ \A i \in DOMAIN stack' : FrameSound(stack[i])'
         /\ \A i \in DOMAIN stack' : i < Len(stack') => WaitsFor(stack[i], stack[i+1].path)'
<1> DEFINE n == Len(stack)
           moved == [Top EXCEPT !.pc = @ + 1]
<1>1. /\ n \in Nat \ {0} /\ DOMAIN stack = 1..n
      /\ Top \in Frame /\ Running \in File /\ body[Running] \in Seq(Stmt)
  BY TopFacts DEF TypeOK
<1>2. /\ Len(stack') = n
      /\ DOMAIN stack' = 1..n
      /\ \A i \in 1..n : stack'[i].path = stack[i].path
      /\ \A i \in 1..n-1 : stack'[i] = stack[i]
      /\ stack'[n] = moved
  BY <1>1, NextStatementFacts
<1>3. moved \in Frame /\ moved.path = Top.path /\ moved.pc = Top.pc + 1
  BY <1>1 DEF Frame
<1>4. FrameSound(moved)
  <2>1. FrameSound(Top)
    BY <1>1 DEF StackSound, Top
  <2>2. Top.pc \in DOMAIN body[Running] /\ Top.pc + 1 <= Len(body[Running]) + 1
    BY <1>1 DEF AtEnd, Frame
  <2>3. PrefixDone(Running, Top.pc + 1)
    <3> SUFFICES ASSUME NEW k \in DOMAIN body[Running], k < Top.pc + 1
                 PROVE  /\ body[Running][k].op # "fail"
                        /\ body[Running][k].op = "load" =>
                             body[Running][k].arg \in Path /\ cache[body[Running][k].arg] = "ok"
      BY DEF PrefixDone
    <3>1. CASE k = Top.pc
      BY <3>1 DEF Statement
    <3>2. CASE k < Top.pc
      BY <2>1, <3>2 DEF FrameSound, PrefixDone, Running
    <3> QED BY <1>1, <3>1, <3>2 DEF Frame
  <2> HIDE DEF moved
  <2> QED BY <1>3, <2>1, <2>2, <2>3 DEF FrameSound, Running
<1>5. ASSUME NEW i \in 1..n PROVE FrameSound(stack[i])'
  <2>1. CASE i = n
    <3>1. PICK frame \in Frame : frame = moved
      BY <1>3
    <3>2. FrameSound(frame) /\ stack'[i] = frame
      BY <1>2, <1>4, <2>1, <3>1
    <3>3. FrameSound(frame)'
      BY <3>2, FrameKept
    <3> QED BY <3>2, <3>3 DEF FrameSound, PrefixDone
  <2>2. CASE i # n
    <3>1. stack[i] \in Frame /\ FrameSound(stack[i]) /\ stack'[i] = stack[i]
      BY <1>1, <1>2, <2>2 DEF StackSound, TypeOK
    <3>2. PICK frame \in Frame : frame = stack[i]
      BY <3>1
    <3>3. FrameSound(frame)'
      BY <3>1, <3>2, FrameKept
    <3> QED BY <3>1, <3>2, <3>3 DEF FrameSound, PrefixDone
  <2> QED BY <2>1, <2>2
<1>6. ASSUME NEW i \in 1..n, i < n PROVE WaitsFor(stack[i], stack[i+1].path)'
  <2>1. WaitsFor(stack[i], stack[i+1].path)
    BY <1>1, <1>6 DEF StackSound
  <2>2. stack'[i] = stack[i] /\ stack'[i+1].path = stack[i+1].path
    BY <1>1, <1>2, <1>6
  <2> QED BY <2>1, <2>2, TreeUnchanged DEF WaitsFor, tree
<1>7. QED
  BY <1>2, <1>5, <1>6

(* A step that leaves the stack alone keeps its frames sound. *)
LEMMA SameStackSound ==
  ASSUME TypeOK, LoadingIsStack, StackSound, [Next]_vars, UNCHANGED stack
  PROVE  /\ \A i \in DOMAIN stack' : FrameSound(stack[i])'
         /\ \A i \in DOMAIN stack' : i < Len(stack') => WaitsFor(stack[i], stack[i+1].path)'
<1>1. ASSUME NEW i \in DOMAIN stack PROVE FrameSound(stack[i])'
  <2>1. PICK frame \in Frame : frame = stack[i]
    BY DEF TypeOK
  <2>2. FrameSound(frame)'
    BY <2>1, FrameKept DEF StackSound
  <2> QED BY <2>1, <2>2 DEF FrameSound, PrefixDone
<1>2. QED
  BY <1>1, TreeUnchanged DEF StackSound, WaitsFor, tree

(* The end of an ExecFile call leaves sound frames below it. *)
LEMMA FinishSound ==
  ASSUME TypeOK, LoadingIsStack, StackSound, [Next]_vars,
         NEW err \in BOOLEAN, NEW G, Finish(err, G)
  PROVE  StackSound'
<1> DEFINE n == Len(stack)
<1>1. /\ n \in Nat \ {0} /\ DOMAIN stack = 1..n
      /\ DOMAIN stack' = 1..n-1 /\ Len(stack') = n-1
      /\ \A i \in 1..n-1 : stack'[i] = stack[i]
      /\ Top.path \in Path
  BY TopFacts, FrontFacts DEF Finish, CacheResult, CollectTests, TypeOK
<1>2. ASSUME NEW i \in 1..n-1 PROVE FrameSound(stack[i])'
  <2>1. PICK frame \in Frame : frame = stack[i]
    BY <1>1 DEF TypeOK
  <2>2. FrameSound(frame)'
    BY <1>1, <2>1, FrameKept DEF StackSound
  <2> QED BY <1>1, <2>1, <2>2 DEF FrameSound, PrefixDone
<1>3. ASSUME NEW i \in 1..n-1 PROVE WaitsFor(stack[i], stack[i+1].path)
  <2>1. i \in DOMAIN stack /\ i < Len(stack)
    BY <1>1
  <2> QED BY <2>1 DEF StackSound
<1>4. \A i \in 1..n-1 : i < n-1 => WaitsFor(stack[i], stack[i+1].path)'
  BY <1>1, <1>3, TreeUnchanged DEF WaitsFor, tree
<1>5. stack' # <<>> => WaitsFor(stack[Len(stack)], target)'
  <2> SUFFICES ASSUME stack' # <<>> PROVE WaitsFor(stack[Len(stack)], target)'
    OBVIOUS
  <2>1. n-1 \in 1..n-1
    BY <1>1, EmptySeq, FrontFacts DEF Finish, CacheResult, CollectTests, TypeOK
  <2>2. WaitsFor(stack[n-1], Top.path)
    BY <1>1, <1>3, <2>1 DEF Top
  <2>3. stack'[Len(stack')] = stack[n-1] /\ target' = Top.path
    BY <1>1, <2>1 DEF Finish, CacheResult, CollectTests
  <2> QED BY <2>2, <2>3, TreeUnchanged DEF WaitsFor, tree
<1>6. ~failed' => target' \in Path /\ cache'[target'] = "ok"
  BY <1>1 DEF Finish, CacheResult, CollectTests, Return, TypeOK
<1>7. phase' = "return"
  BY DEF Finish, CacheResult, CollectTests, Return
<1>8. QED
  BY <1>1, <1>2, <1>4, <1>5, <1>6, <1>7 DEF StackSound

(* The start of an ExecFile call adds a sound frame. *)
LEMMA BeginExecSound ==
  ASSUME TypeOK, LoadingIsStack, StackSound, BeginExec
  PROVE  StackSound'
<1> DEFINE n == Len(stack)
           new == [path |-> target, pc |-> 1]
<1>1. [Next]_vars
  BY DEF Next
<1>2. /\ n \in Nat /\ DOMAIN stack = 1..n
      /\ DOMAIN stack' = 1..n+1 /\ Len(stack') = n+1
      /\ \A i \in 1..n : stack'[i] = stack[i]
      /\ stack'[n+1] = new
      /\ target \in Path
  BY DEF BeginExec, Unseen, Enter, TypeOK
<1>3. ASSUME NEW i \in 1..n+1, i = n+1 PROVE FrameSound(stack[i])'
  <2>1. FileAt(target) \in File /\ FileAt(target) \in readable
    BY <1>2, PathFacts DEF BeginExec, Enter
  <2>2. body'[FileAt(target)] \in Seq(Stmt) /\ readable' = readable
    BY <2>1 DEF BeginExec, tree, TypeOK, TreeTypeOK
  <2>3. stack'[i].path = target /\ stack'[i].pc = 1
    BY <1>2, <1>3
  <2>4. PICK f \in File : f = FileAt(target)
    BY <2>1
  <2>5. PrefixDone(f, 1)'
    BY <2>2, <2>4 DEF PrefixDone
  <2> QED BY <2>1, <2>2, <2>3, <2>4, <2>5 DEF FrameSound, PrefixDone
<1>4. ASSUME NEW i \in 1..n PROVE FrameSound(stack[i])'
  <2>1. PICK frame \in Frame : frame = stack[i]
    BY <1>2 DEF TypeOK
  <2>2. FrameSound(frame)'
    BY <1>1, <1>2, <2>1, FrameKept DEF StackSound
  <2> QED BY <1>2, <2>1, <2>2 DEF FrameSound, PrefixDone
<1>5. ASSUME NEW i \in 1..n PROVE WaitsFor(stack[i], stack[i+1].path)'
  <2>1. CASE i = n
    <3>1. WaitsFor(stack[i], target)
      BY <1>2, <2>1 DEF StackSound, BeginExec
    <3>2. stack'[i] = stack[i] /\ stack'[i+1].path = target
      BY <1>2, <2>1
    <3> QED BY <1>1, <3>1, <3>2, TreeUnchanged DEF WaitsFor, tree
  <2>2. CASE i # n
    <3>0. n \in Nat /\ i \in Int /\ 1 <= i /\ i < n
      <4>1. n \in Nat
        BY <1>2
      <4> HIDE DEF n
      <4> QED BY <2>2, <4>1
    <3>1. i \in DOMAIN stack /\ i < Len(stack) /\ i \in 1..n /\ i+1 \in 1..n
      <4>1. i \in 1..n /\ i+1 \in 1..n
        <5> HIDE DEF n
        <5> QED BY <3>0
      <4> QED BY <1>2, <3>0, <4>1
    <3>2. WaitsFor(stack[i], stack[i+1].path)
      BY <3>1 DEF StackSound
    <3>3. stack'[i] = stack[i] /\ stack'[i+1] = stack[i+1]
      BY <1>2, <3>1
    <3> QED BY <1>1, <3>2, <3>3, TreeUnchanged DEF WaitsFor, tree
  <2> QED BY <2>1, <2>2
<1>6. \A i \in 1..n+1 : i < n+1 => i \in 1..n
  BY <1>2
<1>7. phase' = "exec"
  BY DEF BeginExec, Enter
<1>8. \A i \in DOMAIN stack' : FrameSound(stack[i])'
  BY <1>2, <1>3, <1>4
<1>9. \A i \in DOMAIN stack' : i < Len(stack') => WaitsFor(stack[i], stack[i+1].path)'
  BY <1>2, <1>5, <1>6
<1>10. QED
  BY <1>7, <1>8, <1>9 DEF StackSound

(* Every step keeps the frames of the stack sound. *)
LEMMA StepStackSound ==
  ASSUME TypeOK, LoadingIsStack, ErrorUnwinds, StackSound, [Next]_vars
  PROVE  StackSound'
<1>1. CASE ResolveFails \/ CycleFound \/ ReadFails
  <2>1. /\ UNCHANGED <<stack, target>> /\ phase = "load" /\ phase' = "return" /\ failed'
    BY <1>1 DEF ResolveFails, CycleFound, ReadFails, Unseen, Return
  <2> QED BY <2>1, SameStackSound, TreeUnchanged DEF StackSound, WaitsFor, tree
<1>2. CASE CacheHit
  <2>1. /\ UNCHANGED <<stack, target, cache>> /\ phase = "load" /\ phase' = "return"
        /\ target \in Path /\ (~failed' => cache[target] = "ok")
    BY <1>2 DEF CacheHit, Return, TypeOK
  <2> QED BY <2>1, SameStackSound, TreeUnchanged DEF StackSound, WaitsFor, tree
<1>3. CASE BeginExec
  BY <1>3, BeginExecSound
<1>5. CASE ExecLoad
  <2>1. /\ UNCHANGED stack /\ stack # <<>> /\ phase' = "load" /\ target' = Statement.arg
        /\ Running \in parses /\ ~AtEnd /\ Statement.op = "load"
    BY <1>5 DEF ExecLoad, TypeOK
  <2>2. Top.pc \in DOMAIN body[Running]
    BY <2>1, TopFacts DEF AtEnd
  <2>3. WaitsFor(stack[Len(stack)], target)'
    BY <2>1, <2>2, TreeUnchanged DEF WaitsFor, tree, Running, Statement, Top
  <2> QED BY <2>1, <2>3, SameStackSound DEF StackSound
<1>6. CASE ExecDef
  <2>1. /\ NextStatement /\ stack # <<>> /\ phase' = "exec" /\ UNCHANGED cache
        /\ ~AtEnd /\ Statement.op = "def"
    BY <1>6 DEF ExecDef, TypeOK
  <2> QED BY <2>1, NextStatementSound DEF StackSound
<1>7. CASE LoadSucceeded
  <2>1. /\ NextStatement /\ stack # <<>> /\ phase = "return" /\ phase' = "exec"
        /\ ~failed /\ UNCHANGED cache
    BY <1>7 DEF LoadSucceeded
  <2>2. WaitsFor(Top, target) /\ target \in Path /\ cache[target] = "ok"
    BY <2>1 DEF StackSound, Top
  <2>3. ~AtEnd /\ Statement.op = "load" /\ Statement.arg = target
    BY <2>1, <2>2, TopFacts DEF WaitsFor, AtEnd, Statement, Running
  <2> QED BY <2>1, <2>2, <2>3, NextStatementSound DEF StackSound
<1>8. CASE LoadReturns
  <2>1. UNCHANGED <<stack, target, cache, failed>> /\ phase = "return" /\ phase' = "done"
    BY <1>8 DEF LoadReturns
  <2> QED BY <2>1, SameStackSound DEF StackSound
<1>9. CASE UNCHANGED vars
  <2>1. UNCHANGED <<stack, target, cache, failed, phase>>
    BY <1>9 DEF vars
  <2> QED BY <2>1, SameStackSound, TreeUnchanged DEF StackSound, WaitsFor, tree
<1>10. CASE ParseFails \/ ExecFails \/ ExecEnds \/ LoadFailed
  BY <1>10, FinishSound DEF ParseFails, ExecFails, ExecEnds, LoadFailed
<1>11. QED
  BY <1>1, <1>2, <1>3, <1>5, <1>6, <1>7, <1>8, <1>9, <1>10 DEF Next

(* Only the end of a file makes its entry "ok". *)
LEMMA OkEntered ==
  ASSUME TypeOK, [Next]_vars, NEW p \in Path, cache'[p] = "ok", cache[p] # "ok"
  PROVE  ExecEnds /\ p = Top.path
<1>1. ~ UNCHANGED cache
  OBVIOUS
<1>2. ~ (ReadFails \/ BeginExec)
  BY DEF ReadFails, BeginExec, Unseen, Enter, TypeOK
<1>3. ~ (ParseFails \/ ExecFails \/ LoadFailed)
  BY DEF ParseFails, ExecFails, LoadFailed, Finish, CacheResult, TypeOK
<1>4. ExecEnds
  BY <1>1, <1>2, <1>3
     DEF Next, ResolveFails, CacheHit, CycleFound, ExecLoad, ExecDef, LoadSucceeded,
         LoadReturns, vars
<1>5. p = Top.path
  BY <1>4 DEF ExecEnds, Finish, CacheResult, TypeOK
<1>6. QED
  BY <1>4, <1>5

(* Every step keeps the modules with an "ok" entry complete. *)
LEMMA StepOkIsComplete ==
  ASSUME TypeOK, LoadingIsStack, ErrorUnwinds, OkIsComplete, StackSound, [Next]_vars
  PROVE  OkIsComplete'
<1> SUFFICES ASSUME NEW p \in Path, cache'[p] = "ok"
             PROVE  LET f == FileAt(p) IN
                      Sound(f)' /\ \A q \in Loads(f)' : cache'[q] = "ok"
  BY DEF OkIsComplete
<1> DEFINE f == FileAt(p)
<1>1. f \in File /\ body[f] \in Seq(Stmt)
  BY PathFacts DEF TypeOK, TreeTypeOK
<1>2. Sound(f)' = Sound(f) /\ Loads(f)' = Loads(f)
  BY TreeUnchanged DEF Sound, Loads, tree
<1>3. Loads(f) \subseteq Path \cup {NoPath}
  BY <1>1 DEF Loads, Stmt, Resolution, Path
<1>4. \A q \in Path : cache[q] = "ok" => cache'[q] = "ok"
  BY StepEntriesFinal
<1>5. CASE cache[p] = "ok"
  <2>1. Sound(f) /\ \A q \in Loads(f) : cache[q] = "ok"
    BY <1>5 DEF OkIsComplete
  <2>2. Loads(f) \subseteq Path
    BY <1>3, <2>1 DEF Sound
  <2> QED BY <1>2, <1>4, <2>1, <2>2
<1>6. CASE cache[p] # "ok"
  <2>1. ExecEnds /\ p = Top.path /\ stack # <<>>
    BY <1>6, OkEntered DEF ExecEnds, TypeOK
  <2>2. /\ FrameSound(Top) /\ f = Running
        /\ Top.pc \in Nat /\ Top.pc > Len(body[f]) /\ f \in parses
    BY <2>1, TopFacts DEF StackSound, Top, Running, ExecEnds, AtEnd, TypeOK
  <2>3. \A k \in DOMAIN body[f] :
          /\ body[f][k].op # "fail"
          /\ body[f][k].op = "load" => body[f][k].arg \in Path /\ cache[body[f][k].arg] = "ok"
    BY <1>1, <2>2 DEF FrameSound, PrefixDone, Running
  <2>4. Loads(f) \subseteq Path /\ \A q \in Loads(f) : cache[q] = "ok"
    BY <2>3 DEF Loads
  <2>5. Sound(f)
    BY <2>2, <2>3, <2>4, PathFacts DEF Sound, FrameSound, Running
  <2> QED BY <1>2, <1>4, <2>4, <2>5
<1>7. QED
  BY <1>5, <1>6

(* The strengthened invariant: StackSound is what makes OkIsComplete       *)
(* inductive, since a file is found complete statement by statement.       *)
THEOREM Inductive == Spec => []IInv
<1>1. Init => IInv
  <2> SUFFICES ASSUME Init PROVE IInv
    OBVIOUS
  <2>1. TypeOK
    BY InitTypeOK
  <2>2. LoadingIsStack /\ ErrorUnwinds /\ OkIsComplete /\ StackSound
    BY DEF Init, LoaderInit, LoadingIsStack, ErrorUnwinds, OkIsComplete, StackSound
  <2> QED BY <2>1, <2>2 DEF IInv
<1>2. IInv /\ [Next]_vars => IInv'
  BY StepTypeOK, StepLoadingIsStack, StepErrorUnwinds, StepOkIsComplete, StepStackSound
     DEF IInv
<1>3. QED
  BY <1>1, <1>2, PTL DEF Spec

(* A module whose globals were handed out executed to its end, and so did  *)
(* everything it loads: no Config is built from half-executed modules.     *)
THEOREM OkModulesComplete == Spec => []OkIsComplete
<1>1. IInv => OkIsComplete
  BY DEF IInv
<1>2. QED
  BY <1>1, Inductive, PTL

-----------------------------------------------------------------------------
(* From the cache to the result of Load.                                   *)

(* The outermost file is the one Load was called for. *)
RootIsMain == IF stack = <<>> THEN target = MainPath ELSE stack[1].path = MainPath

OutcomeOfRoot == outcome = "config" => stack = <<>> /\ phase = "done" /\ ~failed

(* The outermost call of load is the one for the main file. *)
LEMMA StepRootIsMain ==
  ASSUME TypeOK, RootIsMain, [Next]_vars
  PROVE  RootIsMain'
<1>1. CASE UNCHANGED <<stack, target>>
  BY <1>1 DEF RootIsMain
<1>2. CASE BeginExec
  <2>1. Len(stack) \in Nat /\ (stack # <<>> => Len(stack) >= 1)
    BY DEF TypeOK
  <2>2. stack' # <<>> /\ stack'[1] = IF stack = <<>> THEN [path |-> target, pc |-> 1] ELSE stack[1]
    BY <1>2, <2>1, AppendProperties DEF BeginExec, Unseen, Enter, TypeOK
  <2> QED BY <2>2 DEF RootIsMain
<1>3. CASE ExecLoad
  BY <1>3 DEF ExecLoad, TypeOK, RootIsMain
<1>4. CASE NextStatement /\ stack # <<>>
  <2>1. Len(stack) >= 1 /\ 1 \in DOMAIN stack
    BY <1>4, TopFacts DEF TypeOK
  <2>2. stack' # <<>> /\ stack'[1].path = stack[1].path
    BY <1>4, <2>1, NextStatementFacts, NextStatementType
  <2> QED BY <1>4, <2>2 DEF RootIsMain
<1>5. CASE \E err, G : Finish(err, G)
  <2>1. /\ stack # <<>> /\ Len(stack) \in Nat \ {0} /\ stack[1].path = MainPath
        /\ Len(stack') = Len(stack) - 1 /\ stack' \in Seq(Frame)
        /\ \A i \in 1..Len(stack)-1 : stack'[i] = stack[i]
        /\ target' = Top.path
    BY <1>5, FrontFacts DEF Finish, CacheResult, CollectTests, RootIsMain, TypeOK
  <2>2. CASE Len(stack) = 1
    BY <2>1, <2>2 DEF RootIsMain, Top
  <2>3. CASE Len(stack) # 1
    <3>1. 1 \in 1..Len(stack)-1 /\ stack' # <<>>
      BY <2>1, <2>3
    <3> QED BY <2>1, <3>1 DEF RootIsMain
  <2> QED BY <2>2, <2>3
<1>6. CASE ResolveFails \/ CacheHit \/ CycleFound \/ ReadFails \/ LoadReturns \/ UNCHANGED vars
  BY <1>1, <1>6 DEF ResolveFails, CacheHit, CycleFound, ReadFails, LoadReturns, vars
<1>7. CASE ExecDef \/ LoadSucceeded
  BY <1>4, <1>7 DEF ExecDef, LoadSucceeded, TypeOK
<1>8. CASE ParseFails \/ ExecFails \/ ExecEnds \/ LoadFailed
  <2>1. \E err, G : Finish(err, G)
    BY <1>8 DEF ParseFails, ExecFails, ExecEnds, LoadFailed
  <2> QED BY <1>5, <2>1
<1>9. QED
  BY <1>2, <1>3, <1>6, <1>7, <1>8 DEF Next

(* Load returns a Config only at the end, without an error. *)
LEMMA StepOutcomeOfRoot ==
  ASSUME TypeOK, OutcomeOfRoot, [Next]_vars
  PROVE  OutcomeOfRoot'
<1>1. CASE LoadReturns
  BY <1>1 DEF LoadReturns, OutcomeOfRoot
<1>2. CASE UNCHANGED vars
  BY <1>2 DEF vars, OutcomeOfRoot
<1>3. CASE ~LoadReturns /\ Next
  <2>1. UNCHANGED outcome /\ phase # "done"
    BY <1>3 DEF Next, ResolveFails, CacheHit, CycleFound, ReadFails, BeginExec, ParseFails,
           ExecLoad, ExecDef, ExecFails, ExecEnds, LoadSucceeded, LoadFailed, Finish
  <2> QED BY <2>1 DEF OutcomeOfRoot
<1>4. QED
  BY <1>1, <1>2, <1>3

(* A Config is only ever built from sound files: when Load succeeds, every *)
(* file reachable from the main one was read, parsed, and executed without *)
(* an error, whatever the tree.                                            *)
ConfigIsSound == outcome = "config" => \A f \in Reachable : Sound(f)

(* Hence a Config is never built from an unsound file. *)
THEOREM ConfigsAreSound == Spec => []ConfigIsSound
<1>1. Init => RootIsMain /\ OutcomeOfRoot
  BY DEF Init, LoaderInit, RootIsMain, OutcomeOfRoot
<1>2. IInv /\ RootIsMain /\ OutcomeOfRoot /\ [Next]_vars => RootIsMain' /\ OutcomeOfRoot'
  BY StepRootIsMain, StepOutcomeOfRoot DEF IInv
<1>3. IInv /\ RootIsMain /\ OutcomeOfRoot => ConfigIsSound
  <2> SUFFICES ASSUME IInv, RootIsMain, OutcomeOfRoot, outcome = "config"
               PROVE  \A f \in Reachable : Sound(f)
    BY DEF ConfigIsSound
  <2> DEFINE T == {f \in File : \E p \in Path : FileAt(p) = f /\ cache[p] = "ok"}
  <2>1. cache[MainPath] = "ok"
    BY DEF IInv, StackSound, RootIsMain, OutcomeOfRoot
  <2>2. {MainFile} \subseteq T
    BY <2>1, PathFacts, MainFileAssumption DEF FileAt
  <2>3. ASSUME NEW f \in T PROVE Sound(f) /\ Loads(f) \cap File \subseteq T
    <3>1. PICK p \in Path : FileAt(p) = f /\ cache[p] = "ok"
      OBVIOUS
    <3>2. Sound(f) /\ \A q \in Loads(f) : cache[q] = "ok"
      BY <3>1 DEF IInv, OkIsComplete
    <3>3. \A q \in File : q \in Path /\ FileAt(q) = q
      BY PathFacts, MainPathAssumption, MainFileAssumption DEF FileAt
    <3> QED BY <3>2, <3>3
  <2>4. Reachable \subseteq T
    BY <2>2, <2>3 DEF Reachable, Reach
  <2> QED BY <2>3, <2>4
<1>4. QED
  BY <1>1, <1>2, <1>3, Inductive, PTL DEF Spec

-----------------------------------------------------------------------------
(* The loader implements the one-step load of ConfigLoad.                  *)

(* No module has failed. *)
Clean == \A p \in Path : cache[p] # "err"

(* The files that were executed to their end. *)
OkFiles == {f \in File : \E p \in Path : FileAt(p) = f /\ cache[p] = "ok"}

(* What was given to ExecFile: all that is or was executed, once under     *)
(* each path, and nothing that the main file does not need.                *)
ExecsSound ==
  /\ \A p \in Path : cache[p] \in {"loading", "ok"} => \E i \in DOMAIN execs : execs[i] = p
  /\ \A i \in DOMAIN execs : cache[execs[i]] # "absent" /\ FileAt(execs[i]) \in Reachable
  /\ \A i, j \in DOMAIN execs : execs[i] = execs[j] => i = j

(* Each file being executed is needed by those below it. *)
StackReaches ==
  \A i, j \in DOMAIN stack :
    i < j => FileAt(stack[j].path) \in Reach(Loads(FileAt(stack[i].path)) \cap File)

(* The main file is never completed under its canonical path, if Load was  *)
(* given another: it would wait for what the outer execution waits for.    *)
AliasUnfinished == MainPath # MainFile => cache[MainFile] # "ok"

(* No completed file needs itself. *)
OkAcyclic == \A f \in OkFiles : f \notin Reach(Loads(f) \cap File)

(* An error is the fault of the tree. *)
FailureHasCause == failed => ~Loadable

(* Before a failure, the tests collected are those of the completed files, *)
(* once each and after those of what they load.                            *)
TestsListed ==
  Clean =>
    /\ {found[i] : i \in DOMAIN found} = UNION {{f} \X AllTests(f) : f \in OkFiles}
    /\ \A i, j \in DOMAIN found :
         /\ found[i] = found[j] => i = j
         /\ found[j][1] \in Loads(found[i][1]) => j < i

(* There is a result when Load has returned. *)
OutcomeAtEnd == outcome # "pending" <=> phase = "done"

(* The strengthening that the result of Load needs. *)
RInv ==
  /\ IInv /\ RootIsMain /\ OutcomeOfRoot /\ OutcomeAtEnd
  /\ ExecsSound /\ StackReaches /\ AliasUnfinished /\ OkAcyclic
  /\ FailureHasCause /\ TestsListed

(* Reach(S) is closed under loads, contains S, and is the least such set. *)
LEMMA ReachFacts ==
  ASSUME NEW S \in SUBSET File
  PROVE  /\ S \subseteq Reach(S)
         /\ Reach(S) \subseteq File
         /\ \A f \in Reach(S) : Loads(f) \cap File \subseteq Reach(S)
         /\ \A T \in SUBSET File :
              S \subseteq T /\ (\A f \in T : Loads(f) \cap File \subseteq T) => Reach(S) \subseteq T
BY DEF Reach

(* What is said of the files does not change while they do not. *)
LEMMA DerivedUnchanged ==
  ASSUME UNCHANGED tree
  PROVE  /\ \A f : Loads(f)' = Loads(f) /\ AllTests(f)' = AllTests(f) /\ Sound(f)' = Sound(f)
         /\ \A S : Reach(S)' = Reach(S)
         /\ Reachable' = Reachable
         /\ Loadable' = Loadable
<1>1. readable' = readable /\ parses' = parses /\ body' = body
  BY DEF tree
<1>2. \A f : Loads(f)' = Loads(f) /\ AllTests(f)' = AllTests(f) /\ Sound(f)' = Sound(f)
  BY <1>1 DEF Loads, AllTests, TestsIn, Sound
<1>3. \A S : Reach(S)' = Reach(S)
  BY <1>1, <1>2 DEF Reach, Loads
<1>4. Reachable' = Reachable
  BY <1>3 DEF Reachable, Reach, Loads, tree
<1>5. Acyclic' = Acyclic
  BY <1>1, <1>4 DEF Acyclic, Reach, Loads
<1>6. QED
  BY <1>2, <1>3, <1>4, <1>5 DEF Loadable, Sound

(* Only the main file has two paths. *)
LEMMA TwoPaths ==
  ASSUME NEW p \in Path, NEW q \in Path, FileAt(p) = FileAt(q), p # q
  PROVE  MainPath # MainFile /\ {p, q} = {MainPath, MainFile}
BY MainPathAssumption, MainFileAssumption DEF Path, FileAt

(* A file has its canonical path, and no other but MainPath. *)
LEMMA CanonicalPath ==
  ASSUME NEW f \in File
  PROVE  f \in Path /\ FileAt(f) = f
BY MainPathAssumption, MainFileAssumption DEF Path, FileAt

(* load() is called with a file or with a name that Resolve rejects. *)
LEMMA LoadsType ==
  ASSUME TypeOK, NEW f \in File
  PROVE  Loads(f) \subseteq File \cup {NoPath}
<1>1. body[f] \in Seq(Stmt)
  BY DEF TypeOK, TreeTypeOK
<1>2. \A i \in DOMAIN body[f] : body[f][i] \in Stmt
  BY <1>1
<1>3. QED
  BY <1>2 DEF Loads, Stmt, Resolution

(* The file being executed is needed by the main file. *)
LEMMA RunningNeeded ==
  ASSUME TypeOK, LoadingIsStack, ExecsSound, stack # <<>>
  PROVE  Running \in Reachable
<1>1. Top.path \in Path /\ cache[Top.path] = "loading"
  BY TopFacts, TopIsLoading
<1>2. PICK i \in DOMAIN execs : execs[i] = Top.path
  BY <1>1 DEF ExecsSound
<1>3. QED
  BY <1>2 DEF ExecsSound, Running

(* So is the file that load() is called for. *)
LEMMA TargetNeeded ==
  ASSUME TypeOK, LoadingIsStack, StackSound, RootIsMain, ExecsSound, phase = "load"
  PROVE  /\ stack = <<>> => target = MainPath
         /\ stack # <<>> => /\ target \in Loads(Running)
                            /\ target # NoPath => target \in File /\ FileAt(target) = target
         /\ target # NoPath => FileAt(target) \in Reachable
<1>1. stack = <<>> => target = MainPath
  BY DEF RootIsMain
<1>2. MainFile \in Reachable /\ FileAt(MainPath) = MainFile
  BY ReachFacts, MainFileAssumption DEF Reachable, FileAt
<1>3. CASE stack # <<>>
  <2>1. WaitsFor(Top, target) /\ Running \in File
    BY <1>3, TopFacts DEF StackSound, Top
  <2>2. target \in Loads(Running)
    BY <2>1 DEF WaitsFor, Loads, Running
  <2>3. target # NoPath => target \in File /\ FileAt(target) = target
    BY <2>1, <2>2, LoadsType, CanonicalPath
  <2>4. {MainFile} \in SUBSET File
    BY MainFileAssumption
  <2>5. \A f \in Reachable : Loads(f) \cap File \subseteq Reachable
    BY <2>4, ReachFacts DEF Reachable
  <2> QED BY <1>3, <2>2, <2>3, <2>5, RunningNeeded
<1>4. QED
  BY <1>1, <1>2, <1>3

(* The steps that call and leave ExecFile, and what the others keep. *)
LEMMA LogKinds ==
  ASSUME TypeOK, [Next]_vars
  PROVE  \/ UNCHANGED <<cache, execs, found>>
         \/ ReadFails
         \/ BeginExec
         \/ \E G : Finish(TRUE, G)
         \/ ExecEnds
BY DEF Next, ResolveFails, CacheHit, CycleFound, ExecLoad, ExecDef, LoadSucceeded,
       LoadReturns, ParseFails, ExecFails, LoadFailed, vars

(* Every step keeps the log of executions sound. *)
LEMMA StepExecsSound ==
  ASSUME TypeOK, LoadingIsStack, StackSound, RootIsMain, ExecsSound, [Next]_vars
  PROVE  ExecsSound'
<1>0. Reachable' = Reachable
  BY TreeUnchanged, DerivedUnchanged
<1>1. CASE UNCHANGED <<cache, execs, found>>
  BY <1>0, <1>1 DEF ExecsSound
<1>2. CASE ReadFails
  <2>1. UNCHANGED execs /\ cache' = [cache EXCEPT ![target] = "err"]
    BY <1>2 DEF ReadFails
  <2> QED BY <1>0, <2>1 DEF ExecsSound, TypeOK
<1>3. CASE BeginExec
  <2>1. /\ target \in Path /\ cache[target] = "absent" /\ FileAt(target) \in Reachable
        /\ cache' = [cache EXCEPT ![target] = "loading"]
        /\ execs' = Append(execs, target)
    BY <1>3, TargetNeeded DEF BeginExec, Unseen, TypeOK
  <2> DEFINE n == Len(execs)
  <2>2. /\ n \in Nat /\ DOMAIN execs = 1..n /\ DOMAIN execs' = 1..n+1
        /\ \A i \in 1..n : execs'[i] = execs[i] /\ execs[i] \in Path
        /\ execs'[n+1] = target
    BY <2>1 DEF TypeOK
  <2> HIDE DEF n
  <2>3. \A i \in 1..n : execs[i] # target
    BY <2>1, <2>2 DEF ExecsSound
  <2>4. ASSUME NEW p \in Path, cache'[p] \in {"loading", "ok"}
        PROVE  \E i \in 1..n+1 : execs'[i] = p
    <3>1. CASE p = target
      BY <2>2, <3>1
    <3>2. CASE p # target
      <4>1. cache[p] \in {"loading", "ok"}
        BY <2>1, <2>4, <3>2 DEF TypeOK
      <4>2. PICK i \in 1..n : execs[i] = p
        BY <2>2, <4>1 DEF ExecsSound
      <4> QED BY <2>2, <4>2
    <3> QED BY <3>1, <3>2
  <2>5. ASSUME NEW i \in 1..n+1
        PROVE  cache'[execs'[i]] # "absent" /\ FileAt(execs'[i]) \in Reachable
    <3>1. CASE i = n+1
      BY <2>1, <2>2, <3>1 DEF TypeOK
    <3>2. CASE i # n+1
      <4>1. i \in 1..n
        BY <2>2, <3>2
      <4>2. cache[execs[i]] # "absent" /\ FileAt(execs[i]) \in Reachable
        BY <2>2, <4>1 DEF ExecsSound
      <4> QED BY <2>1, <2>2, <2>3, <4>1, <4>2 DEF TypeOK
    <3> QED BY <3>1, <3>2
  <2>6. \A i, j \in 1..n+1 : execs'[i] = execs'[j] => i = j
    BY <2>2, <2>3 DEF ExecsSound
  <2> QED BY <1>0, <2>2, <2>4, <2>5, <2>6 DEF ExecsSound
<1>4. CASE \E err, G : Finish(err, G)
  <2>1. /\ UNCHANGED execs /\ Top.path \in Path /\ cache[Top.path] = "loading"
        /\ \E e \in {"ok", "err"} : cache' = [cache EXCEPT ![Top.path] = e]
    BY <1>4, TopFacts, TopIsLoading DEF Finish, CacheResult
  <2>2. PICK e \in {"ok", "err"} : cache' = [cache EXCEPT ![Top.path] = e]
    BY <2>1
  <2>3. \A p \in Path : cache'[p] = IF p = Top.path THEN e ELSE cache[p]
    BY <2>1, <2>2 DEF TypeOK
  <2>4. \A i \in DOMAIN execs : execs[i] \in Path
    BY DEF TypeOK
  <2> QED BY <1>0, <2>1, <2>3, <2>4 DEF ExecsSound
<1>5. QED
  BY <1>1, <1>2, <1>3, <1>4, LogKinds DEF ExecEnds

(* Every step keeps the files on the stack needed by those below. *)
LEMMA StepStackReaches ==
  ASSUME TypeOK, LoadingIsStack, StackSound, RootIsMain, ExecsSound, StackReaches, [Next]_vars
  PROVE  StackReaches'
<1>0. \A S, f : Reach(S)' = Reach(S) /\ Loads(f)' = Loads(f)
  BY TreeUnchanged, DerivedUnchanged
<1> DEFINE n == Len(stack)
           R(i, j) == FileAt(stack[j].path) \in Reach(Loads(FileAt(stack[i].path)) \cap File)
           Rp(i, j) == FileAt(stack'[j].path) \in Reach(Loads(FileAt(stack'[i].path)) \cap File)
<1>1. SUFFICES \A i, j \in DOMAIN stack' : i < j => Rp(i, j)
  <2>1. StackReaches' <=> \A i, j \in DOMAIN stack' : i < j =>
          FileAt(stack'[j].path) \in Reach(Loads(FileAt(stack'[i].path)) \cap File)
    <3>1. body' = body
      BY TreeUnchanged DEF tree
    <3> QED BY <3>1 DEF StackReaches, Reach, Loads
  <2> QED BY <2>1
<1>2. CASE UNCHANGED stack
  BY <1>2 DEF StackReaches
<1>3. CASE BeginExec
  <2>1. /\ n \in Nat /\ DOMAIN stack = 1..n /\ DOMAIN stack' = 1..n+1
        /\ \A i \in 1..n : stack'[i] = stack[i]
        /\ stack'[n+1].path = target
    BY <1>3 DEF BeginExec, Unseen, Enter, TypeOK
  <2>2. ASSUME NEW i \in 1..n PROVE FileAt(target) \in Reach(Loads(FileAt(stack[i].path)) \cap File)
    <3> DEFINE f == FileAt(stack[i].path)
               D == Loads(f) \cap File
    <3>1. stack # <<>> /\ phase = "load" /\ target # NoPath
      BY <1>3, <2>1 DEF BeginExec
    <3>2. target \in Loads(Running) \cap File /\ FileAt(target) = target
      BY <3>1, TargetNeeded
    <3>3. D \in SUBSET File
      OBVIOUS
    <3>4. CASE i = n
      BY <3>2, <3>3, <3>4, ReachFacts DEF Running, Top
    <3>5. CASE i # n
      <4>1. Running \in Reach(D)
        <5>1. i \in 1..n /\ n \in 1..n /\ i < n
          <6>1. n \in Nat
            BY <2>1
          <6> HIDE DEF n
          <6> QED BY <3>5, <6>1
        <5> QED BY <2>1, <5>1 DEF StackReaches, Running, Top
      <4> QED BY <3>2, <3>3, <4>1, ReachFacts
    <3> QED BY <3>4, <3>5
  <2>3. ASSUME NEW i \in 1..n+1, NEW j \in 1..n+1, i < j PROVE Rp(i, j)
    <3>0. n \in Nat
      BY <2>1
    <3>1. i \in 1..n /\ stack'[i] = stack[i]
      <4>1. i \in 1..n
        <5> HIDE DEF n
        <5> QED BY <3>0, <2>3
      <4> QED BY <2>1, <4>1
    <3>2. CASE j = n+1
      BY <2>1, <2>2, <3>1, <3>2
    <3>3. CASE j # n+1
      <4>1. j \in 1..n
        <5> HIDE DEF n
        <5> QED BY <3>0, <3>3
      <4>2. stack'[j] = stack[j] /\ R(i, j)
        BY <2>1, <2>3, <3>1, <4>1 DEF StackReaches
      <4> QED BY <3>1, <4>2
    <3> QED BY <3>2, <3>3
  <2> QED BY <2>1, <2>3
<1>4. CASE NextStatement /\ stack # <<>>
  <2>1. /\ DOMAIN stack' = DOMAIN stack
        /\ \A i \in DOMAIN stack : stack'[i].path = stack[i].path
    BY <1>4, NextStatementFacts
  <2> QED BY <2>1 DEF StackReaches
<1>5. CASE \E err, G : Finish(err, G)
  <2>1. /\ stack # <<>> /\ stack \in Seq(Frame) /\ stack' = Front(stack)
    BY <1>5 DEF Finish, TypeOK
  <2>2. /\ DOMAIN stack' \subseteq DOMAIN stack
        /\ \A i \in DOMAIN stack' : stack'[i] = stack[i]
    BY <2>1, FrontFacts
  <2> QED BY <2>2 DEF StackReaches
<1>6. QED
  <2>1. ReadFails => UNCHANGED stack
    BY DEF ReadFails
  <2> QED BY <1>2, <1>3, <1>4, <1>5, <2>1, StepKinds

(* A file that ends has all its imports completed. *)
LEMMA EndComplete ==
  ASSUME TypeOK, LoadingIsStack, StackSound, ExecEnds
  PROVE  /\ stack # <<>> /\ Top.path \in Path /\ Running \in File
         /\ FileAt(Top.path) = Running
         /\ cache[Top.path] = "loading"
         /\ cache' = [cache EXCEPT ![Top.path] = "ok"]
         /\ Loads(Running) \subseteq File
         /\ \A q \in Loads(Running) : cache[q] = "ok"
<1>1. stack # <<>> /\ cache' = [cache EXCEPT ![Top.path] = "ok"]
  BY DEF ExecEnds, Finish, CacheResult
<1>2. Top.path \in Path /\ Running \in File /\ FileAt(Top.path) = Running
  BY <1>1, TopFacts DEF Running
<1>3. cache[Top.path] = "loading"
  BY <1>1, TopIsLoading
<1>4. FrameSound(Top) /\ Top.pc \in Nat /\ Top.pc > Len(body[Running])
  BY <1>1, TopFacts DEF StackSound, Top, ExecEnds, AtEnd, TypeOK
<1>5. body[Running] \in Seq(Stmt)
  BY <1>1, TopFacts
<1>6. \A k \in DOMAIN body[Running] :
        body[Running][k].op = "load" =>
          body[Running][k].arg \in Path /\ cache[body[Running][k].arg] = "ok"
  BY <1>4, <1>5 DEF FrameSound, PrefixDone, Running
<1>7. \A q \in Loads(Running) : q \in Path /\ cache[q] = "ok"
  BY <1>6 DEF Loads
<1>8. Loads(Running) \subseteq File
  BY <1>2, <1>7, LoadsType, PathFacts
<1>9. QED
  BY <1>1, <1>2, <1>3, <1>7, <1>8

(* The main file is not completed under its canonical path first. *)
LEMMA StepAliasUnfinished ==
  ASSUME TypeOK, LoadingIsStack, StackSound, RootIsMain, AliasUnfinished, [Next]_vars
  PROVE  AliasUnfinished'
<1> SUFFICES ASSUME MainPath # MainFile, cache'[MainFile] = "ok" PROVE FALSE
  BY DEF AliasUnfinished
<1>1. MainFile \in Path /\ FileAt(MainPath) = MainFile
  BY CanonicalPath, MainFileAssumption DEF FileAt
<1>2. ExecEnds /\ MainFile = Top.path
  BY <1>1, OkEntered DEF AliasUnfinished
<1>3. stack # <<>> /\ Running = MainFile /\ \A q \in Loads(MainFile) : cache[q] = "ok"
  BY <1>2, EndComplete, CanonicalPath, MainFileAssumption
<1>4. stack[1].path = MainPath /\ Len(stack) \in Nat /\ DOMAIN stack = 1..Len(stack)
  BY <1>3, TopFacts DEF RootIsMain, TypeOK
<1>5. Len(stack) > 1
  BY <1>2, <1>3, <1>4, TopFacts DEF Top
<1>6. 1 \in DOMAIN stack /\ 2 \in DOMAIN stack
  BY <1>4, <1>5
<1>7. WaitsFor(stack[1], stack[2].path)
  BY <1>5, <1>6 DEF StackSound
<1>8. stack[2].path \in Loads(MainFile)
  BY <1>1, <1>4, <1>7 DEF WaitsFor, Loads
<1>9. stack[2].path \in Path /\ cache[stack[2].path] = "loading"
  <2>1. stack[2] \in Frame
    BY <1>6 DEF TypeOK
  <2>2. stack[2].path \in Path
    BY <2>1 DEF Frame
  <2> QED BY <1>6, <2>2 DEF LoadingIsStack
<1>10. QED
  BY <1>3, <1>8, <1>9

(* No file is completed twice, under its two paths. *)
LEMMA CompletedOnce ==
  ASSUME TypeOK, LoadingIsStack, StackSound, RootIsMain, AliasUnfinished, ExecEnds
  PROVE  Running \notin OkFiles
<1> SUFFICES ASSUME NEW q \in Path, FileAt(q) = Running, cache[q] = "ok" PROVE FALSE
  BY DEF OkFiles
<1>1. stack # <<>> /\ Top.path \in Path /\ FileAt(Top.path) = FileAt(q) /\ q # Top.path
  BY EndComplete
<1>2. MainPath # MainFile /\ {q, Top.path} = {MainPath, MainFile}
  BY <1>1, TwoPaths
<1>3. cache[MainPath] = "loading"
  <2>1. 1 \in DOMAIN stack /\ stack[1].path = MainPath
    BY <1>1, TopFacts DEF RootIsMain, TypeOK
  <2> QED BY <2>1, PathFacts DEF LoadingIsStack
<1>4. q = MainFile
  BY <1>2, <1>3
<1>5. QED
  BY <1>2, <1>4 DEF AliasUnfinished

(* What a step adds to the completed files. *)
LEMMA OkFilesStep ==
  ASSUME TypeOK, LoadingIsStack, StackSound, [Next]_vars
  PROVE  OkFiles' = IF ExecEnds THEN OkFiles \cup {Running} ELSE OkFiles
<1>1. \A p \in Path : cache[p] = "ok" => cache'[p] = "ok"
  BY StepEntriesFinal
<1>2. CASE ExecEnds
  <2>1. /\ Top.path \in Path /\ Running \in File /\ FileAt(Top.path) = Running
        /\ cache' = [cache EXCEPT ![Top.path] = "ok"]
    BY <1>2, EndComplete
  <2>2. \A p \in Path : cache'[p] = IF p = Top.path THEN "ok" ELSE cache[p]
    BY <2>1 DEF TypeOK
  <2> QED BY <1>1, <1>2, <2>1, <2>2 DEF OkFiles
<1>3. CASE ~ExecEnds
  <2>1. \A p \in Path : cache'[p] = "ok" => cache[p] = "ok"
    BY <1>3, OkEntered
  <2> QED BY <1>1, <1>3, <2>1 DEF OkFiles
<1>4. QED
  BY <1>2, <1>3

(* The imports of a completed file are completed, under their own paths. *)
LEMMA OkFilesClosed ==
  ASSUME TypeOK, OkIsComplete, NEW f \in OkFiles
  PROVE  /\ Sound(f)
         /\ Loads(f) \subseteq OkFiles
         /\ \A q \in Loads(f) : cache[q] = "ok"
<1>1. f \in File /\ Sound(f) /\ \A q \in Loads(f) : cache[q] = "ok"
  BY DEF OkFiles, OkIsComplete
<1>2. Loads(f) \subseteq File
  BY <1>1, LoadsType DEF Sound
<1>3. Loads(f) \subseteq OkFiles
  BY <1>1, <1>2, CanonicalPath DEF OkFiles
<1>4. QED
  BY <1>1, <1>3

(* Every step keeps it so that no completed file needs itself. *)
LEMMA StepOkAcyclic ==
  ASSUME TypeOK, LoadingIsStack, OkIsComplete, StackSound, RootIsMain, AliasUnfinished,
         OkAcyclic, [Next]_vars
  PROVE  OkAcyclic'
<1>0. body' = body
  BY TreeUnchanged DEF tree
<1>1. OkAcyclic' <=> \A f \in OkFiles' : f \notin Reach(Loads(f) \cap File)
  BY <1>0 DEF OkAcyclic, Reach, Loads
<1>2. CASE ~ExecEnds
  BY <1>1, <1>2, OkFilesStep DEF OkAcyclic
<1>3. CASE ExecEnds
  <2> DEFINE D == Loads(Running) \cap File
  <2>1. D \subseteq OkFiles
    BY <1>3, EndComplete, CanonicalPath DEF OkFiles
  <2>2. \A f \in OkFiles : Loads(f) \cap File \subseteq OkFiles
    BY OkFilesClosed
  <2>3. OkFiles \in SUBSET File /\ D \in SUBSET File
    BY DEF OkFiles
  <2>4. \A T \in SUBSET File :
          D \subseteq T /\ (\A g \in T : Loads(g) \cap File \subseteq T) => Reach(D) \subseteq T
    BY <2>3, ReachFacts
  <2>5. Reach(D) \subseteq OkFiles
    BY <2>1, <2>2, <2>3, <2>4
  <2>6. Running \notin Reach(D)
    BY <1>3, <2>5, CompletedOnce
  <2> QED BY <1>1, <1>3, <2>6, OkFilesStep DEF OkAcyclic
<1>4. QED
  BY <1>2, <1>3

(* The cycle check finds cycles only. *)
LEMMA CycleFoundIsCycle ==
  ASSUME TypeOK, LoadingIsStack, StackSound, RootIsMain, ExecsSound, StackReaches, CycleFound
  PROVE  ~Acyclic
<1>1. /\ phase = "load" /\ target # NoPath /\ cache[target] = "loading" /\ target \in Path
  BY DEF CycleFound, TypeOK
<1>2. PICK i \in DOMAIN stack : stack[i].path = target
  BY <1>1 DEF LoadingIsStack
<1>3. stack # <<>> /\ Len(stack) \in Nat \ {0} /\ DOMAIN stack = 1..Len(stack)
  BY <1>2, TopFacts DEF TypeOK
<1>4. /\ target \in Loads(Running) /\ target \in File /\ FileAt(target) = target
      /\ target \in Reachable
  BY <1>1, <1>3, TargetNeeded
<1> DEFINE D == Loads(target) \cap File
<1>5. D \in SUBSET File
  OBVIOUS
<1>6. target \in Reach(D)
  <2>1. CASE i = Len(stack)
    BY <1>2, <1>4, <1>5, <2>1, ReachFacts DEF Running, Top
  <2>2. CASE i # Len(stack)
    <3>1. Len(stack) \in DOMAIN stack /\ i < Len(stack)
      BY <1>3, <2>2
    <3>2. Running \in Reach(D)
      BY <1>2, <1>4, <3>1 DEF StackReaches, Running, Top
    <3> QED BY <1>4, <1>5, <3>2, ReachFacts
  <2> QED BY <2>1, <2>2
<1>7. QED
  BY <1>4, <1>6 DEF Acyclic

(* Whenever an error comes back, the tree is not loadable. *)
LEMMA StepFailureHasCause ==
  ASSUME TypeOK, LoadingIsStack, ErrorUnwinds, StackSound, RootIsMain, ExecsSound,
         StackReaches, FailureHasCause, [Next]_vars
  PROVE  FailureHasCause'
<1>0. Loadable' = Loadable
  BY TreeUnchanged, DerivedUnchanged
<1> SUFFICES ASSUME failed', ~failed PROVE ~Loadable
  BY <1>0 DEF FailureHasCause
<1>1. CASE ResolveFails
  <2>1. phase = "load" /\ target = NoPath
    BY <1>1 DEF ResolveFails
  <2>2. stack # <<>>
    BY <2>1, TargetNeeded, PathFacts
  <2>3. NoPath \in Loads(Running) /\ Running \in Reachable
    BY <2>1, <2>2, TargetNeeded, RunningNeeded
  <2> QED BY <2>3 DEF Loadable, Sound
<1>2. CASE CacheHit
  BY <1>2 DEF CacheHit, Return, ErrorUnwinds, TypeOK
<1>3. CASE CycleFound
  BY <1>3, CycleFoundIsCycle DEF Loadable
<1>4. CASE ReadFails
  <2>1. FileAt(target) \in Reachable /\ FileAt(target) \notin readable
    BY <1>4, TargetNeeded DEF ReadFails
  <2> QED BY <2>1 DEF Loadable, Sound
<1>5. CASE ParseFails
  BY <1>5, RunningNeeded DEF ParseFails, Finish, Loadable, Sound
<1>6. CASE ExecFails
  <2>1. stack # <<>> /\ ~AtEnd /\ Statement.op = "fail"
    BY <1>6 DEF ExecFails, Finish
  <2>2. Top.pc \in DOMAIN body[Running]
    BY <2>1, TopFacts DEF AtEnd
  <2> QED BY <2>1, <2>2, RunningNeeded DEF Loadable, Sound, Statement
<1>7. CASE ExecEnds
  BY <1>7 DEF ExecEnds, Finish, Return
<1>8. CASE LoadFailed
  BY <1>8 DEF LoadFailed
<1>9. CASE BeginExec \/ ExecLoad \/ ExecDef \/ LoadSucceeded \/ LoadReturns \/ UNCHANGED vars
  BY <1>9 DEF BeginExec, ExecLoad, ExecDef, LoadSucceeded, LoadReturns, vars
<1>10. QED
  BY <1>1, <1>2, <1>3, <1>4, <1>5, <1>6, <1>7, <1>8, <1>9 DEF Next

(* s lists the members of S, once each. *)
ListsOnce(s, S) ==
  /\ s \in Seq(S)
  /\ {s[i] : i \in DOMAIN s} = S
  /\ \A i, j \in DOMAIN s : s[i] = s[j] => i = j

(* The globals of one file, in any order, are listed once each. *)
LEMMA OrderLists ==
  ASSUME NEW f, NEW G, IsFiniteSet(G), NEW order \in SetToSeqs(G),
         NEW s, s = [i \in DOMAIN order |-> <<f, order[i]>>]
  PROVE  ListsOnce(s, {f} \X G)
<1>1. Cardinality(G) \in Nat
  BY FS_CardinalityType
<1> DEFINE n == Cardinality(G)
<1>2. order \in [1..n -> G] /\ \A i, j \in 1..n : order[i] = order[j] => i = j
  BY DEF SetToSeqs
<1>3. \A g \in G : \E i \in 1..n : order[i] = g
  <2>1. order \in Injection(1..n, G)
    BY <1>2 DEF Injection, IsInjective
  <2>2. Cardinality(1..n) = n
    <3>1. 1 \in Int /\ n \in Int /\ n \in Nat
      BY <1>1
    <3>2. Cardinality(1..n) = IF 1 > n THEN 0 ELSE n - 1 + 1
      <4> HIDE DEF n
      <4> QED BY <3>1, FS_Interval, Zenon
    <3> HIDE DEF n
    <3> QED BY <3>1, <3>2
  <2>3. order \in Surjection(1..n, G)
    BY <2>1, <2>2, FS_Injection
  <2> QED BY <2>3 DEF Surjection
<1>4. s \in Seq({f} \X G)
  <2>1. n \in Nat /\ \A i \in 1..n : s[i] \in {f} \X G
    BY <1>1, <1>2
  <2>2. s = [i \in 1..n |-> s[i]]
    BY <1>2
  <2> HIDE DEF n
  <2> QED BY <2>1, <2>2, IsASeq
<1>5. {s[i] : i \in DOMAIN s} = {f} \X G
  BY <1>2, <1>3
<1>6. \A i, j \in DOMAIN s : s[i] = s[j] => i = j
  BY <1>2
<1>7. QED
  BY <1>4, <1>5, <1>6 DEF ListsOnce

(* A file that ends adds its tests to the list, after those it must follow. *)
LEMMA EndTestsListed ==
  ASSUME TypeOK, LoadingIsStack, OkIsComplete, StackSound, RootIsMain, AliasUnfinished,
         OkAcyclic, TestsListed, ExecEnds, Clean, [Next]_vars
  PROVE  /\ {found'[i] : i \in DOMAIN found'} = UNION {{f} \X AllTests(f) : f \in OkFiles'}
         /\ \A i, j \in DOMAIN found' :
              /\ found'[i] = found'[j] => i = j
              /\ found'[j][1] \in Loads(found'[i][1]) => j < i
<1> DEFINE f == Running
           G == AllTests(f)
           n == Len(found)
<1>1. /\ f \in File /\ OkFiles' = OkFiles \cup {f} /\ f \notin OkFiles
      /\ Loads(f) \subseteq OkFiles /\ cache[Top.path] = "loading"
  BY EndComplete, OkFilesStep, CompletedOnce, CanonicalPath DEF OkFiles
<1>2. f \notin Loads(f) /\ \A g \in OkFiles : f \notin Loads(g)
  BY <1>1, OkFilesClosed
<1>3. IsFiniteSet(G)
  <2>1. Len(body[f]) \in Nat
    BY EndComplete, TopFacts
  <2> QED BY <1>1, <2>1, TestsInFinite DEF TypeOK, AllTests
<1>4. PICK order \in SetToSeqs(G) : found' = found \o [i \in DOMAIN order |-> <<f, order[i]>>]
  BY DEF ExecEnds, Finish, CollectTests
<1> DEFINE s == [i \in DOMAIN order |-> <<f, order[i]>>]
           m == Len(s)
<1>5. /\ s \in Seq({f} \X G)
      /\ {s[i] : i \in DOMAIN s} = {f} \X G
      /\ \A i, j \in DOMAIN s : s[i] = s[j] => i = j
  <2>1. s = [i \in DOMAIN order |-> <<f, order[i]>>] /\ order \in SetToSeqs(G)
    OBVIOUS
  <2> HIDE DEF s, G, f
  <2>2. ListsOnce(s, {f} \X G)
    BY <1>3, <2>1, OrderLists
  <2> QED BY <2>2 DEF ListsOnce
<1> HIDE DEF s, G, f
<1>6. /\ n \in Nat /\ m \in Nat /\ DOMAIN found = 1..n /\ DOMAIN s = 1..m
      /\ DOMAIN found' = 1..n+m
      /\ \A i \in 1..n+m : found'[i] = IF i <= n THEN found[i] ELSE s[i-n]
  <2>1. found \in Seq(File \X Test)
    BY DEF TypeOK
  <2>2. found' = found \o s
    BY <1>4 DEF s, f
  <2>3. /\ Len(found \o s) = Len(found) + Len(s)
        /\ \A i \in 1..Len(found) + Len(s) :
             (found \o s)[i] = IF i <= Len(found) THEN found[i] ELSE s[i - Len(found)]
    BY <1>5, <2>1
  <2> QED BY <1>5, <2>1, <2>2, <2>3
<1>7. /\ \A i \in 1..n : \E g \in OkFiles : found[i] \in {g} \X AllTests(g)
      /\ \A g \in OkFiles : \A x \in {g} \X AllTests(g) : \E i \in 1..n : found[i] = x
  BY <1>6 DEF TestsListed
<1>8. \A i \in 1..n : found[i][1] \in OkFiles
  BY <1>7
<1>9. \A i \in 1..m : s[i] \in {f} \X G /\ s[i][1] = f
  BY <1>5, <1>6
<1> HIDE DEF n, m
<1>10. \A i \in 1..n+m : i \in 1..n \/ (i > n /\ i - n \in 1..m)
  BY <1>6
<1>11. \A i \in 1..n+m :
         \/ i \in 1..n /\ found'[i] = found[i]
         \/ i > n /\ i - n \in 1..m /\ found'[i] = s[i-n] /\ found'[i][1] = f
  BY <1>6, <1>9, <1>10
<1>12. {found'[i] : i \in 1..n+m} = UNION {{g} \X AllTests(g) : g \in OkFiles \cup {f}}
  <2>1. ASSUME NEW i \in 1..n+m
        PROVE  \E g \in OkFiles \cup {f} : found'[i] \in {g} \X AllTests(g)
    BY <1>7, <1>9, <1>11 DEF G
  <2>2. ASSUME NEW g \in OkFiles \cup {f}, NEW x \in {g} \X AllTests(g)
        PROVE  \E i \in 1..n+m : found'[i] = x
    <3>1. CASE g \in OkFiles
      <4>1. PICK i \in 1..n : found[i] = x
        BY <1>7, <3>1
      <4>2. i \in 1..n+m /\ found'[i] = x
        BY <1>6, <4>1
      <4> QED BY <4>2
    <3>2. CASE g = f
      <4>1. PICK i \in 1..m : s[i] = x
        BY <1>5, <1>6, <3>2 DEF G
      <4>2. i + n \in 1..n+m /\ ~(i + n <= n) /\ i + n - n = i
        BY <1>6
      <4>3. found'[i+n] = x
        BY <1>6, <4>1, <4>2
      <4> QED BY <4>2, <4>3
    <3> QED BY <3>1, <3>2
  <2> QED BY <2>1, <2>2
<1>13. ASSUME NEW i \in 1..n+m, NEW j \in 1..n+m, found'[i] = found'[j] PROVE i = j
  <2>1. CASE i \in 1..n /\ j \in 1..n
    BY <1>6, <1>13, <2>1 DEF TestsListed
  <2>2. CASE i > n /\ j > n
    <3>1. i - n \in 1..m /\ j - n \in 1..m /\ s[i-n] = s[j-n]
      BY <1>6, <1>10, <1>11, <1>13, <2>2
    <3>2. i - n = j - n
      BY <1>5, <1>6, <3>1
    <3> QED BY <1>6, <3>2
  <2>3. CASE (i \in 1..n /\ j > n) \/ (i > n /\ j \in 1..n)
    BY <1>1, <1>6, <1>8, <1>11, <1>13, <2>3
  <2> QED BY <1>10, <2>1, <2>2, <2>3
<1>14. ASSUME NEW i \in 1..n+m, NEW j \in 1..n+m, found'[j][1] \in Loads(found'[i][1])
       PROVE  j < i
  <2>1. CASE i \in 1..n /\ j \in 1..n
    BY <1>6, <1>14, <2>1 DEF TestsListed
  <2>2. CASE j > n
    <3>1. found'[j][1] = f
      BY <1>6, <1>11, <2>2
    <3>2. found'[i][1] \in OkFiles \cup {f}
      BY <1>8, <1>11
    <3> QED BY <1>2, <1>14, <3>1, <3>2
  <2>3. CASE i > n /\ j \in 1..n
    BY <1>6, <2>3
  <2> QED BY <1>10, <2>1, <2>2, <2>3
<1>15. QED
  BY <1>1, <1>6, <1>12, <1>13, <1>14

(* Every step keeps the tests listed. *)
LEMMA StepTestsListed ==
  ASSUME TypeOK, LoadingIsStack, OkIsComplete, StackSound, RootIsMain, AliasUnfinished,
         OkAcyclic, TestsListed, [Next]_vars
  PROVE  TestsListed'
<1>0. body' = body /\ \A g : AllTests(g)' = AllTests(g) /\ Loads(g)' = Loads(g)
  BY TreeUnchanged, DerivedUnchanged DEF tree
<1>1. SUFFICES
        ASSUME Clean'
        PROVE  /\ {found'[i] : i \in DOMAIN found'} = UNION {{f} \X AllTests(f) : f \in OkFiles'}
               /\ \A i, j \in DOMAIN found' :
                    /\ found'[i] = found'[j] => i = j
                    /\ found'[j][1] \in Loads(found'[i][1]) => j < i
  BY <1>0 DEF TestsListed, AllTests, TestsIn, Loads
<1>2. CASE UNCHANGED <<cache, execs, found>>
  BY <1>1, <1>2 DEF TestsListed, Clean, OkFiles
<1>3. CASE ReadFails
  BY <1>1, <1>3 DEF ReadFails, Clean, TypeOK
<1>4. CASE BeginExec
  <2>1. target \in Path /\ cache[target] = "absent" /\ cache' = [cache EXCEPT ![target] = "loading"]
        /\ found' = found
    BY <1>4 DEF BeginExec, Unseen, TypeOK
  <2>2. \A p \in Path : cache'[p] = IF p = target THEN "loading" ELSE cache[p]
    BY <2>1 DEF TypeOK
  <2>3. Clean /\ OkFiles' = OkFiles
    BY <1>1, <2>1, <2>2 DEF Clean, OkFiles
  <2> QED BY <2>1, <2>3 DEF TestsListed
<1>5. CASE \E G : Finish(TRUE, G)
  <2>1. Top.path \in Path /\ cache' = [cache EXCEPT ![Top.path] = "err"]
    BY <1>5, TopFacts DEF Finish, CacheResult
  <2> QED BY <1>1, <2>1 DEF Clean, TypeOK
<1>6. CASE ExecEnds
  <2>1. \A p \in Path : p # Top.path => cache'[p] = cache[p]
    BY <1>6, EndComplete DEF TypeOK
  <2>2. Clean
    BY <1>1, <1>6, <2>1, EndComplete DEF Clean
  <2> QED BY <1>6, <2>2, EndTestsListed
<1>7. QED
  BY <1>2, <1>3, <1>4, <1>5, <1>6, LogKinds

(* Load has returned when it has a result. *)
LEMMA StepOutcomeAtEnd ==
  ASSUME TypeOK, OutcomeAtEnd, [Next]_vars
  PROVE  OutcomeAtEnd'
<1>1. CASE LoadReturns
  BY <1>1 DEF LoadReturns, OutcomeAtEnd
<1>2. CASE UNCHANGED vars
  BY <1>2 DEF vars, OutcomeAtEnd
<1>3. CASE ~LoadReturns /\ Next
  <2>1. UNCHANGED outcome /\ phase # "done" /\ phase' # "done"
    BY <1>3 DEF Next, ResolveFails, CacheHit, CycleFound, ReadFails, BeginExec, ParseFails,
           ExecLoad, ExecDef, ExecFails, ExecEnds, LoadSucceeded, LoadFailed, Finish, Return
  <2> QED BY <2>1 DEF OutcomeAtEnd
<1>4. QED
  BY <1>1, <1>2, <1>3

(* The second strengthening, of what Load returns. *)
THEOREM ResultInductive == Spec => []RInv
<1>1. Init => RInv
  <2> SUFFICES ASSUME Init PROVE RInv
    OBVIOUS
  <2>1. /\ \A p \in Path : cache[p] = "absent"
        /\ stack = <<>> /\ phase = "load" /\ target = MainPath /\ ~failed
        /\ found = <<>> /\ outcome = "pending" /\ execs = <<>>
    BY DEF Init, LoaderInit
  <2>2. IInv
    <3>1. TypeOK
      BY InitTypeOK
    <3> QED BY <2>1, <3>1 DEF IInv, LoadingIsStack, ErrorUnwinds, OkIsComplete, StackSound
  <2>3. RootIsMain /\ OutcomeOfRoot /\ OutcomeAtEnd
    BY <2>1 DEF RootIsMain, OutcomeOfRoot, OutcomeAtEnd
  <2>4. ExecsSound /\ StackReaches /\ AliasUnfinished /\ FailureHasCause
    BY <2>1, CanonicalPath, MainFileAssumption
       DEF ExecsSound, StackReaches, AliasUnfinished, FailureHasCause
  <2>5. OkFiles = {}
    BY <2>1 DEF OkFiles
  <2>6. OkAcyclic /\ TestsListed
    BY <2>1, <2>5 DEF OkAcyclic, TestsListed
  <2> QED BY <2>2, <2>3, <2>4, <2>6 DEF RInv
<1>2. RInv /\ [Next]_vars => RInv'
  BY StepTypeOK, StepLoadingIsStack, StepErrorUnwinds, StepOkIsComplete, StepStackSound,
     StepRootIsMain, StepOutcomeOfRoot, StepOutcomeAtEnd, StepExecsSound, StepStackReaches,
     StepAliasUnfinished, StepOkAcyclic, StepFailureHasCause, StepTestsListed
     DEF RInv, IInv
<1>3. QED
  BY <1>1, <1>2, PTL DEF Spec

(* When Load is about to return, or has returned, without an error, the    *)
(* completed files are the reachable ones.                                 *)
LEMMA CompletedAtEnd ==
  ASSUME RInv, stack = <<>>, phase \in {"return", "done"}, ~failed
  PROVE  OkFiles = Reachable /\ Clean /\ Loadable
<1>1. /\ IInv /\ TypeOK /\ OkIsComplete /\ LoadingIsStack /\ ErrorUnwinds /\ StackSound
      /\ RootIsMain /\ ExecsSound /\ OkAcyclic
  BY DEF RInv, IInv
<1>2. cache[MainPath] = "ok"
  BY <1>1 DEF StackSound, RootIsMain
<1>3. MainFile \in OkFiles
  BY <1>2, PathFacts, MainFileAssumption DEF OkFiles, FileAt
<1>4. \A f \in OkFiles : Sound(f) /\ Loads(f) \cap File \subseteq OkFiles
  BY <1>1, OkFilesClosed
<1>5. Reachable \subseteq OkFiles
  <2>1. OkFiles \in SUBSET File /\ {MainFile} \in SUBSET File /\ {MainFile} \subseteq OkFiles
    BY <1>3, MainFileAssumption DEF OkFiles
  <2> QED BY <1>4, <2>1, ReachFacts DEF Reachable
<1>6. OkFiles \subseteq Reachable
  <2> SUFFICES ASSUME NEW p \in Path, cache[p] = "ok" PROVE FileAt(p) \in Reachable
    BY DEF OkFiles
  <2>1. PICK i \in DOMAIN execs : execs[i] = p
    BY <1>1 DEF ExecsSound
  <2> QED BY <1>1, <2>1 DEF ExecsSound
<1>7. Clean
  BY <1>1 DEF ErrorUnwinds, Clean
<1>8. Loadable
  BY <1>1, <1>4, <1>5 DEF Loadable, Acyclic, OkAcyclic
<1>9. QED
  BY <1>5, <1>6, <1>7, <1>8

(* When Load gives a Config, it has executed every file that the main file *)
(* needs, once, though the main file has two paths, and no other.          *)
THEOREM EachFileOnce == Spec => []ExecutedOnce
<1>1. RInv => ExecutedOnce
  <2> SUFFICES ASSUME RInv, outcome = "config"
               PROVE  /\ \A i, j \in DOMAIN execs : FileAt(execs[i]) = FileAt(execs[j]) => i = j
                      /\ {FileAt(execs[i]) : i \in DOMAIN execs} = Reachable
    BY DEF ExecutedOnce
  <2>1. /\ stack = <<>> /\ phase = "done" /\ ~failed
        /\ TypeOK /\ LoadingIsStack /\ ExecsSound /\ AliasUnfinished
    BY DEF RInv, IInv, OutcomeOfRoot
  <2>2. OkFiles = Reachable /\ Clean
    BY <2>1, CompletedAtEnd
  <2>3. \A i \in DOMAIN execs : execs[i] \in Path /\ cache[execs[i]] = "ok"
    <3>1. \A p \in Path : cache[p] # "loading" /\ cache[p] # "err" /\ cache[p] \in CacheState
      BY <2>1, <2>2 DEF LoadingIsStack, Clean, TypeOK
    <3>2. \A i \in DOMAIN execs : execs[i] \in Path /\ cache[execs[i]] # "absent"
      BY <2>1 DEF ExecsSound, TypeOK
    <3> QED BY <3>1, <3>2 DEF CacheState
  <2>4. ASSUME NEW i \in DOMAIN execs, NEW j \in DOMAIN execs, FileAt(execs[i]) = FileAt(execs[j])
        PROVE  i = j
    <3>1. execs[i] = execs[j]
      BY <2>1, <2>3, <2>4, TwoPaths DEF AliasUnfinished
    <3> QED BY <2>1, <3>1 DEF ExecsSound
  <2>5. Reachable \subseteq {FileAt(execs[i]) : i \in DOMAIN execs}
    <3> SUFFICES ASSUME NEW p \in Path, cache[p] = "ok"
                 PROVE  \E i \in DOMAIN execs : FileAt(execs[i]) = FileAt(p)
      BY <2>2 DEF OkFiles
    <3> QED BY <2>1 DEF ExecsSound
  <2>6. {FileAt(execs[i]) : i \in DOMAIN execs} \subseteq Reachable
    BY <2>1 DEF ExecsSound
  <2> QED BY <2>4, <2>5, <2>6
<1>2. QED
  BY <1>1, ResultInductive, PTL

(* The initial states are those of the abstract load. *)
LEMMA RefinesInit == Init => Config!Init
BY DEF Init, LoaderInit, Config!Init, TreeTypeOK, Config!TreeTypeOK, Stmt, Config!Stmt,
       Resolution, Config!Resolution

(* The two modules mean the same by a loadable tree. *)
LEMMA SameTree ==
  /\ Config!Loadable <=> Loadable
  /\ \A s : Config!IsTestList(s) <=> IsTestList(s)
  /\ Config!tree = tree
BY DEF Config!Loadable, Loadable, Config!Acyclic, Acyclic, Config!Sound, Sound,
       Config!Reachable, Reachable, Config!Reach, Reach, Config!Loads, Loads,
       Config!IsTestList, IsTestList, Config!AllTests, AllTests, Config!TestsIn, TestsIn,
       Config!tree, tree

(* What the caller of Load sees is one of the two returns of the abstract  *)
(* load, or nothing.                                                       *)
LEMMA RefinesStep ==
  ASSUME RInv, [Next]_vars
  PROVE  [Config!Next]_(Config!loadVars)
<1> DEFINE tests == IF outcome = "config" THEN found ELSE <<>>
<1>1. UNCHANGED tree /\ UNCHANGED Config!tree
  BY TreeUnchanged DEF tree, Config!tree
<1>2. CASE LoadReturns
  <2>1. /\ stack = <<>> /\ phase = "return" /\ found' = found
        /\ outcome' = IF failed THEN "error" ELSE "config"
    BY <1>2 DEF LoadReturns
  <2>2. outcome = "pending"
    BY <2>1 DEF RInv, OutcomeAtEnd
  <2>3. CASE failed
    <3>1. ~Loadable /\ outcome' = "error"
      BY <2>1, <2>3 DEF RInv, FailureHasCause
    <3>2. Config!ReturnError
      BY <1>1, <2>2, <3>1, SameTree DEF Config!ReturnError
    <3> QED BY <3>2 DEF Config!Next
  <2>4. CASE ~failed
    <3>1. Loadable /\ OkFiles = Reachable /\ Clean /\ outcome' = "config"
      BY <2>1, <2>4, CompletedAtEnd
    <3>2. IsTestList(found)
      BY <3>1 DEF RInv, TestsListed, IsTestList
    <3>3. body' = body /\ Reachable' = Reachable
      BY <1>1, DerivedUnchanged DEF tree
    <3>4. IsTestList(found)'
      BY <2>1, <3>2, <3>3 DEF IsTestList, AllTests, TestsIn, Loads
    <3>5. Config!IsTestList(tests)'
      BY <3>1, <3>4, <3>3 DEF IsTestList, AllTests, TestsIn, Loads, Reachable, Reach,
         Config!IsTestList, Config!AllTests, Config!TestsIn, Config!Loads, Config!Reachable,
         Config!Reach
    <3>6. Config!ReturnConfig
      BY <1>1, <2>2, <3>1, <3>5, SameTree DEF Config!ReturnConfig
    <3> QED BY <3>6 DEF Config!Next
  <2> QED BY <2>3, <2>4
<1>3. CASE ~LoadReturns
  <2>1. outcome' = outcome /\ (outcome = "config" => found' = found)
    <3>1. CASE UNCHANGED vars
      BY <3>1 DEF vars
    <3>2. CASE Next
      <4>1. outcome' = outcome /\ phase # "done"
        BY <1>3, <3>2 DEF Next, ResolveFails, CacheHit, CycleFound, ReadFails, BeginExec,
             ParseFails, ExecLoad, ExecDef, ExecFails, ExecEnds, LoadSucceeded, LoadFailed, Finish
      <4> QED BY <4>1 DEF RInv, OutcomeOfRoot
    <3> QED BY <3>1, <3>2
  <2>2. UNCHANGED Config!loadVars
    BY <1>1, <2>1, SameTree DEF Config!loadVars, Config!tree, tree
  <2> QED BY <2>2
<1>4. QED
  BY <1>2, <1>3

(* skycfg.Load, with its cache, its stack and its cycle check, is the      *)
(* one-step load: a Config exactly for the loadable trees, with every test *)
(* of the reachable files once and in dependency order.                    *)
THEOREM LoadImplementsConfigLoad == Spec => ImplementsConfigLoad
<1>1. Init => Config!Init
  BY RefinesInit
<1>2. RInv /\ [Next]_vars => [Config!Next]_(Config!loadVars)
  BY RefinesStep
<1>3. QED
  BY <1>1, <1>2, ResultInductive, PTL DEF Spec, ImplementsConfigLoad, Config!Spec
=============================================================================
