--------------------------- MODULE K8sApplyProofs ---------------------------
(* Theorems about K8sApply: any messages, any number of runs, broken       *)
(* connections, kills and writes of others.                                *)
EXTENDS K8sApply, SequenceTheorems, TLAPS

(* The request that up or down sends for the message of the loop. *)
RequestNow == [verb |-> verb, path |-> Target(verb, name, Current), body |-> Current.body,
               index |-> next, run |-> runs]

(* There is an answer to the request of the message of the loop only. *)
InFlight ==
  /\ running => runs > 0
  /\ request # NoRequest =>
       /\ running /\ ~dryRun
       /\ next <= Len(Messages) /\ Current.kind \in Discovered
       /\ request = RequestNow
  /\ answer # 0 => request # NoRequest
  /\ answer = 200 => next \in applied
  /\ \A i \in DOMAIN Messages : i >= next => report[i] = "none"
  /\ runs > 0 /\ verb = "DELETE" /\ ~dryRun => name \in given

(* A request is for an object of a message, or for what down was asked to  *)
(* delete.                                                                 *)
Asked(r) ==
  /\ r.path[1] = Messages[r.index].kind
  /\ IF r.verb = "POST" THEN r.path[2] \in Name ELSE r.path[2] \in given

(* Requests given up are requests of this run or of an earlier one. *)
GivenUp ==
  \A r \in late : r.run <= runs /\ (r.run = runs => ~dryRun) /\ Asked(r)

(* In a run that nothing disturbs the server acts upon one message after   *)
(* the other, and what it did is reported, but for the last answer.        *)
InStep ==
  clean => /\ late = {}
           /\ \A i \in applied : \/ report[i] \in {"done", "unreadable"}
                                 \/ i = next /\ (answer = 200 \/ ~running)
           /\ ~running /\ runs > 0 => next > Len(Messages) \/ DownAll

(* The messages before the one of the loop, and that one when its answer   *)
(* is there or the program has ended, are as the run wants them.           *)
SettledSoFar ==
  clean /\ ~dryRun /\ runs > 0 =>
    \A i \in DOMAIN Messages : i < next \/ (i = next /\ (answer # 0 \/ ~running)) => Settled(i)

IInv == TypeOK /\ InFlight /\ GivenUp /\ InStep /\ SettledSoFar /\ ReportsTrue

(* The domain of the messages. *)
LEMMA Lengths == Len(Messages) \in Nat /\ DOMAIN Messages = 1..Len(Messages)
BY K8sAssumption

(* The target of a message is a path of its kind. *)
LEMMA Targets ==
  ASSUME NEW v \in Verb, NEW n \in Name \cup {NoName}, NEW i \in DOMAIN Messages
  PROVE  /\ Target(v, n, Messages[i]) \in Path
         /\ Messages[i] \in [kind : Kind, name : Name, body : Body]
         /\ Target(v, n, Messages[i])[1] = Messages[i].kind
         /\ v = "POST" => Target(v, n, Messages[i])[2] \in Name
         /\ v = "DELETE" => Target(v, n, Messages[i])[2] = n
<1> DEFINE M == [kind : Kind, name : Name, body : Body]
<1>0. Messages \in Seq(M)
  BY K8sAssumption
<1>1. Messages[i] \in M
  <2> HIDE DEF M
  <2>1. QED
    BY <1>0, Lengths, ElementOfSeq
<1>2. Messages[i].kind \in Kind /\ Messages[i].name \in Name
  BY <1>1
<1>3. QED
  BY <1>1, <1>2 DEF Target, Path, Verb

(* A path with a name is that of one object. *)
LEMMA CoversOne ==
  ASSUME NEW p \in Path, p[2] # NoName
  PROVE  p \in Object /\ Covers(p) = {p}
BY DEF Path, Object, Covers

LEMMA InitInv == Init => IInv
<1> SUFFICES ASSUME Init PROVE IInv
  OBVIOUS
<1>1. TypeOK
  <2>1. next \in 1..Len(Messages) + 1
    BY Lengths DEF Init
  <2>2. runs \in 0..MaxRuns /\ faults \in 0..MaxFaults
    BY K8sAssumption DEF Init
  <2>3. QED
    BY <2>1, <2>2 DEF Init, TypeOK, Nothing, Verb
<1>2. InFlight /\ GivenUp /\ InStep /\ SettledSoFar /\ ReportsTrue
  BY DEF Init, InFlight, GivenUp, InStep, SettledSoFar, ReportsTrue, Nothing
<1>3. QED
  BY <1>1, <1>2 DEF IInv

LEMMA InvokeStep ==
  ASSUME IInv, NEW v \in Verb, NEW n \in Name \cup {NoName}, NEW dry \in BOOLEAN, Invoke(v, n, dry)
  PROVE  IInv'
<1> USE K8sAssumption, Lengths DEF Invoke, IInv
<1>1. TypeOK'
  BY DEF TypeOK, Nothing
<1>2. InFlight'
  BY DEF TypeOK, InFlight, Nothing
<1>3. GivenUp'
  <2> SUFFICES ASSUME NEW r \in late PROVE r.run <= runs' /\ r.run # runs' /\ Asked(r)'
    BY DEF GivenUp
  <2>1. r.run <= runs /\ Asked(r)
    BY DEF GivenUp
  <2>2. given \subseteq given'
    OBVIOUS
  <2>3. Asked(r)'
    BY <2>1, <2>2 DEF Asked
  <2>4. r.run \in Nat /\ runs \in Nat
    BY DEF TypeOK, Request
  <2>5. QED
    BY <2>1, <2>3, <2>4
<1>4. InStep'
  BY DEF InStep
<1>5. SettledSoFar'
  BY DEF TypeOK, InFlight, SettledSoFar
<1>6. ReportsTrue'
  BY DEF ReportsTrue, Nothing
<1>7. QED
  BY <1>1, <1>2, <1>3, <1>4, <1>5, <1>6

(* A message gets its report, while no request is out or with its answer. *)
LEMMA ReportStep ==
  ASSUME IInv, NEW outcome \in {"printed", "done", "unreadable", "error"}, Report(outcome),
         next \in DOMAIN Messages,
         UNCHANGED <<store, late, applied, runs, clean>>, faults' \in 0..MaxFaults,
         request' = NoRequest, answer' = 0,
         outcome \in {"done", "unreadable"} => next \in applied,
         clean /\ next \in applied => outcome \in {"done", "unreadable"},
         clean /\ ~dryRun => Settled(next),
         running
  PROVE  IInv'
<1> USE K8sAssumption, Lengths DEF Report, IInv, command
<1>0. /\ next' = next + 1 /\ UNCHANGED <<running, verb, name, dryRun, given>>
      /\ \A i \in DOMAIN Messages : report'[i] = IF i = next THEN outcome ELSE report[i]
  BY DEF TypeOK
<1>1. TypeOK'
  BY <1>0 DEF TypeOK
<1>2. InFlight'
  BY <1>0 DEF TypeOK, InFlight
<1>3. GivenUp'
  BY <1>0 DEF GivenUp, Asked
<1>4. InStep'
  BY <1>0 DEF InStep, TypeOK
<1>5. SettledSoFar'
  BY <1>0 DEF SettledSoFar, TypeOK, Settled
<1>6. ReportsTrue'
  BY <1>0 DEF ReportsTrue, TypeOK
<1>7. QED
  BY <1>1, <1>2, <1>3, <1>4, <1>5, <1>6

LEMMA UnresolvedStep == IInv /\ Unresolved => IInv'
<1> SUFFICES ASSUME IInv, Unresolved PROVE IInv'
  OBVIOUS
<1>1. /\ Report("error") /\ next \in DOMAIN Messages /\ running
      /\ UNCHANGED <<store, late, applied, runs, clean>> /\ faults' \in 0..MaxFaults
      /\ request' = NoRequest /\ answer = 0 /\ answer' = 0
  BY Lengths DEF Unresolved, Waiting, IInv, TypeOK, InFlight
<1>2. ~(clean /\ next \in applied)
  BY <1>1, Lengths DEF IInv, InStep, InFlight, TypeOK
<1>3. Settled(next)
  BY DEF Unresolved, Current, Settled, Doable
<1>4. QED
  BY <1>1, <1>2, <1>3, ReportStep

LEMMA DryRunStep == IInv /\ DryRun => IInv'
<1> SUFFICES ASSUME IInv, DryRun PROVE IInv'
  OBVIOUS
<1>1. /\ Report("printed") /\ next \in DOMAIN Messages /\ running /\ dryRun
      /\ UNCHANGED <<store, late, applied, runs, clean>> /\ faults' \in 0..MaxFaults
      /\ request' = NoRequest /\ answer = 0 /\ answer' = 0
  BY Lengths DEF DryRun, Waiting, IInv, TypeOK, InFlight
<1>2. ~(clean /\ next \in applied)
  BY <1>1, Lengths DEF IInv, InStep, InFlight, TypeOK
<1>3. QED
  BY <1>1, <1>2, ReportStep

LEMMA AnsweredStep == IInv /\ Answered => IInv'
<1> SUFFICES ASSUME IInv, Answered PROVE IInv'
  OBVIOUS
<1> DEFINE outcome == IF Succeeded(answer) THEN "done" ELSE "error"
<1>1. /\ Report(outcome) /\ next \in DOMAIN Messages /\ running
      /\ UNCHANGED <<store, late, applied, runs, clean>> /\ faults' \in 0..MaxFaults
      /\ request' = NoRequest /\ answer # 0 /\ answer' = 0
  BY Lengths DEF Answered, IInv, TypeOK, InFlight
<1>2. outcome = "done" <=> answer = 200
  BY DEF Succeeded
<1>3. clean /\ next \in applied => outcome = "done"
  BY <1>1, <1>2, Lengths DEF IInv, InStep, InFlight, TypeOK
<1>4. outcome = "done" => next \in applied
  BY <1>2 DEF IInv, InFlight
<1>5. clean /\ ~dryRun => Settled(next)
  BY <1>1 DEF IInv, SettledSoFar, InFlight
<1>6. QED
  BY <1>1, <1>3, <1>4, <1>5, ReportStep

LEMMA UnreadableStep == IInv /\ Unreadable => IInv'
<1> SUFFICES ASSUME IInv, Unreadable PROVE IInv'
  OBVIOUS
<1>1. /\ Report("unreadable") /\ next \in DOMAIN Messages /\ running
      /\ UNCHANGED <<store, late, applied, runs, clean>> /\ faults' \in 0..MaxFaults
      /\ request' = NoRequest /\ answer = 200 /\ answer' = 0
  BY Lengths, K8sAssumption DEF Unreadable, IInv, TypeOK, InFlight
<1>2. next \in applied
  BY <1>1 DEF IInv, InFlight
<1>3. clean /\ ~dryRun => Settled(next)
  BY <1>1 DEF IInv, SettledSoFar, InFlight
<1>4. QED
  BY <1>1, <1>2, <1>3, ReportStep

LEMMA PanicStep == IInv /\ PanicsOnList => IInv'
<1> SUFFICES ASSUME IInv, PanicsOnList PROVE IInv'
  OBVIOUS
<1> USE DEF PanicsOnList, IInv, command
<1>1. /\ request' = NoRequest /\ answer = 200 /\ answer' = 0 /\ running' = FALSE /\ running
      /\ UNCHANGED <<store, verb, name, dryRun, given, next, report, late, applied, clean, runs, faults>>
  BY DEF ListAnswer, InFlight
<1>2. DownAll
  <2>1. request = RequestNow /\ request.path[2] = NoName /\ next \in DOMAIN Messages
    BY <1>1, Lengths DEF ListAnswer, InFlight, TypeOK
  <2>2. Target(verb, name, Messages[next])[2] = NoName
    BY <2>1 DEF RequestNow, Current
  <2>3. QED
    BY <2>1, <2>2, Targets, K8sAssumption DEF DownAll, TypeOK, Verb
<1>3. TypeOK'
  <2>1. running' \in BOOLEAN
    BY <1>1
  <2>2. TypeOK
    OBVIOUS
  <2>3. QED
    BY <1>1, <2>1, <2>2 DEF TypeOK
<1>4. InFlight'
  BY <1>1 DEF InFlight
<1>5. GivenUp'
  BY <1>1 DEF GivenUp, Asked
<1>6. InStep'
  BY <1>1, <1>2 DEF InStep, DownAll
<1>7. SettledSoFar'
  BY <1>1 DEF SettledSoFar, Settled
<1>8. ReportsTrue'
  BY <1>1 DEF ReportsTrue
<1>9. QED
  BY <1>3, <1>4, <1>5, <1>6, <1>7, <1>8

LEMMA SendStep == IInv /\ Send => IInv'
<1> SUFFICES ASSUME IInv, Send PROVE IInv'
  OBVIOUS
<1> USE K8sAssumption, Lengths DEF Send, IInv, program, command
<1>0. next \in DOMAIN Messages /\ running /\ runs \in 1..MaxRuns /\ answer = 0
  BY DEF Waiting, TypeOK, InFlight
<1>1. TypeOK'
  <2>1. request' \in Request
    BY <1>0, Targets DEF TypeOK, Request, Current
  <2>2. QED
    BY <2>1 DEF TypeOK
<1>2. InFlight'
  BY <1>0, <1>1 DEF InFlight, RequestNow, TypeOK, Waiting, Current
<1>3. GivenUp' /\ InStep' /\ SettledSoFar' /\ ReportsTrue'
  BY DEF GivenUp, Asked, InStep, DownAll, SettledSoFar, Settled, ReportsTrue
<1>4. QED
  BY <1>1, <1>2, <1>3

(* A request that the server handles changes what its path covers only:    *)
(* one object from absent to the body, or all to absent.                   *)
LEMMA Acts ==
  ASSUME TypeOK, NEW r \in Request, Act(r), r.verb = "POST" => r.path[2] # NoName
  PROVE  /\ store' \in [Object -> Body \cup {Absent}]
         /\ \A o \in Object : o \notin Covers(r.path) => store'[o] = store[o]
         /\ Status(r) # 200 => store' = store
         /\ Status(r) = 200 =>
              \A o \in Covers(r.path) :
                IF r.verb = "POST" THEN store[o] = Absent /\ store'[o] = r.body /\ store'[o] # Absent
                                   ELSE store'[o] = Absent
         /\ Status(r) \in {200, 404, 409}
<1>1. r.body \in Body /\ r.body # Absent /\ r.path \in Path /\ r.verb \in Verb
  BY K8sAssumption DEF Request
<1>2. store \in [Object -> Body \cup {Absent}]
  BY DEF TypeOK
<1>3. Status(r) \in {200, 404, 409}
  BY DEF Status
<1>4. Covers(r.path) \subseteq Object
  BY DEF Covers
<1>5. CASE Status(r) # 200
  BY <1>2, <1>3, <1>5 DEF Act
<1>6. CASE Status(r) = 200
  <2>1. store' = [o \in Object |-> IF o \notin Covers(r.path) THEN store[o]
                                  ELSE IF r.verb = "POST" THEN r.body ELSE Absent]
    BY <1>6 DEF Act
  <2>2. \A o \in Covers(r.path) : r.verb = "POST" => store[o] = Absent
    BY <1>1, <1>6, CoversOne DEF Status
  <2>3. QED
    BY <1>1, <1>2, <1>4, <1>6, <2>1, <2>2
<1>7. QED
  BY <1>5, <1>6

LEMMA HandleStep == IInv /\ Handle => IInv'
<1> SUFFICES ASSUME IInv, Handle PROVE IInv'
  OBVIOUS
<1> USE K8sAssumption, Lengths DEF Handle, IInv, program, command
<1>0. /\ request \in Request /\ request = RequestNow /\ ~dryRun /\ running
      /\ next \in DOMAIN Messages /\ Current.kind \in Discovered
      /\ request.run = runs /\ request.index = next /\ request.verb = verb
      /\ request.path = Target(verb, name, Messages[next])
      /\ request.verb \in Verb /\ name \in Name \cup {NoName}
  BY DEF TypeOK, InFlight, RequestNow, Current
<1>1. applied' = IF Status(request) = 200 THEN applied \cup {next} ELSE applied
  BY <1>0 DEF Act
<1>a. request.verb = "POST" => request.path[2] # NoName
  BY <1>0, Targets
<1>2. TypeOK'
  BY <1>0, <1>1, <1>a, Acts DEF TypeOK
<1>3. InFlight'
  BY <1>0, <1>1 DEF InFlight, RequestNow, Current
<1>4. GivenUp'
  BY DEF GivenUp, Asked
<1>5. InStep'
  BY <1>0, <1>1 DEF InStep, DownAll
<1>6. SettledSoFar'
  <2> SUFFICES ASSUME clean, NEW i \in DOMAIN Messages, i < next \/ i = next, Doable(i),
                      NEW o \in Covers(Target(verb, name, Messages[i]))
               PROVE  store'[o] = Absent <=> verb = "DELETE"
    BY <1>0 DEF SettledSoFar, Settled, Doable
  <2>1. o \in Object /\ verb \in Verb
    BY <1>0 DEF Covers
  <2>2. i # next => (store[o] = Absent <=> verb = "DELETE")
    BY <1>0 DEF SettledSoFar, Settled, InFlight, TypeOK
  <2>3. CASE Status(request) = 200
    <3>1. o \in Covers(request.path) => (store'[o] = Absent <=> verb = "DELETE")
      BY <1>0, <1>a, <2>3, Acts DEF Verb
    <3>2. QED
      BY <1>0, <1>a, <2>1, <2>2, <3>1, Acts
  <2>4. CASE Status(request) # 200
    <3>0. store' = store
      BY <1>0, <1>a, <2>4, Acts
    <3>1. CASE i = next
      <4>1. request.path[1] \in Namespaced /\ request.path \in Path
        BY <1>0, <3>1, Targets DEF Doable
      <4>2. request.path[2] # NoName /\ (store[request.path] = Absent <=> verb = "DELETE")
        BY <1>0, <1>a, <2>4, <4>1 DEF Status, Verb
      <4>3. o = request.path
        BY <1>0, <3>1, <4>1, <4>2, CoversOne
      <4>4. QED
        BY <3>0, <4>2, <4>3
    <3>2. QED
      BY <2>2, <3>0, <3>1
  <2>5. QED
    BY <2>3, <2>4
<1>7. ReportsTrue'
  BY <1>0, <1>1 DEF ReportsTrue, InFlight, TypeOK
<1>8. QED
  BY <1>2, <1>3, <1>4, <1>5, <1>6, <1>7

LEMMA ReturnStep == IInv /\ Return => IInv'
<1> SUFFICES ASSUME IInv, Return PROVE IInv'
  OBVIOUS
<1>0. running' = FALSE /\ UNCHANGED <<store, verb, name, dryRun, given, next, request, answer,
                                      report, late, applied, clean, runs, faults>>
  BY DEF Return, command
<1>2. TypeOK'
  <2>1. TypeOK /\ running' \in BOOLEAN
    BY <1>0 DEF IInv
  <2>2. QED
    BY <1>0, <2>1, SMTT(30) DEF TypeOK
<1> USE DEF Return, IInv, command
<1>1. request = NoRequest /\ answer = 0
  BY Lengths DEF InFlight, TypeOK
<1>3. InFlight'
  BY <1>1 DEF InFlight
<1>4. GivenUp' /\ InStep' /\ SettledSoFar' /\ ReportsTrue'
  BY DEF GivenUp, Asked, InStep, DownAll, SettledSoFar, Settled, ReportsTrue
<1>5. QED
  BY <1>2, <1>3, <1>4

(* The request that is out is one that was asked for. *)
LEMMA AskedNow == IInv /\ request # NoRequest => Asked(request)
<1> SUFFICES ASSUME IInv, request # NoRequest PROVE Asked(request)
  OBVIOUS
<1>1. /\ request = RequestNow /\ next \in DOMAIN Messages /\ runs > 0 /\ ~dryRun
      /\ verb \in Verb /\ name \in Name \cup {NoName}
      /\ verb = "DELETE" => name \in given
  BY Lengths DEF IInv, InFlight, TypeOK
<1>2. /\ request.verb = verb /\ request.index = next
      /\ request.path = Target(verb, name, Messages[next])
  BY <1>1 DEF RequestNow, Current
<1>3. QED
  BY <1>1, <1>2, Targets DEF Asked, Verb

(* What a fault leaves: the request that is given up is one of this run. *)
LEMMA Abandoned ==
  ASSUME IInv, GiveUp
  PROVE  /\ late' \subseteq Request
         /\ \A r \in late' : /\ r.run <= runs /\ (r.run = runs => ~dryRun)
                             /\ Asked(r)
<1> SUFFICES ASSUME NEW r \in late'
             PROVE  r \in Request /\ r.run <= runs /\ (r.run = runs => ~dryRun) /\ Asked(r)
  OBVIOUS
<1>1. CASE r \in late
  BY <1>1 DEF IInv, TypeOK, GivenUp
<1>2. CASE r = request /\ request # NoRequest
  BY <1>2, AskedNow DEF IInv, TypeOK, InFlight, RequestNow
<1>3. QED
  BY <1>1, <1>2 DEF GiveUp

LEMMA BreakStep == IInv /\ ConnectionBreaks => IInv'
<1> SUFFICES ASSUME IInv, ConnectionBreaks PROVE IInv'
  OBVIOUS
<1> USE DEF ConnectionBreaks, Fault, Report, command
<1>0. /\ next' = next + 1 /\ UNCHANGED <<running, verb, name, dryRun, given, applied, store, runs>>
      /\ next \in DOMAIN Messages /\ running
      /\ \A i \in DOMAIN Messages : report'[i] = IF i = next THEN "error" ELSE report[i]
      /\ request' = NoRequest /\ answer' = 0 /\ ~clean'
      /\ faults' \in 0..MaxFaults
  BY Lengths, K8sAssumption DEF IInv, TypeOK, InFlight, GiveUp
<1>1. TypeOK'
  <2>1. report' \in [DOMAIN Messages -> {"none", "printed", "done", "unreadable", "error"}]
    BY DEF IInv, TypeOK
  <2>2. next' \in 1..Len(Messages) + 1
    BY <1>0, Lengths
  <2>3. late' \subseteq Request /\ clean' \in BOOLEAN
    BY Abandoned DEF Fault
  <2>4. UNCHANGED <<store, running, dryRun, verb, name, given, applied, runs>>
    BY <1>0
  <2>5. QED
    BY <1>0, <2>1, <2>2, <2>3, <2>4 DEF IInv, TypeOK
<1>2. InFlight'
  BY <1>0, Lengths DEF IInv, InFlight, TypeOK
<1>3. GivenUp'
  BY <1>0, Abandoned DEF GivenUp, Asked
<1>4. InStep' /\ SettledSoFar' /\ ReportsTrue'
  BY <1>0, Lengths DEF IInv, InStep, SettledSoFar, ReportsTrue, TypeOK
<1>5. QED
  BY <1>1, <1>2, <1>3, <1>4 DEF IInv

LEMMA KilledStep == IInv /\ Killed => IInv'
<1> SUFFICES ASSUME IInv, Killed PROVE IInv'
  OBVIOUS
<1>0. /\ UNCHANGED <<next, report, verb, name, dryRun, given, applied, store, runs>>
      /\ request' = NoRequest /\ answer' = 0 /\ ~clean' /\ ~running'
      /\ faults' \in 0..MaxFaults
  BY Lengths, K8sAssumption DEF Killed, Fault, command, IInv, TypeOK, GiveUp
<1>1. TypeOK'
  <2>1. late' \subseteq Request
    BY Abandoned DEF Killed
  <2>2. running' \in BOOLEAN /\ clean' \in BOOLEAN
    BY DEF Killed, Fault
  <2>3. TypeOK
    BY DEF IInv
  <2>4. QED
    BY <1>0, <2>1, <2>2, <2>3, SMTT(30) DEF TypeOK
<1> USE Lengths, K8sAssumption DEF Killed, Fault, command
<1>2. InFlight'
  BY <1>0 DEF IInv, InFlight, TypeOK
<1>3. GivenUp'
  BY <1>0, Abandoned DEF GivenUp, Asked
<1>4. InStep' /\ SettledSoFar' /\ ReportsTrue'
  BY <1>0 DEF IInv, InStep, SettledSoFar, ReportsTrue
<1>5. QED
  BY <1>1, <1>2, <1>3, <1>4 DEF IInv

LEMMA ArrivesStep == ASSUME IInv, NEW r \in late, Arrives(r) PROVE IInv'
<1> USE DEF Arrives, IInv, program, command
<1>0. /\ r \in Request /\ r.index \in DOMAIN Messages
      /\ r.run = runs => ~dryRun
  BY DEF TypeOK, GivenUp, Request
<1>a. r.verb = "POST" => r.path[2] # NoName
  BY K8sAssumption DEF GivenUp, Asked
<1>1. applied' \subseteq DOMAIN Messages /\ applied \subseteq applied'
      /\ (dryRun => applied' = applied)
  BY <1>0 DEF TypeOK, Act
<1>2. TypeOK'
  <2>1. store' \in [Object -> Body \cup {Absent}]
    BY <1>0, <1>a, Acts
  <2>2. late' \subseteq Request /\ clean' \in BOOLEAN
    BY DEF TypeOK
  <2>3. UNCHANGED <<running, dryRun, verb, name, given, next, request, answer, report, runs, faults>>
    OBVIOUS
  <2>4. QED
    BY <1>1, <2>1, <2>2, <2>3 DEF TypeOK
<1>3. InFlight'
  BY <1>1 DEF InFlight, RequestNow, Current
<1>4. GivenUp'
  BY DEF GivenUp, Asked
<1>5. InStep' /\ SettledSoFar'
  BY DEF InStep, SettledSoFar
<1>6. ReportsTrue'
  BY <1>1 DEF ReportsTrue
<1>7. QED
  BY <1>2, <1>3, <1>4, <1>5, <1>6

LEMMA NeverArrivesStep == ASSUME IInv, NEW r \in late, NeverArrives(r) PROVE IInv'
<1> USE DEF NeverArrives, IInv, program, command
<1>1. TypeOK'
  BY DEF TypeOK
<1>2. InFlight'
  BY DEF InFlight, RequestNow, Current
<1>3. GivenUp' /\ InStep'
  BY DEF GivenUp, Asked, InStep, DownAll
<1>4. SettledSoFar' /\ ReportsTrue'
  BY DEF SettledSoFar, Settled, ReportsTrue
<1>5. QED
  BY <1>1, <1>2, <1>3, <1>4

(* The number of faults stays in its bound. *)
LEMMA Faulty == TypeOK /\ Fault => clean' \in BOOLEAN /\ faults' \in 0..MaxFaults
<1>1. MaxFaults \in Nat
  BY K8sAssumption
<1>2. Fault => clean' \in BOOLEAN
  BY DEF Fault
<1>3. faults \in 0..MaxFaults /\ Fault => faults' \in 0..MaxFaults
  BY <1>1 DEF Fault
<1>4. QED
  BY <1>2, <1>3 DEF TypeOK

LEMMA OtherWriteStep ==
  ASSUME IInv, NEW o \in Namespaced \X Name, NEW b \in Body \cup {Absent}, OtherWrite(o, b)
  PROVE  IInv'
<1>0. /\ store' = [store EXCEPT ![o] = b] /\ ~clean'
      /\ UNCHANGED <<running, verb, name, dryRun, given, next, report, request, answer, late, applied, runs>>
  BY DEF OtherWrite, Fault, program, command
<1>1. TypeOK'
  <2>1. o \in Object
    BY K8sAssumption DEF Object
  <2>2. store' \in [Object -> Body \cup {Absent}]
    BY <1>0, <2>1 DEF IInv, TypeOK
  <2>3. clean' \in BOOLEAN /\ faults' \in 0..MaxFaults
    BY Faulty DEF OtherWrite, IInv
  <2>4. UNCHANGED <<running, verb, name, dryRun, given, next, report, request, answer, late, applied, runs>>
    BY <1>0
  <2>5. TypeOK
    BY DEF IInv
  <2>6. QED
    BY <2>2, <2>3, <2>4, <2>5 DEF TypeOK
<1>2. InFlight'
  BY <1>0 DEF IInv, InFlight, RequestNow, Current
<1>3. GivenUp' /\ InStep' /\ SettledSoFar' /\ ReportsTrue'
  BY <1>0 DEF IInv, GivenUp, Asked, InStep, SettledSoFar, ReportsTrue
<1>4. QED
  BY <1>1, <1>2, <1>3 DEF IInv

LEMMA NextInv == IInv /\ [Next]_vars => IInv'
<1> SUFFICES ASSUME IInv, [Next]_vars PROVE IInv'
  OBVIOUS
<1>1. CASE UNCHANGED vars
  BY <1>1 DEF vars, IInv, TypeOK, InFlight, RequestNow, Current, GivenUp, Asked, InStep, DownAll,
    SettledSoFar, Settled, ReportsTrue
<1>2. ASSUME NEW dry \in BOOLEAN, Invoke("POST", NoName, dry) PROVE IInv'
  BY <1>2, InvokeStep DEF Verb
<1>3. ASSUME NEW n \in Argument, NEW dry \in BOOLEAN, Invoke("DELETE", n, dry) PROVE IInv'
  BY <1>3, InvokeStep, K8sAssumption DEF Verb
<1>4. QED
  BY <1>1, <1>2, <1>3, UnresolvedStep, DryRunStep, SendStep, HandleStep, AnsweredStep,
     UnreadableStep, PanicStep, ReturnStep, BreakStep, KilledStep, ArrivesStep, NeverArrivesStep,
     OtherWriteStep DEF Next

LEMMA Invariance == Spec => []IInv
<1>1. QED
  BY InitInv, NextInv, PTL DEF Spec

(* The variables stay in their sets. *)
THEOREM TypeCorrect == Spec => []TypeOK
<1>1. IInv => TypeOK
  BY DEF IInv
<1>2. QED
  BY <1>1, Invariance, PTL

(* The printed results are true, for any faults; a dry run does nothing. *)
THEOREM TrueReports == Spec => []ReportsTrue
<1>1. IInv => ReportsTrue
  BY DEF IInv
<1>2. QED
  BY <1>1, Invariance, PTL

(* A run that nothing disturbs leaves the cluster as its messages say,     *)
(* after any history of runs that were disturbed.                          *)
THEOREM CleanRunsSettle == Spec => []CleanRunSettles
<1>1. IInv => CleanRunSettles
  <2> SUFFICES ASSUME IInv, ~running, runs > 0, clean, ~dryRun, NEW i \in DOMAIN Messages
               PROVE  Settled(i) \/ (DownAll /\ i > next)
    BY DEF CleanRunSettles
  <2>1. i \in Nat /\ next \in Nat /\ (i <= next => i < next \/ i = next)
    BY Lengths DEF IInv, TypeOK
  <2>2. i > next => DownAll
    BY <2>1, Lengths DEF IInv, InStep
  <2>3. i <= next => Settled(i)
    BY <2>1 DEF IInv, SettledSoFar
  <2>4. QED
    BY <2>1, <2>2, <2>3
<1>2. QED
  BY <1>1, Invariance, PTL

(* Only absent objects are created, and only objects of the kind of a      *)
(* message deleted that have the name given to a down so far, or, once one *)
(* was given an empty name, any; also by requests that come late.          *)
THEOREM NothingElseTouched == Spec => Surgical
<1> DEFINE Allowed(o) == \/ store[o] = Absent
                         \/ /\ store'[o] = Absent /\ given \cap {o[2], NoName} # {}
                            /\ \E i \in DOMAIN Messages : Messages[i].kind = o[1]
           Step == (\A o \in Object, b \in Body \cup {Absent} : ~OtherWrite(o, b)) =>
                     \A o \in Object : store'[o] # store[o] => Allowed(o)
<1>1. ASSUME TypeOK, NEW r \in Request, Act(r), Asked(r), NEW o \in Object, store'[o] # store[o]
      PROVE  Allowed(o)
  <2>0. r.verb = "POST" => r.path[2] # NoName
    BY <1>1, K8sAssumption DEF Asked
  <2>1. o \in Covers(r.path) /\ Status(r) = 200
    BY <1>1, <2>0, Acts
  <2>2. CASE r.verb = "POST"
    BY <1>1, <2>0, <2>1, <2>2, Acts
  <2>3. CASE r.verb # "POST"
    <3>1. r.index \in DOMAIN Messages /\ r.path[2] \in given /\ Messages[r.index].kind = r.path[1]
      BY <1>1, <2>3 DEF Request, Asked
    <3>2. o[1] = r.path[1] /\ r.path[2] \in {o[2], NoName}
      BY <2>1 DEF Covers
    <3>3. store'[o] = Absent
      BY <1>1, <2>0, <2>1, <2>3, Acts
    <3>4. QED
      BY <3>1, <3>2, <3>3
  <2>4. QED
    BY <2>2, <2>3
<1>2. IInv /\ [Next]_vars => Step
  <2> SUFFICES ASSUME IInv, [Next]_vars, NEW o \in Object, store'[o] # store[o],
                      \A p \in Object, b \in Body \cup {Absent} : ~OtherWrite(p, b)
               PROVE  Allowed(o)
    OBVIOUS
  <2>1. CASE Handle
    <3>1. request \in Request /\ Asked(request)
      BY <2>1, AskedNow DEF Handle, IInv, TypeOK
    <3>2. QED
      BY <1>1, <2>1, <3>1 DEF Handle, IInv
  <2>2. ASSUME NEW r \in late, Arrives(r) PROVE Allowed(o)
    BY <1>1, <2>2 DEF Arrives, IInv, TypeOK, GivenUp
  <2>3. ~\E p \in Namespaced \X Name, b \in Body \cup {Absent} : OtherWrite(p, b)
    BY K8sAssumption DEF Object
  <2>4. QED
    BY <2>1, <2>2, <2>3 DEF Next, vars, Invoke, Unresolved, DryRun, Send, Answered, Unreadable,
      PanicsOnList, Return, ConnectionBreaks, Killed, NeverArrives, program
<1>3. Spec => [][Step]_vars
  BY <1>2, Invariance, PTL DEF Spec
<1>4. QED
  BY <1>3 DEF Surgical
=============================================================================
