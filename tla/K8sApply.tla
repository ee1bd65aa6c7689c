------------------------------ MODULE K8sApply ------------------------------
(***************************************************************************)
(* The Kubernetes client of _examples/k8s: "up" creates an object for each *)
(* message that Main returns, "down" deletes, for each message, the object *)
(* of its kind that has the one name given on the command line, or, when   *)
(* that name is empty, all objects of its kind.                            *)
(*                                                                         *)
(* An error is printed and the loop goes on; nothing is undone, nothing    *)
(* tried again but by running the program again.  The API server is        *)
(* external.  A connection may break before the server handles a request,  *)
(* which it may then do at any later time, or before the answer is read;   *)
(* an answer may be one that the program cannot read; the program may be   *)
(* killed; and others write to the cluster.  A DELETE removes at once.     *)
(***************************************************************************)
EXTENDS Naturals, SequencesExt

CONSTANTS
  Kind,        \* types of messages
  Discovered,  \* those that gvkFromMsgType and the RESTMapper resolve
  Namespaced,  \* those of which a namespace has objects
  Name, Body,
  NoName,      \* ""
  Messages,    \* what Main returns
  Argument,    \* what is given to down for NAME
  Absent,      \* no object
  NoRequest,
  MaxRuns,     \* bound on the runs of the program
  MaxFaults    \* bound on broken connections, unreadable answers, kills and writes of others

Object == Kind \X Name
Verb == {"POST", "DELETE"}
Path == Kind \X (Name \cup {NoName})
Request == [verb : Verb, path : Path, body : Body, index : DOMAIN Messages, run : 1..MaxRuns]

ASSUME K8sAssumption ==
  /\ Discovered \cup Namespaced \subseteq Kind
  /\ Messages \in Seq([kind : Kind, name : Name, body : Body])
  /\ NoName \notin Name /\ Argument \subseteq Name \cup {NoName}
  /\ Absent \notin Body /\ NoRequest \notin Request
  /\ {MaxRuns, MaxFaults} \subseteq Nat

VARIABLES
  store,    \* the objects of the namespace in the cluster
  running,  \* the program runs
  verb,     \* of the requests that up or down sends
  name,     \* the NAME argument
  dryRun,   \* the flag
  next,     \* the message of the loop
  request,  \* the request that the program waits for
  answer,   \* the status of the server's answer, or 0
  report,   \* what was printed for each message of this run
  late,     \* requests given up that the server may still handle
  applied,  \* the messages of this run that the server acted upon
  given,    \* the NAMEs that down was given so far, but for dry runs
  clean,    \* nothing disturbed this run
  runs, faults

command == <<verb, name, dryRun, given>>
program == <<running, command, next, report>>
vars == <<store, running, verb, name, dryRun, next, request, answer, report, late,
          applied, given, clean, runs, faults>>

TypeOK ==
  /\ store \in [Object -> Body \cup {Absent}]
  /\ running \in BOOLEAN /\ dryRun \in BOOLEAN /\ clean \in BOOLEAN
  /\ verb \in Verb /\ name \in Name \cup {NoName} /\ given \subseteq Name \cup {NoName}
  /\ next \in 1..Len(Messages) + 1
  /\ request \in Request \cup {NoRequest}
  /\ answer \in {0, 200, 404, 409}
  /\ report \in [DOMAIN Messages -> {"none", "printed", "done", "unreadable", "error"}]
  /\ late \subseteq Request
  /\ applied \subseteq DOMAIN Messages
  /\ runs \in 0..MaxRuns /\ faults \in 0..MaxFaults

Nothing == [i \in DOMAIN Messages |-> "none"]

Init ==
  /\ store = [o \in Object |-> Absent]
  /\ running = FALSE /\ verb = "POST" /\ name = NoName /\ dryRun = FALSE /\ given = {}
  /\ next = 1 /\ request = NoRequest /\ answer = 0
  /\ report = Nothing
  /\ late = {} /\ applied = {} /\ clean = TRUE
  /\ runs = 0 /\ faults = 0

-----------------------------------------------------------------------------

(* main, as far as the loop: requests given up spoil the run. *)
Invoke(v, n, dry) ==
  /\ ~running
  /\ runs < MaxRuns
  /\ running' = TRUE /\ verb' = v /\ name' = n /\ dryRun' = dry
  /\ given' = IF v = "DELETE" /\ ~dry THEN given \cup {n} ELSE given
  /\ next' = 1 /\ report' = Nothing
  /\ applied' = {} /\ clean' = (late = {})
  /\ runs' = runs + 1
  /\ UNCHANGED <<store, request, answer, late, faults>>

Waiting == running /\ next <= Len(Messages) /\ request = NoRequest

Current == Messages[next]

(* Seeded fault: the loop ends with the first error. *)
StopAtError(outcome) ==
  /\ report' = [report EXCEPT ![next] = outcome]
  /\ next' = IF outcome = "error" THEN Len(Messages) + 1 ELSE next + 1
  /\ UNCHANGED <<running, command>>

(* The reply or the error is printed, and the loop goes on. *)
Report(outcome) ==
  /\ report' = [report EXCEPT ![next] = outcome]
  /\ next' = next + 1
  /\ UNCHANGED <<running, command>>

(* Seeded fault: the name in the message is what is deleted. *)
TargetOfMessage(v, n, m) == <<m.kind, m.name>>

(* pathForResource, pathForResourceWithName: to create, the name is in the *)
(* message; to delete, an empty name leaves the path of all objects.       *)
Target(v, n, m) == <<m.kind, IF v = "POST" THEN m.name ELSE n>>

(* The objects of a path. *)
Covers(path) == {o \in Object : o[1] = path[1] /\ path[2] \in {o[2], NoName}}

(* resourceForMsg returns an error. *)
Unresolved ==
  /\ Waiting
  /\ Current.kind \notin Discovered
  /\ Report("error")
  /\ UNCHANGED <<store, request, answer, late, applied, clean, runs, faults>>

(* Up and Down return before there is a request. *)
DryRun ==
  /\ Waiting
  /\ Current.kind \in Discovered
  /\ dryRun
  /\ Report("printed")
  /\ UNCHANGED <<store, request, answer, late, applied, clean, runs, faults>>

Send ==
  /\ Waiting
  /\ Current.kind \in Discovered
  /\ ~dryRun
  /\ request' = [verb |-> verb, path |-> Target(verb, name, Current), body |-> Current.body,
                 index |-> next, run |-> runs]
  /\ UNCHANGED <<program, store, answer, late, applied, clean, runs, faults>>

(* The status of the server's answer to r. *)
Status(r) ==
  IF r.path[1] \notin Namespaced THEN 404
  ELSE IF r.verb = "POST" THEN IF store[r.path] = Absent THEN 200 ELSE 409
  ELSE IF r.path[2] # NoName /\ store[r.path] = Absent THEN 404 ELSE 200

(* The server handles r. *)
Act(r) ==
  /\ store' = IF Status(r) # 200 THEN store
              ELSE [o \in Object |-> IF o \notin Covers(r.path) THEN store[o]
                                     ELSE IF r.verb = "POST" THEN r.body ELSE Absent]
  /\ applied' = IF Status(r) = 200 /\ r.run = runs THEN applied \cup {r.index} ELSE applied

Handle ==
  /\ request # NoRequest /\ answer = 0
  /\ Act(request)
  /\ answer' = Status(request)
  /\ UNCHANGED <<program, request, late, clean, runs, faults>>

(* Seeded fault: any answer that can be read is a success. *)
AnyAnswer(status) == TRUE

(* parseResponse: an answer out of 2XX is an error. *)
Succeeded(status) == status = 200

(* What was deleted with an empty name is answered with a list. *)
ListAnswer == answer = 200 /\ request.path[2] = NoName

Answered ==
  /\ answer # 0
  /\ ~ListAnswer
  /\ Report(IF Succeeded(answer) THEN "done" ELSE "error")
  /\ request' = NoRequest /\ answer' = 0
  /\ UNCHANGED <<store, late, applied, clean, runs, faults>>

(* The answer is of 2XX but cannot be decoded, or is a Status that has no  *)
(* details, or details that are not strings: an error is printed.          *)
Unreadable ==
  /\ answer = 200
  /\ faults < MaxFaults /\ faults' = faults + 1
  /\ Report("unreadable")
  /\ request' = NoRequest /\ answer' = 0
  /\ UNCHANGED <<store, late, applied, clean, runs>>

(* A list is not of the type that parseResponse asserts: a panic. *)
PanicsOnList ==
  /\ ListAnswer
  /\ running' = FALSE
  /\ request' = NoRequest /\ answer' = 0
  /\ UNCHANGED <<store, command, next, report, late, applied, clean, runs, faults>>

Return ==
  /\ running
  /\ next > Len(Messages)
  /\ running' = FALSE
  /\ UNCHANGED <<store, command, next, request, answer, report, late, applied, clean,
                 runs, faults>>

-----------------------------------------------------------------------------
(* Faults.                                                                 *)

Fault == faults < MaxFaults /\ faults' = faults + 1 /\ clean' = FALSE

(* The request is given up; the server may have handled it, or will. *)
GiveUp ==
  /\ request' = NoRequest /\ answer' = 0
  /\ late' = IF request # NoRequest /\ answer = 0 THEN late \cup {request} ELSE late

(* Do, or the reading of the answer, returns an error. *)
ConnectionBreaks ==
  /\ Fault
  /\ request # NoRequest
  /\ GiveUp
  /\ Report("error")
  /\ UNCHANGED <<store, applied, runs>>

Killed ==
  /\ Fault
  /\ running
  /\ GiveUp
  /\ running' = FALSE
  /\ UNCHANGED <<store, command, next, report, applied, runs>>

(* A request given up arrives, or never will. *)
Arrives(r) ==
  /\ late' = late \ {r}
  /\ clean' = FALSE
  /\ Act(r)
  /\ UNCHANGED <<program, request, answer, runs, faults>>

NeverArrives(r) ==
  /\ late' = late \ {r}
  /\ UNCHANGED <<program, store, request, answer, applied, clean, runs, faults>>

OtherWrite(o, b) ==
  /\ Fault
  /\ store' = [store EXCEPT ![o] = b]
  /\ UNCHANGED <<program, request, answer, late, applied, runs>>

(* up makes no use of NAME. *)
Next ==
  \/ \E dry \in BOOLEAN : Invoke("POST", NoName, dry)
  \/ \E n \in Argument, dry \in BOOLEAN : Invoke("DELETE", n, dry)
  \/ Unresolved \/ DryRun \/ Send \/ Handle \/ Answered \/ Unreadable \/ PanicsOnList \/ Return
  \/ ConnectionBreaks \/ Killed
  \/ \E r \in late : Arrives(r) \/ NeverArrives(r)
  \/ \E o \in Namespaced \X Name, b \in Body \cup {Absent} : OtherWrite(o, b)

Spec == Init /\ [][Next]_vars
-----------------------------------------------------------------------------

(* "created" or "deleted" is printed only for what this run created or     *)
(* deleted, and an error for what it did only when the connection broke,   *)
(* the program was killed, or the answer itself could not be read; that    *)
(* error, in turn, is printed for nothing else.  A dry run must not "do    *)
(* anything".                                                              *)
ReportsTrue ==
  \A i \in DOMAIN Messages :
    /\ report[i] \in {"done", "unreadable"} => i \in applied
    /\ clean /\ report[i] = "error" => i \notin applied
    /\ dryRun => i \notin applied

(* A run that nothing disturbs does all it can, whatever the runs before   *)
(* it left behind and although some messages fail: running the program     *)
(* again is the way to recover from lost answers and kills.  Only down     *)
(* with an empty name does not get past the first message whose kind the   *)
(* server has in the namespace.                                            *)
Doable(i) == Messages[i].kind \in Discovered \cap Namespaced

Settled(i) ==
  Doable(i) => \A o \in Covers(Target(verb, name, Messages[i])) :
                  store[o] = Absent <=> verb = "DELETE"

DownAll == verb = "DELETE" /\ name = NoName

CleanRunSettles ==
  ~running /\ runs > 0 /\ clean /\ ~dryRun =>
    \A i \in DOMAIN Messages : Settled(i) \/ (DownAll /\ i > next)

(* "Object by the same path must not already exist": up replaces nothing,  *)
(* and down removes only what has the kind of some message and the name    *)
(* that down was given, once it was given an empty one also other names;   *)
(* requests that arrive late included.                                     *)
Surgical ==
  [][(\A o \in Object, b \in Body \cup {Absent} : ~OtherWrite(o, b)) =>
       \A o \in Object : store'[o] # store[o] =>
         \/ store[o] = Absent
         \/ /\ store'[o] = Absent /\ given \cap {o[2], NoName} # {}
            /\ \E i \in DOMAIN Messages : Messages[i].kind = o[1]]_vars
=============================================================================
