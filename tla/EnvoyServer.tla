----------------------------- MODULE EnvoyServer -----------------------------
(***************************************************************************)
(* The Envoy discovery server of _examples/envoy: it evaluates a Skycfg    *)
(* file, serves the result to Envoy proxies by type of resource, and does  *)
(* so again on SIGHUP.                                                     *)
(*                                                                         *)
(* The server is one process, started again by an operator after it ended. *)
(* Its goroutine takes signals from a channel with room for one; a signal  *)
(* that finds no room is lost.  A reload is two steps, the evaluation of   *)
(* the file and, under the lock, the update of the cache, between which    *)
(* the file may change and signals arrive.  The proxy is external, and     *)
(* modelled as the cache treats it: it gets the resources of a type when   *)
(* the version it has is not the version served.                           *)
(***************************************************************************)
EXTENDS Naturals, SequencesExt

CONSTANTS
  Type,       \* response types of the cache
  Cluster, Endpoint, Listener,
  Name,       \* names of resources
  Body,       \* contents of resources
  Reference,  \* a body that refers to a resource of its name elsewhere
  Unknown,    \* the type of every other message
  File,       \* what may be in the file: the messages Main returns, or Failed
  Failed,     \* Load, Main or a Validate returns an error
  NoVersion,  \* ""
  MaxChanges, \* bound on the changes to the file
  MaxSignals, \* bound on the signals sent
  MaxRuns     \* bound on the starts of the server

Message == [type : Type \cup {Unknown}, name : Name, body : Body]

ASSUME EnvoyAssumption ==
  /\ {Cluster, Endpoint, Listener} \subseteq Type /\ Unknown \notin Type
  /\ Reference \in Body
  /\ NoVersion \notin [run : 1..MaxRuns, number : Nat]
  /\ \A f \in File \ {Failed} : f \in Seq(Message)
  /\ {MaxChanges, MaxSignals, MaxRuns} \subseteq Nat /\ MaxRuns > 0

VARIABLES
  file,      \* what the file evaluates to
  phase,     \* of the process
  pending,   \* what a load evaluated, before the lock is taken
  sigCh,     \* the channel of signals
  snapshot,  \* the snapshot in the cache
  cached,    \* SetSnapshot was called: the cache has a snapshot
  version,   \* c.version
  run,       \* the number of the process: rand and pid in a version string
  client,    \* what the proxy has
  asked,     \* a SIGHUP was sent since the file changed last
  changes, signals

config == <<file, asked, changes, signals>>
server == <<phase, pending, sigCh, version, run>>
cache == <<snapshot, cached>>
vars == <<file, phase, pending, sigCh, snapshot, cached, version, run, client, asked, changes, signals>>

NoItems == [n \in {} |-> Reference]
Items == UNION {[N -> Body] : N \in SUBSET Name}
Version == [run : 1..MaxRuns, number : 0..MaxRuns + MaxSignals] \cup {NoVersion}
Resources == [version : Version, items : Items]

NoResources == [version |-> NoVersion, items |-> NoItems]
NoSnapshot == [t \in Type |-> NoResources]

TypeOK ==
  /\ file \in File
  /\ phase \in {"starting", "ready", "loading", "ended"}
  /\ pending \in File \cup {Failed}
  /\ sigCh \in UNION {[1..n -> {"HUP", "TERM"}] : n \in 0..1}
  /\ snapshot \in [Type -> Resources]
  /\ client \in [Type -> Resources]
  /\ version \in 0..MaxSignals + 1
  /\ run \in 1..MaxRuns
  /\ cached \in BOOLEAN /\ asked \in BOOLEAN

Init ==
  /\ file \in File
  /\ phase = "starting" /\ pending = Failed /\ sigCh = <<>>
  /\ snapshot = NoSnapshot /\ cached = FALSE /\ version = 0 /\ run = 1
  /\ client = NoSnapshot
  /\ asked = TRUE
  /\ changes = 0 /\ signals = 0

-----------------------------------------------------------------------------

Serving == phase \in {"ready", "loading"}

(* Seeded fault: processes number their versions alike. *)
SameInEveryRun(r, n) == [run |-> 1, number |-> n]

(* The version made in process r at version n; r stands for rand and pid. *)
VersionString(r, n) == [run |-> r, number |-> n]

(* The resources of the messages, by name: the last of a name stays. *)
ItemsOf(t, messages) ==
  LET At(n) == {i \in DOMAIN messages : messages[i].type = t /\ messages[i].name = n}
  IN [n \in {n \in Name : At(n) # {}} |-> messages[Max(At(n))].body]

(* resourcesByType, with v for the version of the types that occur. *)
ResourcesByType(v, messages) ==
  [t \in Type |-> IF \E i \in DOMAIN messages : messages[i].type = t
                    THEN [version |-> v, items |-> ItemsOf(t, messages)]
                    ELSE NoResources]

(* Messages of other types index the array behind its end: a panic. *)
Panics(messages) == \E i \in DOMAIN messages : messages[i].type = Unknown

(* Seeded fault: a type that does not occur any more keeps its resources. *)
UpdateOnly(new, old) ==
  [t \in Type |-> IF new[t].items \in {old[t].items, NoItems} THEN old[t] ELSE new[t]]

(* Seeded fault: every type gets the new version. *)
UpdateAll(new, old) == new

(* The types whose resources differ are replaced. *)
Update(new, old) ==
  [t \in Type |-> IF new[t].items = old[t].items THEN old[t] ELSE new[t]]

References(items) == {n \in DOMAIN items : items[n] = Reference}

(* Snapshot.Consistent: no messages become routes, which listeners may     *)
(* refer to.                                                               *)
Consistent(s) ==
  /\ References(s[Cluster].items) = DOMAIN s[Endpoint].items
  /\ References(s[Listener].items) = {}

-----------------------------------------------------------------------------
(* The operator.                                                           *)

ChangeFile(f) ==
  /\ changes < MaxChanges
  /\ f # file
  /\ file' = f
  /\ asked' = FALSE
  /\ changes' = changes + 1
  /\ UNCHANGED <<server, cache, client, signals>>

(* Seeded fault: a channel without a buffer. *)
OnlyIfIdle == phase = "ready" /\ sigCh = <<>>

(* Seeded fault: a channel that takes every signal. *)
Unbounded == TRUE

Room == Len(sigCh) < 1

(* Before signal.Notify a signal ends the process. *)
Signal(s) ==
  /\ signals < MaxSignals
  /\ signals' = signals + 1
  /\ asked' = (asked \/ s = "HUP")
  /\ \/ Serving /\ Room /\ sigCh' = Append(sigCh, s) /\ UNCHANGED phase
     \/ Serving /\ ~Room /\ UNCHANGED <<sigCh, phase>>
     \/ phase = "starting" /\ phase' = "ended" /\ UNCHANGED sigCh
  /\ UNCHANGED <<file, changes, pending, version, run, cache, client>>

Start ==
  /\ phase = "ended"
  /\ run < MaxRuns
  /\ run' = run + 1
  /\ phase' = "starting" /\ pending' = Failed /\ sigCh' = <<>>
  /\ snapshot' = NoSnapshot /\ cached' = FALSE /\ version' = 0
  /\ asked' = TRUE
  /\ UNCHANGED <<file, changes, signals, client>>

-----------------------------------------------------------------------------
(* The server.                                                             *)

(* A load that fails ends a process that has not started to serve. *)
AfterFailure == IF phase = "starting" THEN "ended" ELSE "ready"

(* evalSkycfg and resourcesByType; on SIGHUP, or as the process starts. *)
Evaluate ==
  /\ pending = Failed
  /\ \/ phase = "starting" /\ UNCHANGED sigCh
     \/ phase = "ready" /\ sigCh = <<"HUP">> /\ sigCh' = <<>>
  /\ \/ file = Failed /\ phase' = AfterFailure /\ UNCHANGED pending
     \/ /\ file # Failed /\ Panics(file)
        /\ phase' = "ended"
        /\ UNCHANGED pending
     \/ /\ file # Failed /\ ~Panics(file)
        /\ pending' = file
        /\ phase' = IF phase = "starting" THEN "starting" ELSE "loading"
  /\ UNCHANGED <<config, cache, version, run, client>>

(* The rest of ConfigLoader.Load, under the lock.  A process whose first    *)
(* evaluation gives no messages has changed nothing and sets no snapshot.  *)
Publish ==
  /\ pending # Failed
  /\ phase # "ended"
  /\ pending' = Failed
  /\ LET new == Update(ResourcesByType(VersionString(run, version), pending), snapshot)
         changed == \E t \in Type : new[t].items # snapshot[t].items IN
       \/ /\ ~Consistent(new)
          /\ phase' = AfterFailure
          /\ UNCHANGED <<cache, version>>
       \/ /\ Consistent(new)
          /\ phase' = "ready"
          /\ IF changed THEN snapshot' = new /\ cached' = TRUE /\ version' = version + 1
                        ELSE UNCHANGED <<cache, version>>
  /\ UNCHANGED <<config, sigCh, run, client>>

(* grpcServer.Stop lets main return. *)
Terminate ==
  /\ phase = "ready"
  /\ sigCh = <<"TERM">>
  /\ phase' = "ended" /\ sigCh' = <<>>
  /\ UNCHANGED <<config, pending, version, run, cache, client>>

(* The proxy asks for, or is sent, the resources of a type.  As long as    *)
(* the cache has no snapshot its request stays open.                       *)
Fetch(t) ==
  /\ Serving
  /\ cached
  /\ client[t].version # snapshot[t].version
  /\ client' = [client EXCEPT ![t] = snapshot[t]]
  /\ UNCHANGED <<config, server, cache>>

Next ==
  \/ \E f \in File : ChangeFile(f)
  \/ \E s \in {"HUP", "TERM"} : Signal(s)
  \/ Start
  \/ Evaluate \/ Publish \/ Terminate
  \/ \E t \in Type : Fetch(t)

(* The goroutine of the server runs, and the proxy's streams are served.   *)
(* Nobody has to send a signal or to start the server.                     *)
Fairness == WF_vars(Evaluate \/ Publish \/ Terminate) /\ \A t \in Type : WF_vars(Fetch(t))

Spec == Init /\ [][Next]_vars /\ Fairness
-----------------------------------------------------------------------------

(* The snapshot served is that of one evaluation of the file: not of parts *)
(* of several, with types that the file does not have any more, or of one  *)
(* that was rejected.                                                      *)
Good(f) == f # Failed /\ ~Panics(f) /\ Consistent(ResourcesByType(NoVersion, f))

ItemsServed == [t \in Type |-> snapshot[t].items]
ItemsIn(f) == [t \in Type |-> ResourcesByType(NoVersion, f)[t].items]

SnapshotWhole ==
  Serving => \E f \in File : Good(f) /\ ItemsServed = ItemsIn(f)

(* The proxy tells by the version alone whether it has what is served:     *)
(* equal versions mean equal resources, also if the proxy has them from an *)
(* earlier process, or the type lost all its resources.                    *)
VersionIdentifies ==
  \A t \in Type : client[t].version = snapshot[t].version => client[t] = snapshot[t]

(* A reload sends the proxy nothing of the types that stayed the same, and *)
(* one that fails sends nothing at all.                                    *)
UnchangedKeepsVersion ==
  [][\A t \in Type : run' = run /\ snapshot'[t].items = snapshot[t].items
                     => snapshot'[t] = snapshot[t]]_vars

(* What is in the file when SIGHUP is sent, and stays there, reaches the   *)
(* proxy, although signals may be lost and the file may have been half way *)
(* through a reload; unless it is rejected or the process ends.  A process *)
(* that has set no snapshot does not answer, and a proxy that comes from   *)
(* an earlier process keeps what it has: only while the file is empty.     *)
NothingToServe(f) == ~cached /\ \A t \in Type : ItemsIn(f)[t] = NoItems

FileReachesClient ==
  \A f \in File : Good(f) =>
    (Serving /\ asked /\ file = f)
      ~> \/ ~Serving \/ file # f
         \/ [t \in Type |-> client[t].items] = ItemsIn(f)
         \/ NothingToServe(f)
=============================================================================
