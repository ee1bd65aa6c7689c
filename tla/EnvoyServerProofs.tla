-------------------------- MODULE EnvoyServerProofs --------------------------
(* Theorems about EnvoyServer: any types, names and files, any number of   *)
(* changes, signals and processes.                                         *)
EXTENDS EnvoyServer, FiniteSetTheorems, WellFoundedInduction, TLAPS

(* What was evaluated is a sound file, whatever the file is by now. *)
Shapes ==
  /\ file \in File
  /\ phase \in {"starting", "ready", "loading", "ended"}
  /\ pending # Failed => pending \in File /\ ~Panics(pending)
  /\ snapshot = [t \in Type |-> snapshot[t]]
  /\ client = [t \in Type |-> client[t]]
  /\ run \in 1..MaxRuns
  /\ version \in Nat

(* The resources r have a version of an earlier publication, or none. *)
Numbered(r) ==
  \/ r = NoResources
  \/ /\ r.version # NoVersion
     /\ r.version.run \in Nat /\ r.version.number \in Nat
     /\ \/ r.version.run < run
        \/ r.version.run = run /\ r.version.number < version

AllNumbered == \A t \in Type : Numbered(snapshot[t]) /\ Numbered(client[t])

IInv == Shapes /\ AllNumbered /\ SnapshotWhole /\ VersionIdentifies

(* A version string is none that is in use. *)
LEMMA NewVersion ==
  ASSUME Shapes
  PROVE  /\ VersionString(run, version) # NoVersion
         /\ VersionString(run, version).run = run
         /\ VersionString(run, version).number = version
BY EnvoyAssumption DEF Shapes, VersionString

(* The resources of a type have the version, or are none. *)
LEMMA Versions ==
  ASSUME NEW v, NEW f, NEW t \in Type
  PROVE  ResourcesByType(v, f)[t] = NoResources \/ ResourcesByType(v, f)[t].version = v
BY DEF ResourcesByType

(* What a load publishes are the resources of the file it evaluated. *)
LEMMA Published ==
  ASSUME NEW v, NEW f \in File, f # Failed, ~Panics(f),
         Consistent(Update(ResourcesByType(v, f), snapshot))
  PROVE  /\ Good(f)
         /\ [t \in Type |-> Update(ResourcesByType(v, f), snapshot)[t].items] = ItemsIn(f)
<1> DEFINE new == Update(ResourcesByType(v, f), snapshot)
           res == ResourcesByType(NoVersion, f)
<1>1. \A t \in Type : new[t].items = res[t].items
  <2> TAKE t \in Type
  <2>1. ResourcesByType(v, f)[t].items = res[t].items
    BY DEF ResourcesByType
  <2>2. new[t].items = ResourcesByType(v, f)[t].items
    BY DEF Update
  <2>3. QED
    BY <2>1, <2>2
<1>2. Consistent(res)
  BY <1>1, EnvoyAssumption DEF Consistent
<1>3. QED
  BY <1>1, <1>2 DEF Good, ItemsIn

LEMMA InitInv == Init => IInv
BY EnvoyAssumption DEF Init, IInv, Shapes, AllNumbered, Numbered, SnapshotWhole, VersionIdentifies,
  NoSnapshot, Serving

(* Steps that leave the cache and the proxy alone. *)
LEMMA QuietStep ==
  ASSUME IInv, UNCHANGED <<snapshot, cached, client, run, version>>, file' \in File,
         phase' \in {"starting", "ready", "loading", "ended"},
         pending' # Failed => pending' \in File /\ ~Panics(pending'),
         Serving' => Serving
  PROVE  IInv'
<1>1. Shapes'
  BY DEF IInv, Shapes
<1>2. AllNumbered'
  BY DEF IInv, AllNumbered, Numbered
<1>3. SnapshotWhole'
  BY DEF IInv, SnapshotWhole, ItemsServed
<1>4. VersionIdentifies'
  BY DEF IInv, VersionIdentifies
<1>5. QED
  BY <1>1, <1>2, <1>3, <1>4 DEF IInv

LEMMA StartStep == IInv /\ Start => IInv'
<1> SUFFICES ASSUME IInv, Start PROVE IInv'
  OBVIOUS
<1> USE EnvoyAssumption DEF Start
<1>1. Shapes'
  BY DEF IInv, Shapes, NoSnapshot
<1>2. AllNumbered'
  <2> SUFFICES ASSUME NEW t \in Type PROVE (Numbered(snapshot[t]) /\ Numbered(client[t]))'
    BY DEF AllNumbered
  <2>1. Numbered(snapshot[t])'
    BY DEF Numbered, NoSnapshot
  <2>2. Numbered(client[t])'
    BY DEF IInv, AllNumbered, Numbered, Shapes
  <2>3. QED
    BY <2>1, <2>2
<1>3. SnapshotWhole'
  BY DEF SnapshotWhole, Serving
<1>4. VersionIdentifies'
  BY DEF IInv, AllNumbered, Numbered, VersionIdentifies, NoSnapshot, NoResources
<1>5. QED
  BY <1>1, <1>2, <1>3, <1>4 DEF IInv

LEMMA FetchStep == ASSUME IInv, NEW t \in Type, Fetch(t) PROVE IInv'
<1> USE DEF Fetch, config, server, cache
<1>1. /\ snapshot' = snapshot /\ cached' = cached /\ run' = run /\ version' = version
      /\ \A u \in Type : client'[u] = IF u = t THEN snapshot[t] ELSE client[u]
      /\ client' = [u \in Type |-> client'[u]]
  BY DEF IInv, Shapes
<1>2. Shapes'
  BY <1>1 DEF IInv, Shapes
<1>3. AllNumbered'
  BY <1>1 DEF IInv, AllNumbered, Numbered
<1>4. SnapshotWhole'
  BY <1>1 DEF IInv, SnapshotWhole, ItemsServed, Serving
<1>5. VersionIdentifies'
  BY <1>1 DEF IInv, VersionIdentifies
<1>6. QED
  BY <1>2, <1>3, <1>4, <1>5 DEF IInv

LEMMA PublishStep == IInv /\ Publish => IInv'
<1> SUFFICES ASSUME IInv, Publish PROVE IInv'
  OBVIOUS
<1> DEFINE v   == VersionString(run, version)
           res == ResourcesByType(v, pending)
           new == Update(res, snapshot)
           changed == \E t \in Type : new[t].items # snapshot[t].items
<1>0. /\ pending \in File /\ pending # Failed /\ ~Panics(pending)
      /\ pending' = Failed
      /\ UNCHANGED <<file, run, client>>
      /\ phase' \in {"starting", "ready", "loading", "ended"}
  BY DEF Publish, IInv, Shapes, config, AfterFailure
<1>1. CASE ~Consistent(new)
  <2>1. UNCHANGED <<snapshot, cached, version>> /\ phase' = AfterFailure
    BY <1>1 DEF Publish, cache
  <2>2. Serving' => Serving
    BY <2>1 DEF IInv, Shapes, Publish, Serving, AfterFailure
  <2>3. QED
    BY <1>0, <2>1, <2>2, QuietStep DEF IInv, Shapes
<1>2. CASE Consistent(new) /\ ~changed
  <2>1. UNCHANGED <<snapshot, cached, version>>
    BY <1>2 DEF Publish, cache
  <2>2. Good(pending) /\ ItemsServed = ItemsIn(pending)
    BY <1>0, <1>2, Published DEF ItemsServed
  <2>3. SnapshotWhole'
    BY <1>0, <2>1, <2>2 DEF SnapshotWhole, ItemsServed
  <2>4. Shapes' /\ AllNumbered' /\ VersionIdentifies'
    BY <1>0, <2>1 DEF IInv, Shapes, AllNumbered, Numbered, VersionIdentifies
  <2>5. QED
    BY <2>3, <2>4 DEF IInv
<1>3. CASE Consistent(new) /\ changed
  <2>1. snapshot' = new /\ cached' = TRUE /\ version' = version + 1
    BY <1>3 DEF Publish
  <2>2. \A t \in Type : new[t] \in {snapshot[t], NoResources} \/ new[t].version = v
    BY Versions DEF Update
  <2>3. Shapes'
    BY <1>0, <2>1 DEF IInv, Shapes, Update
  <2>4. AllNumbered'
    <3> SUFFICES ASSUME NEW t \in Type PROVE (Numbered(snapshot[t]) /\ Numbered(client[t]))'
      BY DEF AllNumbered
    <3>1. Numbered(client[t])'
      BY <1>0, <2>1 DEF IInv, AllNumbered, Numbered, Shapes
    <3>2. CASE new[t] = snapshot[t]
      BY <1>0, <2>1, <3>1, <3>2 DEF IInv, AllNumbered, Numbered, Shapes
    <3>3. CASE new[t] = NoResources
      BY <2>1, <3>1, <3>3 DEF Numbered
    <3>4. CASE new[t].version = v
      BY <1>0, <2>1, <3>1, <3>4, NewVersion DEF IInv, Shapes, Numbered
    <3>5. QED
      BY <2>2, <3>2, <3>3, <3>4
  <2>5. SnapshotWhole'
    BY <1>0, <1>3, <2>1, Published DEF SnapshotWhole, ItemsServed
  <2>6. VersionIdentifies'
    <3> SUFFICES ASSUME NEW t \in Type, client[t].version = new[t].version
                 PROVE  client[t] = new[t]
      BY <1>0, <2>1 DEF VersionIdentifies
    <3>1. CASE new[t] = snapshot[t]
      BY <3>1 DEF IInv, VersionIdentifies
    <3>2. CASE new[t] = NoResources
      BY <3>2 DEF IInv, AllNumbered, Numbered, NoResources
    <3>3. CASE new[t].version = v
      <4>1. client[t] # NoResources
        BY <3>3, NewVersion DEF IInv, NoResources
      <4>2. QED
        BY <3>3, <4>1, NewVersion DEF IInv, AllNumbered, Numbered, Shapes
    <3>4. QED
      BY <2>2, <3>1, <3>2, <3>3
  <2>7. QED
    BY <2>3, <2>4, <2>5, <2>6 DEF IInv
<1>4. QED
  BY <1>1, <1>2, <1>3

LEMMA NextInv == IInv /\ [Next]_vars => IInv'
<1> SUFFICES ASSUME IInv, [Next]_vars PROVE IInv'
  OBVIOUS
<1>1. ASSUME NEW f \in File, ChangeFile(f) PROVE IInv'
  BY <1>1, QuietStep DEF ChangeFile, IInv, Shapes, server, cache, Serving
<1>2. ASSUME NEW s \in {"HUP", "TERM"}, Signal(s) PROVE IInv'
  BY <1>2, QuietStep DEF Signal, IInv, Shapes, cache, Serving
<1>3. CASE Evaluate
  <2>1. Serving' => Serving
    BY <1>3 DEF Evaluate, Serving, AfterFailure
  <2>2. /\ UNCHANGED <<snapshot, cached, client, run, version>> /\ file' = file
        /\ phase' \in {"starting", "ready", "loading", "ended"}
    BY <1>3 DEF Evaluate, config, cache, AfterFailure
  <2>3. pending' # Failed => pending' \in File /\ ~Panics(pending')
    BY <1>3 DEF Evaluate, IInv, Shapes
  <2>4. QED
    BY <2>1, <2>2, <2>3, QuietStep DEF IInv, Shapes
<1>4. CASE Terminate
  BY <1>4, QuietStep DEF Terminate, IInv, Shapes, config, cache, Serving
<1>5. CASE UNCHANGED vars
  BY <1>5, QuietStep DEF vars, IInv, Shapes, Serving
<1>6. QED
  BY <1>1, <1>2, <1>3, <1>4, <1>5, StartStep, PublishStep, FetchStep DEF Next

LEMMA Invariance == Spec => []IInv
<1>1. QED
  BY InitInv, NextInv, PTL DEF Spec

(* The snapshot served is always that of one evaluation of a file that was *)
(* accepted, for files of any length and at any interleaving of reloads,   *)
(* changes and restarts.                                                   *)
THEOREM ServesOneEvaluation == Spec => []SnapshotWhole
<1>1. IInv => SnapshotWhole
  BY DEF IInv
<1>2. QED
  BY <1>1, Invariance, PTL

(* Equal versions mean equal resources, across processes.                  *)
THEOREM VersionsIdentify == Spec => []VersionIdentifies
<1>1. IInv => VersionIdentifies
  BY DEF IInv
<1>2. QED
  BY <1>1, Invariance, PTL

(* A reload leaves the version of what did not change.                     *)
THEOREM UnchangedVersions == Spec => UnchangedKeepsVersion
<1> DEFINE Kept == \A t \in Type : run' = run /\ snapshot'[t].items = snapshot[t].items
                                   => snapshot'[t] = snapshot[t]
<1>1. [Next]_vars /\ IInv => Kept
  <2> SUFFICES ASSUME [Next]_vars, IInv PROVE Kept
    OBVIOUS
  <2>1. CASE UNCHANGED snapshot
    BY <2>1
  <2>2. CASE Start
    BY <2>2 DEF Start, IInv, Shapes
  <2>3. CASE Publish
    <3> SUFFICES ASSUME snapshot' # snapshot, NEW t \in Type,
                        snapshot'[t].items = snapshot[t].items
                 PROVE  snapshot'[t] = snapshot[t]
      OBVIOUS
    <3>1. snapshot' = Update(ResourcesByType(VersionString(run, version), pending), snapshot)
      BY <2>3 DEF Publish, cache
    <3>2. QED
      BY <3>1 DEF Update
  <2>4. QED
    BY <2>1, <2>2, <2>3 DEF Next, vars, cache, ChangeFile, Signal, Evaluate, Terminate, Fetch
<1>2. Spec => [][Kept]_vars
  BY <1>1, Invariance, PTL DEF Spec
<1>3. QED
  BY <1>2 DEF UnchangedKeepsVersion

-----------------------------------------------------------------------------
(* The types of the variables.                                             *)

(* A set of numbers has a least one: a smallest interval 1..n.             *)
LEMMA LeastOf ==
  ASSUME NEW S \in SUBSET Nat, S # {}
  PROVE \E x \in S : \A y \in S : x <= y
<1> DEFINE T == {1..n : n \in S}
<1>1. IsWellFoundedOn(StrictSubsetOrdering(Nat), FiniteSubsetsOf(Nat))
  BY FS_StrictSubsetOrderingWellFounded
<1>2. T \subseteq FiniteSubsetsOf(Nat) /\ T # {}
  <2>1. ASSUME NEW n \in S PROVE IsFiniteSet(1..n) /\ 1..n \in SUBSET Nat
    <3>1. 1 \in Int /\ n \in Int
      OBVIOUS
    <3>2. IsFiniteSet(1..n)
      BY <3>1, FS_Interval, Zenon
    <3> QED BY <3>2
  <2> QED BY <2>1 DEF FiniteSubsetsOf
<1>3. PICK A \in T : \A B \in T : ~(<<B, A>> \in StrictSubsetOrdering(Nat))
  <2> HIDE DEF T
  <2> QED BY <1>1, <1>2, WFMin
<1>4. PICK x \in S : A = 1..x
  OBVIOUS
<1>5. ASSUME NEW y \in S, y < x PROVE FALSE
  <2>1. 1..y \in T /\ 1..y \subseteq 1..x /\ x \in 1..x /\ x \notin 1..y
    BY <1>5
  <2>2. <<1..y, 1..x>> \in StrictSubsetOrdering(Nat)
    BY <2>1, <1>2, <1>4 DEF StrictSubsetOrdering, FiniteSubsetsOf
  <2> QED BY <1>3, <1>4, <2>1, <2>2
<1> QED BY <1>5

(* Of the positions of a sequence, some are the last. *)
LEMMA LastOf ==
  ASSUME NEW n \in Nat, NEW S \in SUBSET (1..n), S # {}
  PROVE  Max(S) \in S
<1> DEFINE T == {n - i : i \in S}
<1>0. \A i \in S : i \in Nat /\ n - i \in Nat
  OBVIOUS
<1>1. T \in SUBSET Nat /\ T # {}
  BY <1>0
<1>2. PICK x \in T : \A y \in T : x <= y
  <2> HIDE DEF T
  <2> QED BY <1>1, LeastOf
<1>3. PICK i \in S : x = n - i
  OBVIOUS
<1>4. \A j \in S : i >= j
  BY <1>0, <1>2, <1>3
<1> QED BY <1>3, <1>4 DEF Max

(* The resources made of a file. *)
LEMMA ItemsOfType ==
  ASSUME NEW f \in File, f # Failed, NEW t \in Type
  PROVE  ItemsOf(t, f) \in Items
<1> DEFINE At(n) == {i \in DOMAIN f : f[i].type = t /\ f[i].name = n}
           N == {n \in Name : At(n) # {}}
<1>1. f \in Seq(Message) /\ Len(f) \in Nat
  BY EnvoyAssumption
<1>2. ASSUME NEW n \in N PROVE f[Max(At(n))].body \in Body
  <2>1. At(n) \in SUBSET (1..Len(f)) /\ At(n) # {}
    BY <1>1
  <2>2. Max(At(n)) \in At(n)
    <3> HIDE DEF At, N
    <3> QED BY <1>1, <2>1, LastOf
  <2>3. f[Max(At(n))] \in Message
    BY <1>1, <2>1, <2>2
  <2> QED BY <2>3 DEF Message
<1>3. ItemsOf(t, f) = [n \in N |-> f[Max(At(n))].body]
  BY DEF ItemsOf
<1>4. ItemsOf(t, f) \in [N -> Body]
  <2> HIDE DEF N, At
  <2> QED BY <1>2, <1>3
<1> QED BY <1>4 DEF Items

(* Every version after the first answers a signal of its own: signals that *)
(* are in the channel, or whose load is under way, have made none yet.     *)
Loading == IF phase \in {"starting", "loading"} THEN 1 ELSE 0

Counted ==
  /\ sigCh \in Seq({"HUP", "TERM"}) /\ Len(sigCh) <= 1
  /\ signals \in 0..MaxSignals
  /\ version + Len(sigCh) + Loading <= signals + 1
  /\ pending # Failed => phase \in {"starting", "loading", "ended"}
  /\ phase = "starting" => sigCh = <<>>

Typed ==
  /\ pending \in File \cup {Failed}
  /\ snapshot \in [Type -> Resources]
  /\ client \in [Type -> Resources]
  /\ cached \in BOOLEAN /\ asked \in BOOLEAN

TInv == IInv /\ Counted /\ Typed

LEMMA NoneTyped == NoResources \in Resources
<1>1. NoItems \in [{} -> Body] /\ {} \in SUBSET Name
  BY DEF NoItems
<1>2. NoItems \in Items
  BY <1>1 DEF Items
<1> QED BY <1>2 DEF NoResources, Resources, Version

LEMMA TypedInit == Init => TInv
<1> SUFFICES ASSUME Init PROVE TInv
  OBVIOUS
<1>1. NoResources \in Resources
  BY NoneTyped
<1>2. Counted
  BY EnvoyAssumption DEF Init, Counted, Loading
<1>3. Typed
  BY <1>1 DEF Init, Typed, NoSnapshot
<1> QED BY <1>2, <1>3, InitInv DEF TInv

(* What a load publishes is of the types of the cache. *)
LEMMA UpdateTyped ==
  ASSUME NEW v \in Version, NEW f \in File, f # Failed, snapshot \in [Type -> Resources]
  PROVE  Update(ResourcesByType(v, f), snapshot) \in [Type -> Resources]
<1>1. NoResources \in Resources
  BY NoneTyped
<1>2. \A t \in Type : ResourcesByType(v, f)[t] \in Resources
  BY <1>1, ItemsOfType DEF ResourcesByType, Resources
<1> HIDE DEF Resources
<1> QED BY <1>2 DEF Update

LEMMA CountedStep == TInv /\ [Next]_vars => Counted'
<1> SUFFICES ASSUME TInv, [Next]_vars PROVE Counted'
  OBVIOUS
<1> USE EnvoyAssumption
<1>0. /\ Counted /\ signals \in Nat /\ MaxSignals \in Nat /\ version \in Nat
      /\ phase \in {"starting", "ready", "loading", "ended"}
      /\ Len(sigCh) \in Nat /\ Len(sigCh) <= 1 /\ sigCh \in Seq({"HUP", "TERM"})
  <2>1. sigCh \in Seq({"HUP", "TERM"}) /\ Len(sigCh) <= 1
    BY DEF TInv, Counted
  <2>2. Counted /\ signals \in Nat /\ MaxSignals \in Nat
    BY DEF TInv, Counted
  <2>3. version \in Nat /\ phase \in {"starting", "ready", "loading", "ended"}
    BY DEF TInv, IInv, Shapes
  <2>4. Len(sigCh) \in Nat
    BY <2>1
  <2> QED BY <2>1, <2>2, <2>3, <2>4
<1> USE DEF Counted, Loading
<1>1. ASSUME NEW f \in File, ChangeFile(f) PROVE Counted'
  BY <1>0, <1>1 DEF ChangeFile, server
<1>2. ASSUME NEW s \in {"HUP", "TERM"}, Signal(s) PROVE Counted'
  <2>1. CASE Serving /\ Room /\ sigCh' = Append(sigCh, s) /\ UNCHANGED phase
    <3>0. Len(sigCh) = 0
      BY <1>0, <2>1 DEF Room
    <3>1. sigCh' \in Seq({"HUP", "TERM"}) /\ Len(sigCh') = 1
      BY <1>0, <2>1, <3>0
    <3> QED BY <1>0, <1>2, <2>1, <3>0, <3>1 DEF Signal, Serving
  <2>2. CASE UNCHANGED sigCh /\ phase' \in {phase, "ended"}
    BY <1>0, <1>2, <2>2 DEF Signal
  <2> QED BY <1>2, <2>1, <2>2 DEF Signal
<1>3. CASE Start
  BY <1>0, <1>3 DEF Start
<1>4. CASE Evaluate
  <2>1. sigCh' \in {sigCh, <<>>} /\ UNCHANGED <<signals, version>>
    BY <1>4 DEF Evaluate, config
  <2>2. CASE phase = "starting"
    BY <1>0, <1>4, <2>1, <2>2 DEF Evaluate, AfterFailure
  <2>3. CASE phase = "ready" /\ sigCh = <<"HUP">> /\ sigCh' = <<>>
    BY <1>0, <1>4, <2>1, <2>3 DEF Evaluate, AfterFailure
  <2> QED BY <1>4, <2>2, <2>3 DEF Evaluate
<1>5. CASE Publish
  <2>1. phase \in {"starting", "loading"} /\ phase' \in {"ready", "ended"}
    BY <1>0, <1>5 DEF Publish, AfterFailure
  <2>2. version' \in {version, version + 1} /\ UNCHANGED <<sigCh, signals>> /\ pending' = Failed
    BY <1>5 DEF Publish, config
  <2> QED BY <1>0, <2>1, <2>2
<1>6. CASE Terminate
  BY <1>0, <1>6 DEF Terminate, config
<1>7. ASSUME NEW t \in Type, Fetch(t) PROVE Counted'
  BY <1>0, <1>7 DEF Fetch, config, server
<1>8. CASE UNCHANGED vars
  BY <1>0, <1>8 DEF vars
<1> QED BY <1>1, <1>2, <1>3, <1>4, <1>5, <1>6, <1>7, <1>8 DEF Next

LEMMA TypedStep == TInv /\ [Next]_vars => Typed'
<1> SUFFICES ASSUME TInv, [Next]_vars PROVE Typed'
  OBVIOUS
<1>0. Typed /\ NoResources \in Resources
  BY NoneTyped DEF TInv
<1> HIDE DEF Resources
<1> USE DEF Typed
<1>1. ASSUME NEW f \in File, ChangeFile(f) PROVE Typed'
  BY <1>0, <1>1 DEF ChangeFile, server, cache
<1>2. ASSUME NEW s \in {"HUP", "TERM"}, Signal(s) PROVE Typed'
  BY <1>0, <1>2 DEF Signal, cache
<1>3. CASE Start
  BY <1>0, <1>3 DEF Start, NoSnapshot
<1>4. CASE Evaluate
  BY <1>0, <1>4 DEF Evaluate, config, cache, TInv, IInv, Shapes
<1>5. CASE Publish
  <2>1. pending \in File /\ pending # Failed /\ pending' = Failed /\ UNCHANGED <<client, asked>>
    BY <1>5 DEF Publish, config, TInv, IInv, Shapes
  <2>2. VersionString(run, version) \in Version
    <3>1. /\ run \in 1..MaxRuns /\ version \in Nat /\ version <= MaxSignals + 1
          /\ MaxRuns \in Nat /\ MaxRuns > 0 /\ MaxSignals \in Nat
      BY EnvoyAssumption DEF TInv, IInv, Shapes, Counted, Loading
    <3>2. version \in 0..MaxRuns + MaxSignals
      BY <3>1
    <3> QED BY <3>1, <3>2 DEF VersionString, Version
  <2>3. Update(ResourcesByType(VersionString(run, version), pending), snapshot) \in [Type -> Resources]
    BY <1>0, <2>1, <2>2, UpdateTyped
  <2>4. \/ snapshot' = Update(ResourcesByType(VersionString(run, version), pending), snapshot)
        \/ snapshot' = snapshot
    BY <1>5 DEF Publish, cache
  <2>5. cached' \in BOOLEAN
    BY <1>0, <1>5 DEF Publish, cache
  <2> QED BY <1>0, <2>1, <2>3, <2>4, <2>5
<1>6. CASE Terminate
  BY <1>0, <1>6 DEF Terminate, config, cache
<1>7. ASSUME NEW t \in Type, Fetch(t) PROVE Typed'
  BY <1>0, <1>7 DEF Fetch, config, server, cache
<1>8. CASE UNCHANGED vars
  BY <1>0, <1>8 DEF vars
<1> QED BY <1>1, <1>2, <1>3, <1>4, <1>5, <1>6, <1>7, <1>8 DEF Next

(* The variables have their types for files of any length; in particular   *)
(* no process makes more versions than one for its start and one for each  *)
(* signal, although it takes a signal before it has served the last.       *)
THEOREM TypeCorrect == Spec => []TypeOK
<1>1. Init => TInv
  BY TypedInit
<1>2. TInv /\ [Next]_vars => TInv'
  BY NextInv, CountedStep, TypedStep DEF TInv
<1>3. TInv => TypeOK
  <2> SUFFICES ASSUME TInv PROVE TypeOK
    OBVIOUS
  <2>1. version \in 0..MaxSignals + 1
    BY EnvoyAssumption DEF TInv, IInv, Shapes, Counted, Loading
  <2>2. sigCh \in UNION {[1..n -> {"HUP", "TERM"}] : n \in 0..1}
    <3>1. sigCh \in Seq({"HUP", "TERM"}) /\ Len(sigCh) <= 1
      BY DEF TInv, Counted
    <3>0. Len(sigCh) \in Nat
      BY <3>1
    <3>2. Len(sigCh) \in 0..1
      <4>1. \A n \in Nat : n <= 1 => n \in 0..1
        OBVIOUS
      <4> QED BY <3>0, <3>1, <4>1, Zenon
    <3>3. sigCh \in [1..Len(sigCh) -> {"HUP", "TERM"}]
      BY <3>1
    <3> QED BY <3>2, <3>3
  <2> QED BY <2>1, <2>2 DEF TInv, IInv, Shapes, Counted, Typed, TypeOK
<1>4. QED
  BY <1>1, <1>2, <1>3, PTL DEF Spec
=============================================================================
