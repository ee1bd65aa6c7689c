# Skycfg: models, checks and proofs

Skycfg evaluates configuration files written in Starlark and turns what they
return into Protobuf messages. This directory holds TLA+ models of the parts of
the library that keep state or call back into themselves and of two programs in
`_examples` that drive other systems with it, the TLC runs that
check them, and TLAPS proofs about them. Source paths are relative to the
repository.

## The system

| component | state | operations | what makes it correct |
|---|---|---|---|
| module loader, `skycfg.go` `Load`, `loadImpl`, `localFileReader` | cache of module results, tests found; the Go stack of `load` -> `ExecFile` -> `load` | one call of `Load` | a cycle is always found and never imagined; a failed module is never used; every file runs once; `Load` returns a Config exactly when every reachable file is sound |
| entry point, `Config.Main`, `Config.MainNonProtobuf`, `FlattenProtoList`, `FlattenStringList` | loop variables of nested calls, the output slices | one call per rendering | the leaves of the returned list, once each and in order; the documented partial results on an error |
| test runner, `Test.Run`, and the assert module, `go/assertmodule` | `TestContext.Failures`, the Starlark call stack | `Run`; `assert`, `assert.<op>`, `assert.fails`, `fail` | a test is reported by what ended it |
| messages and repeated fields, `go/protomodule/protomodule_message.go`, `protomodule_list.go`, `type_conversions.go` | the field map and frozen flag of a message; the list behind a `protoRepeated`, shared with bare lists | assignment, attribute, `clear`, `append`, `extend`, index assignment, freezing | frozen means immutable and is deep; a oneof has one member; what a field holds has its type; a failure changes no field |
| map fields, `protomodule_map.go` | a `starlark.Dict` shared with bare dicts | `SetKey`, `update`, `setdefault`, `clear` | as for lists; None removes the key |
| merge, defaults, `merge.go` | none of their own: loops of `SetField` in map order | `proto.merge`, `proto.set_defaults` | the result is independent of map order; an explicit value outside a oneof survives |
| constructor and clone, `protomodule_message_type.go`, `protomodule_message.go` `NewMessage`, `toProtoMessage` | a message under construction | `pkg.Message(...)`, `proto.clone`, `proto.decode_*` | the result does not depend on the order of the arguments; a clone is equal to its argument and shares nothing with it |
| enum and message types, packages | immutable descriptors | attribute lookup | names and numbers agree |
| conversions between Starlark and Protobuf values, `type_conversions.go` | none | `scalarValueFromStarlark`, `valueToStarlark`, `maybeConvertToWrapper` | integer ranges, presence, wrappers |
| `yaml`, `json`, `url`, `hash`, `struct` modules | none | pure functions | round trip, order of keys |
| options, predeclared modules | option records | before `Load` and `Main` start | - |
| Envoy example, `_examples/envoy/main.go` | snapshot cache, version, signal channel | load, SIGHUP, SIGTERM, fetches of proxies | what is served is one evaluation of the file, and its version says so |
| Kubernetes example, `_examples/k8s/main.go` | the loop over the messages; the cluster | `up`, `down`, `--dry_run` | what is printed is true; running it again recovers |

How they interact: `Load` runs every file through `starlark.ExecFile`, which
calls back into the loader for each `load()` statement. Executing a file builds
messages and lists. When `ExecFile` returns, the globals of the file are frozen
and belong to the `Config`. `Main` and `Test.Run` may then be called any number
of times, also concurrently; each has its own Starlark thread, its own
`ctx.vars` dict and, for tests, its own `TestContext`, and shares with the
others the frozen globals and whatever values the caller put into the options.
The two examples call `Load` and `Main` and turn the messages into resources of
a snapshot, or into requests.

What is hard to test here:

* the recursion of the loader through an interpreter that is not part of the
  repository: partial globals, errors that unwind several levels, one nil cache
  entry that means "being executed", two names for the main file;
* objects that are shared: a `protoRepeated` is a window on a list that the
  program may also hold as a plain list or through another window, freezing
  must reach everything, and no operation may write past it;
* operations that fail in the middle (`extend`, `update`, boxing of list elements, merge, the
  constructor);
* the error that is an assertion failure and an ordinary error at once, and is
  recorded even when `assert.fails` stops it;
* iteration over Go maps, whose order changes from run to run;
* a value that is checked in one place and converted in another (wrappers, presence, integer widths);
* in the examples: signals that are lost, files that change during a reload, restarts, connections that
  break before or after the server acted.

`PROJECT.json` lists each hazard at its line, with the properties that cover it
or the reason why none does yet.

## The modules

### SourceTree, ModuleLoader, ConfigLoad

`SourceTree` says what the loader sees of a set of files: which can be read,
which parse, and which statements matter (`load`, the definition of a test
function, anything that raises an error). Names are resolved as by
`LocalFileReader`: the name in a `load()` statement becomes the canonical path
under the root. The name given to `Load` itself is used as it is, so the main
file may have the second path `MainPath`. `Reachable`, `Sound`, `Acyclic`,
`Loadable` are the meaning of loading without any loader.

`ModuleLoader` is `loadImpl`. Its Go recursion is the variable `stack` (path
and next statement of every active `ExecFile`); `phase` says whether the load
callback, a file, or a return is being executed.

| variable | code |
|---|---|
| `cache` | the map `cache`; `"loading"` is the nil entry of line 354, `"ok"`/`"err"` an entry without/with error |
| `target`, `failed` | argument and error result of `load` |
| `found` | the slice `tests` of `loadImpl` |
| `outcome` | what `Load` returned |
| `execs` | history only: the calls of `ExecFile` |

| action | code (`skycfg.go`) |
|---|---|
| `ResolveFails` | 336-339 |
| `CacheHit`, `CycleFound` | 341-347 |
| `ReadFails` | 348-352, the error is cached |
| `BeginExec` | 348-355 |
| `Finish`, part of `ParseFails`, `ExecFails`, `ExecEnds`, `LoadFailed` | 355-368: result cached, tests collected in any order of the map, error or not, then the return |
| `ExecLoad`, `ExecDef`, `LoadSucceeded` | the interpreter, as the loader observes it |
| `LoadReturns` | 309-318 |

`ConfigLoad` is the promise of `Load`: one step from the call to a Config or an
error. `ModuleLoader` implements it; until `Load` returns, and when it fails,
the caller sees no tests (the refinement mapping of `tests`).

### EntryPoint

`Main` and `MainNonProtobuf` differ in the type of the leaves and in what they
return with an error; `kind` selects one. The bottom frame of `stack` is the loop
of `Main`, the others are calls of the flatten function, which look at
`flatten` no more (`Flattens`). Lists do not change while they are flattened, and none contains itself
(`Acyclic`, of the lists at the start). `LeavesIn` is the reference: the leaves below a list, from left to right.
Nothing of the module has a name of `TestRun`, so that one module can hold the proofs about both ways to use a Config.

### TestRun

One Starlark thread inside `Test.Run`, for several runs one after the other. `calls` is
the Starlark call stack; a `"fails"` entry is an `assert.fails` whose
function is the entry above it. `error` is the error in flight: the number of a
failed assertion, or 0 for an error of any other kind. An assertion that holds
is no step. The type switch of `AssertFails` on `*starlark.EvalError` stops every error of
a function it called, since `starlark.Call` wraps all of them; only the error of an argument that is not
callable passes (a `PlainError`).

### ProtoHeap

The heap of a Starlark program that uses Protobuf messages: `fields` (the field map of
each message), `elems` (each `starlark.List`), `frozen`, `reps` (the
`protoRepeated` values that exist, a field descriptor and a list), and `raw` (the lists
that the program also holds as bare lists). Every operation of the program is
one action, with any existing object as operand, because any of them may be
bound to a variable.

| action | code |
|---|---|
| `NewList`, `RawWrite` | `starlark.List`, which checks no type |
| `SetNone`, `SetValue`, `SetList`, `ValueRejected`, `FrozenRejected` | `SetField`, `protomodule_message.go` 217-296. `SetList` includes the boxing of the elements in place (231-243), whose failure in the middle leaves the first elements converted, and the type check that follows |
| `Attr` | reading an unset list field, 169-200: the error of `SetField` is dropped |
| `Clear` | `proto.clear`, which first converts the message |
| `ListAppend`, `SetIndex`, `Extend`, `ListClear` | `protomodule_list.go` |
| `Freeze` | `Freeze` of a message or a list, all it reaches |

The schema is a parameter: `Fits` gives for each field the values that
`scalarTypeCheck` accepts and `Wrapped` what `maybeConvertToWrapper` makes of a
scalar, `Overflow` included. Checking a message converts it, and the conversion of
a message that contains itself does not return: such calls are no steps
(`Checkable`, `Endless`).

### ProtoMerge

`proto.merge` and `proto.set_defaults` on the heap of `ProtoHeap`, after at most `MaxSteps`
operations of the program. `Merge` in the code ranges over a Go map, calls `mergeField`
and `SetField` for each entry, and for two message fields calls itself
twice on a new message. One field is one step; `stack` holds the calls in progress with the
fields they have yet to meet (`todo`) and the messages they have yet to merge (`sources`: the field of
the destination, then that of the source). `before` is history: the heap when the call began.

| action | code |
|---|---|
| `Merge` | `protomodule.go` 269-289, `protomodule_message.go` 331-341 |
| `Replace` | `merge.go` 27-33, 98-99 and the `SetField` of `protomodule_message.go:351`, whose error is dropped (`Store`) |
| `Concatenate` | `merge.go` 38-57: a new list with the type of the destination's |
| `Descend`, `MergeSource`, `FieldMerged` | `merge.go` 81-95 |
| `FieldFails` | `mergeField` returns an error: the call of the program returns it, a call for a field just stops (`merge.go:92-93` drop the error) |
| `MergeReturns` | `protomodule.go:291` |
| `SetDefaults` | `protomodule_message.go` 299-328, one default after the other in the order of names (`WithDefaults`) |

The entries a range meets are those of the start, except in `proto.merge(m, m)`, where `SetField`
deletes and adds a member of a oneof in the map being ranged over and Go may yield it
again (`Done`). A new message is one that nothing refers to and that was not there when the
call began (`Fresh`). All messages have one type: the test for two types is the first thing the
call does and changes nothing. There are finitely many, a field holds messages or holds none, and no field boxes
scalars, since a message that a wrapper is boxed in is merged like any other (`MessageAssumption`).
Maps are merged in `ProtoMaps`.

`Merged` is the reference: what `docs/modules.asciidoc` 253-259 says of two messages taken as trees, one level of depth
after the other (`Trees`, `MergedTree`). `MergeExact` compares it with the tree of the destination when the call has returned,
under two conditions on the heap at the call: no argument contains the destination (`Separate`), and any two
values of a field could be merged (`Mergeable`); without the second a child may be left out (`merge_nested`).

### ProtoBuild and Conversions

`ProtoBuild` extends `ProtoHeap` with the two ways to make a message. `call` is a constructor in
progress: the new message, the arguments, those not yet set, and whether all went well. `cloned` holds
argument and result of `proto.clone`, if that was the last operation; `crashed` is a panic.

| action | code |
|---|---|
| `Construct`, `SetArg`, `Constructed` | `protomodule_message_type.go` 122-161: `SetField` for each argument in the order of the map, up to the first error |
| `Clone` | `protomodule.go` 87-98 and `NewMessage` with `toProtoMessage`: one step that copies every list that is kept and every message, in a field or in a list |
| `CloneFails` | an enum, somewhere in the message, has a number without a name (`protomodule_enum.go:86`): the first error ends the copying, `protomodule_message.go` 51-62 |
| `CloneCrashes` | `isFieldSet`, `protomodule_message.go:399` |

`Kept` is what `toProtoMessage` converts, `IsSet` what `NewMessage` finds set, `RoundTrip` what a value is after
both, `Overflow` if it is an enum number that has no name. A message that is copied is known by the way to it from the argument (`Places`),
a sequence of fields, indexes and messages: the same message in two places, or twice in one list, gives two copies.
If a message both fails and panics, either may come first (the order of `Range`). The program starts with at most one bare list,
of any contents, and at most one field set in one message, which spares the operations that would build them. Map fields,
which `NewMessage` copies too, are in `ProtoMaps`, without clones.

In `Conversions`, `FromStarlark`, `ToStarlark` and `Box` are `scalarValueFromStarlark`,
`scalarValueToStarlark` and `maybeConvertToWrapper` for every kind of field; its state is one field,
`Assign` what `SetField` converts (`protomodule_message.go` 249-269) and `ReadBack` what a message that is
made from the Protobuf value holds. The two share no variable, and the run takes steps of one of them, the conversions where the
program starts without a list and `ProtoBuild` where it starts with one (`MCBuildNext`): no product of the two, and the conversions of
every value in every kind of field. The schema of the `build` run
(`MCFits`, `MCWrapped`, `MCRoundTrip`) is computed with them, so the two modules are checked together.

### ProtoMaps

Map fields: `fields` (windows on dicts), `dicts` (functions from keys to values), `frozen`, `raw` and
`wins` as in `ProtoHeap`. A Starlark dict also has an order of insertion, in which it is walked. It shows only
in what `update` has set before an entry that it rejects; the action chooses those entries.

| action | code (`protomodule_map.go` unless said otherwise) |
|---|---|
| `NewDict`, `RawSet`, `RawDelete` | `starlark.Dict`, which checks no type |
| `AssignDict` | `SetField` of a dict: every entry checked, None entries deleted from the caller's dict, which then backs the field |
| `AssignWindow`, `FrozenRejected`, `Attr` | `SetField` and `Attr` of `protomodule_message.go` |
| `SetItem`, `SetDefault`, `Update`, `Clear` | the methods of `protoMap` |
| `Merge` | `merge.go` 59-79 |
| `Freeze` | `Freeze` of a message or a map |

### EnvoyServer

The process (`phase`, `pending`, `sigCh`, `version`, `run`), the snapshot in the cache, and a proxy
(`client`). A reload is two steps: `Evaluate` (Skycfg and validation, without the lock) and `Publish`
(comparison, consistency check and update of the cache, under it). `Signal` may find the channel full, and
is lost; `ChangeFile`, `Signal` and `Start` are the operator. `Fetch` is the cache and the proxy, external, reduced to
what matters here: the proxy is sent the resources of a type when it has another version of them. `cached` says whether the process has
called `SetSnapshot`: a process whose evaluations give no messages finds nothing changed (238-242) and does not, and without a snapshot the
cache (`go-control-plane` v0.9.6) leaves the requests of proxies open.
A version string is the pair of a process and a counter: `math/rand` and the process id are taken to differ from
process to process.

### K8sApply

The loop of `up` and `down` over the messages. `request` is the request the program waits for, `answer` the
server's answer; `report` is what was printed, `applied` what the server did, `late` the requests that were given
up and may still arrive. `Handle` and `Arrives` are the API server, `ConnectionBreaks`, `Killed` and `OtherWrite`
the faults. `name` is the argument NAME, `given` those of `down` so far (history).

| action | code (`_examples/k8s/main.go`) |
|---|---|
| `Send`, `Target`, `Covers` | 192-218, 232-245 with the path of 77-105: an empty name adds no segment, and a DELETE of that path is one of the whole collection |
| `Unresolved`, `DryRun` | 138-154, 206-208, 239-241 |
| `Answered` | `parseResponse` 160-190, and the line printed, 315-319 |
| `Unreadable` | an answer of 2XX that cannot be decoded (166-169), or a Status whose `details` are missing or not strings (179-185): an error |
| `PanicsOnList` | the answer to the deletion of a collection is a list, which is not what line 175 asserts |

Taken as given: the name of a message and a NAME that is not empty are one path segment each; the flag `namespace` is not empty; an object whose DELETE is
answered with 2XX is gone (an object that is deleted gracefully would be there for a while, and a following `up` would get 409); the server
deletes a collection when asked to. Errors of the
discovery client and of `marshal`, which end the handling of a message before its request, are those of a broken connection that
reached nobody.

Every module holds, before a definition, the operators that state a plausible
mistake in it ("Seeded fault"). They are used by no action: putting one in the place of
the definition must violate the property it is listed with in `PROJECT.json`.

## The runs

| run | instance | checks |
|---|---|---|
| `loader` | 3 files of at most 2 statements, every tree, `Load` called with an alias of the main file | `LoadingIsStack`, `OkIsComplete`, `ExecutedOnce`, `Terminates`, `ImplementsConfigLoad` |
| `entry` | 3 lists of at most 2 elements, every acyclic nesting, both functions, with and without flattening | `CollectedInOrder`, `ResultExact`, `Terminates` |
| `testrun` | call depth 5, 3 failures, 2 runs | `FailuresAccounted`, `ReportExact` |
| `testrun_panic` | the same | violated: `OneFailurePerRun` |
| `build` | 4 messages of seven fields (lists of wrappers, bytes and messages, an enum without presence, a scalar and a wrapper in a oneof, a child), 2 lists of at most 2 elements; a list of one element to start with, 2 operations, constructors with at most 2 arguments | types (`BuildTypeOK`); `OneofExclusive`, `FailureContained` of `ProtoHeap`; `ConstructDetermined`, `CloneExact`, `CloneIndependent`; `ReadBackStable`, `BoxingAgrees` of `Conversions` |
| `clone_bytes` | the same | violated: `CloneReturns` |
| `maps` | 2 messages with 2 map fields of different types, 3 dicts; 5 operations | `MapConforms`, `FailureContained`, `FrozenMaps`, `MergeUnion` |
| `merge_tree` | 6 messages with a child and two scalars in one oneof and a flag, values of two types, three defaults; 4 operations, then a merge | types (`MergeTypeOK`); `MergeExact`, `OnlyDestination`, `OutcomeDetermined`, `DefaultsExact`, `FrozenImmutable` |
| `merge_lists` | 2 messages with an int32 and a double list, 3 shared lists; 6 operations, then a merge | `MergeExact`, `OnlyDestination`, `ConformUnlessBypassed`, `FrozenImmutable` |
| `merge_nested` | 5 messages with a child and a scalar of two types | violated: `MergedRecursively` |
| `envoy` | 7 files (one fails, one panics, one is inconsistent), 3 changes, 3 signals, 2 processes | types; `SnapshotWhole`, `VersionIdentifies`, `UnchangedKeepsVersion`, `FileReachesClient` |
| `k8s` | 5 messages, one of an unknown kind, one of no namespace, two of one kind; `down` with a name and with an empty one; 3 runs, 2 faults | `ReportsTrue`, `CleanRunSettles`, `Surgical` |

The runs check what the proofs leave open, and what the proofs cover where it is the subject of a run. The type invariants of
`ModuleLoader`, `EntryPoint`, `TestRun`, `ProtoHeap`, `ProtoMaps` and `K8sApply`, and `ErrorUnwinds`, `EntriesFinal` and `FrozenClosed`, are
theorems, and no run of their own repeats them.

Why the bounds are enough to be interesting. Three files give a cycle through the main file and one
that leaves it out, a diamond (the main file loads two others, one loads the other), a failure two levels
down, a file loaded twice, and the main file loaded under its other name, which a canonical `MainPath`
would only leave out. Three nested lists give a list within
a list within the loop of `Main`, with elements before and after. Depth 5 holds
two `assert.fails` inside each other and a function between them. Two lists and
two windows are what aliasing takes; two messages are what a cycle of messages
takes, and a list of two elements fails in its middle. Six messages are a
destination and source that share a chain of two children, and the two new messages that merging
them takes; four operations build that chain and leave one for a scalar or a frozen destination, six give
each of two messages a list of the other field's type, with an element. Attaching a message or a list, freezing its holder and writing to it by the
name that it had before are three operations (`FrozenImmutable`). A flag outside the oneof and two members of it have a default, so
`set_defaults` meets a value to keep, one to replace and two members of which the last stays. Two operations of `build` are a constructor that
sets two of seven fields, every pair and every order, and then a clone, or a freeze, or a write;
the list to start with holds a scalar, or a message with an int32 or with an enum number without a name, so the clone may be of a message with a child that has a value, in a field or in a
list, and may fail there. A list of two messages and its copy take six messages, and are left to the proof. Integers of 2 and 3 bits (`Half32`, `Half64`) have all the bounds of 32 and 64:
both ends of each range, and values that fit one width only. Three dicts are those of two maps and their union. Three signals
are one that is handled, one that waits and one that is lost; two processes are what a version needs to
be used twice. Three runs of the Kubernetes client are one that a fault disturbs, another, and a clean one.

`MaxBody`, `MaxLen`, `MaxDepth`, `MaxFailures`, `MaxRuns`, `MaxSteps`, `MaxArgs`, `MaxChanges`, `MaxSignals` and
`MaxFaults` are the only bounds. `build`, `clone_bytes`, `maps` and the merge runs use the symmetry of messages, of lists and
of dicts (safety properties only; no schema and no initial state names one of them).
In `loader` a file that is not read or does not parse has an empty body, which loses
nothing: no action looks at it.

Deadlock is not checked: `Load`, `Main`, a test run, a merge and a bounded program end, and stop. For the loader and the entry
point `Terminates` says that they stop nowhere else.

Fairness is `WF_vars(Next)` for the loader and the entry point: each is one goroutine that
blocks on nothing and takes its next step until it returns. A `ReadFile` or a
Starlark program that does not return is outside the models. `EnvoyServer` assumes weak fairness of the one
goroutine that takes signals and loads, and of each type's stream to the proxy; nothing obliges the operator to send a
signal or to start the server again, and `FileReachesClient` asks only for files that were in place when a SIGHUP was sent
and stay, and of a process that has set no snapshot only while the file is not empty (`NothingToServe`). The other modules state no liveness; `K8sApply` has none because its requests have no
timeout, and a server that does not answer stops the program.

## What the code does against its documentation

* `Test.Run` panics when a test fails two assertions, one of them stopped by
  `assert.fails`; the comment at `skycfg.go:600-601` calls that impossible
  (`testrun_panic`). `FailuresAccounted` is the exact statement: every recorded failure but
  the one in flight was stopped by `assert.fails`.
* `proto.clone` panics on a message with a repeated bytes field that is not empty, and so do the decode functions
  (`clone_bytes`): `isFieldSet`, `protomodule_message.go:399`, takes the bytes of the list.
* `proto.merge` is documented to merge children recursively, and leaves out the rest of a child,
  without an error, after a field that fails (`merge_nested`). `MergeExact` says when the result is the
  documented one.

The models follow the code in these points too, for which there is no run of their own:

* An assigned list or dict is not copied, contrary to `docs/protobuf.asciidoc:70-71`: the program may go on
  writing to it unchecked (`SetList`, `AssignDict`).
* A list field can hold elements of another type: a window of an int64 field is accepted
  for an int32 field while its elements fit, and keeps checking against its own
  field. `ConformUnlessBypassed` and `MapConforms` are what remains true. `toProtoMessage` leaves such a list out of the
  message without an error (`Kept`).
* A constructor with two arguments that share a list may succeed or fail depending on the order of a Go map, since
  the first converts the elements in place (`ListsDiffer` in `ConstructDetermined`).
* An enum field accepts values of any other enum type, and may then hold a number that has no name (`FromStarlark`).
* A clone has floats where its argument had ints in float and double fields (`RoundTrip`).
* Assigning a dict removes its None entries from the caller's dict (`AssignDict`).
* `proto.merge` fails if a scalar field is an int in one message and a float in the other, although
  "scalar fields are replaced" (`FieldFails`, `OutcomeDetermined`), and shares with the source the objects
  that the destination lacks, where the Protobuf implementation copies (`Replace`).
* `proto.set_defaults` removes a member of a oneof that was set if another member has a default
  (`DefaultsExact` says which one stays).
* `proto.set_defaults` is documented to set every field to its default (`docs/modules.asciidoc:280`) and to be the same as `proto.clear` for
  proto3 messages (290-291). The code keeps the fields that are set (`protomodule_message.go` 310-313, as its comment says), but for members of a oneof
  (`SetDefaults`, `DefaultsExact`).
* `MainNonProtobuf` is documented to flatten nested lists (`skycfg.go:624-626`), without a condition. The code does so only
  with `WithFlattenLists` (line 676), and without it a nested list is an error, as in `Main`; `ResultExact` says
  what the code does.
* `proto.clone`, documented as a copy, returns an error for a message with an enum number that has no name (`CloneFails`), which an assignment has
  accepted.
* The Envoy server that is started again with a file that gives no messages sets no snapshot (`_examples/envoy/main.go` 238-242), and
  proxies that connect again keep the resources of the earlier process (`Publish`, `NothingToServe` in `FileReachesClient`).
* `down ""` of the Kubernetes example passes the check of the arguments, deletes all objects of the first message's kind in the
  namespace, and panics on the answer (`PanicsOnList`). Errors of answers that cannot be read are printed for requests that the server has
  carried out (`Unreadable`).
* A test that ends with an ordinary error after a failed assertion that `assert.fails` stopped is reported as that assertion's failure
  (`Report`): `ReportExact` is about the runs in which none was stopped.
* Reading an unset list field of a frozen message gives a list that belongs to
  nothing, and appending to it succeeds (`Attr`).
* `WithFlattenLists` is documented as one layer deep (`skycfg.go:429`) and flattens every layer (`Flattens`).

## The proofs

The theorems hold for all values of the constants that satisfy the named
assumptions: any number of files, statements, messages, lists, any schema.
The assumptions say that the sorts of values are disjoint
and that the schema is well formed; `BuildAssumption` also that what a field keeps fits it again after a conversion
to Protobuf and back, if that makes a value, which `ConversionsStable` proves of the conversions. List fields may hold messages.

`ModuleLoaderProofs`. `TypeCorrect`, `CycleCheckExact` (`LoadingIsStack`), `ResultsFinal`
(`EntriesFinal`), `ErrorsUnwind`, `OkModulesComplete` (`OkIsComplete`), and
`ConfigsAreSound`: when `Load` returns a Config, every reachable file was read,
parsed and executed without an error. `LoadingIsStack` and `ErrorUnwinds` are
inductive with the types. `OkIsComplete` is not: that a file is complete when
it ends has to be known statement by statement while it runs. `StackSound` says that the
statements before the program counter of every frame succeeded and that what they loaded
is cached as ok, that every frame but the innermost waits at the `load()` of the next one, and
that a callback that returns without error has left an ok entry. Cached results
being final carries it over to the next state. `ConfigsAreSound` follows since the outermost frame is
the main file (`RootIsMain`) and the ok files are closed under loading.

`EachFileOnce` (`ExecutedOnce`) and `LoadImplementsConfigLoad` (`ImplementsConfigLoad`), the refinement, need what the
result will be while the loader still runs: `RInv`. Every file on the stack is reachable and reaches the one that the next frame
executes (`StackReaches`), so that a cycle that is found is a cycle of the files. Ok files are acyclic (`OkAcyclic`): a file gets
its entry only after all that it loads. A failure has its cause in the files
(`FailureHasCause`). The tests found are those of the ok files, each once (`TestsListed`). An ok file was executed once,
since a path with an entry is not executed again, and the one file with two paths, the main file, cannot be complete under its
canonical one while the other is still on the stack (`AliasUnfinished`). Then the step in which `Load` returns is a step of
`ConfigLoad`, and every other step a stutter.

`ConfigProofs`, for `EntryPoint`. `MainTypeCorrect`: whatever is nested in whatever, only messages, or strings, are collected and
returned. `OrderKept` (`CollectedInOrder`) and `ResultsExact` (`ResultExact`) compare the loops with `LeavesIn`, which is
recursive over nested lists. First, it defines a function: since no list contains itself, approximations of it on sets of lists that
are closed under nesting extend to all lists. Then `InOrder`: each loop has the leaves of the elements
that it has passed, and stands at the list that the next one goes through; and an induction over the stack from the bottom
(`Outwards`) puts the loops together.

`ConfigProofs`, for `TestRun`. `TypeCorrect`, `EveryFailureAccounted`, `ReportsExact`, from one
inductive invariant: with `FailuresAccounted`, that no error is in flight
while code runs and that the result of a run is what `Report` says (`ErrorAndResult`).

`ProtoHeapProofs`. `TypeCorrect`, `FreezeIsDeep`, `FrozenNeverWritten`,
`OneofHasOneMember`, `ConformsUnlessBypassed`, `FailuresAreContained`. The invariant adds
to the properties that only objects that exist are frozen (a new list must not be
born frozen, nor a new window point to a frozen list), that a list which is not bare has one
window (`OneWindow`), and that its elements fit that window (`ListsTyped`). A list that
is not bare then changes through one window only, which checks the types.

`ProtoBuildProofs`, on the invariant of the heap.

* `ConversionsStable` (`ReadBackStable`) and `BoxingIsExact` (`BoxingAgrees`): for integers of any two widths, any floats and
  any enums. The kinds exclude each other, which makes the case distinctions of the conversions independent of their order;
  the two range checks of the code agree (`RangesAgree`), and rounding is idempotent.
* `ConstructorDetermined` (`ConstructDetermined`): `SoFar` says of the arguments that the constructor is through with what
  the property says of all of them, and that the lists of the others have the elements they were given with (`ListsLeft`). What is determined
  is whether the constructor fails and every field outside the oneof; of several members of the oneof one that was given stays, and which one
  is up to the order. Arguments that share a list are excluded (`ListsDiffer`).
* `CloneSharesNothing` (`CloneIndependent`), of a clone that is returned. A message that is copied has finitely many places, in fields and in
  lists: a place as deep as there are messages
  would visit one of them twice (the pigeonhole of `LongWalk`), and so lie on a cycle, which no call survives. The copies refer to
  copies only and nothing else refers to them (`CopyApart`).
* `CloneIsEqual` (`CloneExact`): the value of the copy of each place is the value of the original, element by element in lists, by induction
  over the depth.
* `BuildTypeCorrect`, `BuildNeverWritesFrozen`, `BuildFailuresContained`, `BuildSetsOneMember`: the properties of the heap survive
  constructors and clones.

`ProtoMapsProofs`. `TypeCorrect`, `FrozenMapsStay` (`FrozenMaps`), `MapsConform` (`MapConforms`), `FailuresAreContained`
(`FailureContained`), `MergesAreUnions` (`MergeUnion`). The invariant says that the dicts of a frozen message are
frozen, and that a frozen dict is in use: otherwise the new dict of a merge could be born frozen. `MapConforms` needs that a dict
which is not bare has the windows of one type only, whose entries it conforms to, and that a dict which is not in use is empty.

`ProtoMergeProofs`, on the invariant of the heap.

* `MergeTypeCorrect` (`MergeTypeOK`), `MergeWritesOnlyDestination` (`OnlyDestination`), `MergeConforms`
  (`ConformUnlessBypassed`) and `MergeWritesNothingFrozen`. `StackOK` says of the calls in progress that the outermost is the program's
  and has one source, and that every other was made for a field and writes to a message that was not there when the
  program called. A list that a merge makes is not in use, hence in no message and not frozen.
* `MergeOutcomeDetermined` (`OutcomeDetermined`). `RangeOK` says of the outermost call that the fields it has still to
  meet are set in the source and as they were in the destination, since a field that it has met clears another only if
  both are in the oneof, of which the source has one; that the fields it has met could be merged; and that the call
  in progress was made for one that can. In the merge of a message with itself a member of the oneof may be met twice, and
  changes meanwhile, but a value that is no list can always be merged with itself. What `mergeField` finds of two values
  that were recorded does not change while the merge makes new lists (`StuckStays`).
* `MergeIsExact` (`MergeExact`). The invariant, `ExactInv`, says for every set D of messages apart from the destination, in which
  the arguments have their children: there is a relation R of the messages made so far that are finished, each with the two of
  D it is the merge of (`Finished`); and there is for each call in progress a pair whose merge it is, up to
  the fields it has still to meet (`Partly`, field by field `FieldPartly`). What is finished is not written again, as it is
  no destination of a call in progress, and a new message is none of them. A call made for a field knows the value
  it is to leave there (`CalledBy`, `Calls`), so that its return adds it to R and its caller's field is done.
  When the program's call ends, the destination and R are merges of messages of D that are as they were, and their trees
  are those of the reference by induction over the depth (`ExactTrees`). Nothing is assumed of how
  messages are shared: the same child merged twice gives two messages with the same tree.
* `DefaultsAreExact` (`DefaultsExact`), by induction over the names (`AfterDefaults`): a default that is set clears those of the
  oneof before it.

`EnvoyServerProofs`. `TypeCorrect` (`TypeOK`), `ServesOneEvaluation` (`SnapshotWhole`), `VersionsIdentify` (`VersionIdentifies`) and
`UnchangedVersions` (`UnchangedKeepsVersion`). That the counter of versions is bounded follows from the signals: what
waits in the channel, the load under way and the versions made are never more than one and the signals sent (`Counted`). That a version identifies its resources is not
inductive: every version in the snapshot and in the proxy has to come from an earlier process, or from this one
at a smaller counter (`AllNumbered`), so that the next version is new. That the snapshot is one evaluation
needs what was evaluated before the lock was taken to be a sound file whatever the file is by then (`Shapes`).

`K8sApplyProofs`. `TypeCorrect`, `TrueReports` (`ReportsTrue`), `CleanRunsSettle` (`CleanRunSettles`),
`NothingElseTouched` (`Surgical`). `InFlight` ties the request that is out to the message of the loop;
`GivenUp` says that late requests are those of messages, with their target or a NAME that `down` was given, and of a dry run never; `InStep` that in a clean run
only the last answer is not reported yet, unless it is the list that ended the run; `SettledSoFar` is `CleanRunSettles` message by message.

The induction theorems of the library take an operator as a parameter, which the provers cannot instantiate. Where a proof
needs induction over the natural numbers, it is that of a set: one that has 0 and, with each number, its successor is `Nat`
(`SetInduction`, proved from the least number that is missing). That a recursive definition defines a function is proved the
same way.

Checked by TLC only: `Terminates` and `FileReachesClient` (liveness).

## Not modelled

Comparison, printing, hashing and marshalling of messages change no state. The parsing and printing of the encoding functions
are calls of protojson, prototext and anypb; what they do with the parsed message is `NewMessage`, modelled for
`proto.clone`. The `yaml` and `json` modules convert values to text and back by library code. `hash` and `url` are pure
functions. Packages and types are lookups in an immutable registry. Options are records that are filled in before anything runs; their
values are not frozen, so two runs that use and change one of them at the same time race, which no document
promises to work and no property here is about. Messages as values of maps behave as in `ProtoHeap`. The
`repl` and `wasm` examples call `Load` and `Main` and print. A list or message that
contains itself ends the process when it is flattened or converted (Go stack overflow); the models
have no step for it.

## Plan

Done: the loader, the entry point, the test runner, messages, lists and maps, merge and set_defaults, the constructor and
clone, the conversions, the Envoy and Kubernetes examples, with the proofs above. What is left:

* `ConfigUse`: several goroutines in `Main` and `Test.Run` over the frozen globals of one
  Config. What makes it safe is proved (`FrozenNeverWritten`, `FreezeIsDeep`, `FrozenMapsStay`); the composition would add only the
  unfrozen values of the options, which are unsafe by design.
