----------------------------- MODULE SourceTree -----------------------------
(***************************************************************************)
(* The Skycfg source files that one call of skycfg.Load can reach, and     *)
(* what it means for them to be loadable.                                  *)
(*                                                                         *)
(* A file is what starlark.ExecFile sees of it: can it be read, does it    *)
(* parse and resolve, and which statements matter to the loader.  A "load" *)
(* names a module, a "def" binds a callable to a global whose name starts  *)
(* with test_, a "fail" is any statement that raises an error (fail(), a   *)
(* type error, a name missing from a loaded module).                       *)
(*                                                                         *)
(* Module names are resolved by LocalFileReader: every load() statement    *)
(* gets the canonical path of the file under the root, which we identify   *)
(* with the file.  The file name given to Load is used as it is, so        *)
(* MainPath ("./main.sky") may differ from the canonical path of the same  *)
(* file ("main.sky"): two cache keys for one file.                         *)
(***************************************************************************)
EXTENDS Naturals, Sequences, FiniteSets

CONSTANTS
  File,       \* the files under the root, identified with their canonical path
  MainFile,   \* the file that Load is called for
  MainPath,   \* the path it is called with
  NoPath,     \* the resolution of a name that Resolve rejects
  Test        \* names of test functions

ASSUME MainFileAssumption == MainFile \in File
ASSUME MainPathAssumption == MainPath \notin File \ {MainFile}
ASSUME NoPathAssumption   == NoPath \notin File \cup {MainPath}

Path == File \cup {MainPath}

(* ReadFile opens the file itself, whichever of its paths is used. *)
FileAt(p) == IF p = MainPath THEN MainFile ELSE p

(* The result of Resolve for a module name in a load() statement, as a set *)
(* of possible values: never the alias MainPath, unless it is canonical.   *)
Resolution == File \cup {NoPath}

Stmt == [op : {"load"}, arg : Resolution]
        \cup [op : {"def"}, arg : Test]
        \cup [op : {"fail"}, arg : {NoPath}]

VARIABLES
  readable,   \* the files ReadFile can read
  parses,     \* the files without a syntax or resolver error
  body        \* the statements of each file, in order

tree == <<readable, parses, body>>

TreeTypeOK ==
  /\ readable \subseteq File
  /\ parses \subseteq File
  /\ body \in [File -> Seq(Stmt)]

-----------------------------------------------------------------------------

(* The paths loaded by the statements of f. *)
Loads(f) == {body[f][i].arg : i \in {j \in DOMAIN body[f] : body[f][j].op = "load"}}

(* The test globals bound by the first n statements of f. *)
TestsIn(f, n) ==
  {body[f][i].arg : i \in {j \in DOMAIN body[f] : j <= n /\ body[f][j].op = "def"}}

AllTests(f) == TestsIn(f, Len(body[f]))

(* The least set of files that contains S and what its members load. *)
Reach(S) ==
  LET Closed(T) == \A f \in T : Loads(f) \cap File \subseteq T
  IN  {f \in File : \A T \in SUBSET File : S \subseteq T /\ Closed(T) => f \in T}

Reachable == Reach({MainFile})

(* A file that would execute without error if its loads succeed. *)
Sound(f) ==
  /\ f \in readable \cap parses
  /\ NoPath \notin Loads(f)
  /\ \A i \in DOMAIN body[f] : body[f][i].op # "fail"

(* No file loads itself, directly or through others. *)
Acyclic == \A f \in Reachable : f \notin Reach(Loads(f) \cap File)

(* The trees for which Load promises a Config: a doc-independent reading of *)
(* what load() means, with no cache, stack or order of execution.           *)
Loadable == Acyclic /\ \A f \in Reachable : Sound(f)

(* The orders in which the tests of the tree may be listed: all the tests of *)
(* the reachable files, once each, those of a file after the tests of every  *)
(* file it loads.                                                            *)
IsTestList(s) ==
  /\ {s[i] : i \in DOMAIN s} = UNION {{f} \X AllTests(f) : f \in Reachable}
  /\ \A i, j \in DOMAIN s :
       /\ s[i] = s[j] => i = j
       /\ s[j][1] \in Loads(s[i][1]) => j < i
=============================================================================
