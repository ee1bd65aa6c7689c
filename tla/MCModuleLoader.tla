--------------------------- MODULE MCModuleLoader ---------------------------
(* All the trees over File whose files have at most MaxBody statements.    *)
EXTENDS ModuleLoader

CONSTANT MaxBody    \* bound on the statements of a file

(* Nothing follows a statement that raises an error, and a test is bound once. *)
MCBodies ==
  {s \in UNION {[1..n -> Stmt] : n \in 0..MaxBody} :
     \A i, j \in DOMAIN s :
       /\ s[i].op = "def" /\ s[i] = s[j] => i = j
       /\ s[i].arg = NoPath => i = Len(s)}

(* A file that is not read or does not parse runs no statement. *)
MCInit ==
  /\ readable \in SUBSET File
  /\ parses \in {P \in SUBSET File : File \ P \subseteq readable}
  /\ body \in {b \in [File -> MCBodies] :
                 \A f \in File : f \notin readable \cap parses => b[f] = <<>>}
  /\ LoaderInit

MCSpec == MCInit /\ [][Next]_vars /\ Fairness
=============================================================================
