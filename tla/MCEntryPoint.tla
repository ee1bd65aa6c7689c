---------------------------- MODULE MCEntryPoint ----------------------------
(* All the acyclic lists of at most MaxLen elements.                       *)
EXTENDS EntryPoint

CONSTANT MaxLen    \* bound on the length of a list

MCInit ==
  /\ contents \in [List -> UNION {[1..n -> Value \ {MainList}] : n \in 0..MaxLen}]
  /\ Acyclic
  /\ kind \in {"proto", "string"}
  /\ flatten \in BOOLEAN
  /\ Idle

MCSpec == MCInit /\ [][MainNext]_mainVars /\ WF_mainVars(MainNext)
=============================================================================
