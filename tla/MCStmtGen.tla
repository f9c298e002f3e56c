------------------------------ MODULE MCStmtGen ------------------------------
(* StmtGen for TLC: which statements the explored bodies are made of.       *)
EXTENDS StmtRuns

EveryLoop == {"while", "do", "for", "break", "continue", "expr"}
EverySwitch == {"switch", "case", "default", "if", "do", "block", "break", "continue", "return"}
SwitchInBlock == {"switch", "case", "if", "block", "return"}

InitOrStep == {[init |-> TRUE, step |-> FALSE], [init |-> FALSE, step |-> TRUE]}
==============================================================================
