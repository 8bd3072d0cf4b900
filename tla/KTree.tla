-------------------------------- MODULE KTree --------------------------------
(* What every program works on once conf_parse has returned: the finished menu  *)
(* tree, which is never changed again, and the lines of the files. A file is a  *)
(* sequence of lines [sym, val]; "# X is not set" has the value "unset".        *)
EXTENDS Integers, KNames

CONSTANT tree           \* the finished menu tree, with the properties of every symbol

Nodes       == DOMAIN tree.node
SymOf(k)    == tree.node[k].sym
ParentOf(k) == tree.par[k]

PromptType(k) == tree.node[k].props[tree.node[k].prompt].type
HasPrompt(k)  == tree.node[k].prompt # 0

NoNode == -1

ASSUME RootAssumption == 0 \in Nodes /\ Nodes \subseteq Nat

Line(s, v) == [sym |-> s, val |-> v]
Missing    == <<Line("", "missing")>>       \* no such file
=============================================================================
