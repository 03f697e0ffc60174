------------------------------- MODULE MCSession -------------------------------
(***************************************************************************)
(* The parts of a program that live in its memory, in one instance: the    *)
(* trees it holds, the upcasters it registers, its runs of the agent, and  *)
(* the project it makes of a spec.  They share nothing here, so a          *)
(* behaviour is about one of them.                                         *)
(***************************************************************************)
EXTENDS ProcessTree, Upcasting, Harness, SpecProject

CONSTANTS a, b, c, q, r, x, y

\* a becomes b; b becomes c or something without a type; c becomes b.
Conversions == {<<a, b>>, <<b, c>>, <<c, b>>, <<b, None>>}
Filters == {{a, b, c}, {c}}
Lines == <<a, c, b>>
OneOrNone == {1, None}

\* c has a slash, the quotes do not close after q, y reads as x, b is Node.
Read(name) == IF name = q THEN Absent ELSE IF name = y THEN x ELSE name

\* Documents with every fault that parse_spec looks for, those that do not render,
\* and those whose names make a tree.py that does not import.
SomeChild == [name |-> x, state |-> "log", view |-> Absent, reducer |-> Absent, unknown |-> FALSE]
Leaves ==
  [name : {x, a, y, c}, state : {Absent, "table", "none"}, view : {Absent}, reducer : {Absent},
   unknown : {FALSE}]
Functions == {[SomeChild EXCEPT !.view = f, !.reducer = g] : f \in {Absent, a, b, c}, g \in {Absent, a, c}}
BadChildren ==
  {[SomeChild EXCEPT !.name = Absent], [SomeChild EXCEPT !.state = Wrong],
   [SomeChild EXCEPT !.view = Wrong], [SomeChild EXCEPT !.unknown = TRUE]}
DocKids ==
  BoundedSeq(Leaves \union BadChildren, 2) \union BoundedSeq(Functions, 1) \union
    {<<[SomeChild EXCEPT !.name = q]>>, Wrong}
Node(path, kids) == [path |-> path, reducer |-> Absent, children |-> kids, unknown |-> FALSE]
DocNodes ==
  {Node(path, kids) : path \in {<< >>, <<r>>, <<r, a>>, <<a, r>>, <<r, c>>}, kids \in DocKids}
Odd ==
  {[Node(<<r, a>>, << >>) EXCEPT !.unknown = TRUE], [Node(<<r, b, a>>, << >>) EXCEPT !.reducer = a],
   [Node(<<r, a>>, << >>) EXCEPT !.reducer = Wrong]}
OneTree(kids) == [root |-> r, nodes |-> <<Node(<<r, a>>, kids)>>, events |-> {}]
MCLater == {Absent, OneTree(<<SomeChild>>), OneTree(<<[SomeChild EXCEPT !.name = a, !.view = c]>>)}
MCDocs ==
  MCLater \union
  {[root |-> r, nodes |-> <<n>>, events |-> {}] : n \in DocNodes \union Odd} \union
  [root : {r, Wrong}, nodes : {Wrong, << >>, <<Node(<<r, a>>, << >>), Node(<<r, b>>, << >>)>>,
                               <<Node(<<r, a>>, <<SomeChild>>)>>},
   events : {{}, {Wrong}, {[field |-> "int"]}, {[field |-> "date"]}}]

VARIABLE part

Init ==
  /\ part \in {"tree", "upcasting", "harness", "project"}
  /\ TreeInit /\ UpInit /\ HarnessInit /\ SpecInit
  /\ part # "harness" => agentsMd = NoFile

Next ==
  /\ UNCHANGED part
  /\ \/ part = "tree" /\ TreeNext /\ UNCHANGED <<upcastVars, harnessVars, project>>
     \/ part = "upcasting" /\ UpNext /\ UNCHANGED <<treeVars, harnessVars, project>>
     \/ part = "harness" /\ HarnessNext /\ UNCHANGED <<treeVars, upcastVars, project>>
     \/ part = "project" /\ SpecNext /\ UNCHANGED <<treeVars, upcastVars, harnessVars>>

Spec ==
  /\ Init /\ [][Next]_<<part, treeVars, upcastVars, harnessVars, project>>
  /\ UpFairness /\ HarnessFairness
=============================================================================
