------------------------------ MODULE SpecProject ------------------------------
(***************************************************************************)
(* From pmstate.yaml to a project that runs: what parse_spec accepts, the  *)
(* tree.py and add.py that init --from-spec and --upgrade make of it, what *)
(* becomes of tree.py when Python imports it, and what pmstate validate    *)
(* says, whatever the user has edited since.  How the files get on the     *)
(* disk is in Scaffold; here they are functions of the document.           *)
(*                                                                         *)
(* Absent is a key that is missing or a string that is empty, Wrong a      *)
(* value of another type.                                                  *)
(***************************************************************************)
EXTENDS Integers, Sequences, SequencesExt

CONSTANTS
  Docs,      \* documents that are YAML mappings, and Absent for the others
  Later,     \* those that a user may turn pmstate.yaml into
  Unfit,     \* names that Node refuses: with a slash, or the empty end of a path
  NotNames,  \* strings that are not Python identifiers
  Taken,     \* identifiers that tree.py itself calls: Node, Tree, Path
  ReadAs(_), \* a name as Python reads it between quotes; Absent if it does not parse
  Absent, Wrong

ASSUME LaterAssumption == Later \subseteq Docs

VARIABLE project

\* Nothing has been made of a document yet.
NoProject ==
  [phase |-> "none",
   spec |-> Absent,     \* what pmstate.yaml holds
   treeOf |-> Absent,   \* the document that tree.py was rendered from; Absent once edited
   leaves |-> {},       \* LEAVES in add.py
   spoilt |-> {},       \* those of views.py and reducers.py that do not import
   agentsMd |-> "text",
   tree |-> Absent, issues |-> {}] \* what validate built and found

SpecInit == project = NoProject

-----------------------------------------------------------------------------
(* parse_spec. *)

\* raw.get("state", "log").
StateOf(child) == IF child.state = Absent THEN "log" ELSE child.state

ChildAccepted(child) ==
  /\ child.name \notin {Absent, Wrong}
  /\ StateOf(child) \in {"log", "table", "none"}
  /\ Wrong \notin {child.view, child.reducer} /\ ~ child.unknown

\* A path is the sequence of its segments.
TreeAccepted(node) ==
  /\ node.path \notin {Absent, Wrong} /\ node.path # << >>
  /\ node.reducer # Wrong /\ ~ node.unknown
  /\ node.children \notin {Absent, Wrong}
  /\ \A i \in DOMAIN node.children : ChildAccepted(node.children[i])

\* events: the schema of each type, a function from fields to type names.
SchemaAccepted(schema) ==
  schema # Wrong /\ \A f \in DOMAIN schema : schema[f] \in {"str", "int", "float", "bool"}

ParseAccepts(doc) ==
  /\ doc # Absent
  /\ doc.root \notin {Absent, Wrong}
  /\ doc.nodes \notin {Absent, Wrong}
  /\ \A i \in DOMAIN doc.nodes : TreeAccepted(doc.nodes[i])
  /\ \A e \in doc.events : SchemaAccepted(e)

-----------------------------------------------------------------------------
(* _generated_files. *)

Children(doc) == Range(doc.nodes[1].children)

\* _render_tree raises for anything but one tree node, under the root.
Renders(doc) ==
  /\ Len(doc.nodes) = 1
  /\ Len(doc.nodes[1].path) >= 2 /\ doc.nodes[1].path[1] = doc.root

FileOf(child) ==
  CASE StateOf(child) = "log" -> <<ReadAs(child.name), "jsonl">>
    [] StateOf(child) = "table" -> <<ReadAs(child.name), "json">>
    [] OTHER -> Absent

\* A missing file is none of the files.
ASSUME FileAssumption ==
  \A doc \in Docs : ParseAccepts(doc) /\ Renders(doc) =>
    \A child \in Children(doc) : <<ReadAs(child.name), "jsonl">> # Absent

\* tree.py: the root, under it the last segment of the path, and its children.
Rendered(doc) ==
  [root |-> ReadAs(doc.root), name |-> ReadAs(Last(doc.nodes[1].path)),
   children |-> [i \in DOMAIN doc.nodes[1].children |->
     LET child == doc.nodes[1].children[i]
     IN  [name |-> ReadAs(child.name), file |-> FileOf(child)]]]

Views(doc) == {c.view : c \in Children(doc)} \ {Absent}
Reducers(doc) == ({c.reducer : c \in Children(doc)} \union {doc.nodes[1].reducer}) \ {Absent}

\* The files that a stub with the name of no function spoils.
Spoilt(doc) ==
  {f \in {"views.py", "reducers.py"} :
     (IF f = "views.py" THEN Views(doc) ELSE Reducers(doc)) \cap NotNames # {}}

\* LEAVES in add.py.
LogLeafNames(doc) == {ReadAs(c.name) : c \in {d \in Children(doc) : StateOf(d) = "log"}}
LeavesDict(doc) == {<<name, <<name, "jsonl">>>> : name \in LogLeafNames(doc)}

\* _build_tree of tree.py as rendered.  It imports views.py and reducers.py only
\* for the names it uses; Node refuses two children of one name, and names of its
\* own.  The parser looks at none of this.
Builds(doc, spoilt) ==
  LET tree == Rendered(doc)
      names == [i \in DOMAIN tree.children |-> tree.children[i].name]
  IN  /\ (Views(doc) \union Reducers(doc)) \cap (NotNames \union Taken) = {}
      /\ Views(doc) # {} => "views.py" \notin spoilt
      /\ Reducers(doc) # {} => "reducers.py" \notin spoilt
      /\ ({tree.root, tree.name} \union Range(names)) \cap (Unfit \union {Absent}) = {}
      /\ IsInjective(names)

-----------------------------------------------------------------------------
(* The commands. *)

\* What validate found is about the files as they were.
Touched(p) == [p EXCEPT !.phase = "made", !.tree = Absent, !.issues = {}]

\* cmd_init: a document that is not accepted is reported; one that does not
\* render raises; nothing has been written in either case.
Made(doc) ==
  IF ~ ParseAccepts(doc) THEN [NoProject EXCEPT !.phase = "refused"]
  ELSE IF ~ Renders(doc) THEN [NoProject EXCEPT !.phase = "raised"]
  ELSE [NoProject EXCEPT !.phase = "made", !.spec = doc, !.treeOf = doc,
          !.leaves = LeavesDict(doc), !.spoilt = Spoilt(doc)]

InitFromSpec == project.phase = "none" /\ \E doc \in Docs : project' = Made(doc)

\* Mutant: add.py is left alone, as chat.py is.
UpgradedNoAdd(p, force) ==
  [Touched(p) EXCEPT
     !.treeOf = p.spec, !.spoilt = (IF force THEN {} ELSE p.spoilt) \union Spoilt(p.spec),
     !.agentsMd = IF p.agentsMd = "missing" THEN "text" ELSE p.agentsMd]

\* _do_upgrade: tree.py and add.py are written anew, views.py and reducers.py
\* too under --force; otherwise the stubs they lack are appended.
Upgraded(p, force) ==
  [Touched(p) EXCEPT
     !.treeOf = p.spec, !.leaves = LeavesDict(p.spec),
     !.spoilt = (IF force THEN {} ELSE p.spoilt) \union Spoilt(p.spec),
     !.agentsMd = IF p.agentsMd = "missing" THEN "text" ELSE p.agentsMd]

IsProject == project.phase \in {"made", "validated"}

\* A document that does not parse is reported and one that does not render
\* raises, before anything is written.
Upgrade ==
  /\ IsProject /\ ParseAccepts(project.spec) /\ Renders(project.spec)
  /\ \E force \in BOOLEAN : project' = Upgraded(project, force)

\* The user: any of the files may be edited at any time.
EditSpec == IsProject /\ \E doc \in Later : project' = [Touched(project) EXCEPT !.spec = doc]
EditTree == IsProject /\ project' = [Touched(project) EXCEPT !.treeOf = Absent]
EditCode ==
  /\ IsProject
  /\ \E spoilt \in SUBSET {"views.py", "reducers.py"} :
       project' = [Touched(project) EXCEPT !.spoilt = spoilt]
EditAgents ==
  /\ IsProject
  /\ \E md \in {"text", "empty", "missing"} : project' = [Touched(project) EXCEPT !.agentsMd = md]

\* cmd_validate.  The tree is built only if the spec parses, the root's view
\* computed only if the tree was built.  What the user's own tree.py does is not
\* known, nor whether the view raises (it may on the storage, or on a result that
\* has no JSON; what views and reducers raise is data).
Validated(p, ownBuilds, raises) ==
  LET parses == ParseAccepts(p.spec)
      builds == IF p.treeOf = Absent THEN ownBuilds ELSE Builds(p.treeOf, p.spoilt)
  IN  [p EXCEPT
         !.phase = "validated",
         !.tree = IF parses /\ builds /\ p.treeOf # Absent THEN Rendered(p.treeOf) ELSE Absent,
         !.issues =
           (IF parses THEN {} ELSE {<<"error", "pmstate.yaml">>}) \union
           (IF parses /\ ~ builds THEN {<<"error", "tree.py">>} ELSE {}) \union
           (IF parses /\ builds /\ raises THEN {<<"error", "views.py">>} ELSE {}) \union
           (CASE p.agentsMd = "empty" -> {<<"error", "AGENTS.md">>}
              [] p.agentsMd = "missing" -> {<<"warn", "AGENTS.md">>}
              [] OTHER -> {})]

Validate ==
  /\ project.phase = "made"
  /\ \E ownBuilds, raises \in BOOLEAN : project' = Validated(project, ownBuilds, raises)

SpecNext ==
  InitFromSpec \/ Upgrade \/ EditSpec \/ EditTree \/ EditCode \/ EditAgents \/ Validate

ProjectSpec == SpecInit /\ [][SpecNext]_project

-----------------------------------------------------------------------------
(* Properties. *)

Blamed(file) == <<"error", file>> \in project.issues

\* The names in a document that make a tree.py that cannot be built.
BadNames(doc) ==
  LET declared == doc.nodes[1].children
  IN  \/ \E i, j \in DOMAIN declared : i # j /\ ReadAs(declared[i].name) = ReadAs(declared[j].name)
      \/ \E name \in {doc.root, Last(doc.nodes[1].path)} \union {c.name : c \in Range(declared)} :
           ReadAs(name) \in Unfit \union {Absent}
      \/ (Views(doc) \union Reducers(doc)) \cap (NotNames \union Taken) # {}

\* Every child that the document declares is one node of the tree, with a file
\* that no other leaf has, and add.py writes the logs of the tree, nothing else.
TreeIsDeclared(doc) ==
  LET nodes == project.tree.children
  IN  /\ \A c \in Children(doc) :
           {n \in Range(nodes) : n.name = ReadAs(c.name)} = {[name |-> ReadAs(c.name), file |-> FileOf(c)]}
      /\ \A i, j \in DOMAIN nodes : nodes[i].file = nodes[j].file /\ i # j => nodes[i].file = Absent
      /\ project.leaves =
           {<<n.name, n.file>> : n \in {m \in Range(nodes) : m.file # Absent /\ m.file[2] = "jsonl"}}

\* "checks that build_tree() and views compute" (docs/cli.md:17), after any edits
\* and upgrades.  pmstate.yaml is blamed just when it does not parse, and then
\* no other code is.  A tree.py that nobody edited since it was rendered is blamed
\* only for names in the document it was rendered from, which may be another
\* than pmstate.yaml holds by now, or for a file that does not import any more;
\* when it is not blamed, tree and add.py are what that document declares.
ValidateIsRight ==
  project.phase = "validated" =>
    /\ Blamed("pmstate.yaml") <=> ~ ParseAccepts(project.spec)
    /\ Blamed("pmstate.yaml") => ~ Blamed("tree.py") /\ ~ Blamed("views.py")
    /\ Blamed("tree.py") => ~ Blamed("views.py")
    /\ project.treeOf # Absent /\ ~ Blamed("pmstate.yaml") =>
         IF Blamed("tree.py")
         THEN \/ BadNames(project.treeOf)
              \/ Views(project.treeOf) # {} /\ "views.py" \in project.spoilt
              \/ Reducers(project.treeOf) # {} /\ "reducers.py" \in project.spoilt
         ELSE ~ BadNames(project.treeOf) /\ TreeIsDeclared(project.treeOf)
=============================================================================
