------------------------------ MODULE MCScaffold ------------------------------
(* Instances of Scaffold: a spec with one view, the same spec with a second  *)
(* view and a reducer, and one that parses but cannot be rendered.           *)
EXTENDS Scaffold, TLC

CONSTANTS small, grown, forest, spend, vendors, total

SmallOrGrown == {small, grown}
SmallOrForest == {small, forest}
MCRenderable == Specs \ {forest}
Declares(views, reducers) == "views.py" :> views @@ "reducers.py" :> reducers
MCStubs ==
  [s \in Specs |->
     IF s = grown THEN Declares(<<spend, vendors>>, <<total>>)
     ELSE Declares(<<spend>>, << >>)]

OnlyDef == {"def"}
AnyForm == {"def", "other"}
=============================================================================
