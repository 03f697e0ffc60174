----------------------------- MODULE MCAgentTools -----------------------------
(* AgentTools on a small process tree, for a query that a log with one event *)
(* shows, and globs that match everything or one leaf below the group.       *)
EXTENDS AgentTools, MCTrees

One == {1}
Globs == {Paths, {a}}
OneOrAll == {1, 50}

\* list_tree against what its documentation says: every node at most `depth`
\* levels below p, once, top down.
Below(t, p, q) == /\ p # q /\ InTree(t, q)
                  /\ p \in {q, Parent[q], Parent[Parent[q]], root}
ASSUME ListingIsBreadthFirst ==
  \A t \in Trees, p \in Paths, depth \in 1 .. 3 :
    LET rows == Listing(t, p, depth)
        Level(q) == Depth[q] - Depth[p]
    IN  /\ Range(rows) =
             {q \in Paths : InTree(t, p) /\ Below(t, p, q) /\ Level(q) \in 1 .. depth}
        /\ \A i, j \in 1 .. Len(rows) :
             i < j => Level(rows[i]) <= Level(rows[j]) /\ rows[i] # rows[j]
=============================================================================
