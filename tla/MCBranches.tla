----------------------------- MODULE MCBranches -----------------------------
(* Small instances of CompareBranches for TLC. *)
EXTENDS CompareBranches, TLC

CONSTANTS a, b, p, q

\* Two commits with different files.
MCContent == (a :> "one") @@ (b :> "two")

\* Local branches that are behind, missing or nowhere; no main; no main and no
\* master; a detached HEAD.
Refs(main, master, feature) ==
    [n \in Branches |-> CASE n = "main" -> main [] n = "master" -> master [] OTHER -> feature]
Repository(at, here, there) == [head |-> at, local |-> here, origin |-> there]
MCRepositories ==
    {Repository("main", Refs(a, None, b), Refs(b, None, b)),
     Repository("main", Refs(a, None, None), Refs(b, None, b)),
     Repository("feature", Refs(None, None, b), Refs(None, None, None)),
     Repository(a, Refs(None, None, b), Refs(None, None, None)),
     Repository(a, Refs(None, a, b), Refs(b, None, b))}

MCUpstream == ("origin/main" :> "main") @@ ("origin/feature" :> "feature")

\* The last two name revisions that are no branches; the CI gate of
\* docs/BRANCH-COMPARE.md is the first of them.
MCFlags == {[base |-> "main", head |-> "feature", allowDirty |-> dirty, skipBuild |-> FALSE] : dirty \in BOOLEAN}
           \cup {[base |-> "feature", head |-> "main", allowDirty |-> TRUE, skipBuild |-> TRUE],
                 [base |-> "origin/main", head |-> "HEAD", allowDirty |-> FALSE, skipBuild |-> FALSE],
                 [base |-> a, head |-> "origin/feature", allowDirty |-> TRUE, skipBuild |-> TRUE]}
Symmetry == Permutations(Comparers)
=============================================================================
