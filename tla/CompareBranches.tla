--------------------------- MODULE CompareBranches ---------------------------
(***************************************************************************)
(* stratabench compare branches: check out a branch, build it, benchmark   *)
(* it, do the same for a second one and go back.  Commands of several      *)
(* processes, or of one that was killed and started again, share the       *)
(* repository.  One tracked file stands for those that a user edits or a   *)
(* build regenerates.                                                      *)
(***************************************************************************)
EXTENDS Naturals

CONSTANTS
    Branches,      \* names; "main" and "master" have a meaning
    Commits,
    Upstream,      \* what a remote-tracking name, "origin/main", stands for: the branch
    Content,       \* the tracked file in each commit
    Comparers,     \* processes
    Flags,         \* of the commands: base, head, allowDirty, skipBuild
    Repositories,  \* at the start: head, local, origin
    MaxCompares, MaxFaults,
    None

\* What the flags may name: all that git checkout accepts.
Upstreams == DOMAIN Upstream
Revisions == Branches \cup Commits \cup Upstreams \cup {"HEAD"}

ASSUME BranchesAssumption ==
    /\ {"main", "master"} \subseteq Branches /\ None \notin Commits
    /\ "HEAD" \notin Branches \cup Commits \cup Upstreams
    /\ Branches \cap (Commits \cup Upstreams) = {} /\ Commits \cap Upstreams = {}
    /\ \A u \in Upstreams : Upstream[u] \in Branches
    /\ Content \in [Commits -> {"one", "two"}]
    /\ Flags \subseteq [base : Revisions, head : Revisions, allowDirty : BOOLEAN, skipBuild : BOOLEAN]
    /\ \A r \in Repositories :
         /\ r.local \in [Branches -> Commits \cup {None}] /\ r.origin \in [Branches -> Commits \cup {None}]
         /\ r.head \in {b \in Branches : r.local[b] # None} \cup Commits
    /\ MaxCompares \in Nat /\ MaxFaults \in Nat

VARIABLES
    head,      \* the branch that is checked out, or the commit of a detached HEAD
    local,     \* refs/heads
    origin,    \* refs/remotes/origin
    tree,      \* the tracked file in the working tree
    artifact,  \* what was built last: its commit and file
    cmd,       \* the state of each process
    compares, faults,
    started,   \* history: the repository when the process began
    overlap,   \* history: processes that did not have it for themselves
    spoiled,   \* history: processes whose build changed the tracked file
    blind      \* history: processes for which git failed while it was asked for provenance

repo    == <<head, local, origin, tree>>
history == <<started, overlap, spoiled, blind>>
vars == <<repo, artifact, cmd, compares, faults, history>>

Roles == {"base", "head"}
Idle == [pc |-> "idle", base |-> "main", head |-> "main", allowDirty |-> FALSE, skipBuild |-> FALSE,
         role |-> "base", orig |-> "main", result |-> FALSE,
         sha |-> [r \in Roles |-> None], dirty |-> [r \in Roles |-> FALSE],
         measured |-> [r \in Roles |-> None]]

-----------------------------------------------------------------------------
(* git.                                                                    *)

Commit == IF head \in Branches THEN local[head] ELSE head
Dirty  == tree # Content[Commit]

\* BranchExists: here or at origin.
BranchExists(b) == local[b] # None \/ origin[b] # None

\* rev-parse --abbrev-ref: a detached HEAD is called "HEAD".
Current == IF head \in Branches THEN head ELSE "HEAD"

DefaultBranch == IF BranchExists("main") THEN "main"
                 ELSE IF BranchExists("master") THEN "master" ELSE Current

\* A change to the file is carried along when both commits have the same one.
\* A branch is checked out; for anything else the HEAD is detached at the
\* commit, and for "HEAD" nothing happens.
CanSwitch(k) == k # None /\ (~Dirty \/ Content[Commit] = Content[k])
Switch(rev, k) ==
    /\ CanSwitch(k)
    /\ head'  = (IF rev \in Branches THEN rev ELSE IF rev = "HEAD" THEN head ELSE k)
    /\ local' = (IF rev \in Branches THEN [local EXCEPT ![rev] = k] ELSE local)
    /\ tree'  = (IF Dirty THEN tree ELSE Content[k])
    /\ UNCHANGED origin

\* git checkout <revision>; a branch that is only at origin is created.
Tip(rev) ==
    IF rev \in Branches THEN IF local[rev] # None THEN local[rev] ELSE origin[rev]
    ELSE IF rev \in Upstreams THEN origin[Upstream[rev]]
    ELSE IF rev = "HEAD" THEN Commit ELSE rev
\* Mutant: the branch is taken from origin at once.
FromOrigin(rev) == Switch(rev, IF rev \in Branches /\ origin[rev] # None THEN origin[rev] ELSE Tip(rev))

SwitchTo(rev) == Switch(rev, Tip(rev))

\* git checkout -B <revision> origin/<revision>: a branch is reset.  There is
\* no origin/origin/main and no branch may be called HEAD.
CanReset(rev) == rev \in Branches /\ CanSwitch(origin[rev])
Reset(rev)    == rev \in Branches /\ Switch(rev, origin[rev])

\* A git command fails for a moment: another one holds the lock.
Fault == faults < MaxFaults /\ faults' = faults + 1

\* Checkout: when the first command fails, whatever the reason, the second.
Succeeds(rev) == CanSwitch(Tip(rev))
CheckoutOK(rev) ==
    \/ SwitchTo(rev) /\ UNCHANGED faults
    \/ Reset(rev) /\ ~Succeeds(rev) /\ UNCHANGED faults
    \/ Reset(rev) /\ Fault
CheckoutFails(rev) ==
    /\ (~Succeeds(rev) /\ ~CanReset(rev) /\ UNCHANGED faults) \/ Fault
    /\ UNCHANGED repo

-----------------------------------------------------------------------------
(* One comparison.                                                         *)

Init ==
    /\ \E r \in Repositories : head = r.head /\ local = r.local /\ origin = r.origin
    /\ tree \in {Content[Commit], "edited"}
    /\ artifact = None /\ cmd = [c \in Comparers |-> Idle] /\ compares = 0 /\ faults = 0
    /\ started = [c \in Comparers |-> None] /\ overlap = {} /\ spoiled = {} /\ blind = {}

At(c, pc) == cmd[c].pc = pc
To(c, next) == cmd' = [cmd EXCEPT ![c] = next]
Going(c, pc) == To(c, [cmd[c] EXCEPT !.pc = pc])
Busy == {c \in Comparers : cmd[c].pc # "idle"}

\* Flags; a base "main" that does not exist is replaced by the default branch.
Begin(c) ==
    /\ At(c, "idle") /\ compares < MaxCompares /\ compares' = compares + 1
    /\ \E f \in Flags :
         To(c, [Idle EXCEPT !.pc = "capture", !.head = f.head,
                            !.base = IF f.base = "main" /\ ~BranchExists("main") THEN DefaultBranch ELSE f.base,
                            !.allowDirty = f.allowDirty, !.skipBuild = f.skipBuild])
    /\ started' = [started EXCEPT ![c] = [head |-> head, commit |-> Commit, local |-> local, dirty |-> Dirty]]
    /\ overlap' = (IF Busy = {} THEN overlap \ {c} ELSE overlap \cup Busy \cup {c})
    /\ spoiled' = spoiled \ {c} /\ blind' = blind \ {c}
    /\ UNCHANGED <<repo, artifact, faults>>

\* The branch to go back to; a dirty tree is refused unless it is allowed.
\* git.Capture: an error ends the command; that git status failed is not
\* looked at, and the tree is taken to be clean.
Capture(c) ==
    /\ At(c, "capture")
    /\ \/ /\ To(c, [cmd[c] EXCEPT !.orig = Current,
                  !.pc = IF Dirty /\ ~cmd[c].allowDirty THEN "restore" ELSE "checkout"])
          /\ UNCHANGED faults
       \/ Fault /\ To(c, [cmd[c] EXCEPT !.orig = Current, !.pc = "checkout"])
       \/ Fault /\ Going(c, "done")
    /\ UNCHANGED <<repo, artifact, compares, history>>

Branch(c) == IF cmd[c].role = "base" THEN cmd[c].base ELSE cmd[c].head

\* Mutant: an error of git checkout is not looked at.
CheckoutAnyway(c) ==
    /\ At(c, "checkout") /\ Going(c, "build")
    /\ CheckoutOK(Branch(c)) \/ CheckoutFails(Branch(c))
    /\ UNCHANGED <<artifact, compares, history>>

Checkout(c) ==
    /\ At(c, "checkout")
    /\ \/ CheckoutOK(Branch(c)) /\ Going(c, "build")
       \/ CheckoutFails(Branch(c)) /\ Going(c, "restore")
    /\ UNCHANGED <<artifact, compares, history>>

\* runBuild: it may regenerate a tracked file and may fail.
Regenerates(c) ==
    \/ UNCHANGED <<tree, spoiled>>
    \/ tree' = "generated" /\ spoiled' = spoiled \cup {c}
runBuild(c) ==
    /\ At(c, "build")
    /\ \/ /\ cmd[c].skipBuild /\ Going(c, "provenance")
          /\ UNCHANGED <<tree, artifact, spoiled>>
       \/ /\ ~cmd[c].skipBuild /\ Regenerates(c) /\ Going(c, "provenance")
          /\ artifact' = [commit |-> Commit, file |-> tree]
       \/ /\ ~cmd[c].skipBuild /\ Regenerates(c) /\ Going(c, "restore")
          /\ UNCHANGED artifact
    /\ UNCHANGED <<head, local, origin, compares, faults, started, overlap, blind>>

\* provenance.Capture: the commit that is checked out; the branch is the
\* revision that was asked for.  Without an answer of git the commit or the
\* dirty flag is missing.
Provenance(c) ==
    /\ At(c, "provenance")
    /\ \/ /\ To(c, [cmd[c] EXCEPT !.pc = "run", !.sha[cmd[c].role] = Commit, !.dirty[cmd[c].role] = Dirty])
          /\ UNCHANGED <<faults, blind>>
       \/ /\ Fault /\ blind' = blind \cup {c}
          /\ \E sha \in {Commit, None} :
               To(c, [cmd[c] EXCEPT !.pc = "run", !.sha[cmd[c].role] = sha, !.dirty[cmd[c].role] = FALSE])
    /\ UNCHANGED <<repo, artifact, compares, started, overlap, spoiled>>

\* Service.Run: it measures what was built, or the tree without a build.
Run(c) ==
    /\ At(c, "run")
    /\ LET what == IF cmd[c].skipBuild THEN [commit |-> Commit, file |-> tree] ELSE artifact
           done == [cmd[c] EXCEPT !.measured[cmd[c].role] = what]
       IN  \/ cmd[c].role = "base" /\ To(c, [done EXCEPT !.pc = "checkout", !.role = "head"])
           \/ cmd[c].role = "head" /\ To(c, [done EXCEPT !.pc = "restore", !.result = TRUE])
           \/ Going(c, "restore")
    /\ UNCHANGED <<repo, artifact, compares, faults, history>>

\* Mutant: the deferred checkout is only reached without an error.
RestoreOnSuccess(c) ==
    /\ At(c, "restore") /\ Going(c, "done")
    /\ IF cmd[c].result THEN CheckoutOK(cmd[c].orig) \/ CheckoutFails(cmd[c].orig)
       ELSE UNCHANGED <<repo, faults>>
    /\ UNCHANGED <<artifact, compares, history>>

\* The deferred checkout; nobody looks at its error.
Restore(c) ==
    /\ At(c, "restore") /\ Going(c, "done")
    /\ CheckoutOK(cmd[c].orig) \/ CheckoutFails(cmd[c].orig)
    /\ UNCHANGED <<artifact, compares, history>>

\* The command has printed the comparison, or the error.
Report(c) ==
    /\ At(c, "done") /\ To(c, Idle)
    /\ UNCHANGED <<repo, artifact, compares, faults, history>>

\* The process is interrupted: it handles no signal, deferred calls do not run.
Kill(c) ==
    /\ c \in Busy /\ Fault /\ To(c, Idle)
    /\ UNCHANGED <<repo, artifact, compares, history>>

Step(c) == \/ Begin(c) \/ Capture(c) \/ Checkout(c) \/ runBuild(c) \/ Provenance(c)
           \/ Run(c) \/ Restore(c) \/ Report(c) \/ Kill(c)
Next == \E c \in Comparers : Step(c)
Spec == Init /\ [][Next]_vars

-----------------------------------------------------------------------------
(* Properties.                                                             *)

\* The comparison had the repository for itself.
Alone(c) == At(c, "done") /\ c \notin overlap

\* The commit a revision stood for when the command began.
Was(c, rev) ==
    IF rev \in Branches
    THEN IF started[c].local[rev] # None THEN started[c].local[rev] ELSE origin[rev]
    ELSE IF rev \in Upstreams THEN origin[Upstream[rev]]
    ELSE IF rev = "HEAD" THEN started[c].commit ELSE rev

Asked(c, r) == IF r = "base" THEN cmd[c].base ELSE cmd[c].head

\* Both runs measured the commit they are labelled with, and the file it has
\* unless the label says "dirty".  That commit is what the revision asked for
\* stood for when the command began, unless the fallback of Checkout reset
\* the branch; but a head "HEAD" is what the base checkout left (see
\* HeadIsMeasured).
LabelsTrue ==
    \A c \in Comparers : Alone(c) /\ cmd[c].result => \A r \in Roles :
        LET measured == cmd[c].measured[r]
        IN  /\ cmd[c].sha[r] = measured.commit \/ (cmd[c].sha[r] = None /\ c \in blind)
            /\ measured.file = Content[measured.commit] \/ cmd[c].dirty[r] \/ c \in blind
            /\ IF r = "head" /\ cmd[c].head = "HEAD" THEN measured.commit = cmd[c].measured["base"].commit
               ELSE \/ measured.commit = Was(c, Asked(c, r))
                    \/ faults > 0 \/ started[c].dirty \/ c \in spoiled

\* The run labelled "HEAD" measured the commit that was checked out when the
\* command began, as docs/BRANCH-COMPARE.md (CI gate) has it.  The code
\* resolves HEAD after it has checked out the base: no run checks this.
HeadIsMeasured ==
    \A c \in Comparers :
        Alone(c) /\ cmd[c].result /\ cmd[c].head = "HEAD" =>
            cmd[c].measured["head"].commit = started[c].commit

\* Whatever failed, the repository is as before when the command began on a
\* branch, with a clean tree, and no build touched a tracked file.
RestoresCleanRepository ==
    \A c \in Comparers :
        /\ Alone(c) /\ faults = 0 /\ c \notin spoiled
        /\ started[c].head \in Branches /\ ~started[c].dirty
        => /\ head = started[c].head /\ ~Dirty
           /\ \A b \in Branches : local[b] \in {started[c].local[b]} \cup
                                    (IF started[c].local[b] = None THEN {origin[b]} ELSE {})

\* A branch moves only while the tree is dirty, or when a checkout failed for a
\* moment, even with several commands at work.
BranchesStay ==
    [][\A b \in Branches : local[b] # None /\ local'[b] # local[b] => Dirty \/ faults' > faults]_vars
=============================================================================
