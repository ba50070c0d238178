---------------------------- MODULE BranchProofs ----------------------------
(***************************************************************************)
(* What comparing branches does to a repository, for any branches, commits *)
(* and flags, any number of processes, failures and interruptions.         *)
(***************************************************************************)
EXTENDS CompareBranches, TLAPS

Files == {"one", "two", "edited", "generated"}
Builds == [commit : Commits, file : Files]
Steps == {"capture", "checkout", "build", "provenance", "run", "restore", "done"}
Commands ==
    [pc : {"idle"} \cup Steps, base : Revisions, head : Revisions, orig : Revisions, role : Roles,
     allowDirty : BOOLEAN, skipBuild : BOOLEAN, result : BOOLEAN,
     sha : [Roles -> Commits \cup {None}], dirty : [Roles -> BOOLEAN],
     measured : [Roles -> Builds \cup {None}]]
Starts ==
    {r \in [head : Branches \cup Commits, commit : Commits,
             local : [Branches -> Commits \cup {None}], dirty : BOOLEAN] :
        /\ r.head \in Branches => r.local[r.head] # None
        /\ r.commit = IF r.head \in Branches THEN r.local[r.head] ELSE r.head}

Repository ==
    /\ head \in Branches \cup Commits
    /\ local \in [Branches -> Commits \cup {None}] /\ origin \in [Branches -> Commits \cup {None}]
    /\ head \in Branches => local[head] # None
    /\ tree \in Files

Typed ==
    /\ Repository
    /\ artifact \in Builds \cup {None} /\ cmd \in [Comparers -> Commands]
    /\ compares \in Nat /\ faults \in Nat
    /\ started \in [Comparers -> Starts \cup {None}]
    /\ \A c \in Comparers : cmd[c].pc # "idle" => started[c] \in Starts

\* Who has had the repository for itself has it still.
Undisturbed(c) == cmd[c].pc # "idle" /\ c \notin overlap
Sole == \A c, d \in Comparers : Undisturbed(c) /\ cmd[d].pc # "idle" => d = c

-----------------------------------------------------------------------------
\* Branches are reset only when a checkout failed, which without uncommitted
\* changes and faults means that there is no local branch.
LEMMA CheckoutKeepsBranches ==
    ASSUME local \in [Branches -> Commits \cup {None}], faults \in Nat, ~Dirty,
           NEW x, CheckoutOK(x) \/ CheckoutFails(x),
           NEW b \in Branches, local[b] # None
    PROVE  local'[b] = local[b] \/ faults' > faults
<1>1. CASE CheckoutFails(x)
  BY <1>1 DEF CheckoutFails, repo
<1>2. CASE Fault
  BY <1>2 DEF Fault
<1>3. CASE SwitchTo(x)
  BY <1>3 DEF SwitchTo, Switch, Tip
<1>4. CASE ~Succeeds(x) /\ Reset(x)
  <2>1. x \in Branches /\ local[x] = None
    BY <1>4 DEF Succeeds, CanSwitch, Tip, Reset
  <2> QED BY <1>4, <2>1 DEF Reset, Switch
<1> QED BY <1>1, <1>2, <1>3, <1>4 DEF CheckoutOK

-----------------------------------------------------------------------------
\* What is assumed of branches, commits and flags, part by part.
LEMMA Assumptions ==
    /\ "HEAD" \notin Branches \cup Commits \cup Upstreams /\ None \notin Commits
    /\ {"main", "master"} \subseteq Branches
    /\ Branches \cap (Commits \cup Upstreams) = {} /\ Commits \cap Upstreams = {}
    /\ \A u \in Upstreams : Upstream[u] \in Branches
    /\ \A k \in Commits : Content[k] \in {"one", "two"}
    /\ \A f \in Flags : f.base \in Revisions /\ f.head \in Revisions
                       /\ f.allowDirty \in BOOLEAN /\ f.skipBuild \in BOOLEAN
BY BranchesAssumption

\* The head is a commit and has a name that git checkout takes.
LEMMA HeadIsACommit ==
    ASSUME Repository
    PROVE  Commit \in Commits /\ Current \in Revisions /\ DefaultBranch \in Revisions
BY Assumptions DEF Repository, Commit, Current, DefaultBranch, Revisions

\* A revision means a commit, or nothing.
LEMMA TipIsACommit ==
    ASSUME Repository, NEW x \in Revisions
    PROVE  Tip(x) \in Commits \cup {None}
<1>1. CASE x \in Upstreams
  BY <1>1, Assumptions DEF Repository, Tip
<1>2. CASE x = "HEAD"
  BY <1>2, Assumptions, HeadIsACommit DEF Tip
<1> QED BY <1>1, <1>2 DEF Repository, Tip, Revisions

\* Switching to a branch or a commit leaves a well-typed repository.
LEMMA SwitchKeepsRepository ==
    ASSUME Repository, NEW x \in Revisions, NEW k \in Commits \cup {None}, Switch(x, k)
    PROVE  Repository'
<1>1. /\ k \in Commits /\ origin' = origin /\ tree' \in {tree, Content[k]}
  BY DEF Switch, CanSwitch
<1>2. CASE x \in Branches
  <2>1. head' = x /\ local' = [local EXCEPT ![x] = k]
    BY <1>2 DEF Switch
  <2>2. local' \in [Branches -> Commits \cup {None}] /\ local'[x] = k
    BY <1>1, <1>2, <2>1 DEF Repository
  <2> QED BY <1>1, <1>2, <2>1, <2>2, Assumptions DEF Repository, Files
<1>3. CASE x \notin Branches
  <2>1. head' \in {head, k} /\ local' = local
    BY <1>3 DEF Switch
  <2> QED BY <1>1, <2>1, Assumptions DEF Repository, Files
<1> QED BY <1>2, <1>3

\* So does gitrepo.Checkout, whichever of its attempts succeeds or fails.
LEMMA CheckoutKeepsRepository ==
    ASSUME Repository, faults \in Nat, NEW x \in Revisions, CheckoutOK(x) \/ CheckoutFails(x)
    PROVE  Repository' /\ faults' \in Nat
<1>1. faults' \in Nat
  BY DEF CheckoutOK, CheckoutFails, Fault
<1>2. CASE UNCHANGED repo
  BY <1>1, <1>2 DEF Repository, repo
<1>3. CASE SwitchTo(x) \/ Reset(x)
  <2>1. Tip(x) \in Commits \cup {None} /\ (x \in Branches => origin[x] \in Commits \cup {None})
    BY TipIsACommit DEF Repository
  <2> QED BY <1>1, <1>3, <2>1, SwitchKeepsRepository DEF SwitchTo, Reset
<1> QED BY <1>1, <1>2, <1>3 DEF CheckoutOK, CheckoutFails

-----------------------------------------------------------------------------
(* Types.                                                                  *)

\* A step that sets the record of one command leaves well-typed commands.
LEMMA NewCommand ==
    ASSUME Typed, NEW c \in Comparers, NEW n \in Commands, cmd' = [cmd EXCEPT ![c] = n]
    PROVE  cmd' \in [Comparers -> Commands] /\ cmd'[c] = n
BY DEF Typed

\* A command that goes on to another step.
LEMMA GoingOn ==
    ASSUME Typed, NEW c \in Comparers, NEW s \in Steps, Going(c, s)
    PROVE  /\ cmd' \in [Comparers -> Commands]
           /\ cmd'[c] = [cmd[c] EXCEPT !.pc = s]
<1>1. cmd[c] \in Commands
  BY DEF Typed
<1>2. [cmd[c] EXCEPT !.pc = s] \in Commands
  BY <1>1 DEF Commands
<1> QED BY <1>2, NewCommand DEF Going, To

\* Steps that leave the record of the start alone.
LEMMA SameStart ==
    ASSUME Typed, NEW c \in Comparers, cmd[c].pc # "idle", UNCHANGED started,
           cmd' = [cmd EXCEPT ![c] = cmd'[c]]
    PROVE  started' \in [Comparers -> Starts \cup {None}]
           /\ \A d \in Comparers : cmd'[d].pc # "idle" => started'[d] \in Starts
BY DEF Typed

\* RunBranches starts: the types are kept.
LEMMA BeginTyped ==
    ASSUME Typed, NEW c \in Comparers, Begin(c)
    PROVE  Typed'
<1>1. PICK f \in Flags :
        cmd' = [cmd EXCEPT ![c] =
                [Idle EXCEPT !.pc = "capture", !.head = f.head,
                             !.base = IF f.base = "main" /\ ~BranchExists("main") THEN DefaultBranch ELSE f.base,
                             !.allowDirty = f.allowDirty, !.skipBuild = f.skipBuild]]
  BY DEF Begin, To
<1> DEFINE base == IF f.base = "main" /\ ~BranchExists("main") THEN DefaultBranch ELSE f.base
           n == [Idle EXCEPT !.pc = "capture", !.head = f.head, !.base = base,
                             !.allowDirty = f.allowDirty, !.skipBuild = f.skipBuild]
           entry == [head |-> head, commit |-> Commit, local |-> local, dirty |-> Dirty]
<1>2. n \in Commands
  <2>1. /\ f.head \in Revisions /\ f.allowDirty \in BOOLEAN /\ f.skipBuild \in BOOLEAN
        /\ base \in Revisions
    BY Assumptions, HeadIsACommit DEF Typed
  <2>2. Idle \in Commands
    BY Assumptions DEF Idle, Commands, Revisions, Roles
  <2> HIDE DEF base
  <2> QED BY <2>1, <2>2 DEF Commands, Steps
<1>3. cmd' \in [Comparers -> Commands]
  BY <1>1, <1>2, NewCommand
<1>4. entry \in Starts
  <2>1. Commit = (IF head \in Branches THEN local[head] ELSE head) /\ Commit \in Commits
    BY HeadIsACommit DEF Typed, Commit
  <2>2. Dirty \in BOOLEAN
    BY DEF Dirty
  <2> QED BY <2>1, <2>2 DEF Typed, Repository, Starts
<1>5. started' = [started EXCEPT ![c] = entry]
  BY DEF Begin
<1>6. /\ started' \in [Comparers -> Starts \cup {None}]
      /\ \A d \in Comparers : cmd'[d].pc # "idle" => started'[d] \in Starts
  BY <1>1, <1>4, <1>5 DEF Typed
<1>7. Repository' /\ artifact' = artifact /\ compares' \in Nat /\ faults' = faults
  BY DEF Begin, repo, Typed, Repository
<1> QED BY <1>3, <1>6, <1>7 DEF Typed

\* Noting the original branch keeps the types.
LEMMA CaptureTyped ==
    ASSUME Typed, NEW c \in Comparers, Capture(c)
    PROVE  Typed'
<1>1. PICK n : cmd' = [cmd EXCEPT ![c] = n] /\ n \in Commands
  <2>1. cmd[c] \in Commands /\ Current \in Revisions
    BY HeadIsACommit DEF Typed
  <2>2. \A s \in Steps : /\ [cmd[c] EXCEPT !.orig = Current, !.pc = s] \in Commands
                         /\ [cmd[c] EXCEPT !.pc = s] \in Commands
    BY <2>1 DEF Commands
  <2>3. \E s \in Steps : \/ cmd' = [cmd EXCEPT ![c] = [cmd[c] EXCEPT !.orig = Current, !.pc = s]]
                        \/ cmd' = [cmd EXCEPT ![c] = [cmd[c] EXCEPT !.pc = s]]
    BY DEF Capture, Going, To, Steps
  <2> QED BY <2>2, <2>3
<1>2. cmd[c].pc # "idle" /\ cmd' \in [Comparers -> Commands] /\ cmd' = [cmd EXCEPT ![c] = cmd'[c]]
  BY <1>1, NewCommand DEF Capture, At
<1>3. UNCHANGED <<repo, artifact, compares, started>> /\ faults' \in Nat
  BY DEF Capture, history, Fault, Typed
<1>4. /\ started' \in [Comparers -> Starts \cup {None}]
      /\ \A d \in Comparers : cmd'[d].pc # "idle" => started'[d] \in Starts
  BY <1>2, <1>3, SameStart
<1> QED BY <1>2, <1>3, <1>4 DEF Typed, Repository, repo

\* Checking out a branch, or the original one, keeps the types.
LEMMA CheckoutTyped ==
    ASSUME Typed, NEW c \in Comparers, Checkout(c) \/ Restore(c)
    PROVE  Typed'
<1>1. /\ cmd[c].pc # "idle" /\ \E s \in Steps : Going(c, s)
      /\ UNCHANGED <<artifact, compares, started>>
      /\ \E x \in Revisions : CheckoutOK(x) \/ CheckoutFails(x)
  BY DEF Checkout, Restore, At, history, Steps, Branch, Typed, Commands
<1>2. Repository' /\ faults' \in Nat
  BY <1>1, CheckoutKeepsRepository DEF Typed
<1>3. cmd' \in [Comparers -> Commands] /\ cmd' = [cmd EXCEPT ![c] = cmd'[c]]
  BY <1>1, GoingOn DEF Going, To
<1>4. /\ started' \in [Comparers -> Starts \cup {None}]
      /\ \A d \in Comparers : cmd'[d].pc # "idle" => started'[d] \in Starts
  BY <1>1, <1>3, SameStart
<1> QED BY <1>1, <1>2, <1>3, <1>4 DEF Typed

\* Building, which may touch a tracked file, keeps the types.
LEMMA BuildTyped ==
    ASSUME Typed, NEW c \in Comparers, runBuild(c)
    PROVE  Typed'
<1>1. /\ cmd[c].pc # "idle" /\ \E s \in Steps : Going(c, s)
      /\ UNCHANGED <<head, local, origin, compares, faults, started>>
      /\ tree' \in {tree, "generated"} /\ artifact' \in {artifact, [commit |-> Commit, file |-> tree]}
  BY DEF runBuild, Regenerates, At, Steps
<1>2. [commit |-> Commit, file |-> tree] \in Builds
  BY HeadIsACommit DEF Builds, Typed, Repository
<1>3. cmd' \in [Comparers -> Commands] /\ cmd' = [cmd EXCEPT ![c] = cmd'[c]]
  BY <1>1, GoingOn DEF Going, To
<1>4. /\ started' \in [Comparers -> Starts \cup {None}]
      /\ \A d \in Comparers : cmd'[d].pc # "idle" => started'[d] \in Starts
  BY <1>1, <1>3, SameStart
<1>5. Repository'
  BY <1>1 DEF Typed, Repository, Files
<1> QED BY <1>1, <1>2, <1>3, <1>4, <1>5 DEF Typed

\* Provenance and Run only write down what they see.
LEMMA NotesTyped ==
    ASSUME Typed, NEW c \in Comparers, Provenance(c) \/ Run(c)
    PROVE  Typed'
<1>1. /\ cmd[c].pc # "idle" /\ UNCHANGED <<repo, artifact, compares, started>> /\ faults' \in Nat
  BY DEF Provenance, Run, At, history, Fault, Typed
<1>2. PICK n : cmd' = [cmd EXCEPT ![c] = n] /\ n \in Commands
  <2>0. cmd[c] \in Commands /\ Commit \in Commits /\ Dirty \in BOOLEAN
    BY HeadIsACommit DEF Typed, Dirty
  <2>1. CASE Provenance(c)
    <3>1. \A k \in {Commit, None}, d \in BOOLEAN :
            [cmd[c] EXCEPT !.pc = "run", !.sha[cmd[c].role] = k, !.dirty[cmd[c].role] = d] \in Commands
      BY <2>0 DEF Commands, Steps
    <3>2. \E k \in {Commit, None}, d \in BOOLEAN :
            To(c, [cmd[c] EXCEPT !.pc = "run", !.sha[cmd[c].role] = k, !.dirty[cmd[c].role] = d])
      BY <2>0, <2>1, Zenon DEF Provenance
    <3> QED BY <3>1, <3>2 DEF To
  <2>2. CASE Run(c)
    <3> DEFINE what == IF cmd[c].skipBuild THEN [commit |-> Commit, file |-> tree] ELSE artifact
               done == [cmd[c] EXCEPT !.measured[cmd[c].role] = what]
    <3>1. what \in Builds \cup {None}
      BY <2>0 DEF Typed, Repository, Builds
    <3> HIDE DEF what
    <3>2. done \in Commands
      BY <2>0, <3>1 DEF Commands
    <3> HIDE DEF done
    <3>3. /\ [done EXCEPT !.pc = "checkout", !.role = "head"] \in Commands
          /\ [done EXCEPT !.pc = "restore", !.result = TRUE] \in Commands
          /\ [cmd[c] EXCEPT !.pc = "restore"] \in Commands
      BY <2>0, <3>2 DEF Commands, Steps, Roles
    <3> QED BY <2>2, <3>3 DEF Run, To, Going, what, done
  <2> QED BY <2>1, <2>2
<1>3. cmd' \in [Comparers -> Commands] /\ cmd' = [cmd EXCEPT ![c] = cmd'[c]]
  BY <1>2, NewCommand
<1>4. /\ started' \in [Comparers -> Starts \cup {None}]
      /\ \A d \in Comparers : cmd'[d].pc # "idle" => started'[d] \in Starts
  BY <1>1, <1>3, SameStart
<1> QED BY <1>1, <1>3, <1>4 DEF Typed, Repository, repo

\* A command ends, or is interrupted.
LEMMA EndTyped ==
    ASSUME Typed, NEW c \in Comparers, Report(c) \/ Kill(c)
    PROVE  Typed'
<1>1. /\ cmd[c].pc # "idle" /\ UNCHANGED <<repo, artifact, compares, started>> /\ faults' \in Nat
      /\ cmd' = [cmd EXCEPT ![c] = Idle]
  BY DEF Report, Kill, At, history, Busy, To, Typed, Fault
<1>2. Idle \in Commands
  BY Assumptions DEF Idle, Commands, Revisions, Roles
<1>3. cmd' \in [Comparers -> Commands] /\ cmd' = [cmd EXCEPT ![c] = cmd'[c]]
  BY <1>1, <1>2, NewCommand
<1>4. /\ started' \in [Comparers -> Starts \cup {None}]
      /\ \A d \in Comparers : cmd'[d].pc # "idle" => started'[d] \in Starts
  BY <1>1, <1>3, SameStart
<1> QED BY <1>1, <1>3, <1>4 DEF Typed, Repository, repo

\* Every step of a command keeps the types.
LEMMA StepTyped ==
    ASSUME Typed, NEW c \in Comparers, Step(c)
    PROVE  Typed'
BY BeginTyped, CaptureTyped, CheckoutTyped, BuildTyped, NotesTyped, EndTyped DEF Step

-----------------------------------------------------------------------------
(* Commands that have the repository for themselves.                       *)

\* Only Begin touches the history; other steps leave other commands alone.
LEMMA OwnCommandOnly ==
    ASSUME Typed, NEW c \in Comparers, Step(c)
    PROVE  /\ \A d \in Comparers \ {c} : cmd'[d] = cmd[d]
           /\ Begin(c) \/ (cmd[c].pc # "idle" /\ UNCHANGED <<started, overlap>>)
<1>1. \E n : cmd' = [cmd EXCEPT ![c] = n]
  BY DEF Step, Begin, Capture, Checkout, runBuild, Provenance, Run, Restore, Report, Kill, To, Going
<1>2. Begin(c) \/ (cmd[c].pc # "idle" /\ UNCHANGED <<started, overlap>>)
  BY DEF Step, Capture, Checkout, runBuild, Provenance, Run, Restore, Report, Kill, Busy, At, history
<1> QED BY <1>1, <1>2 DEF Typed

\* A step of anybody else is the end of being undisturbed.
LEMMA OnlyOne ==
    ASSUME Typed, Sole, NEW d \in Comparers, Step(d), NEW c \in Comparers, Undisturbed(c)'
    PROVE  /\ c = d
           /\ \/ Begin(c) /\ Busy = {}
              \/ Undisturbed(c) /\ UNCHANGED <<started, overlap>>
<1>1. CASE c # d
  <2>1. cmd[c].pc # "idle" /\ cmd'[c] = cmd[c]
    BY <1>1, OwnCommandOnly DEF Undisturbed
  <2>2. CASE Begin(d)
    <3>1. c \in Busy
      BY <2>1 DEF Busy
    <3>2. c \in overlap'
      BY <2>2, <3>1 DEF Begin
    <3> QED BY <3>2 DEF Undisturbed
  <2>3. CASE cmd[d].pc # "idle" /\ UNCHANGED <<started, overlap>>
    <3>1. Undisturbed(c)
      BY <2>1, <2>3 DEF Undisturbed
    <3> QED BY <1>1, <2>3, <3>1 DEF Sole
  <2> QED BY <2>2, <2>3, OwnCommandOnly
<1>2. CASE c = d
  <2>1. CASE Begin(c)
    <3>1. Busy = {}
      BY <2>1 DEF Begin, Undisturbed
    <3> QED BY <1>2, <2>1, <3>1
  <2>2. CASE cmd[c].pc # "idle" /\ UNCHANGED <<started, overlap>>
    BY <1>2, <2>2 DEF Undisturbed
  <2> QED BY <1>2, <2>1, <2>2, OwnCommandOnly
<1> QED BY <1>1, <1>2

\* A command undisturbed so far is the only one that is running, after any step.
LEMMA StepSole ==
    ASSUME Typed, Sole, NEW d \in Comparers, Step(d)
    PROVE  Sole'
<1> SUFFICES ASSUME NEW c \in Comparers, NEW e \in Comparers, Undisturbed(c)', cmd'[e].pc # "idle"
             PROVE  e = c
  BY DEF Sole
<1>1. c = d /\ ((Begin(c) /\ Busy = {}) \/ Undisturbed(c))
  BY OnlyOne
<1>2. e # d => cmd[e].pc # "idle"
  BY OwnCommandOnly
<1> QED BY <1>1, <1>2 DEF Sole, Busy

-----------------------------------------------------------------------------
(* Labels.                                                                 *)

\* The artifact is of the commit that is checked out, and of its file unless
\* the tree is dirty.
Built == artifact.commit = Commit /\ (artifact.file = Content[Commit] \/ Dirty)

\* What was measured for a role is what its label says.
Label(c, r) ==
    LET measured == cmd[c].measured[r]
    IN  /\ cmd[c].sha[r] = measured.commit \/ (cmd[c].sha[r] = None /\ c \in blind)
        /\ measured.file = Content[measured.commit] \/ cmd[c].dirty[r] \/ c \in blind

\* A head "HEAD" is what the base checkout left.
AtBase(c) ==
    cmd[c].role = "head" /\ cmd[c].head = "HEAD" /\ cmd[c].pc \notin {"restore", "done"} =>
        Commit = cmd[c].measured["base"].commit

Labelled(c) ==
    /\ cmd[c].pc = "provenance" /\ ~cmd[c].skipBuild => Built
    /\ cmd[c].pc = "run" =>
         /\ cmd[c].sha[cmd[c].role] = Commit \/ (cmd[c].sha[cmd[c].role] = None /\ c \in blind)
         /\ Dirty => cmd[c].dirty[cmd[c].role] \/ c \in blind
         /\ ~cmd[c].skipBuild => Built
    /\ cmd[c].role = "head" => Label(c, "base")
    /\ AtBase(c)
    /\ cmd[c].result =>
         /\ cmd[c].role = "head" /\ Label(c, "head") /\ cmd[c].pc \in {"restore", "done"}
         /\ cmd[c].head = "HEAD" => cmd[c].measured["head"].commit = cmd[c].measured["base"].commit

LabelsInv == \A c \in Comparers : Undisturbed(c) => Labelled(c)

\* What git did not tell is not forgotten before the next command.
LEMMA BlindKept ==
    ASSUME NEW c \in Comparers, Step(c), ~Begin(c)
    PROVE  blind \subseteq blind'
BY DEF Step, Capture, Checkout, runBuild, Provenance, Run, Restore, Report, Kill, history

\* git checkout HEAD does nothing.
LEMMA HeadStays ==
    ASSUME Repository, CheckoutOK("HEAD")
    PROVE  UNCHANGED <<head, local, origin, tree>> /\ Commit' = Commit
<1>1. "HEAD" \notin Branches /\ Tip("HEAD") = Commit
  BY Assumptions DEF Tip
<1>2. Switch("HEAD", Commit)
  BY <1>1 DEF CheckoutOK, SwitchTo, Reset
<1>3. UNCHANGED <<head, local, origin>> /\ tree' = IF Dirty THEN tree ELSE Content[Commit]
  BY <1>1, <1>2 DEF Switch
<1> QED BY <1>3 DEF Dirty, Commit

\* A step to pc s that leaves the notes alone.
LEMMA SameNotes ==
    ASSUME Typed, NEW c \in Comparers, Labelled(c), NEW s \in Steps \ {"provenance", "run"},
           cmd'[c] = [cmd[c] EXCEPT !.pc = s] \/ cmd'[c] = [cmd[c] EXCEPT !.pc = s, !.orig = Current],
           cmd[c].result => s \in {"restore", "done"}, blind \subseteq blind',
           s \in {"restore", "done"} \/ AtBase(c)'
    PROVE  Labelled(c)'
<1>1. cmd[c] \in Commands
  BY DEF Typed
<1>2. /\ cmd'[c].pc = s /\ cmd'[c].role = cmd[c].role /\ cmd'[c].result = cmd[c].result
      /\ cmd'[c].measured = cmd[c].measured /\ cmd'[c].sha = cmd[c].sha /\ cmd'[c].dirty = cmd[c].dirty
      /\ cmd'[c].head = cmd[c].head
  BY <1>1 DEF Commands
<1>3. AtBase(c)'
  BY <1>2 DEF AtBase
<1>4. \A r \in Roles : Label(c, r) => Label(c, r)'
  BY <1>2 DEF Label
<1> QED BY <1>2, <1>3, <1>4 DEF Labelled, Roles

\* A build leaves the notes true: the artifact is that of the commit checked out.
LEMMA BuildLabels ==
    ASSUME Typed, NEW c \in Comparers, Labelled(c), runBuild(c)
    PROVE  Labelled(c)'
<1>1. cmd[c] \in Commands /\ cmd[c].pc = "build" /\ ~cmd[c].result /\ blind' = blind
  BY DEF Typed, runBuild, At, Labelled
<1>2. CASE Going(c, "restore")
  <2>1. cmd'[c] = [cmd[c] EXCEPT !.pc = "restore"]
    BY <1>2, GoingOn DEF Steps
  <2>2. "restore" \in Steps \ {"provenance", "run"}
    BY DEF Steps
  <2> QED BY <1>1, <2>1, <2>2, SameNotes
<1>3. CASE Going(c, "provenance")
  <2>1. cmd'[c] = [cmd[c] EXCEPT !.pc = "provenance"]
    BY <1>3, GoingOn DEF Steps
  <2>2. /\ cmd'[c].pc = "provenance" /\ cmd'[c].role = cmd[c].role /\ cmd'[c].result = cmd[c].result
        /\ cmd'[c].measured = cmd[c].measured /\ cmd'[c].sha = cmd[c].sha /\ cmd'[c].dirty = cmd[c].dirty
        /\ cmd'[c].skipBuild = cmd[c].skipBuild /\ cmd'[c].head = cmd[c].head
    BY <1>1, <2>1 DEF Commands
  <2>3. ASSUME ~cmd[c].skipBuild PROVE Built'
    <3>1. UNCHANGED <<head, local>> /\ Commit \in Commits /\ Commit' = Commit
      BY HeadIsACommit DEF runBuild, Typed, Commit
    <3>2. Content[Commit] \in {"one", "two"}
      BY <3>1, Assumptions
    <3>3. tree' = tree \/ tree' = "generated"
      BY DEF runBuild, Regenerates
    <3>4. artifact' = [commit |-> Commit, file |-> tree]
      <4>1. cmd'[c].pc # "restore"
        BY <2>2
      <4>2. ~Going(c, "restore")
        BY <4>1, <1>1, GoingOn DEF Steps, Commands
      <4> QED BY <2>3, <4>2 DEF runBuild
    <3> QED BY <3>1, <3>2, <3>3, <3>4 DEF Built, Dirty
  <2>4. AtBase(c)'
    <3>1. Commit' = Commit /\ AtBase(c)
      BY DEF runBuild, Commit, Labelled
    <3> QED BY <1>1, <2>2, <3>1 DEF AtBase
  <2>5. \A r \in Roles : Label(c, r) => Label(c, r)'
    BY <1>1, <2>2 DEF Label
  <2> QED BY <1>1, <2>2, <2>3, <2>4, <2>5 DEF Labelled, Roles
<1> QED BY <1>2, <1>3 DEF runBuild

\* provenance.Capture notes the commit and the dirty flag of the tree built.
LEMMA ProvenanceLabels ==
    ASSUME Typed, NEW c \in Comparers, Labelled(c), Provenance(c)
    PROVE  Labelled(c)'
<1>1. cmd[c] \in Commands /\ cmd[c].pc = "provenance" /\ ~cmd[c].result
  BY DEF Typed, Provenance, At, Labelled
<1>2. PICK k, d : /\ cmd'[c] = [cmd[c] EXCEPT !.pc = "run", !.sha[cmd[c].role] = k, !.dirty[cmd[c].role] = d]
                  /\ \/ k = Commit /\ d = Dirty
                     \/ k \in {Commit, None} /\ c \in blind'
  <2>1. CASE To(c, [cmd[c] EXCEPT !.pc = "run", !.sha[cmd[c].role] = Commit, !.dirty[cmd[c].role] = Dirty])
    BY <2>1 DEF To, Typed
  <2>2. CASE /\ blind' = blind \cup {c}
             /\ \E sha \in {Commit, None} :
                  To(c, [cmd[c] EXCEPT !.pc = "run", !.sha[cmd[c].role] = sha, !.dirty[cmd[c].role] = FALSE])
    BY <2>2 DEF To, Typed
  <2> QED BY <2>1, <2>2 DEF Provenance
<1>3. /\ cmd'[c].pc = "run" /\ cmd'[c].role = cmd[c].role /\ cmd'[c].result = cmd[c].result
      /\ cmd'[c].measured = cmd[c].measured /\ cmd'[c].skipBuild = cmd[c].skipBuild
      /\ cmd'[c].head = cmd[c].head
      /\ cmd'[c].sha = [cmd[c].sha EXCEPT ![cmd[c].role] = k]
      /\ cmd'[c].dirty = [cmd[c].dirty EXCEPT ![cmd[c].role] = d]
  BY <1>1, <1>2 DEF Commands
<1>4. /\ cmd'[c].sha[cmd[c].role] = k /\ cmd'[c].dirty[cmd[c].role] = d
      /\ cmd[c].role = "head" => cmd'[c].sha["base"] = cmd[c].sha["base"]
                                 /\ cmd'[c].dirty["base"] = cmd[c].dirty["base"]
  BY <1>1, <1>3 DEF Commands, Roles
<1>5. Commit' = Commit /\ Dirty' = Dirty /\ (Built' <=> Built) /\ blind \subseteq blind'
  BY DEF Provenance, repo, Commit, Dirty, Built
<1>6. cmd[c].role = "head" => Label(c, "base")'
  BY <1>3, <1>4, <1>5 DEF Labelled, Label
<1>7. AtBase(c)'
  BY <1>1, <1>3, <1>5 DEF Labelled, AtBase
<1> QED BY <1>1, <1>2, <1>3, <1>4, <1>5, <1>6, <1>7 DEF Labelled

\* The run measures what has been noted, and goes on to the head or the result.
LEMMA RunLabels ==
    ASSUME Typed, NEW c \in Comparers, Labelled(c), Run(c)
    PROVE  Labelled(c)'
<1>1. /\ cmd[c] \in Commands /\ cmd[c].pc = "run" /\ ~cmd[c].result
      /\ Commit' = Commit /\ blind' = blind
  BY DEF Typed, Run, At, Labelled, repo, history, Commit
<1>2. CASE Going(c, "restore")
  <2>1. "restore" \in Steps \ {"provenance", "run"}
    BY DEF Steps
  <2>2. cmd'[c] = [cmd[c] EXCEPT !.pc = "restore"]
    BY <1>2, <2>1, GoingOn
  <2> QED BY <1>1, <2>1, <2>2, SameNotes
<1> DEFINE what == IF cmd[c].skipBuild THEN [commit |-> Commit, file |-> tree] ELSE artifact
           done == [cmd[c] EXCEPT !.measured[cmd[c].role] = what]
<1>3. /\ what.commit = Commit
      /\ cmd[c].sha[cmd[c].role] = what.commit \/ (cmd[c].sha[cmd[c].role] = None /\ c \in blind)
      /\ what.file = Content[what.commit] \/ cmd[c].dirty[cmd[c].role] \/ c \in blind
  <2>1. /\ what.commit = Commit /\ (what.file = Content[Commit] \/ Dirty)
    BY <1>1 DEF Labelled, Built, Dirty
  <2> HIDE DEF what
  <2> QED BY <1>1, <2>1 DEF Labelled
<1> HIDE DEF what
<1>4. /\ done.role = cmd[c].role /\ done.sha = cmd[c].sha /\ done.dirty = cmd[c].dirty
      /\ done.head = cmd[c].head /\ done.result = cmd[c].result /\ done.skipBuild = cmd[c].skipBuild
      /\ done.measured = [cmd[c].measured EXCEPT ![cmd[c].role] = what]
      /\ DOMAIN done = DOMAIN cmd[c]
  BY <1>1 DEF Commands
<1>5. done.measured[cmd[c].role] = what /\ (cmd[c].role = "head" => done.measured["base"] = cmd[c].measured["base"])
  BY <1>1, <1>4 DEF Commands, Roles
<1>6. DOMAIN done = {"pc", "base", "head", "orig", "role", "allowDirty", "skipBuild", "result", "sha", "dirty", "measured"}
  BY <1>1, <1>4 DEF Commands
<1> HIDE DEF done
<1>7. CASE cmd[c].role = "base" /\ cmd'[c] = [done EXCEPT !.pc = "checkout", !.role = "head"]
  <2>1. /\ cmd'[c].pc = "checkout" /\ cmd'[c].role = "head" /\ cmd'[c].result = done.result
        /\ cmd'[c].measured = done.measured /\ cmd'[c].sha = done.sha /\ cmd'[c].dirty = done.dirty
    BY <1>6, <1>7
  <2>2. /\ cmd'[c].measured["base"] = what
        /\ cmd'[c].sha["base"] = cmd[c].sha["base"] /\ cmd'[c].dirty["base"] = cmd[c].dirty["base"]
    BY <1>4, <1>5, <1>7, <2>1
  <2>3. Label(c, "base")'
    BY <1>1, <1>3, <1>7, <2>2 DEF Label
  <2>4. ~cmd'[c].result
    BY <1>1, <1>4, <2>1
  <2>5. AtBase(c)'
    BY <1>1, <1>3, <2>2 DEF AtBase
  <2> QED BY <2>1, <2>3, <2>4, <2>5 DEF Labelled
<1>8. CASE cmd[c].role = "head" /\ cmd'[c] = [done EXCEPT !.pc = "restore", !.result = TRUE]
  <2>1. /\ cmd'[c].pc = "restore" /\ cmd'[c].role = done.role /\ cmd'[c].result
        /\ cmd'[c].measured = done.measured /\ cmd'[c].sha = done.sha /\ cmd'[c].dirty = done.dirty
        /\ cmd'[c].head = cmd[c].head
    BY <1>4, <1>6, <1>8
  <2>2. /\ cmd'[c].measured["head"] = what /\ cmd'[c].measured["base"] = cmd[c].measured["base"]
        /\ cmd'[c].sha = cmd[c].sha /\ cmd'[c].dirty = cmd[c].dirty /\ cmd'[c].role = "head"
    BY <1>4, <1>5, <1>8, <2>1
  <2>3. Label(c, "base")
    BY <1>8 DEF Labelled
  <2>4. Label(c, "base")'
    BY <1>1, <2>2, <2>3, <1>4, <2>1 DEF Label
  <2>5. Label(c, "head")'
    BY <1>1, <1>3, <1>8, <2>2, <1>4, <2>1 DEF Label
  <2>6. cmd'[c].head = "HEAD" => cmd'[c].measured["head"].commit = cmd'[c].measured["base"].commit
    <3>1. AtBase(c)
      BY DEF Labelled
    <3> QED BY <1>1, <1>3, <1>8, <2>1, <2>2, <3>1 DEF AtBase
  <2>7. AtBase(c)'
    BY <2>1 DEF AtBase
  <2> QED BY <2>1, <2>2, <2>4, <2>5, <2>6, <2>7 DEF Labelled
<1>9. \/ Going(c, "restore")
      \/ cmd[c].role = "base" /\ cmd'[c] = [done EXCEPT !.pc = "checkout", !.role = "head"]
      \/ cmd[c].role = "head" /\ cmd'[c] = [done EXCEPT !.pc = "restore", !.result = TRUE]
  BY DEF Run, To, Typed, done, what
<1> QED BY <1>2, <1>7, <1>8, <1>9

\* Capturing, checking out and restoring leave the notes as they are.
LEMMA OtherLabels ==
    ASSUME Typed, NEW c \in Comparers, Labelled(c), Capture(c) \/ Checkout(c) \/ Restore(c)
    PROVE  Labelled(c)'
<1>1. CASE Capture(c)
  <2>1. cmd[c] \in Commands /\ ~cmd[c].result /\ cmd[c].pc = "capture"
    BY <1>1 DEF Typed, Capture, At, Labelled
  <2>2. PICK s \in {"restore", "checkout", "done"} :
           \/ cmd'[c] = [cmd[c] EXCEPT !.orig = Current, !.pc = s]
           \/ cmd'[c] = [cmd[c] EXCEPT !.pc = s]
    BY <1>1 DEF Capture, Going, To, Typed
  <2>3. cmd'[c] = [cmd[c] EXCEPT !.pc = s, !.orig = Current] \/ cmd'[c] = [cmd[c] EXCEPT !.pc = s]
    BY <2>1, <2>2 DEF Commands
  <2>4. blind' = blind /\ Commit' = Commit
    BY <1>1 DEF Capture, history, repo, Commit
  <2>5. AtBase(c)'
    <3>1. /\ cmd'[c].role = cmd[c].role /\ cmd'[c].head = cmd[c].head
          /\ cmd'[c].measured = cmd[c].measured
      BY <2>1, <2>3 DEF Commands
    <3> QED BY <2>1, <2>4, <3>1 DEF AtBase, Labelled
  <2> QED BY <2>1, <2>3, <2>4, <2>5, SameNotes DEF Steps
<1>2. CASE Checkout(c)
  <2>1. cmd[c] \in Commands /\ ~cmd[c].result /\ cmd[c].pc = "checkout" /\ blind' = blind
    BY <1>2 DEF Typed, Checkout, At, Labelled, history
  <2>2. PICK s \in {"build", "restore"} :
           cmd'[c] = [cmd[c] EXCEPT !.pc = s] /\ (s = "build" => CheckoutOK(Branch(c)))
    BY <1>2, GoingOn DEF Checkout, Steps
  <2>3. s = "restore" \/ AtBase(c)'
    <3> SUFFICES ASSUME s = "build", cmd[c].role = "head", cmd[c].head = "HEAD"
                 PROVE  Commit' = cmd'[c].measured["base"].commit
      <4>1. cmd'[c].role = cmd[c].role /\ cmd'[c].head = cmd[c].head
        BY <2>1, <2>2 DEF Commands
      <4> QED BY <4>1 DEF AtBase
    <3>1. CheckoutOK("HEAD")
      BY <2>2 DEF Branch
    <3>2. Commit' = Commit
      BY <3>1, HeadStays DEF Typed
    <3>3. cmd'[c].measured = cmd[c].measured
      BY <2>1, <2>2 DEF Commands
    <3> QED BY <2>1, <3>2, <3>3 DEF AtBase, Labelled
  <2> QED BY <2>1, <2>2, <2>3, SameNotes DEF Steps
<1>3. CASE Restore(c)
  <2>1. cmd'[c] = [cmd[c] EXCEPT !.pc = "done"] /\ blind' = blind
    BY <1>3, GoingOn DEF Restore, Steps, history
  <2> QED BY <2>1, SameNotes DEF Steps
<1> QED BY <1>1, <1>2, <1>3

\* A command starts without notes.
LEMMA BeginFresh ==
    ASSUME Typed, NEW c \in Comparers, Begin(c)
    PROVE  /\ cmd'[c].pc = "capture" /\ cmd'[c].role = "base" /\ cmd'[c].result = FALSE
           /\ started'[c] = [head |-> head, commit |-> Commit, local |-> local, dirty |-> Dirty]
<1>1. PICK f \in Flags :
        cmd'[c] = [Idle EXCEPT !.pc = "capture", !.head = f.head,
                             !.base = IF f.base = "main" /\ ~BranchExists("main") THEN DefaultBranch ELSE f.base,
                             !.allowDirty = f.allowDirty, !.skipBuild = f.skipBuild]
  BY DEF Begin, To, Typed
<1>2. cmd'[c].pc = "capture" /\ cmd'[c].role = "base" /\ cmd'[c].result = FALSE
  BY <1>1 DEF Idle
<1>3. started'[c] = [head |-> head, commit |-> Commit, local |-> local, dirty |-> Dirty]
  BY DEF Begin, Typed
<1> QED BY <1>2, <1>3

\* Every step of a command leaves the notes of the undisturbed ones true.
LEMMA StepLabels ==
    ASSUME Typed, Sole, LabelsInv, NEW d \in Comparers, Step(d)
    PROVE  LabelsInv'
<1> SUFFICES ASSUME NEW c \in Comparers, Undisturbed(c)' PROVE Labelled(c)'
  BY DEF LabelsInv
<1>1. c = d /\ (Begin(c) \/ Undisturbed(c))
  BY OnlyOne
<1>2. CASE Begin(c)
  BY <1>2, BeginFresh DEF Labelled, AtBase
<1>3. CASE Undisturbed(c) /\ (Report(c) \/ Kill(c))
  <2>1. cmd'[c].pc = "idle"
    BY <1>3 DEF Report, Kill, To, Idle, Typed
  <2> QED BY <2>1 DEF Undisturbed
<1>4. CASE Undisturbed(c) /\ ~(Report(c) \/ Kill(c) \/ Begin(c))
  <2>1. Labelled(c)
    BY <1>4 DEF LabelsInv
  <2> QED BY <1>1, <1>4, <2>1, BuildLabels, ProvenanceLabels, RunLabels, OtherLabels DEF Step
<1> QED BY <1>1, <1>2, <1>3, <1>4

-----------------------------------------------------------------------------
(* The repository of an undisturbed command that began with a clean tree.  *)

Clean(c) == faults = 0 /\ c \notin spoiled /\ ~started[c].dirty

LocalsKept(c) ==
    \A b \in Branches : \/ local[b] = started[c].local[b]
                        \/ started[c].local[b] = None /\ local[b] = origin[b]

\* The commit that is to be measured for a role.
Meant(c, r) == IF r = "head" /\ cmd[c].head = "HEAD" THEN Was(c, cmd[c].base) ELSE Was(c, Asked(c, r))

\* How far it has come, and where the head then is.
Tidy(c) ==
    /\ ~Dirty /\ LocalsKept(c)
    /\ cmd[c].pc = "capture" => cmd[c].role = "base"
    /\ cmd[c].pc \in {"capture", "checkout"} /\ cmd[c].role = "base" => head = started[c].head
    /\ cmd[c].pc \notin {"capture", "done"} =>
         cmd[c].orig = IF started[c].head \in Branches THEN started[c].head ELSE "HEAD"
    /\ cmd[c].pc = "done" /\ started[c].head \in Branches => head = started[c].head
    /\ cmd[c].pc \in {"build", "provenance", "run"} => Commit = Meant(c, cmd[c].role)
    /\ cmd[c].role = "head" => cmd[c].measured["base"].commit = Meant(c, "base")
    /\ cmd[c].result => cmd[c].measured["head"].commit = Meant(c, "head")

TidyInv == \A c \in Comparers : Undisturbed(c) /\ Clean(c) => Tidy(c)

\* A clean checkout of a revision goes to the commit it stood for.
LEMMA CleanCheckout ==
    ASSUME Typed, NEW c \in Comparers, cmd[c].pc # "idle", ~Dirty, LocalsKept(c), UNCHANGED started,
           NEW x \in Revisions, CheckoutOK(x) \/ CheckoutFails(x), faults = 0, faults' = 0
    PROVE  /\ ~Dirty' /\ LocalsKept(c)' /\ origin' = origin
           /\ CheckoutOK(x) => Commit' = IF x = "HEAD" THEN Commit ELSE Was(c, x)
           /\ x \in Branches /\ local[x] # None => head' = x
<1>1. started[c] \in Starts /\ started' = started /\ Commit \in Commits /\ ~Fault
  BY HeadIsACommit DEF Typed, Fault
<1>2. /\ Tip(x) = IF x = "HEAD" THEN Commit ELSE Was(c, x)
      /\ Succeeds(x) <=> Tip(x) # None
      /\ Tip(x) \in Commits \cup {None}
  <2>1. Succeeds(x) <=> Tip(x) # None
    BY <1>1 DEF Succeeds, CanSwitch
  <2>2. x \in Branches => Tip(x) = Was(c, x)
    BY <1>1, Assumptions DEF LocalsKept, Tip, Was
  <2>3. x \notin Branches => Tip(x) = IF x = "HEAD" THEN Commit ELSE Was(c, x)
    BY Assumptions DEF Tip, Was, Revisions
  <2> QED BY <2>1, <2>2, <2>3, TipIsACommit, Assumptions DEF Typed
<1>3. CASE SwitchTo(x)
  <2>1. Tip(x) \in Commits /\ tree' = Content[Tip(x)] /\ origin' = origin
    BY <1>2, <1>3 DEF SwitchTo, Switch, CanSwitch
  <2>2. Commit' = Tip(x) /\ LocalsKept(c)' /\ (x \in Branches => head' = x)
    <3>1. CASE x \in Branches
      <4>1. head' = x /\ local' = [local EXCEPT ![x] = Tip(x)]
        BY <1>3, <3>1 DEF SwitchTo, Switch
      <4>2. local'[x] = Tip(x) /\ \A b \in Branches \ {x} : local'[b] = local[b]
        BY <3>1, <4>1 DEF Typed, Repository
      <4>3. LocalsKept(c)'
        BY <1>1, <2>1, <3>1, <4>2, Assumptions DEF LocalsKept, Tip
      <4> QED BY <3>1, <4>1, <4>2, <4>3 DEF Commit
    <3>2. CASE x \notin Branches
      <4>1. local' = local /\ head' = IF x = "HEAD" THEN head ELSE Tip(x)
        BY <1>3, <3>2 DEF SwitchTo, Switch
      <4>2. LocalsKept(c)'
        BY <1>1, <2>1, <4>1 DEF LocalsKept
      <4>3. Commit' = Tip(x)
        BY <1>2, <2>1, <4>1, Assumptions DEF Commit
      <4> QED BY <3>2, <4>2, <4>3
    <3> QED BY <3>1, <3>2
  <2>3. ~Dirty'
    BY <2>1, <2>2 DEF Dirty
  <2> QED BY <1>2, <2>1, <2>2, <2>3
<1>4. CASE ~Succeeds(x) /\ UNCHANGED repo /\ ~CheckoutOK(x)
  <2>1. UNCHANGED <<head, local, origin, tree>> /\ (x \in Branches => local[x] = None)
    BY <1>2, <1>4, Assumptions DEF repo, Tip
  <2>2. ~Dirty' /\ LocalsKept(c)'
    BY <1>1, <2>1 DEF Dirty, Commit, LocalsKept
  <2> QED BY <1>4, <2>1, <2>2
<1>5. ~(~Succeeds(x) /\ Reset(x))
  BY <1>2, Assumptions DEF Tip, Reset, Switch, CanSwitch
<1>6. SwitchTo(x) \/ (~Succeeds(x) /\ UNCHANGED repo /\ ~CheckoutOK(x))
  BY <1>1, <1>2, <1>5 DEF CheckoutOK, CheckoutFails, SwitchTo, Switch, Succeeds
<1> QED BY <1>3, <1>4, <1>6

\* What a command means to measure depends on its flags and the start only.
LEMMA MeantKept ==
    ASSUME NEW c \in Comparers, NEW r \in Roles, UNCHANGED <<origin, started>>,
           cmd'[c].base = cmd[c].base, cmd'[c].head = cmd[c].head
    PROVE  Meant(c, r)' = Meant(c, r) /\ Branch(c) = Asked(c, cmd[c].role)
<1>1. \A b : Was(c, b)' = Was(c, b)
  BY DEF Was
<1>2. Asked(c, r)' = Asked(c, r)
  BY DEF Asked
<1> QED BY <1>1, <1>2 DEF Meant, Asked, Branch

\* Steps that leave the repository and the start alone.
LEMMA SameRepository ==
    ASSUME Typed, NEW c \in Comparers, Tidy(c), UNCHANGED <<head, local, origin, tree, started>>
    PROVE  ~Dirty' /\ LocalsKept(c)' /\ Commit' = Commit
BY DEF Tidy, Dirty, Commit, LocalsKept

\* Faults and spoiled trees are not forgotten before the next command.
LEMMA CleanBefore ==
    ASSUME Typed, NEW c \in Comparers, Step(c), ~Begin(c), UNCHANGED started, Clean(c)'
    PROVE  Clean(c) /\ (runBuild(c) => tree' = tree)
<1>1. faults' \in {faults, faults + 1}
  BY DEF Step, Capture, Checkout, runBuild, Provenance, Run, Restore, Report, Kill, CheckoutOK, CheckoutFails, Fault
<1>2. spoiled \subseteq spoiled' /\ (runBuild(c) => tree' = tree \/ c \in spoiled')
  BY DEF Step, Capture, Checkout, runBuild, Provenance, Run, Restore, Report, Kill, history, Regenerates
<1>3. faults' = 0 => faults = 0
  BY <1>1 DEF Typed
<1> QED BY <1>2, <1>3 DEF Clean

\* RunBranches starts: the repository is as it was when the command began.
LEMMA BeginTidy ==
    ASSUME Typed, NEW c \in Comparers, Begin(c), Clean(c)'
    PROVE  Tidy(c)'
<1>1. /\ started'[c].head = head /\ started'[c].local = local /\ (Dirty => started'[c].dirty = TRUE)
      /\ UNCHANGED <<head, local, origin, tree>>
  <2>1. started'[c] = [head |-> head, commit |-> Commit, local |-> local, dirty |-> Dirty]
    BY BeginFresh
  <2>2. started'[c].head = head /\ started'[c].local = local
    BY <2>1
  <2>3. Dirty => started'[c].dirty = TRUE
    <3> DEFINE d == Dirty
    <3> SUFFICES ASSUME Dirty PROVE started'[c].dirty = TRUE
      OBVIOUS
    <3>1. started'[c] = [head |-> head, commit |-> Commit, local |-> local, dirty |-> d]
      BY <2>1
    <3>2. d = TRUE
      BY DEF Dirty
    <3> HIDE DEF d
    <3> QED BY <3>1, <3>2
  <2>4. UNCHANGED <<head, local, origin, tree>>
    BY DEF Begin, repo
  <2> QED BY <2>2, <2>3, <2>4, Zenon
<1>2. ~Dirty' /\ LocalsKept(c)'
  BY <1>1 DEF Clean, Dirty, Commit, LocalsKept
<1>3. cmd'[c].pc = "capture" /\ cmd'[c].role = "base" /\ cmd'[c].result = FALSE
  BY BeginFresh
<1>4. head' = started'[c].head
  BY <1>1
<1> QED BY <1>2, <1>3, <1>4 DEF Tidy

\* Noting the original branch leaves the repository tidy.
LEMMA CaptureTidy ==
    ASSUME Typed, NEW c \in Comparers, Tidy(c), Labelled(c), Capture(c), Clean(c)'
    PROVE  Tidy(c)'
<1>1. cmd[c] \in Commands /\ cmd[c].pc = "capture" /\ ~cmd[c].result /\ ~Dirty
  BY DEF Typed, Capture, At, Labelled, Tidy
<1>2. UNCHANGED <<head, local, origin, tree, started>>
  BY DEF Capture, repo, history
<1>3. cmd'[c] = [cmd[c] EXCEPT !.orig = Current, !.pc = "checkout"]
  <2>1. ~Fault
    BY DEF Fault, Clean, Typed
  <2> QED BY <1>1, <2>1 DEF Capture, To, Typed
<1>4. /\ cmd'[c].pc = "checkout" /\ cmd'[c].orig = Current /\ cmd'[c].role = cmd[c].role
      /\ cmd'[c].result = cmd[c].result /\ cmd'[c].base = cmd[c].base /\ cmd'[c].head = cmd[c].head
  BY <1>1, <1>3 DEF Commands
<1>5. cmd[c].role = "base" /\ head = started[c].head
  BY <1>1 DEF Tidy
<1>6. Current = IF started[c].head \in Branches THEN started[c].head ELSE "HEAD"
  BY <1>5 DEF Current
<1> QED BY <1>1, <1>2, <1>4, <1>5, <1>6, SameRepository DEF Tidy

\* Checking out a branch leads to the commit it had when the command began.
LEMMA CheckoutTidy ==
    ASSUME Typed, NEW c \in Comparers, Tidy(c), Labelled(c), Checkout(c), Clean(c), Clean(c)'
    PROVE  Tidy(c)'
<1> DEFINE x == Branch(c)
<1>1. /\ cmd[c] \in Commands /\ cmd[c].pc = "checkout" /\ ~cmd[c].result /\ started' = started
      /\ faults = 0 /\ faults' = 0 /\ cmd[c].pc # "idle"
  BY DEF Typed, Checkout, At, Labelled, history, Clean
<1>2. PICK s \in {"build", "restore"} :
         /\ cmd'[c] = [cmd[c] EXCEPT !.pc = s]
         /\ s = "build" => CheckoutOK(x)
         /\ CheckoutOK(x) \/ CheckoutFails(x)
  <2>1. CASE CheckoutOK(x) /\ Going(c, "build")
    <3>1. cmd'[c] = [cmd[c] EXCEPT !.pc = "build"]
      BY <2>1, GoingOn DEF Steps
    <3> QED BY <2>1, <3>1
  <2>2. CASE CheckoutFails(x) /\ Going(c, "restore")
    <3>1. cmd'[c] = [cmd[c] EXCEPT !.pc = "restore"]
      BY <2>2, GoingOn DEF Steps
    <3> QED BY <2>2, <3>1
  <2> QED BY <2>1, <2>2 DEF Checkout
<1>3. /\ cmd'[c].pc = s /\ cmd'[c].orig = cmd[c].orig /\ cmd'[c].role = cmd[c].role
      /\ cmd'[c].result = cmd[c].result /\ cmd'[c].base = cmd[c].base /\ cmd'[c].head = cmd[c].head
      /\ cmd'[c].measured = cmd[c].measured
  BY <1>1, <1>2 DEF Commands
<1>4. /\ ~Dirty' /\ LocalsKept(c)' /\ origin' = origin
      /\ CheckoutOK(x) => Commit' = IF x = "HEAD" THEN Commit ELSE Was(c, x)
  <2>1. x \in Revisions /\ ~Dirty /\ LocalsKept(c)
    BY <1>1 DEF Branch, Commands, Tidy
  <2> HIDE DEF x
  <2> QED BY <1>1, <1>2, <2>1, CleanCheckout
<1>5. \A r \in Roles : Meant(c, r)' = Meant(c, r)
  BY <1>1, <1>3, <1>4, MeantKept
<1>6. x # "HEAD" => Was(c, x) = Meant(c, cmd[c].role)
  BY <1>1 DEF Meant, Asked, Branch, Commands, Roles
<1>7. x = "HEAD" => Commit = Meant(c, cmd[c].role)
  <2>1. CASE cmd[c].role = "base" /\ x = "HEAD"
    <3>1. head = started[c].head /\ LocalsKept(c) /\ started[c] \in Starts
      BY <1>1, <2>1 DEF Tidy, Typed
    <3>2. Commit = started[c].commit
      BY <3>1 DEF Commit, LocalsKept, Starts
    <3>3. Was(c, "HEAD") = started[c].commit
      BY Assumptions DEF Was
    <3> QED BY <2>1, <3>2, <3>3 DEF Meant, Asked, Branch
  <2>2. CASE cmd[c].role = "head" /\ x = "HEAD"
    <3>1. cmd[c].head = "HEAD" /\ AtBase(c) /\ cmd[c].measured["base"].commit = Meant(c, "base")
      BY <2>2 DEF Branch, Labelled, Tidy
    <3>2. Commit = Meant(c, "base")
      BY <1>1, <2>2, <3>1 DEF AtBase
    <3>3. Meant(c, "head") = Meant(c, "base")
      BY <3>1 DEF Meant, Asked
    <3> QED BY <2>2, <3>2, <3>3
  <2> QED BY <1>1, <2>1, <2>2 DEF Commands, Roles
<1>8. s = "build" => Commit' = Meant(c, cmd[c].role)'
  <2>1. Meant(c, cmd[c].role)' = Meant(c, cmd[c].role)
    BY <1>1, <1>3, <1>4, MeantKept DEF Commands
  <2> QED BY <1>2, <1>4, <1>6, <1>7, <2>1
<1> QED BY <1>1, <1>3, <1>4, <1>5, <1>8 DEF Tidy, Roles

\* A build that touches no tracked file leaves the repository tidy.
LEMMA BuildTidy ==
    ASSUME Typed, NEW c \in Comparers, Tidy(c), Labelled(c), runBuild(c), tree' = tree
    PROVE  Tidy(c)'
<1>1. cmd[c] \in Commands /\ cmd[c].pc = "build" /\ ~cmd[c].result
  BY DEF Typed, runBuild, At, Labelled
<1>2. UNCHANGED <<head, local, origin, tree, started>>
  BY DEF runBuild
<1>3. PICK s \in {"provenance", "restore"} : Going(c, s)
  BY DEF runBuild
<1>4. cmd'[c] = [cmd[c] EXCEPT !.pc = s]
  BY <1>3, GoingOn DEF Steps
<1>5. /\ cmd'[c].pc = s /\ cmd'[c].orig = cmd[c].orig /\ cmd'[c].role = cmd[c].role
      /\ cmd'[c].result = cmd[c].result /\ cmd'[c].base = cmd[c].base /\ cmd'[c].head = cmd[c].head
      /\ cmd'[c].measured = cmd[c].measured /\ cmd[c].role \in Roles
  BY <1>1, <1>4 DEF Commands
<1>7. \A r \in Roles : Meant(c, r)' = Meant(c, r)
  BY <1>2, <1>5, MeantKept
<1> QED BY <1>1, <1>2, <1>5, <1>7, SameRepository DEF Tidy, Roles

\* Provenance leaves the repository tidy.
LEMMA ProvenanceTidy ==
    ASSUME Typed, NEW c \in Comparers, Tidy(c), Labelled(c), Provenance(c)
    PROVE  Tidy(c)'
<1>1. cmd[c] \in Commands /\ cmd[c].pc = "provenance" /\ ~cmd[c].result
  BY DEF Typed, Provenance, At, Labelled
<1>2. UNCHANGED <<head, local, origin, tree, started>>
  BY DEF Provenance, repo, history
<1>3. PICK k \in {Commit, None}, d \in BOOLEAN :
        cmd'[c] = [cmd[c] EXCEPT !.pc = "run", !.sha[cmd[c].role] = k, !.dirty[cmd[c].role] = d]
  <2>1. Dirty \in BOOLEAN
    BY DEF Dirty
  <2>2. \E k \in {Commit, None}, d \in BOOLEAN :
          To(c, [cmd[c] EXCEPT !.pc = "run", !.sha[cmd[c].role] = k, !.dirty[cmd[c].role] = d])
    BY <2>1, Zenon DEF Provenance
  <2> QED BY <2>2 DEF To, Typed
<1>4. /\ cmd'[c].pc = "run" /\ cmd'[c].orig = cmd[c].orig /\ cmd'[c].role = cmd[c].role
      /\ cmd'[c].result = cmd[c].result /\ cmd'[c].base = cmd[c].base /\ cmd'[c].head = cmd[c].head
      /\ cmd'[c].measured = cmd[c].measured /\ cmd[c].role \in Roles
  BY <1>1, <1>3 DEF Commands
<1>5. \A r \in Roles : Meant(c, r)' = Meant(c, r)
  BY <1>2, <1>4, MeantKept
<1> QED BY <1>1, <1>2, <1>4, <1>5, SameRepository DEF Tidy, Roles

\* Running the benchmark leaves the repository tidy.
LEMMA RunTidy ==
    ASSUME Typed, NEW c \in Comparers, Tidy(c), Labelled(c), Run(c)
    PROVE  Tidy(c)'
<1>1. cmd[c] \in Commands /\ cmd[c].pc = "run" /\ ~cmd[c].result /\ cmd[c].role \in Roles
  BY DEF Typed, Run, At, Labelled, Commands
<1>2. UNCHANGED <<head, local, origin, tree, started>>
  BY DEF Run, repo, history
<1> DEFINE what == IF cmd[c].skipBuild THEN [commit |-> Commit, file |-> tree] ELSE artifact
           done == [cmd[c] EXCEPT !.measured[cmd[c].role] = what]
<1>3. what.commit = Meant(c, cmd[c].role)
  BY <1>1 DEF Tidy, Labelled, Built
<1> HIDE DEF what
<1>4. /\ done.role = cmd[c].role /\ done.measured = [cmd[c].measured EXCEPT ![cmd[c].role] = what] /\ done.orig = cmd[c].orig
      /\ done.result = cmd[c].result /\ done.base = cmd[c].base /\ done.head = cmd[c].head
      /\ DOMAIN done = {"pc", "base", "head", "orig", "role", "allowDirty", "skipBuild", "result", "sha", "dirty", "measured"}
  BY <1>1 DEF Commands
<1> HIDE DEF done
<1>5. \/ Going(c, "restore")
      \/ cmd[c].role = "base" /\ cmd'[c] = [done EXCEPT !.pc = "checkout", !.role = "head"]
      \/ cmd[c].role = "head" /\ cmd'[c] = [done EXCEPT !.pc = "restore", !.result = TRUE]
  BY DEF Run, To, Typed, done, what
<1>6. /\ cmd'[c].orig = cmd[c].orig /\ cmd'[c].base = cmd[c].base /\ cmd'[c].head = cmd[c].head
      /\ \/ /\ cmd'[c].pc = "restore" /\ cmd'[c].role = cmd[c].role /\ ~cmd'[c].result
            /\ cmd'[c].measured = cmd[c].measured
         \/ /\ cmd'[c].pc = "checkout" /\ cmd'[c].role = "head" /\ cmd[c].role = "base" /\ ~cmd'[c].result
            /\ cmd'[c].measured = done.measured
         \/ /\ cmd'[c].pc = "restore" /\ cmd'[c].role = "head" /\ cmd[c].role = "head" /\ cmd'[c].result
            /\ cmd'[c].measured = done.measured
  <2>1. CASE Going(c, "restore")
    <3>1. cmd'[c] = [cmd[c] EXCEPT !.pc = "restore"]
      BY <2>1, GoingOn DEF Steps
    <3> QED BY <1>1, <3>1 DEF Commands
  <2>2. CASE cmd[c].role = "base" /\ cmd'[c] = [done EXCEPT !.pc = "checkout", !.role = "head"]
    BY <1>1, <1>4, <2>2
  <2>3. CASE cmd[c].role = "head" /\ cmd'[c] = [done EXCEPT !.pc = "restore", !.result = TRUE]
    BY <1>1, <1>4, <2>3
  <2> QED BY <1>5, <2>1, <2>2, <2>3
<1>7. \A r \in Roles : done.measured[r] = IF r = cmd[c].role THEN what ELSE cmd[c].measured[r]
  BY <1>1, <1>4 DEF Commands
<1>8. \A r \in Roles : Meant(c, r)' = Meant(c, r)
  BY <1>2, <1>6, MeantKept
<1>9. /\ ~Dirty' /\ LocalsKept(c)'
      /\ cmd'[c].orig = IF started'[c].head \in Branches THEN started'[c].head ELSE "HEAD"
  BY <1>1, <1>2, <1>6, SameRepository DEF Tidy
<1>10. /\ cmd'[c].role = "head" => cmd'[c].measured["base"].commit = Meant(c, "base")
       /\ cmd'[c].result => cmd'[c].measured["head"].commit = Meant(c, "head")
  BY <1>3, <1>6, <1>7 DEF Tidy, Roles
<1> QED BY <1>6, <1>8, <1>9, <1>10 DEF Tidy, Roles

\* The deferred restore brings back the branch the command began on.
LEMMA RestoreTidy ==
    ASSUME Typed, NEW c \in Comparers, Tidy(c), Labelled(c), Restore(c), Clean(c), Clean(c)'
    PROVE  Tidy(c)'
<1> DEFINE x == cmd[c].orig
<1>1. /\ cmd[c] \in Commands /\ cmd[c].pc = "restore" /\ started' = started /\ started[c] \in Starts
      /\ faults = 0 /\ faults' = 0 /\ cmd[c].pc # "idle" /\ (CheckoutOK(x) \/ CheckoutFails(x))
  BY DEF Typed, Restore, At, history, Clean
<1>2. cmd'[c] = [cmd[c] EXCEPT !.pc = "done"]
  BY GoingOn DEF Restore, Steps
<1>3. /\ cmd'[c].pc = "done" /\ cmd'[c].role = cmd[c].role
      /\ cmd'[c].result = cmd[c].result /\ cmd'[c].base = cmd[c].base /\ cmd'[c].head = cmd[c].head
      /\ cmd'[c].measured = cmd[c].measured
  BY <1>1, <1>2 DEF Commands
<1>4. x = IF started[c].head \in Branches THEN started[c].head ELSE "HEAD"
  BY <1>1 DEF Tidy
<1>5. /\ ~Dirty' /\ LocalsKept(c)' /\ origin' = origin
      /\ started[c].head \in Branches => head' = started[c].head
  <2>1. x \in Revisions /\ ~Dirty /\ LocalsKept(c)
    BY <1>1 DEF Commands, Tidy
  <2>2. started[c].head \in Branches => x = started[c].head /\ local[x] # None
    BY <1>1, <1>4, <2>1, Assumptions DEF LocalsKept, Starts
  <2> HIDE DEF x
  <2> QED BY <1>1, <2>1, <2>2, CleanCheckout
<1>6. \A r \in Roles : Meant(c, r)' = Meant(c, r)
  BY <1>1, <1>3, <1>5, MeantKept
<1> QED BY <1>1, <1>3, <1>5, <1>6 DEF Tidy, Roles

\* Every step keeps the repository of an undisturbed clean command tidy.
LEMMA StepTidy ==
    ASSUME Typed, Sole, LabelsInv, TidyInv, NEW d \in Comparers, Step(d)
    PROVE  TidyInv'
<1> SUFFICES ASSUME NEW c \in Comparers, Undisturbed(c)', Clean(c)' PROVE Tidy(c)'
  BY DEF TidyInv
<1>1. c = d /\ (Begin(c) \/ (Undisturbed(c) /\ UNCHANGED <<started, overlap>>))
  BY OnlyOne
<1>2. CASE Begin(c)
  BY <1>2, BeginTidy
<1>3. CASE Report(c) \/ Kill(c)
  <2>1. cmd'[c].pc = "idle"
    BY <1>3 DEF Report, Kill, To, Idle, Typed
  <2> QED BY <2>1 DEF Undisturbed
<1>4. CASE ~(Report(c) \/ Kill(c) \/ Begin(c))
  <2>1. Labelled(c) /\ UNCHANGED started /\ Undisturbed(c)
    BY <1>1, <1>4 DEF LabelsInv
  <2>2. Clean(c) /\ (runBuild(c) => tree' = tree)
    BY <1>1, <1>4, <2>1, CleanBefore
  <2>3. Tidy(c)
    BY <2>1, <2>2 DEF TidyInv
  <2> QED BY <1>1, <1>4, <2>1, <2>2, <2>3, CaptureTidy, CheckoutTidy, BuildTidy, ProvenanceTidy,
             RunTidy, RestoreTidy DEF Step
<1> QED BY <1>1, <1>2, <1>3, <1>4

-----------------------------------------------------------------------------
IInv == Typed /\ Sole /\ LabelsInv /\ TidyInv

\* No command has begun: the invariant holds.
LEMMA InitIInv == Init => IInv
<1> SUFFICES ASSUME Init PROVE IInv
  OBVIOUS
<1>1. PICK r \in Repositories : head = r.head /\ local = r.local /\ origin = r.origin
  BY DEF Init
<1>2. /\ local \in [Branches -> Commits \cup {None}] /\ origin \in [Branches -> Commits \cup {None}]
      /\ head \in {b \in Branches : local[b] # None} \cup Commits
  BY <1>1, BranchesAssumption
<1>3. Commit \in Commits
  BY <1>2, BranchesAssumption DEF Commit
<1>4. tree \in Files
  <2>1. Content[Commit] \in {"one", "two"}
    BY <1>3, Assumptions
  <2> QED BY <2>1 DEF Init, Files
<1>5. head \in Branches => local[head] # None
  <2>1. head \in Branches /\ head \in Commits => local[head] # None
    BY <1>1, BranchesAssumption
  <2> QED BY <1>2, <2>1
<1>6. Idle \in Commands /\ Idle.pc = "idle"
  BY Assumptions DEF Idle, Commands, Revisions, Roles
<1>7. Typed
  BY <1>2, <1>4, <1>5, <1>6 DEF Init, Typed, Repository
<1>8. \A c \in Comparers : ~Undisturbed(c)
  BY <1>6 DEF Init, Undisturbed
<1> QED BY <1>7, <1>8 DEF IInv, Sole, LabelsInv, TidyInv

\* Steps that change nothing.
LEMMA StutterIInv == IInv /\ UNCHANGED vars => IInv'
<1> SUFFICES ASSUME IInv, UNCHANGED vars PROVE IInv'
  OBVIOUS
<1>1. UNCHANGED <<head, local, origin, tree, artifact, cmd, compares, faults, started, overlap, spoiled, blind>>
  BY DEF vars, repo, history
<1>2. Typed' /\ Sole'
  <2>1. Repository' /\ (\A c \in Comparers : Undisturbed(c)' <=> Undisturbed(c))
    BY <1>1 DEF IInv, Typed, Repository, Undisturbed
  <2> QED BY <1>1, <2>1 DEF IInv, Typed, Sole
<1>3. LabelsInv'
  <2>1. \A c \in Comparers : Undisturbed(c)' => Undisturbed(c)
    BY <1>1 DEF Undisturbed
  <2>2. \A c \in Comparers : Labelled(c) => Labelled(c)'
    BY <1>1 DEF Labelled, Label, AtBase, Built, Commit, Dirty
  <2> QED BY <2>1, <2>2 DEF IInv, LabelsInv
<1>4. TidyInv'
  <2>1. \A c \in Comparers : Undisturbed(c)' => Undisturbed(c)
    BY <1>1 DEF Undisturbed
  <2>2. \A c \in Comparers : Clean(c)' => Clean(c)
    BY <1>1 DEF Clean
  <2>3. /\ Dirty' = Dirty /\ Commit' = Commit
        /\ \A c : LocalsKept(c)' = LocalsKept(c)
        /\ \A c, r : Meant(c, r)' = Meant(c, r)
    BY <1>1 DEF Dirty, Commit, LocalsKept, Meant, Asked, Was
  <2>4. \A c \in Comparers : Tidy(c) => Tidy(c)'
    BY <1>1, <2>3 DEF Tidy
  <2> QED BY <2>1, <2>2, <2>4 DEF IInv, TidyInv
<1> QED BY <1>2, <1>3, <1>4 DEF IInv

\* Every step, of whichever command, keeps the invariant; idling does too.
LEMMA NextIInv == IInv /\ [Next]_vars => IInv'
<1> SUFFICES ASSUME IInv, Next PROVE IInv'
  BY StutterIInv
<1>1. PICK d \in Comparers : Step(d)
  BY DEF Next
<1> QED BY <1>1, StepTyped, StepSole, StepLabels, StepTidy DEF IInv

\* While a command has the repository for itself, what it notes is true and
\* where it goes is known.
THEOREM Invariance == Spec => []IInv
<1> QED BY InitIInv, NextIInv, PTL DEF Spec

\* A label never names another commit than the one measured, nor hides that
\* the file was changed (compare.Branches, provenance.Capture, runBuild); and
\* the commit is the one that was asked for, except that a head "HEAD" is
\* resolved after the base is checked out.
THEOREM LabelsAreTrue == Spec => []LabelsTrue
<1>1. IInv => LabelsTrue
  <2> SUFFICES ASSUME IInv, NEW c \in Comparers, Alone(c), cmd[c].result, NEW r \in Roles
               PROVE  /\ Label(c, r)
                      /\ IF r = "head" /\ cmd[c].head = "HEAD"
                         THEN cmd[c].measured[r].commit = cmd[c].measured["base"].commit
                         ELSE \/ cmd[c].measured[r].commit = Was(c, Asked(c, r))
                              \/ faults > 0 \/ started[c].dirty \/ c \in spoiled
    BY DEF LabelsTrue, Label
  <2>1. Undisturbed(c) /\ faults \in Nat
    BY DEF Alone, At, Undisturbed, IInv, Typed
  <2>2. Labelled(c)
    BY <2>1 DEF IInv, LabelsInv
  <2>3. Label(c, r) /\ cmd[c].role = "head"
    BY <2>2 DEF Labelled, Roles
  <2>4. CASE r = "head" /\ cmd[c].head = "HEAD"
    BY <2>2, <2>3, <2>4 DEF Labelled
  <2>5. CASE ~(r = "head" /\ cmd[c].head = "HEAD")
    <3>1. ASSUME Clean(c) PROVE cmd[c].measured[r].commit = Was(c, Asked(c, r))
      <4>1. Tidy(c)
        BY <2>1, <3>1 DEF IInv, TidyInv
      <4> QED BY <2>3, <2>5, <4>1 DEF Tidy, Roles, Meant
    <3> QED BY <2>1, <2>3, <2>5, <3>1 DEF Clean
  <2> QED BY <2>4, <2>5
<1> QED BY <1>1, Invariance, PTL

\* Whatever fails in a comparison, the deferred checkout brings a clean
\* repository back to its branch, and no branch has moved.
THEOREM CleanRepositoryRestored == Spec => []RestoresCleanRepository
<1>1. IInv => RestoresCleanRepository
  <2> SUFFICES ASSUME IInv, NEW c \in Comparers, Alone(c), faults = 0, c \notin spoiled,
                      started[c].head \in Branches, ~started[c].dirty
               PROVE  /\ head = started[c].head /\ ~Dirty
                      /\ \A b \in Branches : local[b] \in {started[c].local[b]} \cup
                             (IF started[c].local[b] = None THEN {origin[b]} ELSE {})
    BY DEF RestoresCleanRepository
  <2>1. Undisturbed(c) /\ Clean(c) /\ cmd[c].pc = "done"
    BY DEF Alone, At, Undisturbed, Clean
  <2>2. Tidy(c)
    BY <2>1 DEF IInv, TidyInv
  <2> QED BY <2>1, <2>2 DEF Tidy, LocalsKept
<1> QED BY <1>1, Invariance, PTL

\* No branch moves under the user's feet, except on a dirty tree or when a
\* checkout fails for a moment, with any number of commands at work.
THEOREM BranchesNeverMove == Spec => BranchesStay
<1>1. ASSUME IInv, [Next]_vars, NEW b \in Branches, local[b] # None, ~Dirty
      PROVE  local'[b] = local[b] \/ faults' > faults
  <2>1. local \in [Branches -> Commits \cup {None}] /\ faults \in Nat
    BY <1>1 DEF IInv, Typed, Repository
  <2>2. CASE \E d \in Comparers : Checkout(d) \/ Restore(d)
    <3>1. \E x : CheckoutOK(x) \/ CheckoutFails(x)
      BY <2>2 DEF Checkout, Restore
    <3> QED BY <1>1, <2>1, <3>1, CheckoutKeepsBranches
  <2>3. CASE ~(\E d \in Comparers : Checkout(d) \/ Restore(d))
    BY <1>1, <2>3 DEF Next, Step, Begin, Capture, runBuild, Provenance, Run, Report, Kill, vars, repo
  <2> QED BY <2>2, <2>3
<1>2. IInv /\ [Next]_vars =>
        [\A b \in Branches : local[b] # None /\ local'[b] # local[b] => Dirty \/ faults' > faults]_vars
  BY <1>1
<1> QED BY <1>2, Invariance, PTL DEF Spec, BranchesStay
=============================================================================
