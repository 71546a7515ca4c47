-------------------------------- MODULE GitPanel --------------------------------
(***************************************************************************)
(* The Git panel (files-panel.tsx), the handlers of the host                *)
(* (local_server.rs) and the commands they run (git.rs), beside an agent    *)
(* that edits the same working tree and uses Git itself.                    *)
(*                                                                          *)
(* A file is its content, Absent when there is none; a tree is a function   *)
(* from paths to contents.  Every Git command but status, diff and push     *)
(* holds index.lock and fails when it is held.  Only a switch takes time:   *)
(* Git looks at the working tree and writes it later.  diff, the list of    *)
(* branches and the inventory of worktrees change nothing and are left out. *)
(***************************************************************************)
EXTENDS Naturals, FiniteSets

CONSTANTS
  Paths,       \* repository-relative paths
  Contents,    \* what a file may hold
  Absent,      \* there is no file
  Branches,    \* local branches
  NoBranch,    \* no switch is under way
  MaxCommits   \* bound: commits made

ASSUME GitAssumption ==
  Absent \notin Contents /\ NoBranch \notin Branches /\ MaxCommits \in Nat

VARIABLES
  ignored,    \* paths that .gitignore matches
  head,       \* the branch that is checked out
  tip,        \* tip[b]: the tree of the last commit of b
  staged,     \* the index
  working,    \* the working tree
  unmerged,   \* paths a merge of the agent left in conflict
  ahead,      \* branches with commits the upstream does not have
  switching,  \* where the switch that holds index.lock leads
  touched,    \* paths the agent wrote since that switch has looked
  commits,    \* commits made
  listed,     \* names the panel lists
  selected,   \* names that are ticked
  pushArmed   \* "Push upstream" was pressed once

gvars == << ignored, head, tip, staged, working, unmerged, ahead, switching, touched,
            commits, listed, selected, pushArmed >>

repository == << head, tip, staged, working, unmerged, ahead, switching, touched, commits >>

Trees == [Paths -> Contents \cup {Absent}]

GitInit ==
  /\ ignored \in SUBSET Paths
  /\ head \in Branches
  /\ tip \in [Branches -> Trees]
  /\ staged = tip[head] /\ working = tip[head]
  /\ unmerged = {} /\ ahead = {}
  /\ switching = NoBranch /\ touched = {}
  /\ commits = 0
  /\ listed = {} /\ selected = {} /\ pushArmed = FALSE

-----------------------------------------------------------------------------
(* What status reports *)

(* .gitignore is about files that Git does not track. *)
Ignored(p) == p \in ignored /\ staged[p] = Absent

(* Git shows a path that left the index and one that entered it with the    *)
(* same content as one rename.                                              *)
RenamedTo(p) ==
  \E q \in Paths \ {p} :
    /\ tip[head][p] = Absent /\ staged[p] # Absent
    /\ staged[q] = Absent /\ tip[head][q] = staged[p]

RenamedFrom(q) ==
  \E p \in Paths \ {q} :
    /\ working[q] = Absent
    /\ tip[head][p] = Absent /\ staged[p] # Absent
    /\ staged[q] = Absent /\ tip[head][q] = staged[p]

Changed(p) ==
  \/ tip[head][p] # staged[p]
  \/ staged[p] # working[p] /\ ~Ignored(p)
  \/ p \in unmerged

Scored(p) == << "R100", p >>

(* parse_status.  A record of a rename has one field more than one of a     *)
(* change, so the name ends up behind its similarity score, and the former  *)
(* path is taken off the next record.  A record of an unmerged path begins  *)
(* with u and is skipped.                                                   *)
parse_status ==
  {p \in Paths \ unmerged : Changed(p) /\ ~RenamedTo(p) /\ ~RenamedFrom(p)}
    \cup {Scored(p) : p \in {q \in Paths \ unmerged : RenamedTo(q)}}

-----------------------------------------------------------------------------
(* The panel *)

Refresh ==
  /\ listed' = parse_status
  /\ selected' = {}
  /\ UNCHANGED << repository, pushArmed >>

Toggle(name) ==
  /\ name \in listed
  /\ selected' = IF name \in selected THEN selected \ {name} ELSE selected \cup {name}
  /\ UNCHANGED << repository, listed, pushArmed >>

ArmPush ==
  /\ ~pushArmed
  /\ pushArmed' = TRUE
  /\ UNCHANGED << repository, listed, selected >>

-----------------------------------------------------------------------------
(* The commands.  One that fails keeps the selection, and changes nothing   *)
(* but for a stage that meets an ignored file.                              *)

Unlocked == switching = NoBranch

(* require_paths, and Git: every name is that of a file it knows. *)
Stageable(names) ==
  names # {} /\ \A n \in names : n \in Paths /\ (working[n] # Absent \/ staged[n] # Absent \/ n \in unmerged)

(* Git adds what it may and fails when one of the names is ignored. *)
Stage ==
  /\ Unlocked /\ Stageable(selected)
  /\ LET added == {p \in selected : ~Ignored(p) \/ p \in unmerged}
     IN /\ staged' = [p \in Paths |-> IF p \in added THEN working[p] ELSE staged[p]]
        /\ unmerged' = unmerged \ added
        /\ selected' = IF added = selected THEN {} ELSE selected
  /\ UNCHANGED << head, tip, working, ahead, switching, touched, commits, listed, pushArmed >>

Unstageable(names) ==
  names # {} /\ \A n \in names : n \in Paths /\ (tip[head][n] # Absent \/ staged[n] # Absent)

(* Variant: restore without --staged, which writes the working tree. *)
Unstage_RestoresWork ==
  /\ Unlocked /\ Unstageable(selected)
  /\ working' = [p \in Paths |-> IF p \in selected THEN staged[p] ELSE working[p]]
  /\ selected' = {}
  /\ UNCHANGED << head, tip, staged, unmerged, ahead, switching, touched, commits, listed, pushArmed >>

Unstage ==
  /\ Unlocked /\ Unstageable(selected)
  /\ staged' = [p \in Paths |-> IF p \in selected THEN tip[head][p] ELSE staged[p]]
  /\ unmerged' = unmerged \ selected
  /\ selected' = {}
  /\ UNCHANGED << head, tip, working, ahead, switching, touched, commits, listed, pushArmed >>

CommitTree(tree) ==
  /\ commits < MaxCommits
  /\ tree # tip[head]
  /\ tip' = [tip EXCEPT ![head] = tree]
  /\ ahead' = ahead \cup {head}
  /\ commits' = commits + 1

(* commit: what is staged, when there is something and nothing is unmerged. *)
Commit ==
  /\ Unlocked /\ unmerged = {}
  /\ CommitTree(staged)
  /\ selected' = {}
  /\ UNCHANGED << head, staged, working, unmerged, switching, touched, listed, pushArmed >>

(* push: the branch that is checked out when the command runs. *)
Push ==
  /\ pushArmed
  /\ ahead' = ahead \ {head}
  /\ pushArmed' = FALSE
  /\ selected' = {}
  /\ UNCHANGED << head, tip, staged, working, unmerged, switching, touched, commits, listed >>

(* A path the branches disagree on is written, unless the index already has *)
(* what the branch has.                                                     *)
Rewritten(b) == {p \in Paths : tip[b][p] # tip[head][p] /\ staged[p] # tip[b][p]}

(* Git refuses to switch over work that is not committed, but overwrites    *)
(* ignored files: --no-overwrite-ignore is not given.  It also refuses      *)
(* while a resolved merge waits for its commit, which the model lets pass.  *)
SwitchKeepsWork(b) ==
  /\ unmerged = {}
  /\ \A p \in Rewritten(b) :
       /\ staged[p] = tip[head][p]
       /\ working[p] \in {staged[p], Absent} \/ Ignored(p)

(* switch_branch: Git is called without --force. *)
SwitchBranch(b) ==
  /\ Unlocked /\ b # head
  /\ SwitchKeepsWork(b)
  /\ switching' = b
  /\ touched' = {}
  /\ UNCHANGED << head, tip, staged, working, unmerged, ahead, commits, listed, selected, pushArmed >>

SwitchWrites ==
  /\ ~Unlocked
  /\ LET written == Rewritten(switching)
         Over(tree) == [p \in Paths |-> IF p \in written THEN tip[switching][p] ELSE tree[p]]
     IN staged' = Over(staged) /\ working' = Over(working)
  /\ head' = switching
  /\ switching' = NoBranch /\ touched' = {}
  /\ selected' = {}
  /\ UNCHANGED << tip, unmerged, ahead, commits, listed, pushArmed >>

-----------------------------------------------------------------------------
(* The agent *)

AgentWrites(p, content) ==
  /\ content # working[p]
  /\ working' = [working EXCEPT ![p] = content]
  /\ touched' = IF Unlocked THEN {} ELSE touched \cup {p}
  /\ UNCHANGED << head, tip, staged, unmerged, ahead, switching, commits, listed, selected, pushArmed >>

(* git commit -a *)
AgentCommits ==
  /\ Unlocked /\ unmerged = {}
  /\ CommitTree([p \in Paths |-> IF staged[p] = Absent THEN Absent ELSE working[p]])
  /\ staged' = tip'[head]
  /\ UNCHANGED << head, working, unmerged, switching, touched, listed, selected, pushArmed >>

(* A merge into a clean tree that ends in a conflict. *)
AgentMerges(p, content) ==
  /\ Unlocked /\ unmerged = {} /\ staged = tip[head] /\ working = staged
  /\ staged[p] # Absent
  /\ unmerged' = {p}
  /\ working' = [working EXCEPT ![p] = content]
  /\ UNCHANGED << head, tip, staged, ahead, switching, touched, commits, listed, selected, pushArmed >>

-----------------------------------------------------------------------------
GitNext ==
  /\ UNCHANGED ignored
  /\ \/ Refresh \/ ArmPush \/ Stage \/ Unstage \/ Commit \/ Push \/ SwitchWrites \/ AgentCommits
     \/ \E name \in listed : Toggle(name)
     \/ \E b \in Branches : SwitchBranch(b)
     \/ \E p \in Paths, content \in Contents \cup {Absent} :
          AgentWrites(p, content) \/ AgentMerges(p, content)

GitSpec == GitInit /\ [][GitNext]_gvars

-----------------------------------------------------------------------------
(* Properties                                                               *)

(* "Unstage exact repository-relative paths without touching their content" *)
(* (git.rs), and no other button touches it either: no step of the panel    *)
(* replaces a file of the working tree that differs from the last commit,   *)
(* whatever the agent did since the panel was refreshed.  Two exceptions: a *)
(* switch overwrites an ignored file that the other branch tracks, and what *)
(* the agent writes between the look and the writing of a switch is beyond  *)
(* Leave.  The index is not the working tree: what is only staged is lost   *)
(* when it is unstaged or staged anew, as the buttons say.                  *)
WorkSurvives ==
  [][\A p \in Paths :
       working'[p] # working[p]
         => \/ working[p] \in {Absent, tip[head][p]}
            \/ p \in touched
            \/ Ignored(p)
            \/ \E content \in Contents \cup {Absent} : AgentWrites(p, content) \/ AgentMerges(p, content)]_gvars

-----------------------------------------------------------------------------
(* The inductive invariant behind it.                                       *)

Listings == Paths \cup {Scored(p) : p \in Paths}

GitTypeOK ==
  /\ ignored \subseteq Paths /\ head \in Branches
  /\ tip \in [Branches -> Trees] /\ staged \in Trees /\ working \in Trees
  /\ unmerged \subseteq Paths /\ ahead \subseteq Branches
  /\ switching \in Branches \cup {NoBranch} /\ touched \subseteq Paths
  /\ commits \in 0..MaxCommits
  /\ listed \subseteq Listings /\ selected \subseteq Listings
  /\ pushArmed \in BOOLEAN

(* While a switch holds index.lock, what it has looked at is as it was, but *)
(* for the files the agent writes; ignored files it has not looked at.      *)
SwitchInv ==
  switching # NoBranch =>
    \A p \in Rewritten(switching) :
      p \in touched \/ Ignored(p) \/ working[p] \in {tip[head][p], Absent}

GitPanelInv == GitTypeOK /\ SwitchInv

=============================================================================
