----------------------------- MODULE GuardedWrites -----------------------------
(***************************************************************************)
(* GuardedFs::write_text (crates/leave-core/src/guarded_fs.rs) on one file  *)
(* of the workspace: devices save edits under a writer mutex and a hash of  *)
(* the content they edited, while the agent writes the same file directly.  *)
(*                                                                          *)
(* The hash is compared twice: by the request, and again by the blocking    *)
(* job that replaces the file.  The request is a future, dropped with its   *)
(* mutex guard when the device disconnects; a blocking job that has been    *)
(* spawned runs to its end without it, and nobody hears of the outcome.     *)
(* Line endings and permission bits are left out, and contents stand for    *)
(* their hashes.                                                            *)
(***************************************************************************)
EXTENDS Naturals, FiniteSets

CONSTANTS
  Requests,       \* save requests
  Contents,       \* contents of the file
  Empty,          \* no content, which is also what a missing file hashes to
  Nobody,         \* no request; the last writer is the agent
  MaxAgentWrites, \* bound: writes of the agent
  MaxDisconnects  \* bound: requests dropped by their devices

ASSUME WritesAssumption ==
  /\ Empty \in Contents
  /\ Nobody \notin Requests
  /\ MaxAgentWrites \in Nat
  /\ MaxDisconnects \in Nat

VARIABLES
  disk,       \* content of the file
  writer,     \* who wrote it: a request, or Nobody for the agent
  past,       \* contents the file has had, which devices may have read
  mutex,      \* the request that holds the writer mutex
  step,       \* step[r]: how far request r has come
  base,       \* base[r]: content whose hash the device sent
  draft,      \* draft[r]: content it wants to save
  found,      \* found[r]: content the first check read
  detached,   \* requests dropped while their blocking job was running
  raced,      \* requests whose last check preceded a write of the agent
  agentWrites, disconnects    \* counters of the bounds

vars == << disk, writer, past, mutex, step, base, draft, found, detached, raced,
           agentWrites, disconnects >>

file    == << disk, writer, past >>
request == << base, draft, found >>

(* new; waiting for the mutex; locked; queued: the blocking job is to check *)
(* again; verified: it is to replace the file; written: replaced and not    *)
(* answered; then the answers, or dropped with the connection.              *)
Steps == {"new", "waiting", "locked", "queued", "verified", "written",
          "saved", "conflict", "failed", "dropped"}

Blocking(r) == step[r] \in {"queued", "verified"}

Answered(r) == step[r] \in {"saved", "conflict", "failed", "dropped"}

TypeOK ==
  /\ disk \in Contents
  /\ writer \in Requests \cup {Nobody}
  /\ past \subseteq Contents /\ disk \in past
  /\ mutex \in Requests \cup {Nobody}
  /\ mutex # Nobody => step[mutex] \in {"locked", "queued", "verified", "written"}
  /\ step \in [Requests -> Steps]
  /\ base \in [Requests -> Contents]
  /\ draft \in [Requests -> Contents]
  /\ found \in [Requests -> Contents]
  /\ detached \subseteq Requests
  /\ raced \subseteq Requests
  /\ agentWrites \in 0..MaxAgentWrites
  /\ disconnects \in 0..MaxDisconnects

Init ==
  /\ disk = Empty /\ writer = Nobody /\ past = {Empty}
  /\ mutex = Nobody
  /\ step = [r \in Requests |-> "new"]
  /\ base = [r \in Requests |-> Empty]
  /\ draft = [r \in Requests |-> Empty]
  /\ found = [r \in Requests |-> Empty]
  /\ detached = {} /\ raced = {}
  /\ agentWrites = 0 /\ disconnects = 0

-----------------------------------------------------------------------------
Goto(r, s) == step' = [step EXCEPT ![r] = s]

(* The guard of the mutex goes with the request, whether or not it answers. *)
Release(r) == mutex' = IF mutex = r THEN Nobody ELSE mutex

Replace(c, w) == disk' = c /\ writer' = w /\ past' = past \cup {c}

(* A device that has read content b at some time asks to save content c. *)
Submit(r, b, c) ==
  /\ step[r] = "new"
  /\ b \in past
  /\ base' = [base EXCEPT ![r] = b]
  /\ draft' = [draft EXCEPT ![r] = c]
  /\ Goto(r, "waiting")
  /\ UNCHANGED << file, mutex, found, detached, raced, agentWrites, disconnects >>

(* Variant: requests do not exclude one another. *)
Lock_Shared(r) ==
  /\ step[r] = "waiting"
  /\ mutex' = r
  /\ Goto(r, "locked")
  /\ UNCHANGED << file, request, detached, raced, agentWrites, disconnects >>

Lock(r) ==
  /\ step[r] = "waiting"
  /\ mutex = Nobody
  /\ mutex' = r
  /\ Goto(r, "locked")
  /\ UNCHANGED << file, request, detached, raced, agentWrites, disconnects >>

(* Read the file, compare its hash with the device's, and spawn the job. *)
FirstCheck(r) ==
  /\ step[r] = "locked"
  /\ found' = [found EXCEPT ![r] = disk]
  /\ IF disk = base[r]
       THEN Goto(r, "queued") /\ UNCHANGED mutex
       ELSE Goto(r, "conflict") /\ Release(r)
  /\ UNCHANGED << file, base, draft, detached, raced, agentWrites, disconnects >>

(* Variant: the job does not look at the file again. *)
SecondCheck_Skipped(r) ==
  /\ step[r] = "queued"
  /\ Goto(r, "verified")
  /\ UNCHANGED << file, mutex, request, detached, raced, agentWrites, disconnects >>

(* The job reads the file again. *)
SecondCheck(r) ==
  /\ step[r] = "queued"
  /\ IF disk = found[r]
       THEN Goto(r, "verified") /\ UNCHANGED mutex
       ELSE Goto(r, "conflict") /\ Release(r)
  /\ UNCHANGED << file, request, detached, raced, agentWrites, disconnects >>

(* The job replaces the file with its temporary one, or fails. *)
Commit(r) ==
  /\ step[r] = "verified"
  /\ Replace(draft[r], r)
  /\ Goto(r, "written")
  /\ UNCHANGED << mutex, request, detached, raced, agentWrites, disconnects >>

CommitFails(r) ==
  /\ step[r] = "verified"
  /\ Goto(r, "failed")
  /\ Release(r)
  /\ UNCHANGED << file, request, detached, raced, agentWrites, disconnects >>

(* The metadata of the new file is read for the answer, which may fail,     *)
(* too.                                                                     *)
Answer(r) ==
  /\ step[r] = "written"
  /\ Goto(r, "saved") \/ Goto(r, "failed")
  /\ Release(r)
  /\ UNCHANGED << file, request, detached, raced, agentWrites, disconnects >>

(* Variant: the mutex stays locked when the request goes away. *)
Disconnect_KeepsMutex(r) ==
  /\ disconnects < MaxDisconnects
  /\ step[r] \in {"waiting", "locked", "queued", "verified", "written"}
  /\ r \notin detached
  /\ disconnects' = disconnects + 1
  /\ IF Blocking(r)
       THEN detached' = detached \cup {r} /\ UNCHANGED step
       ELSE Goto(r, "dropped") /\ UNCHANGED detached
  /\ UNCHANGED << file, mutex, request, raced, agentWrites >>

(* The device goes away and the request is dropped. *)
Disconnect(r) ==
  /\ disconnects < MaxDisconnects
  /\ step[r] \in {"waiting", "locked", "queued", "verified", "written"}
  /\ r \notin detached
  /\ disconnects' = disconnects + 1
  /\ Release(r)
  /\ IF Blocking(r)
       THEN detached' = detached \cup {r} /\ UNCHANGED step
       ELSE Goto(r, "dropped") /\ UNCHANGED detached
  /\ UNCHANGED << file, request, raced, agentWrites >>

AgentWrites(c) ==
  /\ agentWrites < MaxAgentWrites
  /\ agentWrites' = agentWrites + 1
  /\ Replace(c, Nobody)
  /\ raced' = raced \cup {r \in Requests : step[r] = "verified"}
  /\ UNCHANGED << mutex, step, request, detached, disconnects >>

-----------------------------------------------------------------------------
RequestStep(r) ==
  Lock(r) \/ FirstCheck(r) \/ SecondCheck(r) \/ Commit(r) \/ CommitFails(r) \/ Answer(r)

Next ==
  \/ \E r \in Requests, b, c \in Contents : Submit(r, b, c)
  \/ \E r \in Requests : RequestStep(r) \/ Disconnect(r)
  \/ \E c \in Contents : AgentWrites(c)

Spec == Init /\ [][Next]_vars

(* Requests are polled, the mutex is fair, and blocking jobs run. *)
Fairness == \A r \in Requests : SF_vars(Lock(r)) /\ WF_vars(RequestStep(r))

FairSpec == Spec /\ Fairness

-----------------------------------------------------------------------------
(* Properties                                                               *)

(* A device's save never replaces another device's save that it had not     *)
(* seen, unless the request of one of them was dropped half-way (the writer *)
(* mutex around both checks).                                               *)
SavesAreSerial ==
  [][\A r \in Requests :
       Commit(r) /\ disk # found[r] /\ writer # Nobody => detached # {}]_vars

(* The agent's work is only replaced unseen when it was written in the gap  *)
(* between the last check and the replacement (the second check, made by    *)
(* the blocking job itself).                                                *)
AgentWorkIsChecked ==
  [][\A r \in Requests :
       Commit(r) /\ disk # found[r] /\ writer = Nobody => r \in raced]_vars

(* Every request is answered: the mutex is never left locked.               *)
SavesAreAnswered ==
  \A r \in Requests : step[r] = "waiting" ~> Answered(r)

(* "Atomically write text when the caller still has the current base        *)
(* version" (the doc comment of write_text): of two saves of the same base  *)
(* by two devices the second is refused.                                    *)
SecondSaverIsRefused ==
  [][\A r \in Requests : Commit(r) /\ writer # Nobody => disk = base[r]]_vars

-----------------------------------------------------------------------------
(* The inductive invariant behind SavesAreSerial.                           *)

(* The mutex is held through the checks and the replacement, by every       *)
(* request that has not been dropped.                                       *)
HolderInv ==
  \A r \in Requests :
    step[r] \in {"locked", "queued", "verified", "written"} /\ r \notin detached => mutex = r

(* Without a dropped request the file changes under a job by the agent only.*)
FoundInv ==
  \A r \in Requests :
    step[r] \in {"queued", "verified"} /\ detached = {} => disk = found[r] \/ writer = Nobody

(* What a job has verified it still finds, or somebody wrote since. *)
VerifiedInv ==
  \A r \in Requests :
    step[r] = "verified" /\ disk # found[r] => writer # Nobody \/ r \in raced

Inv == TypeOK /\ HolderInv /\ FoundInv /\ VerifiedInv

=============================================================================
