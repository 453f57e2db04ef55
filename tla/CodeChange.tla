------------------------------ MODULE CodeChange ------------------------------
(***************************************************************************)
(* Patches of the server's own source: drafted by self-improvement         *)
(* (agents/self_improvement.py), decided by the owner                      *)
(* (approval/system.py), applied to production, tested and rolled back by  *)
(* the coding agent (agents/coding_agent.py).  A patch changes one file,   *)
(* from as it is to fixed.  Files are read and written by the threads of   *)
(* several requests, and the test suite reads them while it runs.          *)
(***************************************************************************)
EXTENDS Integers, Sequences

CONSTANTS
    Threads,        \* request threads
    Files,          \* source files with something to fix
    Good,           \* the sets of fixed files with which the tests pass
    MaxApprovals    \* bound: approvals requested

ASSUME CodeAssumption ==
    /\ Good \subseteq SUBSET Files
    /\ {} \in Good
    /\ MaxApprovals \in Nat

VARIABLES
    fixed,          \* production: the files that are fixed
    editing,        \* the control code_editing_enabled
    approvals,      \* table approvals: [file, patch, status]
    pc, on,         \* each thread's step, and the file or approval it is at
    saved,          \* its backup: the fixed files among those it saved
    seen,           \* what its test run has read
    tree, index,    \* the workspace and git's index: the files with the fix in
    head, tips,     \* the branch checked out, and what each one holds
    applied,        \* the approvals reported as applied
    lost,           \* history: the approvals one of whose git commands failed
    approved,       \* history: the approvals that the owner approved
    past            \* history: calls overlapped, one was torn

workspace == <<tree, index, head, tips, lost>>
local == <<pc, on, saved, seen>>
vars == <<fixed, editing, approvals, local, workspace, applied, approved, past>>

Nobody == 0

Numbers == 1..MaxApprovals

\* The branch of each approval, and the one that the workspace begins with.
Branches == 0..MaxApprovals

Untested == {"test", "tested", "restore"}
Applying == {"backup", "dryRun", "apply"} \union Untested
Committing == {"branch", "stage", "add", "commit"}
Labels == {"idle", "diff", "verify", "request", "approve", "reject"} \union Applying \union Committing

Init ==
    /\ fixed = {}
    /\ editing = TRUE
    /\ approvals = <<>>
    /\ pc = [t \in Threads |-> "idle"]
    /\ on = [t \in Threads |-> Nobody]
    /\ saved = [t \in Threads |-> {}]
    /\ seen = [t \in Threads |-> {}]
    /\ tree = {} /\ index = {} /\ head = 0
    /\ tips = [a \in Branches |-> {}]
    /\ applied = {} /\ lost = {}
    /\ approved = {}
    /\ past = {}

-----------------------------------------------------------------------------

Go(t, from, to, x) ==
    /\ pc[t] = from
    /\ pc' = [pc EXCEPT ![t] = to]
    /\ on' = [on EXCEPT ![t] = IF to = "idle" THEN Nobody ELSE x]

On(t, from, to) == Go(t, from, to, on[t])

\* The file of the approval that t applies.
File(t) == approvals[on[t]].file

\* set_controls writes the control.
SetEditing(b) ==
    /\ editing # b
    /\ editing' = b
    /\ UNCHANGED <<fixed, approvals, local, workspace, applied, approved, past>>

-----------------------------------------------------------------------------
(***************************************************************************)
(* propose_fixes, for one finding: the loop reads the file again, so that  *)
(* it does not matter when the finding was made.                           *)
(***************************************************************************)

ReadSource(t, f) ==
    /\ Go(t, "idle", "diff", f)
    /\ f \notin fixed
    /\ UNCHANGED <<fixed, editing, approvals, saved, seen, workspace, applied, approved, past>>

\* diff_patch reads the file once more: between an old and a new text that are
\* equal there is no difference.  saved[t] holds the file if there is one.
Diff(t) ==
    /\ On(t, "diff", "verify")
    /\ saved' = [saved EXCEPT ![t] = {on[t]} \ fixed]
    /\ UNCHANGED <<fixed, editing, approvals, seen, workspace, applied, approved, past>>

\* The sandbox parses the new text; it may be killed.
Verify(t) ==
    /\ On(t, "verify", "request") \/ On(t, "verify", "idle")
    /\ UNCHANGED <<fixed, editing, approvals, saved, seen, workspace, applied, approved, past>>

Request(t) ==
    /\ Len(approvals) < MaxApprovals    \* bound
    /\ On(t, "request", "idle")
    /\ approvals' = Append(approvals,
           [file |-> on[t], patch |-> IF saved[t] = {} THEN "empty" ELSE "fix", status |-> "pending"])
    /\ UNCHANGED <<fixed, editing, saved, seen, workspace, applied, approved, past>>

-----------------------------------------------------------------------------
(***************************************************************************)
(* decide: the row is read, and written without a condition.  The third    *)
(* decision, more_tests, does what a rejection does.                       *)
(***************************************************************************)

DecideRead(t, a) ==
    /\ approvals[a].status = "pending"
    /\ Go(t, "idle", "approve", a) \/ Go(t, "idle", "reject", a)
    /\ UNCHANGED <<fixed, editing, approvals, saved, seen, workspace, applied, approved, past>>

DecideWrite(t) ==
    /\ \/ /\ On(t, "approve", "idle")
          /\ approvals' = [approvals EXCEPT ![on[t]].status = "approved"]
          /\ approved' = approved \union {on[t]}
       \/ /\ On(t, "reject", "idle")
          /\ approvals' = [approvals EXCEPT ![on[t]].status = "rejected"]
          /\ UNCHANGED approved
    /\ UNCHANGED <<fixed, editing, saved, seen, workspace, applied, past>>

-----------------------------------------------------------------------------
(***************************************************************************)
(* execute_if_approved and apply_approved_patch.                           *)
(***************************************************************************)

BeginApply(t, a) ==
    /\ Go(t, "idle", "backup", a)
    /\ editing
    /\ approvals[a].patch # "empty"
    /\ past' = IF \E u \in Threads : pc[u] \in Applying \union Committing
               THEN past \union {"overlapped"} ELSE past
    /\ UNCHANGED <<fixed, editing, approvals, saved, seen, workspace, applied, approved>>

\* Variant of Execute: any approval is applied.
ExecuteAny(t, a) == BeginApply(t, a)

Execute(t, a) == approvals[a].status = "approved" /\ BeginApply(t, a)

Backup(t) ==
    /\ On(t, "backup", "dryRun")
    /\ saved' = [saved EXCEPT ![t] = {File(t)} \intersect fixed]
    /\ UNCHANGED <<fixed, editing, approvals, seen, workspace, applied, approved, past>>

\* patch --dry-run refuses what is applied already.
DryRun(t) ==
    /\ On(t, "dryRun", IF File(t) \in fixed THEN "idle" ELSE "apply")
    /\ UNCHANGED <<fixed, editing, approvals, saved, seen, workspace, applied, approved, past>>

Apply(t) ==
    /\ pc[t] = "apply"
    /\ IF File(t) \in fixed
       THEN On(t, "apply", "idle") /\ UNCHANGED fixed
       ELSE On(t, "apply", "test") /\ fixed' = fixed \union {File(t)}
    /\ UNCHANGED <<editing, approvals, saved, seen, workspace, applied, approved, past>>

\* The test run reads some files early and the others later.
Test(t) ==
    /\ On(t, "test", "tested")
    /\ seen' = [seen EXCEPT ![t] = fixed]
    /\ UNCHANGED <<fixed, editing, approvals, saved, workspace, applied, approved, past>>

Tested(t) ==
    /\ \E early \in SUBSET Files :
        On(t, "tested", IF (seen[t] \intersect early) \union (fixed \ early) \in Good
                        THEN "branch" ELSE "restore")
    /\ UNCHANGED <<fixed, editing, approvals, saved, seen, workspace, applied, approved, past>>

\* Variant of Restore: the backup is not found.
RestoreNothing(t) ==
    /\ On(t, "restore", "idle")
    /\ UNCHANGED <<fixed, editing, approvals, saved, seen, workspace, applied, approved, past>>

Restore(t) ==
    /\ On(t, "restore", "idle")
    /\ fixed' = (fixed \ {File(t)}) \union saved[t]
    /\ UNCHANGED <<editing, approvals, saved, seen, workspace, applied, approved, past>>

-----------------------------------------------------------------------------
(***************************************************************************)
(* The commit in the workspace: four commands on one working tree.  A git  *)
(* command may fail (another's lock, or one that a crash left; the disk is *)
(* full), and nobody asks.                                                 *)
(***************************************************************************)

GitStep(t, from, to) ==
    /\ On(t, from, to)
    /\ UNCHANGED <<fixed, editing, approvals, saved, seen, approved, past>>

\* The command's outcome, or no effect at all.
GitOr(t, done, kept) ==
    \/ done /\ UNCHANGED lost
    \/ UNCHANGED kept /\ lost' = lost \union {on[t]}

\* git checkout -B: the branch starts where the last one ended.
Branch(t) ==
    /\ GitStep(t, "branch", "stage")
    /\ GitOr(t, head' = on[t] /\ tips' = [tips EXCEPT ![on[t]] = tips[head]], <<head, tips>>)
    /\ UNCHANGED <<tree, index, applied>>

\* stage_copy_to_workspace copies what production holds by now.
Stage(t) ==
    /\ GitStep(t, "stage", "add")
    /\ tree' = IF File(t) \in fixed THEN tree \union {File(t)} ELSE tree \ {File(t)}
    /\ UNCHANGED <<index, head, tips, lost, applied>>

\* Variant of Add: forgotten.
AddNothing(t) ==
    /\ GitStep(t, "add", "commit")
    /\ UNCHANGED <<workspace, applied>>

Add(t) ==
    /\ GitStep(t, "add", "commit")
    /\ GitOr(t, index' = tree, index)
    /\ UNCHANGED <<tree, head, tips, applied>>

\* It is reported as applied whatever became of the commands.
Commit(t) ==
    /\ GitStep(t, "commit", "idle")
    /\ GitOr(t, tips' = [tips EXCEPT ![head] = index], tips)
    /\ applied' = applied \union {on[t]}
    /\ UNCHANGED <<tree, index, head>>

-----------------------------------------------------------------------------

Torn(S) == past' = IF \E t \in S : pc[t] \in Untested THEN past \union {"torn"} ELSE past

\* A step raises: python is not found, the disk is full, git is not there.
Raise(t) ==
    /\ pc[t] # "idle"
    /\ On(t, pc[t], "idle")
    /\ Torn({t})
    /\ UNCHANGED <<fixed, editing, approvals, saved, seen, workspace, applied, approved>>

Crash ==
    /\ pc' = [t \in Threads |-> "idle"]
    /\ on' = [t \in Threads |-> Nobody]
    /\ saved' = [t \in Threads |-> {}]
    /\ seen' = [t \in Threads |-> {}]
    /\ Torn(Threads)
    /\ UNCHANGED <<fixed, editing, approvals, workspace, applied, approved>>

Next ==
    \/ Crash
    \/ \E b \in BOOLEAN : SetEditing(b)
    \/ \E t \in Threads :
        \/ \E f \in Files : ReadSource(t, f)
        \/ Diff(t) \/ Verify(t) \/ Request(t)
        \/ \E a \in 1..Len(approvals) : DecideRead(t, a) \/ Execute(t, a)
        \/ DecideWrite(t)
        \/ Backup(t) \/ DryRun(t) \/ Apply(t) \/ Test(t) \/ Tested(t) \/ Restore(t)
        \/ Branch(t) \/ Stage(t) \/ Add(t) \/ Commit(t)
        \/ Raise(t)

Spec == Init /\ [][Next]_vars

-----------------------------------------------------------------------------

\* Types: a thread is at an approval exactly when it decides or applies one, and
\* the branch checked out is that of an approval.
TypeOK ==
    /\ fixed \subseteq Files
    /\ editing \in BOOLEAN
    /\ approvals \in Seq([file : Files, patch : {"fix", "empty"},
                          status : {"pending", "approved", "rejected"}])
    /\ Len(approvals) <= MaxApprovals
    /\ pc \in [Threads -> Labels]
    /\ \A t \in Threads :
        IF pc[t] = "idle" THEN on[t] = Nobody
        ELSE IF pc[t] \in {"diff", "verify", "request"} THEN on[t] \in Files
        ELSE on[t] \in 1..Len(approvals)
    /\ saved \in [Threads -> SUBSET Files]
    /\ seen \in [Threads -> SUBSET Files]
    /\ tree \subseteq Files /\ index \subseteq Files
    /\ head \in 0..Len(approvals)
    /\ tips \in [Branches -> SUBSET Files]
    /\ applied \subseteq 1..Len(approvals) /\ lost \subseteq 1..Len(approvals)
    /\ approved \subseteq 1..Len(approvals)
    /\ past \subseteq {"overlapped", "torn"}

\* SECURITY.md:10: production that no call is changing passes its tests,
\* whatever was approved and however often it was executed: unless two calls
\* overlapped, or one was cut off before its tests were over.
ProductionPasses ==
    past = {} /\ (\A t \in Threads : pc[t] \notin Untested) => fixed \in Good

\* A file that is not as it was when the server was installed was fixed by a
\* patch that the owner approved, also when a rollback put it back
\* (approval/system.py:73, "the ONLY path to production").
OwnerApproved ==
    [][\A f \in fixed' \ fixed :
         \E a \in approved : approvals[a].file = f /\ approvals[a].patch = "fix"]_vars

\* What is reported as applied is committed on a branch of its own
\* (coding_agent.py:105-109), although staging copies what production holds
\* then: unless calls overlapped, or one of its own git commands failed, which
\* nobody asks (coding_agent.py:63).  The failed commands of another approval
\* take nothing from it, although all of them share a working tree and an index.
BranchHoldsChange ==
    "overlapped" \notin past => \A a \in applied \ lost : approvals[a].file \in tips[a]
=============================================================================
