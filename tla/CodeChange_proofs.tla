--------------------------- MODULE CodeChange_proofs ---------------------------
(* Proofs about CodeChange, for any threads, files, bounds and test suites.   *)
EXTENDS CodeChange, TLAPS

Drafting == {"diff", "verify", "request"}
Active == Applying \union Committing

\* What a thread at the step l is at.
Fits(l, x) ==
    IF l = "idle" THEN TRUE
    ELSE IF l \in Drafting THEN x \in Files
    ELSE x \in 1..Len(approvals)

At(t) ==
    /\ Fits(pc[t], on[t])
    /\ pc[t] = "idle" => on[t] = Nobody

Base == TypeOK /\ on = [t \in Threads |-> on[t]]

\* What a call knows of its approval and of its backup.
Own(t) ==
    pc[t] \in Applying =>
        /\ on[t] \in approved
        /\ approvals[on[t]].patch = "fix"
        /\ pc[t] # "backup" => saved[t] \subseteq {File(t)}

OwnInv ==
    /\ \A a \in 1..Len(approvals) : approvals[a].status = "approved" => a \in approved
    /\ \A t \in Threads : Own(t)

\* What a call knows of production while nobody disturbs it.
Knows(t) ==
    /\ pc[t] = "dryRun" => saved[t] = {File(t)} \intersect fixed
    /\ pc[t] = "apply" => saved[t] = {} /\ File(t) \notin fixed
    /\ pc[t] \in Untested => /\ saved[t] = {}
                             /\ File(t) \in fixed
                             /\ fixed \ {File(t)} \in Good
    /\ pc[t] = "tested" => seen[t] = fixed

Alone == \A t, u \in Threads : pc[t] \in Active /\ pc[u] \in Active => t = u

PassInv ==
    past = {} =>
        /\ Alone
        /\ \A t \in Threads : Knows(t)
        /\ (\A t \in Threads : pc[t] \notin Untested) => fixed \in Good

\* No approval that was applied is about the file that t changes.
Unclaimed(t) == \A a \in applied : approvals[a].file # File(t)

\* What a call knows of production, of the workspace and of its branch while
\* nobody disturbs it, also after another one was cut off.
Holds(t) ==
    /\ pc[t] = "dryRun" => saved[t] = {File(t)} \intersect fixed
    /\ pc[t] \in {"apply"} \union Untested => saved[t] = {}
    /\ pc[t] \in Untested \union Committing => File(t) \in fixed /\ Unclaimed(t)
    /\ pc[t] \in {"stage", "add", "commit"} => on[t] \in lost \/ head = on[t]
    /\ pc[t] \in {"add", "commit"} => File(t) \in tree
    /\ pc[t] = "commit" => on[t] \in lost \/ File(t) \in index

\* What was applied is in production and in the workspace, and, unless a git
\* command of its own failed, in the index and on its branch.
Kept ==
    \A a \in applied :
        /\ approvals[a].file \in fixed \intersect tree
        /\ a \notin lost => approvals[a].file \in index \intersect tips[a]

BranchInv ==
    "overlapped" \notin past =>
        /\ Alone
        /\ \A t \in Threads : Holds(t)
        /\ Kept

Inv == Base /\ OwnInv /\ PassInv /\ BranchInv

-----------------------------------------------------------------------------
(* Types. *)

\* A thread's step leaves every thread at something that fits its label.
LEMMA Moves ==
    ASSUME Base, NEW t \in Threads, NEW from, NEW to \in Labels, NEW x,
           Go(t, from, to, x), Fits(to, x), Len(approvals) <= Len(approvals'),
           Len(approvals') \in Nat
    PROVE  /\ pc' \in [Threads -> Labels]
           /\ on' = [u \in Threads |-> on'[u]]
           /\ \A u \in Threads : At(u)'
<1>1. Len(approvals) \in Nat
  BY DEF Base, TypeOK
<1>2. /\ pc' = [pc EXCEPT ![t] = to]
      /\ on' = [on EXCEPT ![t] = IF to = "idle" THEN Nobody ELSE x]
      /\ pc \in [Threads -> Labels] /\ on = [u \in Threads |-> on[u]]
  BY DEF Go, Base, TypeOK
<1>3. pc' \in [Threads -> Labels] /\ on' = [u \in Threads |-> on'[u]]
  BY <1>2
<1>4. ASSUME NEW u \in Threads
      PROVE  At(u)'
  <2>1. CASE u = t
    BY <2>1, <1>1, <1>2 DEF At, Fits
  <2>2. CASE u # t
    <3>1. pc'[u] = pc[u] /\ on'[u] = on[u]
      BY <1>2, <2>2
    <3>2. At(u)
      BY DEF Base, TypeOK, At, Fits, Drafting
    <3>3. QED
      BY <3>1, <3>2, <1>1 DEF At, Fits
  <2>3. QED
    BY <2>1, <2>2
<1>5. QED
  BY <1>3, <1>4

\* A step that stays among the drafting steps, or among those of an approval.
LEMMA Stays ==
    ASSUME Base, NEW t \in Threads, pc[t] # "idle",
           NEW to \in Labels, to = "idle" \/ (to \in Drafting <=> pc[t] \in Drafting)
    PROVE  Fits(to, on[t])
BY DEF Base, TypeOK, Fits, Drafting

\* The rest of TypeOK, when approvals and the threads' places are as they should be.
Rest ==
    /\ fixed \subseteq Files
    /\ editing \in BOOLEAN
    /\ saved \in [Threads -> SUBSET Files]
    /\ seen \in [Threads -> SUBSET Files]
    /\ tree \subseteq Files /\ index \subseteq Files
    /\ head \in 0..Len(approvals)
    /\ tips \in [Branches -> SUBSET Files]
    /\ applied \subseteq 1..Len(approvals) /\ lost \subseteq 1..Len(approvals)
    /\ approved \subseteq 1..Len(approvals)
    /\ past \subseteq {"overlapped", "torn"}

Row == [file : Files, patch : {"fix", "empty"}, status : {"pending", "approved", "rejected"}]

Rows ==
    /\ approvals \in Seq(Row)
    /\ Len(approvals) <= MaxApprovals

Places ==
    /\ pc \in [Threads -> Labels]
    /\ on = [t \in Threads |-> on[t]]
    /\ \A t \in Threads : At(t)

LEMMA Parts == Base <=> Rest /\ Rows /\ Places
BY DEF Base, TypeOK, Rest, Rows, Row, Places, At, Fits, Drafting

LEMMA PartsNext ==
    ASSUME Rest', Rows', Places'
    PROVE  Base'
BY DEF Base, TypeOK, Rest, Rows, Row, Places, At, Fits, Drafting

\* A call begins.
LEMMA Begins ==
    ASSUME Base, NEW t \in Threads, NEW to \in Labels, NEW x, Go(t, "idle", to, x),
           Fits(to, x), UNCHANGED approvals
    PROVE  Places' /\ Rows'
<1>1. Rows /\ Len(approvals) \in Nat
  BY Parts DEF Rows
<1>2. Rows'
  BY <1>1 DEF Rows
<1>3. Len(approvals) <= Len(approvals') /\ Len(approvals') \in Nat
  BY <1>1
<1>4. QED
  BY <1>2, <1>3, Moves DEF Places

LEMMA MovesOn ==
    ASSUME Base, NEW t \in Threads, NEW from \in Labels \ {"idle"},
           NEW to \in Labels, to = "idle" \/ (to \in Drafting <=> from \in Drafting),
           On(t, from, to), UNCHANGED approvals
    PROVE  Places' /\ Rows'
<1>1. pc[t] = from
  BY DEF On, Go
<1>2. Fits(to, on[t])
  BY <1>1, Stays
<1>3. Rows /\ Len(approvals) \in Nat
  BY Parts DEF Rows
<1>4. approvals' = approvals /\ Go(t, from, to, on[t])
  BY DEF On
<1>5. Rows'
  BY <1>3, <1>4 DEF Rows
<1>6. Len(approvals) <= Len(approvals') /\ Len(approvals') \in Nat
  BY <1>3, <1>4
<1>7. QED
  BY <1>2, <1>4, <1>5, <1>6, Moves DEF Places

LEMMA FileOf ==
    ASSUME Base, NEW t \in Threads, pc[t] \in Active
    PROVE  /\ on[t] \in 1..Len(approvals)
           /\ File(t) \in Files
           /\ on[t] \in Branches
<1>1. on[t] \in 1..Len(approvals)
  BY DEF Base, TypeOK, Active, Applying, Untested, Committing
<1>2. Len(approvals) \in Nat /\ Len(approvals) <= MaxApprovals /\ MaxApprovals \in Nat
  BY CodeAssumption DEF Base, TypeOK
<1>3. approvals[on[t]] \in Row
  BY <1>1, Parts DEF Rows
<1>4. approvals[on[t]].file \in Files
  BY <1>3 DEF Row
<1>5. QED
  BY <1>1, <1>2, <1>4 DEF File, Branches

-----------------------------------------------------------------------------

LEMMA DraftType ==
    ASSUME Base, NEW t \in Threads,
           (\E f \in Files : ReadSource(t, f)) \/ Diff(t) \/ Verify(t) \/ Request(t)
    PROVE  Base'
<1>0. Rest /\ Rows /\ Places /\ Len(approvals) \in Nat
  BY Parts DEF Rows
<1>1. CASE \E f \in Files : ReadSource(t, f)
  <2>1. PICK f \in Files : ReadSource(t, f)
    BY <1>1
  <2>2. Fits("diff", f)
    BY DEF Fits, Drafting
  <2>3. Places' /\ Rows'
    BY <2>1, <2>2, Begins DEF ReadSource, Labels
  <2>4. QED
    BY <1>0, <2>1, <2>3, PartsNext DEF ReadSource, Rest, workspace
<1>2. CASE Diff(t)
  <2>1. Places' /\ Rows'
    BY <1>2, MovesOn DEF Diff, Labels, Drafting
  <2>2. on[t] \in Files
    BY <1>0, <1>2 DEF Places, At, Fits, Diff, On, Go, Drafting
  <2>3. Rest'
    BY <1>0, <1>2, <2>2 DEF Rest, Diff, workspace
  <2>4. QED
    BY <2>1, <2>3, PartsNext
<1>3. CASE Verify(t)
  <2>1. Places' /\ Rows'
    BY <1>3, MovesOn DEF Verify, Labels, Drafting
  <2>2. Rest'
    BY <1>0, <1>3 DEF Rest, Verify, workspace
  <2>3. QED
    BY <2>1, <2>2, PartsNext
<1>4. CASE Request(t)
  <2>1. on[t] \in Files
    BY <1>0, <1>4 DEF Places, At, Fits, Request, On, Go, Drafting
  <2>2. /\ Rows'
        /\ Len(approvals') = Len(approvals) + 1
    <3>1. PICK p \in {"fix", "empty"} :
              approvals' = Append(approvals, [file |-> on[t], patch |-> p, status |-> "pending"])
      BY <1>4 DEF Request
    <3>2. [file |-> on[t], patch |-> p, status |-> "pending"] \in Row
      BY <2>1 DEF Row
    <3>3. Len(approvals) < MaxApprovals /\ MaxApprovals \in Nat
      BY <1>4, CodeAssumption DEF Request
    <3>4. QED
      BY <1>0, <3>1, <3>2, <3>3 DEF Rows
  <2>3. Fits("idle", on[t])
    BY DEF Fits
  <2>4. Places'
    <3>1. Go(t, "request", "idle", on[t]) /\ "idle" \in Labels
      BY <1>4 DEF Request, On, Labels
    <3>2. Len(approvals) <= Len(approvals') /\ Len(approvals') \in Nat
      BY <1>0, <2>2
    <3>3. QED
      BY <2>3, <3>1, <3>2, Moves DEF Places
  <2>5. Rest'
    BY <1>0, <1>4, <2>2 DEF Rest, Request, workspace
  <2>6. QED
    BY <2>2, <2>4, <2>5, PartsNext
<1>5. QED
  BY <1>1, <1>2, <1>3, <1>4

LEMMA DecideType ==
    ASSUME Base, NEW t \in Threads,
           (\E a \in 1..Len(approvals) : DecideRead(t, a)) \/ DecideWrite(t)
    PROVE  Base'
<1>0. Rest /\ Rows /\ Places /\ Len(approvals) \in Nat
  BY Parts DEF Rows
<1>1. CASE \E a \in 1..Len(approvals) : DecideRead(t, a)
  <2>1. PICK a \in 1..Len(approvals) : DecideRead(t, a)
    BY <1>1
  <2>2. Fits("approve", a) /\ Fits("reject", a)
    BY DEF Fits, Drafting
  <2>3. Places' /\ Rows'
    BY <2>1, <2>2, Begins DEF DecideRead, Labels
  <2>4. QED
    BY <1>0, <2>1, <2>3, PartsNext DEF DecideRead, Rest, workspace
<1>2. CASE DecideWrite(t)
  <2>1. PICK s \in {"approved", "rejected"}, from \in {"approve", "reject"} :
            /\ On(t, from, "idle")
            /\ approvals' = [approvals EXCEPT ![on[t]].status = s]
    BY <1>2 DEF DecideWrite
  <2>2. on[t] \in 1..Len(approvals)
    BY <1>0, <2>1 DEF Places, At, Fits, On, Go, Drafting
  <2>3. Rows' /\ Len(approvals') = Len(approvals)
    <3>1. approvals[on[t]] \in Row
      BY <1>0, <2>2 DEF Rows
    <3>2. [approvals[on[t]] EXCEPT !.status = s] \in Row
      BY <3>1 DEF Row
    <3>3. approvals' = [approvals EXCEPT ![on[t]] = [approvals[on[t]] EXCEPT !.status = s]]
      BY <2>1
    <3>4. QED
      BY <1>0, <2>2, <3>2, <3>3 DEF Rows
  <2>4. Fits("idle", on[t])
    BY DEF Fits
  <2>5. Places'
    <3>1. Go(t, from, "idle", on[t]) /\ "idle" \in Labels
      BY <2>1 DEF On, Labels
    <3>2. Len(approvals) <= Len(approvals') /\ Len(approvals') \in Nat
      BY <1>0, <2>3
    <3>3. QED
      BY <2>4, <3>1, <3>2, Moves DEF Places
  <2>6. Rest'
    BY <1>0, <1>2, <2>2, <2>3 DEF Rest, DecideWrite, workspace
  <2>7. QED
    BY <2>3, <2>5, <2>6, PartsNext
<1>3. QED
  BY <1>1, <1>2

LEMMA ApplyType ==
    ASSUME Base, NEW t \in Threads,
           \/ \E a \in 1..Len(approvals) : Execute(t, a)
           \/ Backup(t) \/ DryRun(t) \/ Apply(t) \/ Test(t) \/ Tested(t) \/ Restore(t)
    PROVE  Base'
<1>0. Rest /\ Rows /\ Places /\ Len(approvals) \in Nat
  BY Parts DEF Rows
<1>1. CASE \E a \in 1..Len(approvals) : Execute(t, a)
  <2>1. PICK a \in 1..Len(approvals) : BeginApply(t, a)
    BY <1>1 DEF Execute
  <2>2. Fits("backup", a)
    BY DEF Fits, Drafting
  <2>3. Places' /\ Rows'
    BY <2>1, <2>2, Begins DEF BeginApply, Labels, Applying
  <2>4. QED
    BY <1>0, <2>1, <2>3, PartsNext DEF BeginApply, Rest, workspace
<1>2. ASSUME Backup(t) \/ DryRun(t) \/ Apply(t) \/ Test(t) \/ Tested(t) \/ Restore(t)
      PROVE  Base'
  <2>1. pc[t] \in Active
    BY <1>2 DEF Backup, DryRun, Apply, Test, Tested, Restore, On, Go, Active, Applying, Untested
  <2>2. File(t) \in Files
    BY <2>1, FileOf
  <2>3. PICK from \in Applying, to \in Labels \ Drafting : On(t, from, to)
    BY <1>2 DEF Backup, DryRun, Apply, Test, Tested, Restore, Applying, Untested, Labels,
                Drafting, Committing
  <2>4. UNCHANGED approvals
    BY <1>2 DEF Backup, DryRun, Apply, Test, Tested, Restore
  <2>5. Places' /\ Rows'
    BY <2>3, <2>4, MovesOn DEF Applying, Untested, Labels, Drafting, Committing
  <2>6. /\ editing' = editing /\ approvals' = approvals /\ applied' = applied
        /\ approved' = approved /\ past' = past /\ UNCHANGED workspace
    BY <1>2 DEF Backup, DryRun, Apply, Test, Tested, Restore
  <2>7. fixed' \subseteq Files
    BY <1>0, <1>2, <2>2 DEF Rest, Backup, DryRun, Apply, Test, Tested, Restore
  <2>8. saved' \in [Threads -> SUBSET Files] /\ seen' \in [Threads -> SUBSET Files]
    BY <1>0, <1>2, <2>2 DEF Rest, Backup, DryRun, Apply, Test, Tested, Restore
  <2>9. Rest'
    BY <1>0, <2>6, <2>7, <2>8 DEF Rest, workspace
  <2>10. QED
    BY <2>5, <2>9, PartsNext
<1>3. QED
  BY <1>1, <1>2

LEMMA GitType ==
    ASSUME Base, NEW t \in Threads, Branch(t) \/ Stage(t) \/ Add(t) \/ Commit(t)
    PROVE  Base'
<1>0. Rest /\ Rows /\ Places /\ Len(approvals) \in Nat
  BY Parts DEF Rows
<1>1. PICK from \in Committing, to \in Committing \union {"idle"} : GitStep(t, from, to)
  BY DEF Branch, Stage, Add, Commit, Committing
<1>2. pc[t] \in Active
  BY <1>1 DEF GitStep, On, Go, Active
<1>3. on[t] \in 1..Len(approvals) /\ File(t) \in Files /\ on[t] \in Branches
  BY <1>2, FileOf
<1>4. Places' /\ Rows'
  BY <1>1, MovesOn DEF GitStep, Committing, Labels, Drafting, Applying, Untested
<1>5. tree' \subseteq Files /\ index' \subseteq Files
  BY <1>0, <1>3 DEF Rest, Branch, Stage, Add, Commit, GitOr
<1>6. head' \in 0..Len(approvals)
  BY <1>0, <1>3 DEF Rest, Branch, Stage, Add, Commit, GitOr
<1>7. head \in Branches
  BY <1>0, CodeAssumption DEF Rest, Rows, Branches
<1>8. tips' \in [Branches -> SUBSET Files]
  BY <1>0, <1>3, <1>7 DEF Rest, Branch, Stage, Add, Commit, GitOr
<1>9. applied' \subseteq 1..Len(approvals) /\ lost' \subseteq 1..Len(approvals)
  BY <1>0, <1>3 DEF Rest, Branch, Stage, Add, Commit, GitOr
<1>10. Rest'
  BY <1>0, <1>1, <1>5, <1>6, <1>8, <1>9 DEF Rest, GitStep
<1>11. QED
  BY <1>4, <1>10, PartsNext

LEMMA EndType ==
    ASSUME Base,
           \/ Crash \/ (\E b \in BOOLEAN : SetEditing(b)) \/ UNCHANGED vars
           \/ \E t \in Threads : Raise(t)
    PROVE  Base'
<1>0. Rest /\ Rows /\ Places /\ Len(approvals) \in Nat
  BY Parts DEF Rows
<1>1. CASE Crash
  <2>1. Places' /\ Rows'
    BY <1>0, <1>1 DEF Crash, Places, Rows, At, Fits, Labels
  <2>2. Rest'
    BY <1>0, <1>1 DEF Crash, Torn, Rest, workspace
  <2>3. QED
    BY <2>1, <2>2, PartsNext
<1>2. CASE \E b \in BOOLEAN : SetEditing(b)
  BY <1>2 DEF SetEditing, Base, TypeOK, local, workspace
<1>3. CASE UNCHANGED vars
  BY <1>3 DEF vars, Base, TypeOK, local, workspace
<1>4. CASE \E t \in Threads : Raise(t)
  <2>1. PICK t \in Threads : Raise(t)
    BY <1>4
  <2>2. pc[t] \in Labels \ {"idle"}
    BY <1>0, <2>1 DEF Raise, Places
  <2>3. Places' /\ Rows'
    BY <2>1, <2>2, MovesOn DEF Raise, Labels
  <2>4. Rest'
    BY <1>0, <2>1 DEF Raise, Torn, Rest, workspace
  <2>5. QED
    BY <2>3, <2>4, PartsNext
<1>5. QED
  BY <1>1, <1>2, <1>3, <1>4

LEMMA StepType ==
    ASSUME Base, [Next]_vars
    PROVE  Base'
BY DraftType, DecideType, ApplyType, GitType, EndType DEF Next

-----------------------------------------------------------------------------
(* What the owner approved. *)

\* Steps that begin or end at a thread that applies nothing.
LEMMA OwnAside ==
    ASSUME Base, OwnInv, NEW t \in Threads, approved \subseteq approved',
           \A u \in Threads \ {t} : pc'[u] = pc[u] /\ on'[u] = on[u] /\ saved'[u] = saved[u],
           pc'[t] \notin Applying,
           \A a \in 1..Len(approvals) :
               /\ approvals'[a].file = approvals[a].file
               /\ approvals'[a].patch = approvals[a].patch,
           \A a \in 1..Len(approvals') : approvals'[a].status = "approved" => a \in approved'
    PROVE  OwnInv'
<1>1. ASSUME NEW u \in Threads, pc'[u] \in Applying
      PROVE  /\ on'[u] \in approved'
             /\ approvals'[on'[u]].patch = "fix"
             /\ pc'[u] # "backup" => saved'[u] \subseteq {File(u)'}
  <2>1. u # t
    BY <1>1
  <2>2. pc[u] \in Applying /\ on'[u] = on[u] /\ saved'[u] = saved[u] /\ pc'[u] = pc[u]
    BY <1>1, <2>1
  <2>3. /\ on[u] \in 1..Len(approvals) /\ Own(u)
    BY <2>2, FileOf DEF OwnInv, Active
  <2>4. QED
    BY <2>2, <2>3 DEF Own, File
<1>2. QED
  BY <1>1 DEF OwnInv, Own

LEMMA DraftOwn ==
    ASSUME Base, OwnInv, NEW t \in Threads,
           (\E f \in Files : ReadSource(t, f)) \/ Diff(t) \/ Verify(t) \/ Request(t)
    PROVE  OwnInv'
<1>0. Rest /\ Rows /\ Places /\ Len(approvals) \in Nat
  BY Parts DEF Rows
<1>1. PICK from \in {"idle"} \union Drafting, to \in {"idle"} \union Drafting : \E x : Go(t, from, to, x)
  BY DEF ReadSource, Diff, Verify, Request, On, Drafting
<1>2. /\ \A u \in Threads \ {t} : pc'[u] = pc[u] /\ on'[u] = on[u]
      /\ pc'[t] \notin Applying
  BY <1>0, <1>1 DEF Go, Places, Applying, Untested, Drafting
<1>3. approved' = approved /\ \A u \in Threads \ {t} : saved'[u] = saved[u]
  BY <1>0 DEF ReadSource, Diff, Verify, Request, Rest
<1>4. CASE UNCHANGED approvals
  BY <1>2, <1>3, <1>4, OwnAside DEF OwnInv
<1>5. CASE Request(t)
  <2>1. PICK r : r.status = "pending" /\ approvals' = Append(approvals, r)
    BY <1>5 DEF Request
  <2>2. /\ Len(approvals') = Len(approvals) + 1
        /\ \A a \in 1..Len(approvals) : approvals'[a] = approvals[a]
        /\ approvals'[Len(approvals) + 1] = r
    BY <1>0, <2>1 DEF Rows
  <2>3. \A a \in 1..Len(approvals') : approvals'[a].status = "approved" => a \in approved'
    BY <1>0, <1>3, <2>1, <2>2 DEF OwnInv
  <2>4. QED
    BY <1>2, <1>3, <2>2, <2>3, OwnAside
<1>6. QED
  BY <1>4, <1>5 DEF ReadSource, Diff, Verify

LEMMA DecideOwn ==
    ASSUME Base, OwnInv, NEW t \in Threads,
           (\E a \in 1..Len(approvals) : DecideRead(t, a)) \/ DecideWrite(t)
    PROVE  OwnInv'
<1>0. Rest /\ Rows /\ Places /\ Len(approvals) \in Nat
  BY Parts DEF Rows
<1>1. PICK from \in {"idle", "approve", "reject"}, to \in {"idle", "approve", "reject"} :
          \E x : Go(t, from, to, x)
  BY DEF DecideRead, DecideWrite, On
<1>2. /\ \A u \in Threads \ {t} : pc'[u] = pc[u] /\ on'[u] = on[u]
      /\ pc'[t] \notin Applying
  BY <1>0, <1>1 DEF Go, Places, Applying, Untested
<1>3. approved \subseteq approved' /\ saved' = saved
  BY DEF DecideRead, DecideWrite
<1>4. CASE \E a \in 1..Len(approvals) : DecideRead(t, a)
  BY <1>2, <1>3, <1>4, OwnAside DEF OwnInv, DecideRead
<1>5. CASE DecideWrite(t)
  <2>1. on[t] \in 1..Len(approvals)
    BY <1>0, <1>5 DEF Places, At, Fits, DecideWrite, On, Go, Drafting
  <2>2. PICK s \in {"approved", "rejected"} :
                 /\ approvals' = [approvals EXCEPT ![on[t]].status = s]
                 /\ s = "approved" => on[t] \in approved'
    <3>1. CASE On(t, "approve", "idle")
      <4>1. approvals' = [approvals EXCEPT ![on[t]].status = "approved"] /\ on[t] \in approved'
        BY <1>5, <3>1 DEF DecideWrite, On, Go
      <4>2. QED
        BY <4>1
    <3>2. CASE On(t, "reject", "idle")
      <4>1. approvals' = [approvals EXCEPT ![on[t]].status = "rejected"]
        BY <1>5, <3>2 DEF DecideWrite, On, Go
      <4>2. QED
        BY <4>1
    <3>3. QED
      BY <1>5, <3>1, <3>2 DEF DecideWrite
  <2>3. /\ Len(approvals') = Len(approvals)
        /\ \A a \in 1..Len(approvals) \ {on[t]} : approvals'[a] = approvals[a]
        /\ approvals'[on[t]] = [approvals[on[t]] EXCEPT !.status = s]
    BY <1>0, <2>1, <2>2 DEF Rows
  <2>4. approvals[on[t]] \in Row
    BY <1>0, <2>1 DEF Rows
  <2>5. /\ approvals'[on[t]].file = approvals[on[t]].file
        /\ approvals'[on[t]].patch = approvals[on[t]].patch
        /\ approvals'[on[t]].status = s
    BY <2>3, <2>4 DEF Row
  <2>6. \A a \in 1..Len(approvals') : approvals'[a].status = "approved" => a \in approved'
    BY <1>3, <2>2, <2>3, <2>5 DEF OwnInv
  <2>7. QED
    BY <1>2, <1>3, <2>3, <2>5, <2>6, OwnAside
<1>6. QED
  BY <1>4, <1>5

LEMMA ExecuteOwn ==
    ASSUME Base, OwnInv, NEW t \in Threads, NEW a \in 1..Len(approvals), Execute(t, a)
    PROVE  OwnInv'
<1>0. Rest /\ Rows /\ Places
  BY Parts
<1>1. /\ approvals[a].status = "approved" /\ approvals[a].patch # "empty"
      /\ UNCHANGED <<approvals, approved, saved>>
      /\ Go(t, "idle", "backup", a)
  BY DEF Execute, BeginApply
<1>2. approvals[a] \in Row
  BY <1>0 DEF Rows
<1>3. a \in approved /\ approvals[a].patch = "fix"
  BY <1>1, <1>2 DEF OwnInv, Row
<1>4. /\ pc'[t] = "backup" /\ on'[t] = a
      /\ \A u \in Threads \ {t} : pc'[u] = pc[u] /\ on'[u] = on[u]
  BY <1>0, <1>1 DEF Go, Places
<1>5. ASSUME NEW u \in Threads
      PROVE  Own(u)'
  <2>1. CASE u = t
    BY <1>1, <1>3, <1>4, <2>1 DEF Own
  <2>2. CASE u # t
    <3>1. Own(u)
      BY DEF OwnInv
    <3>2. QED
      BY <1>1, <1>4, <2>2, <3>1 DEF Own, File
  <2>3. QED
    BY <2>1, <2>2
<1>6. QED
  BY <1>1, <1>5 DEF OwnInv

LEMMA ApplyOwn ==
    ASSUME Base, OwnInv, NEW t \in Threads,
           \/ Backup(t) \/ DryRun(t) \/ Apply(t) \/ Test(t) \/ Tested(t) \/ Restore(t)
           \/ Branch(t) \/ Stage(t) \/ Add(t) \/ Commit(t)
    PROVE  OwnInv'
<1>0. Rest /\ Rows /\ Places
  BY Parts
<1>1. UNCHANGED <<approvals, approved>>
  BY DEF Backup, DryRun, Apply, Test, Tested, Restore, Branch, Stage, Add, Commit, GitStep
<1>2. PICK from \in Active, to \in Labels :
          /\ On(t, from, to)
          /\ to \in Applying => from \in Applying
          /\ to # "backup"
  BY DEF Backup, DryRun, Apply, Test, Tested, Restore, Branch, Stage, Add, Commit, GitStep,
         Active, Applying, Untested, Committing, Labels
<1>3. /\ pc[t] = from /\ pc'[t] = to
      /\ to # "idle" => on'[t] = on[t]
      /\ \A u \in Threads \ {t} : pc'[u] = pc[u] /\ on'[u] = on[u]
  BY <1>0, <1>2 DEF On, Go, Places
<1>4. /\ \A u \in Threads \ {t} : saved'[u] = saved[u]
      /\ saved'[t] = saved[t] \/ saved'[t] \subseteq {File(t)}
      /\ pc[t] = "backup" => saved'[t] \subseteq {File(t)}
  BY <1>0 DEF Backup, DryRun, Apply, Test, Tested, Restore, Branch, Stage, Add, Commit, GitStep,
              On, Go, Rest
<1>5. ASSUME NEW u \in Threads
      PROVE  Own(u)'
  <2>1. Own(u) /\ Own(t)
    BY DEF OwnInv
  <2>2. CASE u = t /\ to \in Applying
    <3>1. from \in Applying /\ to # "idle"
      BY <1>2, <2>2 DEF Applying, Untested
    <3>2. on'[t] \in approved' /\ approvals'[on'[t]].patch = "fix" /\ File(t)' = File(t)
      BY <1>1, <1>3, <2>1, <2>2, <3>1 DEF Own, File
    <3>3. saved'[t] \subseteq {File(t)}
      BY <1>3, <1>4, <2>1, <2>2, <3>1 DEF Own
    <3>4. QED
      BY <2>2, <3>2, <3>3 DEF Own
  <2>3. CASE u = t /\ to \notin Applying
    BY <1>3, <2>3 DEF Own
  <2>4. CASE u # t
    BY <1>1, <1>3, <1>4, <2>1, <2>4 DEF Own, File
  <2>5. QED
    BY <2>2, <2>3, <2>4
<1>6. QED
  BY <1>1, <1>5 DEF OwnInv

LEMMA EndOwn ==
    ASSUME Base, OwnInv,
           \/ Crash \/ (\E b \in BOOLEAN : SetEditing(b)) \/ UNCHANGED vars
           \/ \E t \in Threads : Raise(t)
    PROVE  OwnInv'
<1>1. UNCHANGED <<approvals, approved>>
  BY DEF Crash, SetEditing, Raise, vars
<1>2. ASSUME NEW u \in Threads, pc'[u] \in Applying
      PROVE  pc'[u] = pc[u] /\ on'[u] = on[u] /\ saved'[u] = saved[u]
  BY <1>2 DEF Crash, SetEditing, Raise, vars, local, On, Go, Base, TypeOK, Applying, Untested
<1>3. ASSUME NEW u \in Threads
      PROVE  Own(u)'
  <2>1. Own(u)
    BY DEF OwnInv
  <2>2. QED
    BY <1>1, <1>2, <2>1 DEF Own, File
<1>4. QED
  BY <1>1, <1>3 DEF OwnInv

LEMMA StepOwn ==
    ASSUME Base, OwnInv, [Next]_vars
    PROVE  OwnInv'
BY DraftOwn, DecideOwn, ExecuteOwn, ApplyOwn, EndOwn DEF Next

-----------------------------------------------------------------------------
(* Production passes its tests. *)

\* Steps that leave production alone and nobody with an untested patch.
LEMMA PassAside ==
    ASSUME Base, PassInv, NEW t \in Threads, past \subseteq past', UNCHANGED fixed,
           \A u \in Threads \ {t} :
               pc'[u] = pc[u] /\ on'[u] = on[u] /\ saved'[u] = saved[u] /\ seen'[u] = seen[u],
           \A u \in Threads \ {t} : pc[u] \in Active => approvals'[on[u]].file = approvals[on[u]].file,
           past' = {} => /\ pc[t] \notin Untested
                         /\ pc'[t] \notin Active \/ pc[t] \in Active
                         /\ Knows(t)' /\ pc'[t] \notin Untested
    PROVE  PassInv'
<1> SUFFICES ASSUME past' = {}
             PROVE  /\ Alone'
                    /\ \A u \in Threads : Knows(u)'
                    /\ (\A u \in Threads : pc'[u] \notin Untested) => fixed' \in Good
  BY DEF PassInv
<1>1. /\ Alone /\ \A u \in Threads : Knows(u)
      /\ (\A u \in Threads : pc[u] \notin Untested) => fixed \in Good
  BY DEF PassInv
<1>2. Alone'
  BY <1>1 DEF Alone
<1>3. ASSUME NEW u \in Threads
      PROVE  Knows(u)'
  <2>1. CASE u = t
    BY <2>1
  <2>2. CASE u # t
    <3>1. CASE pc[u] \in Active
      <4>1. File(u)' = File(u)
        BY <2>2, <3>1 DEF File
      <4>2. QED
        BY <1>1, <2>2, <4>1 DEF Knows
    <3>2. CASE pc[u] \notin Active
      BY <2>2, <3>2 DEF Knows, Active, Applying, Untested
    <3>3. QED
      BY <3>1, <3>2
  <2>3. QED
    BY <2>1, <2>2
<1>4. (\A u \in Threads : pc'[u] \notin Untested) => fixed' \in Good
  BY <1>1
<1>5. QED
  BY <1>2, <1>3, <1>4

\* Drafting and deciding leave an approval's file as it is.
LEMMA SameFile ==
    ASSUME Base, NEW t \in Threads, NEW a \in 1..Len(approvals),
           \/ (\E f \in Files : ReadSource(t, f)) \/ Diff(t) \/ Verify(t) \/ Request(t)
           \/ (\E b \in 1..Len(approvals) : DecideRead(t, b)) \/ DecideWrite(t)
    PROVE  approvals'[a].file = approvals[a].file
<1>0. Rows /\ Len(approvals) \in Nat
  BY Parts DEF Rows
<1>1. CASE UNCHANGED approvals
  BY <1>1
<1>2. CASE Request(t)
  BY <1>0, <1>2 DEF Request, Rows
<1>3. CASE DecideWrite(t)
  <2>1. PICK s : approvals' = [approvals EXCEPT ![on[t]].status = s]
    BY <1>3 DEF DecideWrite
  <2>2. approvals[a] \in Row
    BY <1>0 DEF Rows
  <2>3. QED
    BY <1>0, <2>1, <2>2 DEF Rows, Row
<1>4. QED
  BY <1>1, <1>2, <1>3 DEF ReadSource, Diff, Verify, DecideRead

LEMMA DraftPass ==
    ASSUME Base, PassInv, NEW t \in Threads,
           \/ (\E f \in Files : ReadSource(t, f)) \/ Diff(t) \/ Verify(t) \/ Request(t)
           \/ (\E a \in 1..Len(approvals) : DecideRead(t, a)) \/ DecideWrite(t)
    PROVE  PassInv'
<1>0. Rest /\ Rows /\ Places /\ Len(approvals) \in Nat
  BY Parts DEF Rows
<1>1. PICK from \in Labels \ Active, to \in Labels \ Active : \E x : Go(t, from, to, x)
  BY DEF ReadSource, Diff, Verify, Request, DecideRead, DecideWrite, On, Labels,
         Active, Applying, Untested, Committing
<1>2. /\ \A u \in Threads \ {t} : pc'[u] = pc[u] /\ on'[u] = on[u]
      /\ pc[t] \notin Active /\ pc'[t] \notin Active
  BY <1>0, <1>1 DEF Go, Places
<1>3. /\ past' = past /\ fixed' = fixed /\ seen' = seen
      /\ \A u \in Threads \ {t} : saved'[u] = saved[u]
  BY <1>0 DEF ReadSource, Diff, Verify, Request, DecideRead, DecideWrite, Rest
<1>4. ASSUME NEW a \in 1..Len(approvals)
      PROVE  approvals'[a].file = approvals[a].file
  BY SameFile
<1>5. \A u \in Threads \ {t} : pc[u] \in Active => approvals'[on[u]].file = approvals[on[u]].file
  BY <1>4, FileOf
<1>6. Knows(t)'
  BY <1>2 DEF Knows, Active, Applying, Untested
<1>7. QED
  BY <1>2, <1>3, <1>5, <1>6, PassAside DEF Active, Applying

LEMMA ExecutePass ==
    ASSUME Base, PassInv, NEW t \in Threads, NEW a \in 1..Len(approvals), Execute(t, a)
    PROVE  PassInv'
<1>0. Rest /\ Places
  BY Parts
<1>1. /\ Go(t, "idle", "backup", a)
      /\ UNCHANGED <<fixed, approvals, saved, seen>>
      /\ past' = IF \E u \in Threads : pc[u] \in Active THEN past \union {"overlapped"} ELSE past
  BY DEF Execute, BeginApply, Active
<1>2. /\ pc'[t] = "backup" /\ pc[t] = "idle"
      /\ \A u \in Threads \ {t} : pc'[u] = pc[u] /\ on'[u] = on[u]
  BY <1>0, <1>1 DEF Go, Places
<1> SUFFICES ASSUME past' = {}
             PROVE  /\ Alone'
                    /\ \A u \in Threads : Knows(u)'
                    /\ (\A u \in Threads : pc'[u] \notin Untested) => fixed' \in Good
  BY DEF PassInv
<1>3. past = {} /\ \A u \in Threads : pc[u] \notin Active
  BY <1>1
<1>4. fixed \in Good
  BY <1>3 DEF PassInv, Active, Applying
<1>5. \A u \in Threads \ {t} : pc'[u] \notin Active
  BY <1>2, <1>3
<1>6. Alone'
  BY <1>5 DEF Alone
<1>7. \A u \in Threads : Knows(u)'
  BY <1>2, <1>5 DEF Knows, Active, Applying, Untested
<1>8. QED
  BY <1>1, <1>4, <1>6, <1>7

\* The steps of one execution, while nobody else is in one.
LEMMA AlonePass ==
    ASSUME Base, PassInv, NEW t \in Threads, UNCHANGED <<approvals, past>>,
           NEW from \in Active, NEW to \in Active \union {"idle"}, On(t, from, to),
           past = {} => /\ Knows(t)'
                        /\ to \notin Untested => fixed' \in Good
    PROVE  PassInv'
<1>0. Rest /\ Places
  BY Parts
<1>1. /\ pc[t] = from /\ pc'[t] = to
      /\ \A u \in Threads \ {t} : pc'[u] = pc[u] /\ on'[u] = on[u]
  BY <1>0 DEF On, Go, Places
<1> SUFFICES ASSUME past' = {}
             PROVE  /\ Alone'
                    /\ \A u \in Threads : Knows(u)'
                    /\ (\A u \in Threads : pc'[u] \notin Untested) => fixed' \in Good
  BY DEF PassInv
<1>2. Alone
  BY DEF PassInv
<1>3. \A u \in Threads \ {t} : pc'[u] \notin Active
  BY <1>1, <1>2 DEF Alone
<1>4. Alone'
  BY <1>3 DEF Alone
<1>5. \A u \in Threads : Knows(u)'
  BY <1>3 DEF Knows, Active, Applying, Untested
<1>6. QED
  BY <1>1, <1>4, <1>5

LEMMA ApplyPass ==
    ASSUME Base, PassInv, NEW t \in Threads,
           Backup(t) \/ DryRun(t) \/ Apply(t) \/ Test(t) \/ Tested(t) \/ Restore(t)
    PROVE  PassInv'
<1>0. Rest /\ Places
  BY Parts
<1>1. UNCHANGED <<approvals, past>>
  BY DEF Backup, DryRun, Apply, Test, Tested, Restore
<1>2. PICK from \in Active, to \in Active \union {"idle"} : On(t, from, to)
  BY DEF Backup, DryRun, Apply, Test, Tested, Restore, Active, Applying, Untested, Committing
<1>3. /\ pc[t] = from /\ pc'[t] = to
      /\ to # "idle" => File(t)' = File(t)
  BY <1>0, <1>1, <1>2 DEF On, Go, Places, File
<1>4. ASSUME past = {}
      PROVE  /\ Knows(t)'
             /\ to \notin Untested => fixed' \in Good
  <2>1. Knows(t) /\ Alone
    BY <1>4 DEF PassInv
  <2>2. pc[t] \notin Untested => fixed \in Good
    BY <1>2, <1>3, <1>4, <2>1 DEF PassInv, Alone, Active, Applying
  <2>3. CASE Backup(t)
    <3>1. to = "dryRun" /\ from = "backup" /\ fixed' = fixed
      BY <1>0, <1>3, <2>3 DEF Backup, On, Go, Places
    <3>2. saved'[t] = {File(t)} \intersect fixed
      BY <1>0, <2>3 DEF Backup, Rest
    <3>3. QED
      BY <1>3, <2>2, <3>1, <3>2 DEF Knows, Untested
  <2>4. CASE DryRun(t)
    <3>1. /\ from = "dryRun" /\ fixed' = fixed /\ saved' = saved
          /\ to = IF File(t) \in fixed THEN "idle" ELSE "apply"
      BY <1>0, <1>3, <2>4 DEF DryRun, On, Go, Places
    <3>2. saved[t] = {File(t)} \intersect fixed
      BY <1>3, <2>1, <3>1 DEF Knows
    <3>3. QED
      BY <1>3, <2>2, <3>1, <3>2 DEF Knows, Untested
  <2>5. CASE Apply(t)
    <3>1. /\ from = "apply" /\ File(t) \notin fixed /\ saved[t] = {} /\ saved' = saved
      BY <1>3, <2>1, <2>5 DEF Apply, On, Go, Knows
    <3>2. to = "test" /\ fixed' = fixed \union {File(t)}
      BY <1>0, <1>3, <2>5, <3>1 DEF Apply, On, Go, Places
    <3>3. fixed' \ {File(t)} = fixed
      BY <3>1, <3>2
    <3>4. fixed \in Good
      BY <1>3, <2>2, <3>1 DEF Untested
    <3>5. QED
      BY <1>3, <3>1, <3>2, <3>3, <3>4 DEF Knows, Untested
  <2>6. CASE Test(t)
    <3>1. from = "test" /\ to = "tested" /\ fixed' = fixed /\ saved' = saved /\ seen'[t] = fixed
      BY <1>0, <1>3, <2>6 DEF Test, On, Go, Places, Rest
    <3>2. QED
      BY <1>3, <2>1, <3>1 DEF Knows, Untested
  <2>7. CASE Tested(t)
    <3>1. PICK early \in SUBSET Files :
              On(t, "tested", IF (seen[t] \intersect early) \union (fixed \ early) \in Good
                              THEN "branch" ELSE "restore")
      BY <2>7 DEF Tested
    <3>2. pc[t] = "tested" /\ fixed' = fixed /\ saved' = saved
      BY <2>7, <3>1 DEF Tested, On, Go
    <3>3. seen[t] = fixed
      BY <2>1, <3>2 DEF Knows
    <3>4. (seen[t] \intersect early) \union (fixed \ early) = fixed
      BY <3>3
    <3>5. to = IF fixed \in Good THEN "branch" ELSE "restore"
      BY <1>0, <1>3, <3>1, <3>4 DEF On, Go, Places
    <3>6. QED
      BY <1>3, <2>1, <3>2, <3>5 DEF Knows, Untested
  <2>8. CASE Restore(t)
    <3>1. /\ pc[t] = "restore" /\ pc'[t] = "idle"
          /\ fixed' = (fixed \ {File(t)}) \union saved[t]
      BY <1>0, <2>8 DEF Restore, On, Go, Places
    <3>2. saved[t] = {} /\ fixed \ {File(t)} \in Good
      BY <2>1, <3>1 DEF Knows, Untested
    <3>3. fixed' \in Good
      BY <3>1, <3>2
    <3>4. QED
      BY <3>1, <3>3 DEF Knows, Untested
  <2>9. QED
    BY <2>3, <2>4, <2>5, <2>6, <2>7, <2>8
<1>5. QED
  BY <1>1, <1>2, <1>4, AlonePass

LEMMA GitPass ==
    ASSUME Base, PassInv, NEW t \in Threads, Branch(t) \/ Stage(t) \/ Add(t) \/ Commit(t)
    PROVE  PassInv'
<1>0. Rest /\ Places
  BY Parts
<1>1. PICK from \in Committing, to \in Committing \union {"idle"} : GitStep(t, from, to)
  BY DEF Branch, Stage, Add, Commit, Committing
<1>2. /\ UNCHANGED <<fixed, approvals, saved, seen, past>>
      /\ On(t, from, to)
  BY <1>1 DEF GitStep
<1>3. pc[t] = from /\ pc'[t] = to
  BY <1>0, <1>2 DEF On, Go, Places
<1>4. ASSUME past = {}
      PROVE  /\ Knows(t)'
             /\ to \notin Untested => fixed' \in Good
  <2>1. \A u \in Threads : pc[u] \notin Untested
    BY <1>3, <1>4 DEF PassInv, Alone, Active, Applying, Untested, Committing
  <2>2. fixed' \in Good
    BY <1>2, <1>4, <2>1 DEF PassInv
  <2>3. QED
    BY <1>3, <2>2 DEF Knows, Untested, Committing
<1>5. QED
  BY <1>2, <1>4, AlonePass DEF Active

LEMMA EndPass ==
    ASSUME Base, PassInv,
           \/ Crash \/ (\E b \in BOOLEAN : SetEditing(b)) \/ UNCHANGED vars
           \/ \E t \in Threads : Raise(t)
    PROVE  PassInv'
<1>0. Rest /\ Places
  BY Parts
<1>1. CASE Crash
  <2>1. /\ fixed' = fixed /\ \A u \in Threads : pc'[u] = "idle"
        /\ past' = IF \E t \in Threads : pc[t] \in Untested THEN past \union {"torn"} ELSE past
    BY <1>1 DEF Crash, Torn
  <2>2. past' = {} => past = {} /\ \A t \in Threads : pc[t] \notin Untested
    BY <2>1
  <2>3. past' = {} => fixed' \in Good
    BY <2>1, <2>2 DEF PassInv
  <2>4. QED
    BY <2>1, <2>3 DEF PassInv, Alone, Knows, Active, Applying, Untested, Committing
<1>2. CASE (\E b \in BOOLEAN : SetEditing(b)) \/ UNCHANGED vars
  <2>1. UNCHANGED <<fixed, approvals, pc, on, saved, seen, past>>
    BY <1>2 DEF SetEditing, vars, local
  <2>2. QED
    BY <2>1 DEF PassInv, Alone, Knows, File
<1>3. CASE \E t \in Threads : Raise(t)
  <2>1. PICK t \in Threads : Raise(t)
    BY <1>3
  <2>2. /\ UNCHANGED <<fixed, approvals, saved, seen>>
        /\ past' = IF pc[t] \in Untested THEN past \union {"torn"} ELSE past
        /\ pc'[t] = "idle"
        /\ \A u \in Threads \ {t} : pc'[u] = pc[u] /\ on'[u] = on[u]
    BY <1>0, <2>1 DEF Raise, Torn, On, Go, Places
  <2>3. Knows(t)' /\ pc'[t] \notin Active
    BY <2>2 DEF Knows, Active, Applying, Untested, Committing
  <2>4. past \subseteq past' /\ (past' = {} => pc[t] \notin Untested)
    BY <2>2
  <2>5. QED
    BY <2>2, <2>3, <2>4, PassAside DEF Active, Applying
<1>4. QED
  BY <1>1, <1>2, <1>3

LEMMA StepPass ==
    ASSUME Base, PassInv, [Next]_vars
    PROVE  PassInv'
BY DraftPass, ExecutePass, ApplyPass, GitPass, EndPass DEF Next

-----------------------------------------------------------------------------
(* What was applied is on its branch. *)

\* Steps that leave production and the workspace alone, of a thread that
\* applies nothing afterwards.
LEMMA BranchAside ==
    ASSUME Base, BranchInv, NEW t \in Threads, past \subseteq past',
           UNCHANGED <<fixed, workspace, applied>>,
           \A u \in Threads \ {t} : pc'[u] = pc[u] /\ on'[u] = on[u] /\ saved'[u] = saved[u],
           \A a \in 1..Len(approvals) : approvals'[a].file = approvals[a].file,
           pc'[t] \notin Active
    PROVE  BranchInv'
<1> SUFFICES ASSUME "overlapped" \notin past'
             PROVE  /\ Alone'
                    /\ \A u \in Threads : Holds(u)'
                    /\ Kept'
  BY DEF BranchInv
<1>1. Alone /\ (\A u \in Threads : Holds(u)) /\ Kept
  BY DEF BranchInv
<1>2. Alone'
  BY <1>1 DEF Alone
<1>3. \A a \in applied : approvals'[a].file = approvals[a].file
  BY DEF Base, TypeOK
<1>4. Kept'
  BY <1>1, <1>3 DEF Kept, workspace
<1>5. ASSUME NEW u \in Threads
      PROVE  Holds(u)'
  <2>1. CASE pc'[u] \notin Active
    BY <2>1 DEF Holds, Active, Applying, Untested, Committing
  <2>2. CASE pc'[u] \in Active
    <3>1. u # t
      BY <2>2
    <3>2. pc'[u] = pc[u] /\ on'[u] = on[u] /\ saved'[u] = saved[u] /\ pc[u] \in Active
      BY <2>2, <3>1
    <3>3. File(u)' = File(u)
      BY <3>2, FileOf DEF File
    <3>4. Unclaimed(u) => Unclaimed(u)'
      BY <1>3, <3>3 DEF Unclaimed
    <3>5. QED
      BY <1>1, <3>2, <3>3, <3>4 DEF Holds, workspace
  <2>3. QED
    BY <2>1, <2>2
<1>6. QED
  BY <1>2, <1>4, <1>5

\* The steps of one execution, while nobody else is in one.
LEMMA AloneBranch ==
    ASSUME Base, BranchInv, NEW t \in Threads, UNCHANGED <<approvals, past>>,
           NEW from \in Active, NEW to \in Active \union {"idle"}, On(t, from, to),
           "overlapped" \notin past => Holds(t)' /\ Kept'
    PROVE  BranchInv'
<1>0. Rest /\ Places
  BY Parts
<1>1. /\ pc[t] = from /\ pc'[t] = to
      /\ \A u \in Threads \ {t} : pc'[u] = pc[u]
  BY <1>0 DEF On, Go, Places
<1> SUFFICES ASSUME "overlapped" \notin past'
             PROVE  /\ Alone'
                    /\ \A u \in Threads : Holds(u)'
                    /\ Kept'
  BY DEF BranchInv
<1>2. Alone
  BY DEF BranchInv
<1>3. \A u \in Threads \ {t} : pc'[u] \notin Active
  BY <1>1, <1>2 DEF Alone
<1>4. Alone'
  BY <1>3 DEF Alone
<1>5. \A u \in Threads : Holds(u)'
  BY <1>3 DEF Holds, Active, Applying, Untested, Committing
<1>6. QED
  BY <1>4, <1>5

LEMMA DraftBranch ==
    ASSUME Base, BranchInv, NEW t \in Threads,
           \/ (\E f \in Files : ReadSource(t, f)) \/ Diff(t) \/ Verify(t) \/ Request(t)
           \/ (\E a \in 1..Len(approvals) : DecideRead(t, a)) \/ DecideWrite(t)
    PROVE  BranchInv'
<1>0. Rest /\ Rows /\ Places /\ Len(approvals) \in Nat
  BY Parts DEF Rows
<1>1. PICK from \in Labels \ Active, to \in Labels \ Active : \E x : Go(t, from, to, x)
  BY DEF ReadSource, Diff, Verify, Request, DecideRead, DecideWrite, On, Labels,
         Active, Applying, Untested, Committing
<1>2. /\ \A u \in Threads \ {t} : pc'[u] = pc[u] /\ on'[u] = on[u]
      /\ pc'[t] \notin Active
  BY <1>0, <1>1 DEF Go, Places
<1>3. /\ past' = past /\ UNCHANGED <<fixed, workspace, applied>>
      /\ \A u \in Threads \ {t} : saved'[u] = saved[u]
  BY <1>0 DEF ReadSource, Diff, Verify, Request, DecideRead, DecideWrite, Rest
<1>4. ASSUME NEW a \in 1..Len(approvals)
      PROVE  approvals'[a].file = approvals[a].file
  BY SameFile
<1>5. QED
  BY <1>2, <1>3, <1>4, BranchAside

LEMMA ExecuteBranch ==
    ASSUME Base, BranchInv, NEW t \in Threads, NEW a \in 1..Len(approvals), Execute(t, a)
    PROVE  BranchInv'
<1>0. Rest /\ Places
  BY Parts
<1>1. /\ Go(t, "idle", "backup", a)
      /\ UNCHANGED <<fixed, approvals, saved, workspace, applied>>
      /\ past' = IF \E u \in Threads : pc[u] \in Active THEN past \union {"overlapped"} ELSE past
  BY DEF Execute, BeginApply, Active
<1>2. /\ pc'[t] = "backup"
      /\ \A u \in Threads \ {t} : pc'[u] = pc[u]
  BY <1>0, <1>1 DEF Go, Places
<1> SUFFICES ASSUME "overlapped" \notin past'
             PROVE  /\ Alone'
                    /\ \A u \in Threads : Holds(u)'
                    /\ Kept'
  BY DEF BranchInv
<1>3. "overlapped" \notin past /\ \A u \in Threads : pc[u] \notin Active
  BY <1>1
<1>4. \A u \in Threads \ {t} : pc'[u] \notin Active
  BY <1>2, <1>3
<1>5. Alone'
  BY <1>4 DEF Alone
<1>6. \A u \in Threads : Holds(u)'
  BY <1>2, <1>4 DEF Holds, Active, Applying, Untested, Committing
<1>7. Kept'
  BY <1>1, <1>3 DEF BranchInv, Kept, workspace
<1>8. QED
  BY <1>5, <1>6, <1>7

LEMMA ApplyBranch ==
    ASSUME Base, BranchInv, NEW t \in Threads,
           Backup(t) \/ DryRun(t) \/ Apply(t) \/ Test(t) \/ Tested(t) \/ Restore(t)
    PROVE  BranchInv'
<1>0. Rest /\ Places
  BY Parts
<1>1. UNCHANGED <<approvals, past, workspace, applied>>
  BY DEF Backup, DryRun, Apply, Test, Tested, Restore
<1>2. PICK from \in Active, to \in Active \union {"idle"} : On(t, from, to)
  BY DEF Backup, DryRun, Apply, Test, Tested, Restore, Active, Applying, Untested, Committing
<1>3. /\ pc[t] = from /\ pc'[t] = to
      /\ to # "idle" => File(t)' = File(t) /\ Unclaimed(t)' = Unclaimed(t)
  BY <1>0, <1>1, <1>2 DEF On, Go, Places, File, Unclaimed
<1>4. ASSUME "overlapped" \notin past
      PROVE  Holds(t)' /\ Kept'
  <2>1. Holds(t) /\ Kept
    BY <1>4 DEF BranchInv
  <2>2. CASE Backup(t)
    <3>1. to = "dryRun" /\ fixed' = fixed
      BY <1>0, <1>3, <2>2 DEF Backup, On, Go, Places
    <3>2. saved'[t] = {File(t)} \intersect fixed
      BY <1>0, <2>2 DEF Backup, Rest
    <3>3. QED
      BY <1>1, <1>3, <2>1, <3>1, <3>2 DEF Holds, Kept, Untested, Committing, workspace
  <2>3. CASE DryRun(t)
    <3>1. /\ from = "dryRun" /\ fixed' = fixed /\ saved' = saved
          /\ to = IF File(t) \in fixed THEN "idle" ELSE "apply"
      BY <1>0, <1>3, <2>3 DEF DryRun, On, Go, Places
    <3>2. saved[t] = {File(t)} \intersect fixed
      BY <1>3, <2>1, <3>1 DEF Holds
    <3>3. QED
      BY <1>1, <1>3, <2>1, <3>1, <3>2 DEF Holds, Kept, Untested, Committing, workspace
  <2>4. CASE Apply(t)
    <3>1. from = "apply" /\ saved[t] = {} /\ saved' = saved
      BY <1>3, <2>1, <2>4 DEF Apply, On, Go, Holds
    <3>2. CASE File(t) \in fixed
      <4>1. to = "idle" /\ fixed' = fixed
        BY <1>0, <1>3, <2>4, <3>2 DEF Apply, On, Go, Places
      <4>2. QED
        BY <1>1, <1>3, <2>1, <4>1 DEF Holds, Kept, Untested, Committing, workspace
    <3>3. CASE File(t) \notin fixed
      <4>1. to = "test" /\ fixed' = fixed \union {File(t)}
        BY <1>0, <1>3, <2>4, <3>3 DEF Apply, On, Go, Places
      <4>2. Unclaimed(t)
        BY <2>1, <3>3 DEF Unclaimed, Kept
      <4>3. QED
        BY <1>1, <1>3, <2>1, <3>1, <4>1, <4>2 DEF Holds, Kept, Untested, Committing, workspace
    <3>4. QED
      BY <3>2, <3>3
  <2>5. CASE Test(t)
    <3>1. from = "test" /\ to = "tested" /\ fixed' = fixed /\ saved' = saved
      BY <1>0, <1>3, <2>5 DEF Test, On, Go, Places
    <3>2. QED
      BY <1>1, <1>3, <2>1, <3>1 DEF Holds, Kept, Untested, Committing, workspace
  <2>6. CASE Tested(t)
    <3>1. from = "tested" /\ to \in {"branch", "restore"} /\ fixed' = fixed /\ saved' = saved
      BY <1>0, <1>3, <2>6 DEF Tested, On, Go, Places
    <3>2. QED
      BY <1>1, <1>3, <2>1, <3>1 DEF Holds, Kept, Untested, Committing, workspace
  <2>7. CASE Restore(t)
    <3>1. /\ pc[t] = "restore" /\ to = "idle"
          /\ fixed' = (fixed \ {File(t)}) \union saved[t]
      BY <1>0, <1>3, <2>7 DEF Restore, On, Go, Places
    <3>2. Unclaimed(t)
      BY <2>1, <3>1 DEF Holds, Untested
    <3>3. Kept'
      BY <1>1, <2>1, <3>1, <3>2 DEF Kept, Unclaimed, workspace
    <3>4. QED
      BY <1>3, <3>1, <3>3 DEF Holds, Untested, Committing
  <2>8. QED
    BY <2>2, <2>3, <2>4, <2>5, <2>6, <2>7
<1>5. QED
  BY <1>1, <1>2, <1>4, AloneBranch

LEMMA GitBranch ==
    ASSUME Base, BranchInv, NEW t \in Threads, Branch(t) \/ Stage(t) \/ Add(t) \/ Commit(t)
    PROVE  BranchInv'
<1>0. Rest /\ Places
  BY Parts
<1>1. PICK from \in Committing, to \in Committing \union {"idle"} : GitStep(t, from, to)
  BY DEF Branch, Stage, Add, Commit, Committing
<1>2. /\ UNCHANGED <<fixed, approvals, saved, past>>
      /\ On(t, from, to)
  BY <1>1 DEF GitStep
<1>3. /\ pc[t] = from /\ pc'[t] = to
      /\ to # "idle" => on'[t] = on[t] /\ File(t)' = File(t)
  BY <1>0, <1>2 DEF On, Go, Places, File
<1>4. on[t] \in Branches /\ head \in Branches
  BY <1>0, <1>1, <1>3, FileOf, CodeAssumption DEF Active, Rest, Branches, Base, TypeOK
<1>5. ASSUME "overlapped" \notin past
      PROVE  Holds(t)' /\ Kept'
  <2>1. Holds(t) /\ Kept
    BY <1>5 DEF BranchInv
  <2>2. File(t) \in fixed /\ Unclaimed(t)
    BY <1>1, <1>3, <2>1 DEF Holds
  <2>3. on[t] \notin applied
    BY <2>2 DEF Unclaimed, File
  <2>4. /\ \A a \in applied : a \in Branches
        /\ \A a \in applied' \ {on[t]} : a \in applied
        /\ \A a \in applied : a \in lost' <=> a \in lost
    BY <2>3, CodeAssumption DEF Base, TypeOK, Branches, Branch, Stage, Add, Commit, GitOr
  <2>5. CASE Branch(t)
    <3>1. /\ pc[t] = "branch" /\ to = "stage" /\ applied' = applied
          /\ tree' = tree /\ index' = index
          /\ on[t] \in lost' \/ head' = on[t]
          /\ \A a \in Branches \ {on[t]} : tips'[a] = tips[a]
      BY <1>0, <1>3, <2>5 DEF Branch, GitOr, GitStep, On, Go, Places, Rest
    <3>2. Kept'
      BY <1>2, <2>1, <2>3, <2>4, <3>1 DEF Kept
    <3>3. Unclaimed(t)'
      BY <1>2, <1>3, <2>2, <3>1 DEF Unclaimed
    <3>4. QED
      BY <1>2, <1>3, <2>2, <3>1, <3>2, <3>3 DEF Holds, Untested, Committing
  <2>6. CASE Stage(t)
    <3>1. /\ pc[t] = "stage" /\ to = "add" /\ applied' = applied
          /\ head' = head /\ tips' = tips /\ index' = index /\ lost' = lost
          /\ tree' = tree \union {File(t)}
      BY <1>0, <1>3, <2>2, <2>6 DEF Stage, GitStep, On, Go, Places
    <3>2. Unclaimed(t)'
      BY <1>2, <1>3, <2>2, <3>1 DEF Unclaimed
    <3>3. Kept'
      BY <1>2, <2>1, <3>1 DEF Kept
    <3>4. QED
      BY <1>2, <1>3, <2>1, <2>2, <3>1, <3>2, <3>3 DEF Holds, Untested, Committing
  <2>7. CASE Add(t)
    <3>1. /\ pc[t] = "add" /\ to = "commit" /\ applied' = applied /\ head' = head /\ tips' = tips
          /\ tree' = tree
          /\ index' = tree \/ (index' = index /\ on[t] \in lost')
          /\ lost \subseteq lost'
      BY <1>0, <1>3, <2>7 DEF Add, GitOr, GitStep, On, Go, Places
    <3>2. Unclaimed(t)'
      BY <1>2, <1>3, <2>2, <3>1 DEF Unclaimed
    <3>3. Kept'
      BY <1>2, <2>1, <2>4, <3>1 DEF Kept
    <3>4. QED
      BY <1>2, <1>3, <2>1, <2>2, <3>1, <3>2, <3>3 DEF Holds, Untested, Committing
  <2>8. CASE Commit(t)
    <3>1. /\ pc[t] = "commit" /\ to = "idle" /\ applied' = applied \union {on[t]}
          /\ tree' = tree /\ index' = index /\ lost \subseteq lost'
          /\ tips' = [tips EXCEPT ![head] = index] \/ (tips' = tips /\ on[t] \in lost')
      BY <1>0, <1>3, <2>8 DEF Commit, GitOr, GitStep, On, Go, Places
    <3>2. \A a \in Branches : tips'[a] = tips[a] \/ tips'[a] = index
      BY <1>0, <3>1 DEF Rest
    <3>3. \A a \in applied : /\ approvals[a].file \in fixed \intersect tree'
                             /\ a \notin lost' => approvals[a].file \in index' \intersect tips'[a]
      BY <2>1, <2>4, <3>1, <3>2 DEF Kept
    <3>4. /\ File(t) \in fixed \intersect tree'
          /\ on[t] \notin lost' => File(t) \in index' \intersect tips'[on[t]]
      BY <1>0, <1>4, <2>1, <2>2, <3>1 DEF Holds, Rest
    <3>5. Kept'
      <4>1. \A a \in applied' : /\ approvals[a].file \in fixed \intersect tree'
                                /\ a \notin lost' => approvals[a].file \in index' \intersect tips'[a]
        BY <3>1, <3>3, <3>4 DEF File
      <4>2. approvals' = approvals /\ fixed' = fixed
        BY <1>2
      <4>3. QED
        BY <4>1, <4>2 DEF Kept
    <3>6. QED
      BY <1>3, <3>1, <3>5 DEF Holds, Untested, Committing
  <2>9. QED
    BY <2>5, <2>6, <2>7, <2>8
<1>6. QED
  BY <1>1, <1>2, <1>5, AloneBranch DEF Active

LEMMA EndBranch ==
    ASSUME Base, BranchInv,
           \/ Crash \/ (\E b \in BOOLEAN : SetEditing(b)) \/ UNCHANGED vars
           \/ \E t \in Threads : Raise(t)
    PROVE  BranchInv'
<1>0. Rest /\ Places
  BY Parts
<1>1. CASE Crash
  <2>1. /\ UNCHANGED <<fixed, approvals, workspace, applied>>
        /\ \A u \in Threads : pc'[u] = "idle"
        /\ past \subseteq past'
    BY <1>1 DEF Crash, Torn
  <2>2. Kept => Kept'
    BY <2>1 DEF Kept, workspace
  <2>3. QED
    BY <2>1, <2>2 DEF BranchInv, Alone, Holds, Active, Applying, Untested, Committing
<1>2. CASE (\E b \in BOOLEAN : SetEditing(b)) \/ UNCHANGED vars
  <2>1. UNCHANGED <<fixed, approvals, pc, on, saved, workspace, applied, past>>
    BY <1>2 DEF SetEditing, vars, local
  <2>2. QED
    BY <2>1 DEF BranchInv, Alone, Holds, Kept, Unclaimed, File, workspace
<1>3. CASE \E t \in Threads : Raise(t)
  <2>1. PICK t \in Threads : Raise(t)
    BY <1>3
  <2>2. /\ UNCHANGED <<fixed, approvals, saved, workspace, applied>>
        /\ past \subseteq past'
        /\ pc'[t] = "idle"
        /\ \A u \in Threads \ {t} : pc'[u] = pc[u] /\ on'[u] = on[u]
    BY <1>0, <2>1 DEF Raise, Torn, On, Go, Places
  <2>3. QED
    BY <2>2, BranchAside DEF Active, Applying, Untested, Committing
<1>4. QED
  BY <1>1, <1>2, <1>3

LEMMA StepBranch ==
    ASSUME Base, BranchInv, [Next]_vars
    PROVE  BranchInv'
BY DraftBranch, ExecuteBranch, ApplyBranch, GitBranch, EndBranch DEF Next

-----------------------------------------------------------------------------

\* The invariant: what every call knows of its approval, its backup and of
\* production (coding_agent.py:79-110), at each of its steps.
THEOREM Invariance == Spec => []Inv
<1>1. Init => Inv
  <2> SUFFICES ASSUME Init
               PROVE  Inv
    OBVIOUS
  <2>1. Rows /\ Len(approvals) = 0
    BY CodeAssumption DEF Init, Rows
  <2>2. Places
    BY DEF Init, Places, At, Fits, Labels
  <2>3. Rest
    BY <2>1 DEF Init, Rest
  <2>4. Base
    BY <2>1, <2>2, <2>3, Parts
  <2>5. OwnInv
    BY <2>1 DEF Init, OwnInv, Own, Applying, Untested
  <2>6. PassInv
    BY CodeAssumption DEF Init, PassInv, Alone, Knows, Active, Applying, Untested, Committing
  <2>7. BranchInv
    BY DEF Init, BranchInv, Alone, Holds, Kept, Active, Applying, Untested, Committing
  <2>8. QED
    BY <2>4, <2>5, <2>6, <2>7 DEF Inv
<1>2. Inv /\ [Next]_vars => Inv'
  BY StepType, StepOwn, StepPass, StepBranch DEF Inv
<1>3. QED
  BY <1>1, <1>2, PTL DEF Spec

\* Types: a thread is at an approval exactly when it decides or applies one.
THEOREM TypeCorrect == Spec => []TypeOK
<1>1. Inv => TypeOK
  BY DEF Inv, Base
<1>2. QED
  BY <1>1, Invariance, PTL

\* Production that no call is changing passes its tests, unless two executions
\* overlapped or one was cut off (coding_agent.py:98-104).
THEOREM ProductionSafe == Spec => []ProductionPasses
<1>1. Inv => ProductionPasses
  BY DEF Inv, PassInv, ProductionPasses
<1>2. QED
  BY <1>1, Invariance, PTL

\* What is reported as applied is on its branch, unless two executions
\* overlapped or a git command of its own failed (coding_agent.py:105-110).
THEOREM BranchesHold == Spec => []BranchHoldsChange
<1>1. Inv => BranchHoldsChange
  BY DEF Inv, BranchInv, Kept, BranchHoldsChange
<1>2. QED
  BY <1>1, Invariance, PTL

\* Only what the owner approved reaches production, also through a rollback and
\* whatever overlaps (approval/system.py:71-76, coding_agent.py:100-102).
THEOREM OnlyApproved == Spec => OwnerApproved
<1>1. ASSUME Inv, [Next]_vars
      PROVE  \A f \in fixed' \ fixed :
                \E a \in approved : approvals[a].file = f /\ approvals[a].patch = "fix"
  <2> SUFFICES ASSUME NEW f \in fixed' \ fixed
               PROVE  \E a \in approved : approvals[a].file = f /\ approvals[a].patch = "fix"
    OBVIOUS
  <2>1. PICK t \in Threads : Apply(t) \/ Restore(t)
    BY <1>1 DEF Next, vars, Crash, SetEditing, ReadSource, Diff, Verify, Request, DecideRead,
                DecideWrite, Execute, BeginApply, Backup, DryRun, Test, Tested, Branch, Stage,
                Add, Commit, GitStep, Raise
  <2>2. Own(t)
    BY <1>1 DEF Inv, OwnInv
  <2>3. pc[t] \in {"apply", "restore"}
    BY <2>1 DEF Apply, Restore, On, Go
  <2>4. on[t] \in approved /\ approvals[on[t]].patch = "fix" /\ saved[t] \subseteq {File(t)}
    BY <2>2, <2>3 DEF Own, Applying, Untested
  <2>5. f = File(t)
    BY <2>1, <2>4 DEF Apply, Restore
  <2>6. QED
    BY <2>4, <2>5 DEF File
<1>2. QED
  BY <1>1, Invariance, PTL DEF Spec, OwnerApproved
=============================================================================
