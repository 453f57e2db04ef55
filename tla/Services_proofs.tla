----------------------------- MODULE Services_proofs -----------------------------
(***************************************************************************)
(* Proofs about the parts that MCServices and MCProgress check: OwnerApp,  *)
(* Sandbox, LLMEngine, TrainingCycle, Budget, RateLimit, EvaluationGate.   *)
(***************************************************************************)
EXTENDS OwnerApp, Sandbox, LLMEngine, TrainingCycle, Budget, RateLimit, EvaluationGate,
    FiniteSetTheorems, SequenceTheorems, WellFoundedInduction, TLAPS

-----------------------------------------------------------------------------
(* OwnerApp.                                                               *)

\* While nothing has gone wrong every request has a coroutine that waits for it,
\* and an approval that is not applied has one that is about to execute it.
AppInv ==
    /\ AppTypeOK
    /\ \A c \in Taps : request[c] # "none" => decision[c] \in Decisions
    /\ ~trouble => \A c \in Taps : request[c] # "none" => waiting[c]
    /\ ~trouble /\ status = "approved" /\ ~applied =>
           \E c \in Taps : Executes(c) /\ request[c] \in {"decided", "execute"}

LEMMA AppInvInit == AppInit => AppInv
  BY DEF AppInit, AppInv, AppTypeOK

LEMMA AppInvTap == ASSUME AppInv, NEW c \in Taps, Tap(c) \/ SendExecute(c) \/ TapEnds(c)
                   PROVE  AppInv'
<1> USE DEF AppInv, AppTypeOK, Decisions, InServer, Answers, Pass, Executes
<1>1. CASE Tap(c)
  BY <1>1 DEF Tap
<1>2. CASE SendExecute(c)
  BY <1>2 DEF SendExecute
<1>3. CASE TapEnds(c)
  BY <1>3 DEF TapEnds, Finish
<1> QED BY <1>1, <1>2, <1>3

LEMMA AppInvTrouble ==
    ASSUME AppInv, AppEnds \/ LoadApprovals \/ \E c \in Taps : StopWaiting(c) \/ RequestLost(c)
    PROVE  AppInv'
<1> USE DEF AppInv, AppTypeOK, Decisions, InServer, Answers, Executes
<1>1. CASE AppEnds
  BY <1>1 DEF AppEnds
<1>2. CASE LoadApprovals
  BY <1>2 DEF LoadApprovals
<1>3. ASSUME NEW c \in Taps, StopWaiting(c) PROVE AppInv'
  BY <1>3 DEF StopWaiting
<1>4. ASSUME NEW c \in Taps, RequestLost(c) PROVE AppInv'
  BY <1>4 DEF RequestLost, Finish
<1> QED BY <1>1, <1>2, <1>3, <1>4

LEMMA AppInvServer ==
    ASSUME AppInv, NEW c \in Taps,
           ReadStatus(c) \/ WriteStatus(c) \/ Execute(c) \/ NotApproved(c)
    PROVE  AppInv'
<1> USE DEF AppInv, AppTypeOK, Decisions, InServer, Answers, Pass, Executes
<1>1. CASE ReadStatus(c)
  BY <1>1 DEF ReadStatus
<1>2. CASE WriteStatus(c)
  BY <1>2 DEF WriteStatus
<1>3. CASE Execute(c)
  BY <1>3 DEF Execute
<1>4. CASE NotApproved(c)
  BY <1>4 DEF NotApproved
<1> QED BY <1>1, <1>2, <1>3, <1>4

LEMMA AppInvNext == AppInv /\ [AppNext]_appVars => AppInv'
<1> SUFFICES ASSUME AppInv, [AppNext]_appVars PROVE AppInv'
  OBVIOUS
<1>1. CASE UNCHANGED appVars
  BY <1>1 DEF appVars, AppInv, AppTypeOK, Executes
<1>2. CASE AppNext
  BY <1>2, AppInvTap, AppInvTrouble, AppInvServer DEF AppNext, TapStep
<1> QED BY <1>1, <1>2

LEMMA AppInvHolds == AppSpec => []AppInv
  BY AppInvInit, AppInvNext, PTL DEF AppSpec

\* An approval given in the app is applied once no tap is in progress, for any
\* number of taps at once, unless a message was lost or applying it failed.
THEOREM ApprovalsApplied == AppSpec => []ApprovedIsApplied
<1>1. AppInv => ApprovedIsApplied
  BY DEF AppInv, ApprovedIsApplied
<1> QED BY <1>1, AppInvHolds, PTL

-----------------------------------------------------------------------------
(* Sandbox.                                                                *)

\* What run_python has to keep of one call: before its program is started nothing
\* is known; in the loop nothing was killed yet; behind it the program is dead, by
\* itself if there is no reason.
RunInv(t) ==
    /\ loop[t] \in {"idle", "enter", "insert", "spawn"} =>
           reason[t] = "none" /\ ~Alive(t)
    /\ loop[t] \in LoopLabels =>
           reason[t] = "none" /\ child[t] \in {"running", "blocked", "ended"}
    /\ loop[t] = "reap" =>
           ~Alive(t) /\ (reason[t] = "none" => child[t] = "ended")
    /\ loop[t] = "report" =>
           /\ ~Alive(t)
           /\ verdict[t] = "own" => child[t] = "ended"
           /\ reason[t] # "none" /\ ~stray[t] => verdict[t] = "timed_out"

SandboxInv == SandboxTypeOK /\ \A t \in Calls : RunInv(t)

LEMMA SandboxInvInit == SandboxInit => SandboxInv
  BY DEF SandboxInit, SandboxInv, SandboxTypeOK, RunInv, Alive,
     SandboxLabels, LoopLabels, ChildStates

\* A step of one call leaves what is known of another one.
LEMMA OtherRun ==
    ASSUME NEW s \in Calls, RunInv(s), loop'[s] = loop[s], child'[s] = child[s],
           reason'[s] = reason[s], verdict'[s] = verdict[s], stray'[s] = stray[s]
    PROVE  RunInv(s)'
  BY DEF RunInv, Alive

LEMMA SandboxInvProgram ==
    ASSUME SandboxInv, NEW t \in Calls,
           ChildStep(t) \/ DeadlinePasses(t)
    PROVE  SandboxInv'
<1>1. CASE ChildStep(t)
  <2> USE <1>1 DEF ChildStep
  <2>1. SandboxTypeOK'
    BY DEF SandboxInv, SandboxTypeOK, SandboxLabels, LoopLabels, ChildStates
  <2>2. RunInv(t)'
    BY DEF SandboxInv, SandboxTypeOK, RunInv, Alive, LoopLabels
  <2>3. ASSUME NEW s \in Calls, s # t PROVE RunInv(s)'
    BY <2>3, OtherRun DEF SandboxInv, SandboxTypeOK
  <2> QED BY <2>1, <2>2, <2>3 DEF SandboxInv
<1>2. CASE DeadlinePasses(t)
  <2> USE <1>2 DEF DeadlinePasses
  <2>1. SandboxTypeOK'
    BY DEF SandboxInv, SandboxTypeOK, SandboxLabels, LoopLabels, ChildStates
  <2>2. RunInv(t)'
    BY DEF SandboxInv, SandboxTypeOK, RunInv, Alive, LoopLabels
  <2>3. ASSUME NEW s \in Calls, s # t PROVE RunInv(s)'
    BY <2>3, OtherRun DEF SandboxInv, SandboxTypeOK
  <2> QED BY <2>1, <2>2, <2>3 DEF SandboxInv
<1> QED BY <1>1, <1>2

LEMMA SandboxInvTool ==
    ASSUME SandboxInv, NEW t \in Calls,
           CallTool(t) \/ RunDirectly(t) \/ AllowTool(t) \/ InsertAudit(t) \/ ReportRun(t)
               \/ RunRaises(t)
    PROVE  SandboxInv'
<1>1. CASE CallTool(t)
  <2> USE <1>1 DEF CallTool, Advance, runVars
  <2>1. SandboxTypeOK'
    BY DEF SandboxInv, SandboxTypeOK, SandboxLabels, LoopLabels, ChildStates
  <2>2. RunInv(t)'
    BY DEF SandboxInv, SandboxTypeOK, RunInv, Alive, LoopLabels
  <2>3. ASSUME NEW s \in Calls, s # t PROVE RunInv(s)'
    BY <2>3, OtherRun DEF SandboxInv, SandboxTypeOK
  <2> QED BY <2>1, <2>2, <2>3 DEF SandboxInv
<1>2. CASE RunDirectly(t)
  <2> USE <1>2 DEF RunDirectly, Advance, runVars
  <2>1. SandboxTypeOK'
    BY DEF SandboxInv, SandboxTypeOK, SandboxLabels, LoopLabels, ChildStates
  <2>2. RunInv(t)'
    BY DEF SandboxInv, SandboxTypeOK, RunInv, Alive, LoopLabels
  <2>3. ASSUME NEW s \in Calls, s # t PROVE RunInv(s)'
    BY <2>3, OtherRun DEF SandboxInv, SandboxTypeOK
  <2> QED BY <2>1, <2>2, <2>3 DEF SandboxInv
<1>3. CASE AllowTool(t)
  <2> USE <1>3 DEF AllowTool, Advance, runVars
  <2>1. SandboxTypeOK'
    BY DEF SandboxInv, SandboxTypeOK, SandboxLabels, LoopLabels, ChildStates
  <2>2. RunInv(t)'
    BY DEF SandboxInv, SandboxTypeOK, RunInv, Alive, LoopLabels
  <2>3. ASSUME NEW s \in Calls, s # t PROVE RunInv(s)'
    BY <2>3, OtherRun DEF SandboxInv, SandboxTypeOK
  <2> QED BY <2>1, <2>2, <2>3 DEF SandboxInv
<1>4. CASE InsertAudit(t)
  <2> USE <1>4 DEF InsertAudit, Advance
  <2>1. SandboxTypeOK'
    BY DEF SandboxInv, SandboxTypeOK, SandboxLabels, LoopLabels, ChildStates
  <2>2. RunInv(t)'
    BY DEF SandboxInv, SandboxTypeOK, RunInv, Alive, LoopLabels
  <2>3. ASSUME NEW s \in Calls, s # t PROVE RunInv(s)'
    BY <2>3, OtherRun DEF SandboxInv, SandboxTypeOK
  <2> QED BY <2>1, <2>2, <2>3 DEF SandboxInv
<1>5. CASE ReportRun(t) \/ RunRaises(t)
  <2> USE <1>5 DEF ReportRun, RunRaises, Advance, Over
  <2>1. SandboxTypeOK'
    BY DEF SandboxInv, SandboxTypeOK, SandboxLabels, LoopLabels, ChildStates
  <2>2. RunInv(t)'
    BY DEF SandboxInv, SandboxTypeOK, RunInv, Alive, LoopLabels
  <2>3. ASSUME NEW s \in Calls, s # t PROVE RunInv(s)'
    BY <2>3, OtherRun DEF SandboxInv, SandboxTypeOK
  <2> QED BY <2>1, <2>2, <2>3 DEF SandboxInv
<1> QED BY <1>1, <1>2, <1>3, <1>4, <1>5

LEMMA SandboxInvRun ==
    ASSUME SandboxInv, NEW t \in Calls,
           Spawn(t) \/ SpawnFails(t) \/ Poll(t) \/ Deadline(t) \/ Switch(t) \/ Communicate(t)
    PROVE  SandboxInv'
<1>1. CASE Spawn(t)
  <2> USE <1>1 DEF Spawn, Advance
  <2>1. SandboxTypeOK'
    BY DEF SandboxInv, SandboxTypeOK, SandboxLabels, LoopLabels, ChildStates
  <2>2. RunInv(t)'
    BY DEF SandboxInv, SandboxTypeOK, RunInv, Alive, LoopLabels
  <2>3. ASSUME NEW s \in Calls, s # t PROVE RunInv(s)'
    BY <2>3, OtherRun DEF SandboxInv, SandboxTypeOK
  <2> QED BY <2>1, <2>2, <2>3 DEF SandboxInv
<1>2. CASE SpawnFails(t)
  <2> USE <1>2 DEF SpawnFails, Advance
  <2>1. SandboxTypeOK'
    BY DEF SandboxInv, SandboxTypeOK, SandboxLabels, LoopLabels, ChildStates
  <2>2. RunInv(t)'
    BY DEF SandboxInv, SandboxTypeOK, RunInv, Alive, LoopLabels
  <2>3. ASSUME NEW s \in Calls, s # t PROVE RunInv(s)'
    BY <2>3, OtherRun DEF SandboxInv, SandboxTypeOK
  <2> QED BY <2>1, <2>2, <2>3 DEF SandboxInv
<1>3. CASE Poll(t)
  <2> USE <1>3 DEF Poll, Advance, runVars
  <2>1. SandboxTypeOK'
    BY DEF SandboxInv, SandboxTypeOK, SandboxLabels, LoopLabels, ChildStates
  <2>2. RunInv(t)'
    BY DEF SandboxInv, SandboxTypeOK, RunInv, Alive, LoopLabels
  <2>3. ASSUME NEW s \in Calls, s # t PROVE RunInv(s)'
    BY <2>3, OtherRun DEF SandboxInv, SandboxTypeOK
  <2> QED BY <2>1, <2>2, <2>3 DEF SandboxInv
<1>4. CASE Deadline(t)
  <2> USE <1>4 DEF Deadline, Advance, runVars, KillGroup
  <2>1. SandboxTypeOK'
    BY DEF SandboxInv, SandboxTypeOK, SandboxLabels, LoopLabels, ChildStates
  <2>2. RunInv(t)'
    BY DEF SandboxInv, SandboxTypeOK, RunInv, Alive, LoopLabels
  <2>3. ASSUME NEW s \in Calls, s # t PROVE RunInv(s)'
    BY <2>3, OtherRun DEF SandboxInv, SandboxTypeOK
  <2> QED BY <2>1, <2>2, <2>3 DEF SandboxInv
<1>5. CASE Switch(t)
  <2> USE <1>5 DEF Switch, Advance, runVars, KillGroup
  <2>1. SandboxTypeOK'
    BY DEF SandboxInv, SandboxTypeOK, SandboxLabels, LoopLabels, ChildStates
  <2>2. RunInv(t)'
    BY DEF SandboxInv, SandboxTypeOK, RunInv, Alive, LoopLabels
  <2>3. ASSUME NEW s \in Calls, s # t PROVE RunInv(s)'
    BY <2>3, OtherRun DEF SandboxInv, SandboxTypeOK
  <2> QED BY <2>1, <2>2, <2>3 DEF SandboxInv
<1>6. CASE Communicate(t)
  <2> USE <1>6 DEF Communicate, Advance
  <2>1. SandboxTypeOK'
    BY DEF SandboxInv, SandboxTypeOK, SandboxLabels, LoopLabels, ChildStates
  <2>2. RunInv(t)'
    BY DEF SandboxInv, SandboxTypeOK, RunInv, Alive, LoopLabels
  <2>3. ASSUME NEW s \in Calls, s # t PROVE RunInv(s)'
    BY <2>3, OtherRun DEF SandboxInv, SandboxTypeOK
  <2> QED BY <2>1, <2>2, <2>3 DEF SandboxInv
<1> QED BY <1>1, <1>2, <1>3, <1>4, <1>5, <1>6

LEMMA SandboxInvNext == SandboxInv /\ [SandboxNext]_sandboxVars => SandboxInv'
<1> SUFFICES ASSUME SandboxInv, [SandboxNext]_sandboxVars PROVE SandboxInv'
  OBVIOUS
<1>1. CASE UNCHANGED sandboxVars \/ KillSwitch
  BY <1>1 DEF sandboxVars, runVars, KillSwitch, SandboxInv, SandboxTypeOK, RunInv, Alive
<1>2. CASE SandboxCrash
  BY <1>2 DEF SandboxCrash, SandboxInv, SandboxTypeOK, RunInv, Alive,
     SandboxLabels, LoopLabels, ChildStates
<1>3. ASSUME NEW t \in Calls,
             \/ ChildStep(t) \/ DeadlinePasses(t) \/ CallTool(t) \/ RunDirectly(t)
             \/ SandboxStep(t)
      PROVE  SandboxInv'
  BY <1>3, SandboxInvProgram, SandboxInvTool, SandboxInvRun DEF SandboxStep
<1> QED BY <1>1, <1>2, <1>3 DEF SandboxNext

\* When run_python returns its program is dead, what is reported as the program's
\* own end was one, and what the loop has killed is reported so.
THEOREM RunsAreOver == SandboxSpec => []ReturnMeansOver
<1>1. SandboxInv => ReturnMeansOver
  BY DEF SandboxInv, RunInv, ReturnMeansOver
<1> QED BY <1>1, SandboxInvInit, SandboxInvNext, PTL DEF SandboxSpec

-----------------------------------------------------------------------------
(* LLMEngine.                                                              *)

HeldLabels == UnloadLabels \cup LoadLabels

LockInv == \A t \in Clients :
    /\ phase[t] \in HeldLabels <=> lock = t
    /\ phase[t] \in LoadLabels => ref[t] \in Refs

\* What LoadedIsWhole says of the four attributes, and that a GGUF model has no
\* tokenizer beside it.
Whole ==
    /\ loadedKey # Nothing => model = loadedKey
    /\ model \in HubRefs => tokenizer = model
    /\ model \in GgufRefs <=> backend = "llama.cpp"
    /\ model \in GgufRefs => tokenizer = Nothing

\* The four attributes while a thread is about to assign the next one.
Half(at, r) ==
    /\ at \in {"check", "unload_model"} => Whole
    /\ at \in UnloadLabels \ {"unload_model"} => model = Nothing
    /\ at \in {"unload_key", "unload_backend", "load"} => tokenizer = Nothing
    /\ at \in {"unload_backend"} \cup (LoadLabels \ {"check"}) => loadedKey = Nothing
    /\ at \in LoadLabels \ {"check", "load_key"} => backend = "none"
    /\ at \in {"load", "load_model"} => model = Nothing
    /\ at \in {"to_device", "load_backend", "load_key"} => model = r
    /\ at \in {"load_model", "to_device"} => r \in HubRefs /\ tokenizer = r
    /\ at \in {"load_backend", "load_key"} => tokenizer = IF r \in HubRefs THEN r ELSE Nothing
    /\ at = "load_key" => (backend = "llama.cpp" <=> r \in GgufRefs)

SlotInv ==
    /\ lock = Nothing => Whole
    /\ \A t \in Clients : lock = t => Half(phase[t], ref[t])

\* A stream during which nothing was assigned has seen one model.
StreamInv == \A t \in Clients : ~disturbed[t] =>
    /\ phase[t] # "hung"
    /\ phase[t] \in StreamLabels => model # Nothing
    /\ phase[t] = "llama" => model \in GgufRefs
    /\ phase[t] = "generate" => model \in HubRefs /\ read[t] = model
    /\ \A m, n \in kept[t] : m = n

EngineInv == EngineTypeOK /\ LockInv /\ SlotInv /\ StreamInv

LEMMA EngineInvInit == EngineInit => EngineInv
  BY RefsAssumption DEF EngineInit, EngineInv, EngineTypeOK, LockInv, SlotInv, Whole, Half,
     StreamInv, HeldLabels, EngineLabels, UnloadLabels, LoadLabels, StreamLabels, Backends, Refs

LEMMA EngineTypeNext == EngineTypeOK /\ [EngineNext]_engineVars => EngineTypeOK'
<1> SUFFICES ASSUME EngineTypeOK, [EngineNext]_engineVars PROVE EngineTypeOK'
  OBVIOUS
<1> USE DEF EngineTypeOK, Refs, Backends
<1>1. CASE UNCHANGED engineVars
  BY <1>1 DEF engineVars, slotVars, streamVars
<1>2. CASE EngineRestart
  BY <1>2 DEF EngineRestart, EngineLabels
<1>3. ASSUME NEW t \in Clients, ClientStep(t) PROVE EngineTypeOK'
  <2> USE DEF Step, Release, Assigned, Disturb, slotVars, streamVars,
          EngineLabels, UnloadLabels, LoadLabels, StreamLabels
  <2>1. CASE Request(t)
    BY <2>1 DEF Request
  <2>2. CASE Acquire(t)
    BY <2>2 DEF Acquire
  <2>3. CASE Reuse(t)
    BY <2>3 DEF Reuse
  <2>4. CASE Replace(t)
    BY <2>4 DEF Replace
  <2>5. CASE LoadFails(t)
    BY <2>5 DEF LoadFails
  <2>6. CASE UnloadModel(t)
    BY <2>6 DEF UnloadModel
  <2>7. CASE UnloadTokenizer(t)
    BY <2>7 DEF UnloadTokenizer
  <2>8. CASE UnloadKey(t)
    BY <2>8 DEF UnloadKey
  <2>9. CASE UnloadBackend(t)
    BY <2>9 DEF UnloadBackend
  <2>10. CASE LoadTokenizer(t)
    BY <2>10 DEF LoadTokenizer
  <2>11. CASE LoadModel(t)
    BY <2>11 DEF LoadModel
  <2>12. CASE ToDevice(t)
    BY <2>12 DEF ToDevice
  <2>13. CASE LoadBackend(t)
    BY <2>13 DEF LoadBackend
  <2>14. CASE LoadKey(t)
    BY <2>14 DEF LoadKey
  <2>15. CASE BeginStream(t)
    BY <2>15 DEF BeginStream
  <2>16. CASE ReadBackend(t)
    BY <2>16 DEF ReadBackend
  <2>17. CASE ReadTokenizer(t)
    BY <2>17 DEF ReadTokenizer
  <2>18. CASE StreamAnswer(t)
    BY <2>18 DEF StreamAnswer
  <2>19. CASE StreamRaises(t)
    BY <2>19 DEF StreamRaises
  <2>20. CASE StreamHangs(t)
    BY <2>20 DEF StreamHangs
  <2> QED BY <1>3, <2>1, <2>2, <2>3, <2>4, <2>5, <2>6, <2>7, <2>8, <2>9, <2>10, <2>11, <2>12, <2>13, <2>14, <2>15, <2>16, <2>17, <2>18, <2>19, <2>20 DEF ClientStep
<1> QED BY <1>1, <1>2, <1>3 DEF EngineNext

\* The steps of load and unload, by the thread that holds the lock or takes it.
LoadStep(t) ==
    \/ Request(t) \/ Acquire(t) \/ Reuse(t) \/ Replace(t) \/ LoadFails(t)
    \/ UnloadModel(t) \/ UnloadTokenizer(t) \/ UnloadKey(t) \/ UnloadBackend(t)
    \/ LoadTokenizer(t) \/ LoadModel(t) \/ ToDevice(t) \/ LoadBackend(t) \/ LoadKey(t)

StreamStep(t) ==
    \/ BeginStream(t) \/ ReadBackend(t) \/ ReadTokenizer(t) \/ StreamAnswer(t)
    \/ StreamRaises(t) \/ StreamHangs(t)

LEMMA LockInvLoad ==
    ASSUME EngineTypeOK, LockInv, NEW t \in Clients, LoadStep(t)
    PROVE  LockInv'
<1> USE RefsAssumption
    DEF EngineTypeOK, LockInv, HeldLabels, UnloadLabels, LoadLabels, Refs, Step, Release, Assigned
<1>1. CASE Request(t)
  BY <1>1 DEF Request
<1>2. CASE Acquire(t)
  BY <1>2 DEF Acquire
<1>3. CASE Reuse(t)
  BY <1>3 DEF Reuse
<1>4. CASE Replace(t)
  BY <1>4 DEF Replace
<1>5. CASE LoadFails(t)
  BY <1>5 DEF LoadFails
<1>6. CASE UnloadModel(t)
  BY <1>6 DEF UnloadModel
<1>7. CASE UnloadTokenizer(t)
  BY <1>7 DEF UnloadTokenizer
<1>8. CASE UnloadKey(t)
  BY <1>8 DEF UnloadKey
<1>9. CASE UnloadBackend(t)
  BY <1>9 DEF UnloadBackend
<1>10. CASE LoadTokenizer(t)
  BY <1>10 DEF LoadTokenizer
<1>11. CASE LoadModel(t)
  BY <1>11 DEF LoadModel
<1>12. CASE ToDevice(t)
  BY <1>12 DEF ToDevice
<1>13. CASE LoadBackend(t)
  BY <1>13 DEF LoadBackend
<1>14. CASE LoadKey(t)
  BY <1>14 DEF LoadKey
<1> QED BY <1>1, <1>2, <1>3, <1>4, <1>5, <1>6, <1>7, <1>8, <1>9, <1>10, <1>11, <1>12, <1>13, <1>14 DEF LoadStep

LEMMA SlotInvLoad ==
    ASSUME EngineTypeOK, LockInv, SlotInv, NEW t \in Clients, LoadStep(t)
    PROVE  SlotInv'
<1> USE RefsAssumption
    DEF EngineTypeOK, LockInv, SlotInv, Whole, Half, HeldLabels, UnloadLabels, LoadLabels, Refs,
        Step, Release, Assigned, slotVars
<1>1. CASE Request(t)
  BY <1>1 DEF Request
<1>2. CASE Acquire(t)
  BY <1>2 DEF Acquire
<1>3. CASE Reuse(t)
  BY <1>3 DEF Reuse
<1>4. CASE Replace(t)
  BY <1>4 DEF Replace
<1>5. CASE LoadFails(t)
  BY <1>5 DEF LoadFails
<1>6. CASE UnloadModel(t)
  BY <1>6 DEF UnloadModel
<1>7. CASE UnloadTokenizer(t)
  BY <1>7 DEF UnloadTokenizer
<1>8. CASE UnloadKey(t)
  BY <1>8 DEF UnloadKey
<1>9. CASE UnloadBackend(t)
  BY <1>9 DEF UnloadBackend
<1>10. CASE LoadTokenizer(t)
  BY <1>10 DEF LoadTokenizer
<1>11. CASE LoadModel(t)
  BY <1>11 DEF LoadModel
<1>12. CASE ToDevice(t)
  BY <1>12 DEF ToDevice
<1>13. CASE LoadBackend(t)
  BY <1>13 DEF LoadBackend
<1>14. CASE LoadKey(t)
  BY <1>14 DEF LoadKey
<1> QED BY <1>1, <1>2, <1>3, <1>4, <1>5, <1>6, <1>7, <1>8, <1>9, <1>10, <1>11, <1>12, <1>13, <1>14 DEF LoadStep

\* Whoever holds the lock, and wherever it is: a model goes with its own tokenizer,
\* and only a GGUF model with that backend.
LEMMA ModelHasItsOwn ==
    ASSUME EngineTypeOK, LockInv, SlotInv
    PROVE  /\ model \in HubRefs => tokenizer = model
           /\ model \in GgufRefs => tokenizer = Nothing
           /\ model # Nothing /\ backend = "llama.cpp" => model \in GgufRefs
<1>1. CASE lock = Nothing
  BY <1>1 DEF SlotInv, Whole
<1>2. ASSUME NEW t \in Clients, lock = t
      PROVE  /\ model \in HubRefs => tokenizer = model
             /\ model \in GgufRefs => tokenizer = Nothing
             /\ model # Nothing /\ backend = "llama.cpp" => model \in GgufRefs
  BY <1>2, RefsAssumption DEF EngineTypeOK, LockInv, SlotInv, Half, Whole, HeldLabels,
     UnloadLabels, LoadLabels, Refs
<1> QED BY <1>1, <1>2 DEF EngineTypeOK

LEMMA StreamInvLoad ==
    ASSUME EngineTypeOK, StreamInv, NEW t \in Clients, LoadStep(t)
    PROVE  StreamInv'
<1> USE DEF EngineTypeOK, StreamInv, StreamLabels, Step, Release, Assigned, Disturb,
        slotVars, streamVars
<1>1. CASE Request(t)
  BY <1>1 DEF Request
<1>2. CASE Acquire(t)
  BY <1>2 DEF Acquire
<1>3. CASE Reuse(t)
  BY <1>3 DEF Reuse
<1>4. CASE Replace(t)
  BY <1>4 DEF Replace
<1>5. CASE LoadFails(t)
  BY <1>5 DEF LoadFails
<1>6. CASE UnloadModel(t)
  BY <1>6 DEF UnloadModel
<1>7. CASE UnloadTokenizer(t)
  BY <1>7 DEF UnloadTokenizer
<1>8. CASE UnloadKey(t)
  BY <1>8 DEF UnloadKey
<1>9. CASE UnloadBackend(t)
  BY <1>9 DEF UnloadBackend
<1>10. CASE LoadTokenizer(t)
  BY <1>10 DEF LoadTokenizer
<1>11. CASE LoadModel(t)
  BY <1>11 DEF LoadModel
<1>12. CASE ToDevice(t)
  BY <1>12 DEF ToDevice
<1>13. CASE LoadBackend(t)
  BY <1>13 DEF LoadBackend
<1>14. CASE LoadKey(t)
  BY <1>14 DEF LoadKey
<1> QED BY <1>1, <1>2, <1>3, <1>4, <1>5, <1>6, <1>7, <1>8, <1>9, <1>10, <1>11, <1>12, <1>13, <1>14 DEF LoadStep

LEMMA EngineInvStream ==
    ASSUME EngineInv, NEW t \in Clients, StreamStep(t)
    PROVE  LockInv' /\ SlotInv' /\ StreamInv'
<1>1. LockInv' /\ SlotInv'
  <2> USE DEF EngineInv, EngineTypeOK, LockInv, SlotInv, Half, Whole, HeldLabels, UnloadLabels,
          LoadLabels, Step, slotVars
  <2>1. CASE BeginStream(t)
    BY <2>1 DEF BeginStream
  <2>2. CASE ReadBackend(t)
    BY <2>2 DEF ReadBackend
  <2>3. CASE ReadTokenizer(t)
    BY <2>3 DEF ReadTokenizer
  <2>4. CASE StreamAnswer(t)
    BY <2>4 DEF StreamAnswer
  <2>5. CASE StreamRaises(t)
    BY <2>5 DEF StreamRaises
  <2>6. CASE StreamHangs(t)
    BY <2>6 DEF StreamHangs
  <2> QED BY <2>1, <2>2, <2>3, <2>4, <2>5, <2>6 DEF StreamStep
<1>2. StreamInv'
  <2> USE RefsAssumption, ModelHasItsOwn
      DEF EngineInv, EngineTypeOK, StreamInv, StreamLabels, Refs, Step, slotVars, streamVars
  <2>1. CASE BeginStream(t)
    BY <2>1 DEF BeginStream
  <2>2. CASE ReadBackend(t)
    BY <2>2 DEF ReadBackend
  <2>3. CASE ReadTokenizer(t)
    BY <2>3 DEF ReadTokenizer
  <2>4. CASE StreamAnswer(t)
    BY <2>4 DEF StreamAnswer
  <2>5. CASE StreamRaises(t)
    BY <2>5 DEF StreamRaises
  <2>6. CASE StreamHangs(t)
    BY <2>6 DEF StreamHangs
  <2> QED BY <2>1, <2>2, <2>3, <2>4, <2>5, <2>6 DEF StreamStep
<1> QED BY <1>1, <1>2

LEMMA EngineInvNext == EngineInv /\ [EngineNext]_engineVars => EngineInv'
<1> SUFFICES ASSUME EngineInv, [EngineNext]_engineVars PROVE EngineInv'
  OBVIOUS
<1>1. EngineTypeOK'
  BY EngineTypeNext DEF EngineInv
<1>2. CASE UNCHANGED engineVars
  BY <1>1, <1>2 DEF engineVars, slotVars, streamVars, EngineInv, LockInv, SlotInv, Whole, Half,
     StreamInv
<1>3. CASE EngineRestart
  BY <1>1, <1>3, RefsAssumption DEF EngineRestart, EngineInv, LockInv, SlotInv, Whole,
     StreamInv, HeldLabels, UnloadLabels, LoadLabels, StreamLabels, Refs
<1>4. ASSUME NEW t \in Clients, LoadStep(t) PROVE EngineInv'
  BY <1>1, <1>4, LockInvLoad, SlotInvLoad, StreamInvLoad DEF EngineInv
<1>5. ASSUME NEW t \in Clients, StreamStep(t) PROVE EngineInv'
  BY <1>1, <1>5, EngineInvStream DEF EngineInv
<1> QED BY <1>2, <1>3, <1>4, <1>5 DEF EngineNext, ClientStep, LoadStep, StreamStep

LEMMA EngineInvHolds == EngineSpec => []EngineInv
  BY EngineInvInit, EngineInvNext, PTL DEF EngineSpec

\* Whatever was loaded, unloaded and failed half-way, the four attributes fit together
\* whenever nobody holds the lock: for any threads and models.
THEOREM AttributesFit == EngineSpec => []LoadedIsWhole
<1>1. EngineInv => LoadedIsWhole
  BY DEF EngineInv, SlotInv, Whole, LoadedIsWhole
<1> QED BY <1>1, EngineInvHolds, PTL

\* A stream beside which nothing is loaded or unloaded answers with one model and
\* its own tokenizer, also when a load by another thread is under way.
THEOREM OneModelAnswers == EngineSpec => []StreamIsOneModel
<1>1. EngineInv => StreamIsOneModel
  BY DEF EngineInv, StreamInv, StreamIsOneModel
<1> QED BY <1>1, EngineInvHolds, PTL

-----------------------------------------------------------------------------
(* TrainingCycle.                                                          *)

\* A thread that cleans has noted the text of each usable sample it has looked at.
Covered(t) ==
    /\ left[t] \subseteq samples[t] /\ noted[t] \subseteq samples[t] \ Refused
    /\ Texts(Usable(samples[t] \ left[t])) \subseteq Texts(noted[t])

\* What makes set a data set of the new samples fresh.
IsCleanOf(set, fresh) ==
    /\ set \subseteq Usable(fresh)
    /\ Texts(Usable(fresh)) \subseteq Texts(set \cup (fresh \cap Poor))

\* What a thread that is about to register a model has to keep: its data set is
\* stored and holds what is kept of its samples. The seed data set has one name,
\* and whoever finds it there is about to train on the same samples.
TrainRow == [data : DOMAIN datasets, fresh : SUBSET Samples, batch : SUBSET Samples]
CycleInv(t) ==
    /\ step[t] \in {"collect", "clean"} => data[t][1] # "seed"
    /\ step[t] = "seed" => data[t] = <<"seed", 1>>
    /\ data[t][1] = "seed" => data[t] = <<"seed", 1>> /\ samples[t] = SeedData
    /\ step[t] \in {"idle", "number", "open", "collect"} => noted[t] = {}
    /\ step[t] = "clean" => Covered(t)
    /\ step[t] = "store" /\ data[t][1] # "seed" => Covered(t) /\ left[t] = {}
    /\ step[t] = "train" =>
           data[t] \in DOMAIN datasets /\ IsCleanOf(datasets[data[t]], samples[t])

TrainTypes ==
    /\ approved \subseteq Samples
    /\ \A key \in DOMAIN datasets : datasets[key] \subseteq Samples
    /\ models \in Seq(TrainRow)
    /\ step \in [Runners -> TrainingLabels]
    /\ data = [t \in Runners |-> data[t]]
    /\ samples \in [Runners -> SUBSET Samples]
    /\ left \in [Runners -> SUBSET Samples]
    /\ noted \in [Runners -> SUBSET Samples]

SeedInv == <<"seed", 1>> \in DOMAIN datasets => datasets[<<"seed", 1>>] = SeedData

TrainInv == TrainTypes /\ SeedInv /\ VersionNamesData /\ \A t \in Runners : CycleInv(t)

LEMMA TrainInvInit == TrainingInit => TrainInv
  BY DEF TrainingInit, TrainInv, TrainTypes, TrainRow, SeedInv, VersionNamesData, CycleInv,
     TrainingLabels, NoData

LEMMA SeedIsClean == IsCleanOf(SeedData, SeedData)
  BY SamplesAssumption DEF IsCleanOf, Usable, Texts

\* What is noted in the end and not poor is a data set of all the samples.
LEMMA NotedIsClean ==
    ASSUME NEW t \in Runners, Covered(t), left[t] = {}
    PROVE  IsCleanOf(Usable(noted[t]), samples[t])
<1>1. noted[t] = Usable(noted[t]) \cup (noted[t] \cap Poor)
  BY DEF Covered, Usable
<1>2. Texts(Usable(samples[t])) \subseteq Texts(noted[t])
  BY DEF Covered
<1>3. Texts(noted[t]) \subseteq Texts(Usable(noted[t]) \cup (samples[t] \cap Poor))
  BY <1>1 DEF Covered, Texts
<1> QED BY <1>2, <1>3 DEF IsCleanOf, Covered, Usable

\* One more sample is looked at.
LEMMA CleanOneCovers ==
    ASSUME TrainInv, NEW t \in Runners, CleanOne(t) PROVE Covered(t)'
<1> DEFINE new(s) == {s} \ (Refused \cup {k \in Samples : Text[k] \in Texts(noted[t])})
<1>1. PICK s \in left[t] : left' = [left EXCEPT ![t] = @ \ {s}] /\
                           noted' = [noted EXCEPT ![t] = @ \cup new(s)]
  BY DEF CleanOne
<1>2. /\ left'[t] = left[t] \ {s} /\ noted'[t] = noted[t] \cup new(s)
      /\ samples'[t] = samples[t] /\ s \in samples[t] /\ s \in Samples
      /\ Covered(t)
  BY <1>1 DEF CleanOne, TrainInv, TrainTypes, CycleInv, Covered
<1>3. ASSUME NEW k \in Usable(samples[t] \ left'[t]) PROVE Text[k] \in Texts(noted'[t])
  <2>1. CASE k = s
    BY <1>2, <1>3, <2>1 DEF Usable, Texts
  <2>2. CASE k # s
    BY <1>2, <1>3, <2>2 DEF Usable, Texts, Covered
  <2> QED BY <2>1, <2>2
<1> QED BY <1>2, <1>3 DEF Covered, Texts

\* Where no data set is written, a thread whose own variables stay keeps CycleInv,
\* and where no model is written, the models keep their data.
SameCycle(s) ==
    /\ step'[s] = step[s] /\ data'[s] = data[s] /\ samples'[s] = samples[s]
    /\ left'[s] = left[s] /\ noted'[s] = noted[s]

LEMMA CycleInvKept ==
    ASSUME NEW s, CycleInv(s), SameCycle(s), datasets' = datasets PROVE CycleInv(s)'
  BY DEF CycleInv, SameCycle, Covered

LEMMA DataKept ==
    ASSUME SeedInv, VersionNamesData, UNCHANGED <<datasets, models>>
    PROVE  SeedInv' /\ VersionNamesData'
<1>1. Stored' = Stored
  BY DEF Stored
<1> QED BY <1>1 DEF SeedInv, VersionNamesData

\* The steps that write neither datasets nor models.
LEMMA TrainInvRead ==
    ASSUME TrainInv, NEW t \in Runners,
           \/ \E extra \in Extras : RunTraining(t, extra)
           \/ BootstrapTraining(t) \/ ReadCycleNumber(t) \/ OpenCycle(t)
           \/ FindSeed(t) \/ Collect(t) \/ CleanOne(t) \/ NothingUsable(t) \/ ReadVersion(t)
           \/ AdoptSeed(t) \/ FinishCycle(t) \/ TrainingRaises(t)
    PROVE  TrainInv'
<1> USE SamplesAssumption
    DEF TrainInv, TrainTypes, TrainRow, TrainingLabels, NoData, From, Leave, tableVars, cycleVars
<1>0. /\ UNCHANGED <<datasets, models>>
      /\ \A s \in Runners \ {t} : SameCycle(s)
  BY DEF RunTraining, BootstrapTraining, ReadCycleNumber, OpenCycle, FindSeed, Collect, CleanOne,
     NothingUsable, ReadVersion, AdoptSeed, FinishCycle, TrainingRaises, SameCycle
<1> SUFFICES TrainTypes' /\ CycleInv(t)'
  BY <1>0, CycleInvKept, DataKept
<1>1. CASE \E extra \in Extras : RunTraining(t, extra)
  <2>1. PICK extra \in Extras : RunTraining(t, extra)
    BY <1>1
  <2>2. extra \subseteq Samples /\ data'[t] = <<"collected", 0>>
    BY <2>1 DEF RunTraining
  <2>3. <<"collected", 0>>[1] # "seed"
    OBVIOUS
  <2> QED BY <2>1, <2>2, <2>3 DEF RunTraining, CycleInv
<1>2. CASE BootstrapTraining(t)
  BY <1>2 DEF BootstrapTraining, CycleInv
<1>3. CASE ReadCycleNumber(t)
  BY <1>3 DEF ReadCycleNumber, CycleInv
<1>4. CASE OpenCycle(t)
  BY <1>4 DEF OpenCycle, CycleInv
<1>5. CASE FindSeed(t)
  BY <1>5, SeedIsClean DEF FindSeed, CycleInv, SeedInv
<1>6. CASE Collect(t)
  <2>1. Covered(t)'
    BY <1>6 DEF Collect, Covered, Usable, Texts, CycleInv
  <2> QED BY <1>6, <2>1 DEF Collect, CycleInv
<1>7. CASE CleanOne(t)
  <2>1. approved' \subseteq Samples
    BY <1>7 DEF CleanOne, Usable
  <2>2. TrainTypes'
    BY <1>7, <2>1 DEF CleanOne
  <2> QED BY <1>7, <2>2, CleanOneCovers DEF CleanOne, CycleInv
<1>8. CASE NothingUsable(t)
  BY <1>8 DEF NothingUsable, CycleInv
<1>9. CASE ReadVersion(t)
  <2>1. data' = [data EXCEPT ![t] = <<"collected", number'[t]>>] /\ step[t] = "clean"
    BY <1>9 DEF ReadVersion
  <2>2. data'[t][1] = "collected" /\ \A s \in Runners \ {t} : data'[s] = data[s]
    BY <2>1
  <2>3. data' = [s \in Runners |-> data'[s]]
    BY <2>1
  <2> QED BY <1>9, <2>2, <2>3 DEF ReadVersion, Covered, CycleInv
<1>10. CASE AdoptSeed(t)
  BY <1>10 DEF AdoptSeed, CycleInv
<1>11. CASE FinishCycle(t)
  BY <1>11 DEF FinishCycle, CycleInv
<1>12. CASE TrainingRaises(t)
  BY <1>12 DEF TrainingRaises, CycleInv
<1> QED BY <1>1, <1>2, <1>3, <1>4, <1>5, <1>6, <1>7, <1>8, <1>9, <1>10, <1>11, <1>12

LEMMA SeqOfSubset == ASSUME NEW S, NEW T, S \subseteq T, NEW q \in Seq(S) PROVE q \in Seq(T)
  OBVIOUS

LEMMA TrainInvStore == ASSUME TrainInv, NEW t \in Runners, StoreDataset(t) PROVE TrainInv'
<1> USE SamplesAssumption
    DEF StoreDataset, TrainInv, TrainTypes, From, cycleVars
<1>1. /\ DOMAIN datasets' = DOMAIN datasets \cup {data[t]}
      /\ \A key \in DOMAIN datasets : datasets'[key] = datasets[key]
      /\ datasets'[data[t]] = Cleaned(t)
  OBVIOUS
<1>2. IsCleanOf(Cleaned(t), samples[t]) /\ Cleaned(t) \subseteq Samples
  BY NotedIsClean, SeedIsClean DEF Cleaned, CycleInv, Usable
<1>3. TrainTypes'
  <2>1. TrainRow \subseteq TrainRow'
    BY <1>1 DEF TrainRow
  <2>2. models \in Seq(TrainRow')
    BY <2>1, SeqOfSubset
  <2> QED BY <1>1, <1>2, <2>2 DEF TrainingLabels
<1>4. SeedInv'
  BY <1>1 DEF SeedInv, CycleInv, Cleaned
<1>5. VersionNamesData'
  <2>1. Stored \subseteq Stored'
    BY <1>1 DEF Stored
  <2>2. ASSUME NEW set, NEW poor, Texts(set) \subseteq Texts(Stored \cup poor)
        PROVE  Texts(set) \subseteq Texts(Stored' \cup poor)
    BY <2>1, <2>2 DEF Texts
  <2> QED BY <1>1, <2>2 DEF VersionNamesData
<1>6. \A s \in Runners : CycleInv(s)'
  BY <1>1, <1>2 DEF CycleInv, TrainingLabels, Covered
<1> QED BY <1>3, <1>4, <1>5, <1>6

LEMMA TrainInvRegister == ASSUME TrainInv, NEW t \in Runners, TrainAndRegister(t) PROVE TrainInv'
<1> USE DEF TrainAndRegister, TrainInv, TrainTypes, From, cycleVars
<1>1. PICK replay \in SUBSET Stored :
        models' = Append(models, [data |-> data[t], fresh |-> samples[t],
                                  batch |-> samples[t] \cup replay])
  OBVIOUS
<1> DEFINE m == [data |-> data[t], fresh |-> samples[t], batch |-> samples[t] \cup replay]
<1>2. replay \subseteq Samples
  BY DEF Stored
<1>3. m \in TrainRow
  BY <1>2 DEF TrainRow, CycleInv
<1>4. /\ models' \in Seq(TrainRow)
      /\ Len(models') = Len(models) + 1
      /\ \A i \in 1..Len(models) : models'[i] = models[i]
      /\ models'[Len(models) + 1] = m
  BY <1>1, <1>3
<1>5. TrainTypes'
  BY <1>4 DEF TrainRow, TrainingLabels
<1>6. /\ data[t] \in DOMAIN datasets
      /\ IsCleanOf(datasets[data[t]], samples[t])
  BY DEF CycleInv
<1>7. datasets[data[t]] \subseteq Stored
  BY <1>6 DEF Stored
<1>8. Texts(Usable(m.batch)) \subseteq Texts(Stored \cup (samples[t] \cap Poor))
  <2>1. Usable(m.batch) \subseteq Usable(samples[t]) \cup Stored
    BY DEF Usable
  <2>2. Texts(Usable(samples[t])) \subseteq Texts(datasets[data[t]] \cup (samples[t] \cap Poor))
    BY <1>6 DEF IsCleanOf
  <2>3. Texts(datasets[data[t]] \cup (samples[t] \cap Poor))
            \subseteq Texts(Stored \cup (samples[t] \cap Poor))
    BY <1>7 DEF Texts
  <2>4. Texts(Stored) \subseteq Texts(Stored \cup (samples[t] \cap Poor))
    BY DEF Texts
  <2>5. Texts(Usable(m.batch)) \subseteq Texts(Usable(samples[t])) \cup Texts(Stored)
    BY <2>1 DEF Texts
  <2> QED BY <2>2, <2>3, <2>4, <2>5
<1>9. VersionNamesData'
  <2>1. Stored' = Stored
    BY DEF Stored
  <2>2. DOMAIN models' = 1..(Len(models) + 1) /\ DOMAIN models = 1..Len(models)
    BY <1>4
  <2>3. ASSUME NEW i \in DOMAIN models', i # Len(models) + 1
        PROVE  i \in DOMAIN models /\ models'[i] = models[i]
    BY <1>4, <2>2, <2>3
  <2>4. m.data = data[t] /\ m.fresh = samples[t]
    OBVIOUS
  <2> QED BY <1>4, <1>6, <1>8, <2>1, <2>2, <2>3, <2>4 DEF VersionNamesData, IsCleanOf
<1> QED BY <1>5, <1>9 DEF SeedInv, CycleInv, TrainingLabels, Covered

LEMMA TrainInvNext == TrainInv /\ [TrainingNext]_trainingVars => TrainInv'
<1> SUFFICES ASSUME TrainInv, [TrainingNext]_trainingVars PROVE TrainInv'
  OBVIOUS
<1> USE DataKept DEF TrainInv, TrainTypes, TrainRow
<1>1. CASE UNCHANGED trainingVars
  BY <1>1, CycleInvKept DEF trainingVars, tableVars, cycleVars, SameCycle
<1>2. CASE TrainingCrash
  BY <1>2 DEF TrainingCrash, tableVars, TrainingLabels, NoData, CycleInv
<1>3. CASE SwapShows
  BY <1>3, CycleInvKept DEF SwapShows, cycleVars, SameCycle
<1>4. ASSUME NEW t \in Runners, CycleStep(t) PROVE TrainInv'
  <2>1. CASE \E extra \in Extras : RunTraining(t, extra)
    BY <2>1, TrainInvRead
  <2>2. CASE StoreDataset(t)
    BY <2>2, TrainInvStore
  <2>3. CASE TrainAndRegister(t)
    BY <2>3, TrainInvRegister
  <2> QED BY <1>4, <2>1, <2>2, <2>3, TrainInvRead DEF CycleStep
<1> QED BY <1>1, <1>2, <1>3, <1>4 DEF TrainingNext

LEMMA TrainInvHolds == TrainingSpec => []TrainInv
  BY TrainInvInit, TrainInvNext, PTL DEF TrainingSpec

\* A model's row names the data set of its own cycle, and what it learned is kept for
\* the replay of later ones: for any number of cycles at once, whatever raises, and
\* whenever the process ends.
THEOREM VersionsNameTheirData == TrainingSpec => []VersionNamesData
<1>1. TrainInv => VersionNamesData
  BY DEF TrainInv
<1> QED BY <1>1, TrainInvHolds, PTL

-----------------------------------------------------------------------------
(* Budget.                                                                 *)

\* While the books are clean one charge at most is in progress, and the amount it
\* is about to add fits into what its check has read.
ChargeInv(t) ==
    /\ \A s \in Charging : t \in Charging => s = t
    /\ spend[t] = "read" => spent + due[t] <= room[t]
    /\ spend[t] = "write" => seen[t] = spent /\ spent + due[t] <= room[t]
    /\ spend[t] = "insert" => spent <= room[t]

BudgetInv ==
    /\ BudgetTypeOK /\ BooksBalance
    /\ books = "clean" => \A t \in Payers : ChargeInv(t)

LEMMA BudgetInvInit == BudgetInit => BudgetInv
  BY AmountsAssumption DEF BudgetInit, BudgetInv, BudgetTypeOK, BooksBalance, ChargeInv,
     Charging, SpendLabels, ChargeLabels

LEMMA DueIsNat == ASSUME BudgetTypeOK, NEW t \in Payers PROVE due[t] \in Nat
<1>1. due[t] \in Amounts \cup {0}
  BY DEF BudgetTypeOK
<1>2. Amounts \subseteq Nat
  BY AmountsAssumption
<1>3. CASE due[t] \in Amounts
  BY <1>2, <1>3
<1>4. CASE due[t] = 0
  BY <1>4
<1> QED BY <1>1, <1>3, <1>4

LEMMA BudgetInvPayer ==
    ASSUME BudgetInv, NEW t \in Payers,
           \/ BeginChat(t) \/ BeginTraining(t) \/ CheckEstimate(t) \/ Work(t)
           \/ Exceeded(t) \/ CheckCharge(t) \/ ReadSpent(t) \/ WriteSpent(t)
           \/ InsertCost(t)
    PROVE  BudgetInv'
<1> USE AmountsAssumption
    DEF BudgetInv, BudgetTypeOK, BooksBalance, ChargeInv, Charging, SpendLabels, ChargeLabels,
        Move, NothingDue, Affordable, accountVars, chargeVars
<1>1. CASE BeginChat(t)
  BY <1>1 DEF BeginChat
<1>2. CASE BeginTraining(t)
  BY <1>2 DEF BeginTraining
<1>3. CASE CheckEstimate(t)
  BY <1>3 DEF CheckEstimate
<1>4. CASE Work(t)
  BY <1>4 DEF Work
<1>5. CASE Exceeded(t)
  BY <1>5 DEF Exceeded
<1>6. CASE CheckCharge(t)
  BY <1>6 DEF CheckCharge
<1>7. CASE ReadSpent(t)
  BY <1>7 DEF ReadSpent
<1>8. CASE WriteSpent(t)
  <2> USE <1>8 DEF WriteSpent
  <2>0. seen[t] + due[t] \in Nat
    BY DueIsNat
  <2>1. BudgetTypeOK'
    <3> HIDE AmountsAssumption
    <3> QED BY <2>0
  <2>2. books = "clean" => \A s \in Payers : spend[s] \in ChargeLabels => s = t
    OBVIOUS
  <2>3. ASSUME books = "clean" PROVE BooksBalance'
    BY <2>2, <2>3
  <2>4. ASSUME books = "clean", NEW s \in Payers PROVE ChargeInv(s)'
    BY <2>2, <2>4
  <2> QED BY <2>1, <2>3, <2>4
<1>9. CASE InsertCost(t)
  <2> USE <1>9 DEF InsertCost
  <2>0. costs + due[t] \in Nat
    BY DueIsNat
  <2>1. BudgetTypeOK'
    <3> HIDE AmountsAssumption
    <3> QED BY <2>0
  <2>2. books = "clean" => \A s \in Payers : spend[s] \in ChargeLabels => s = t
    OBVIOUS
  <2>3. ASSUME books = "clean" PROVE BooksBalance'
    BY <2>2, <2>3
  <2>4. ASSUME books = "clean", NEW s \in Payers PROVE ChargeInv(s)'
    BY <2>2, <2>4
  <2> QED BY <2>1, <2>3, <2>4
<1> QED BY <1>1, <1>2, <1>3, <1>4, <1>5, <1>6, <1>7, <1>8, <1>9

LEMMA BudgetInvNext == BudgetInv /\ [BudgetNext]_budgetVars => BudgetInv'
<1> SUFFICES ASSUME BudgetInv, [BudgetNext]_budgetVars PROVE BudgetInv'
  OBVIOUS
<1> USE AmountsAssumption
    DEF BudgetInv, BudgetTypeOK, BooksBalance, ChargeInv, Charging, SpendLabels, ChargeLabels,
        accountVars, chargeVars
<1>1. CASE UNCHANGED budgetVars
  BY <1>1 DEF budgetVars
<1>2. CASE SetCredits
  BY <1>2 DEF SetCredits
<1>3. CASE SetSpent
  BY <1>3 DEF SetSpent
<1>4. CASE BudgetCrash
  BY <1>4 DEF BudgetCrash
<1>5. ASSUME NEW t \in Payers, PayerStep(t) PROVE BudgetInv'
  BY <1>5, BudgetInvPayer DEF PayerStep
<1> QED BY <1>1, <1>2, <1>3, <1>4, <1>5 DEF BudgetNext

LEMMA BudgetInvHolds == BudgetSpec => []BudgetInv
  BY BudgetInvInit, BudgetInvNext, PTL DEF BudgetSpec

\* The counter is the sum of the recorded costs, for any payers and any amounts,
\* unless two charges overlapped or a crash cut one.
THEOREM SpentIsTheSum == BudgetSpec => []BooksBalance
<1>1. BudgetInv => BooksBalance
  BY DEF BudgetInv
<1> QED BY <1>1, BudgetInvHolds, PTL

\* Only the step that inserts a row changes the costs of a thread that leaves its
\* INSERT.
LEMMA CostsAreInserted ==
    ASSUME BudgetInv, BudgetNext, NEW t \in Payers,
           spend[t] = "insert", spend'[t] # "insert", costs' # costs
    PROVE  costs' = costs + due[t]
<1>1. CASE SetCredits
  BY <1>1 DEF SetCredits
<1>2. CASE SetSpent
  BY <1>2 DEF SetSpent
<1>3. CASE BudgetCrash
  BY <1>3 DEF BudgetCrash
<1>4. ASSUME NEW s \in Payers, PayerStep(s) PROVE InsertCost(s)
  BY <1>4 DEF PayerStep, BeginChat, BeginTraining, CheckEstimate, Work, Exceeded, CheckCharge,
     ReadSpent, WriteSpent, accountVars
<1>5. ASSUME NEW s \in Payers, InsertCost(s) PROVE s = t /\ costs' = costs + due[t]
  BY <1>5 DEF InsertCost, Move, BudgetInv, BudgetTypeOK
<1> QED BY <1>1, <1>2, <1>3, <1>4, <1>5 DEF BudgetNext

\* A charge beside which there was no other one stays within the credits its check
\* has read, whatever the owner sets meanwhile: for any payers, amounts and limits.
THEOREM ChargesFit == BudgetSpec => WithinCredits
<1>1. BudgetInv /\ [BudgetNext]_budgetVars =>
          [\A t \in Payers :
              books = "clean" /\ spend[t] = "insert" /\ spend'[t] # "insert" /\ costs' # costs
                  => costs' <= room[t]]_budgetVars
  <2> SUFFICES ASSUME BudgetInv, BudgetNext, NEW t \in Payers, books = "clean",
                      spend[t] = "insert", spend'[t] # "insert", costs' # costs
               PROVE  costs' <= room[t]
    BY DEF budgetVars
  <2>1. costs' = costs + due[t]
    BY CostsAreInserted
  <2> QED BY <2>1 DEF BudgetInv, BooksBalance, ChargeInv
<1> QED BY <1>1, BudgetInvHolds, PTL DEF BudgetSpec, WithinCredits

-----------------------------------------------------------------------------
(* EvaluationGate.                                                         *)

\* What may come into production keeps what some adopted seed passes, and so does every
\* model a candidate is still to be compared with. `best` may be any model: a rollback
\* moves models out of and into production, and the gate asks the current one too.
GateTypes ==
    /\ Trained \subseteq AllModels
    /\ \A m \in Trained : \A s \in Suites : passed[m][s] \in Nat
    /\ current \in Trained
    /\ base \in [Trainers -> Trained \cup {NoOne}]
    /\ candidate \in [Trainers -> Trained \cup {NoOne}]
    /\ approvable \subseteq Trained /\ seeds \subseteq Trained /\ adopted \subseteq Trained

Keeps(m) == \E z \in seeds : \A s \in Suites : passed[m][s] >= passed[z][s]

GateInv ==
    /\ GateTypes
    /\ settled /\ ~astray =>
        /\ current \in adopted
        /\ \A m \in adopted \cup approvable : Keeps(m)
        /\ \A t \in Trainers : base[t] # NoOne => Keeps(base[t])

LEMMA ReportCounts == ASSUME NEW r \in Report, NEW s \in Suites PROVE r[s] \in Nat
<1>1. r[s] \in UNION {0..Cases[x] : x \in Suites}
  BY DEF Report
<1>2. PICK x \in Suites : r[s] \in 0..Cases[x]
  BY <1>1
<1>3. Cases[x] \in 1..49
  BY SuitesAssumption
<1> QED BY <1>2, <1>3

\* The tolerance is less than one case.
LEMMA NoCaseIsLost ==
    ASSUME NEW cand, NEW other, ~Regresses(cand, other), NEW s \in Suites,
           cand[s] \in Nat, other[s] \in Nat
    PROVE  cand[s] >= other[s]
<1>1. ~ ((other[s] - cand[s]) * 100 > 2 * Cases[s])
  BY DEF Regresses
<1>2. Cases[s] \in 1..49
  BY SuitesAssumption
<1> DEFINE a == cand[s]
           b == other[s]
           k == Cases[s]
<1>3. a \in Nat /\ b \in Nat /\ k \in 1..49 /\ ~ ((b - a) * 100 > 2 * k)
  BY <1>1, <1>2
<1> HIDE DEF a, b, k
<1>4. a >= b
  BY <1>3
<1> QED BY <1>4 DEF a, b

LEMMA GateInvInit == GateInit => GateInv
<1> SUFFICES ASSUME GateInit PROVE GateInv
  OBVIOUS
<1>1. passed[0] \in Report /\ Trained = {0} /\ AllModels = 0..LastModel /\ LastModel \in Nat
  BY SuitesAssumption DEF GateInit, Trained, AllModels
<1>2. \A s \in Suites : passed[0][s] \in Nat
  BY <1>1, ReportCounts
<1> QED BY <1>1, <1>2 DEF GateInit, GateInv, GateTypes, Keeps

LEMMA GateInvTrain ==
    ASSUME GateInv, NEW t \in Trainers, TrainCandidate(t) \/ TrainSeed(t) PROVE GateInv'
<1>1. PICK m \in AllModels \ Trained, r \in Report :
        /\ passed' = [k \in Trained \cup {m} |-> IF k = m THEN r ELSE passed[k]]
        /\ candidate' = [candidate EXCEPT ![t] = m]
  BY DEF TrainCandidate, TrainSeed, Train
<1>2. \A s \in Suites : r[s] \in Nat
  BY ReportCounts
<1>3. /\ Trained' = Trained \cup {m}
      /\ \A k \in Trained : passed'[k] = passed[k]
      /\ passed'[m] = r
  BY <1>1 DEF Trained
<1>4. UNCHANGED <<current, best, base, approvable, seeds, adopted, settled, astray>>
  BY DEF TrainCandidate, TrainSeed
<1>5. AllModels' = AllModels
  BY DEF AllModels
<1>6. GateTypes'
  BY <1>1, <1>2, <1>3, <1>4, <1>5 DEF GateInv, GateTypes
<1>7. \A k \in Trained : Keeps(k) => Keeps(k)'
  BY <1>3, <1>4 DEF Keeps, GateInv, GateTypes
<1> QED BY <1>4, <1>6, <1>7 DEF GateInv, GateTypes

LEMMA GateInvVerdict == ASSUME GateInv, NEW t \in Trainers, Verdict(t) PROVE GateInv'
<1>1. PICK new \in {0, 1}, adopt \in BOOLEAN :
        /\ settled => adopt = Adopts(passed[base[t]], passed[candidate[t]],
                                     {passed[m] : m \in {best} \ {NoOne}}, new)
        /\ approvable' = approvable \cup {m \in {candidate[t]} : adopt}
  BY DEF Verdict
<1>2. /\ UNCHANGED <<passed, current, best, seeds, adopted, settled, astray>>
      /\ candidate[t] # NoOne /\ base[t] # NoOne
  BY DEF Verdict
<1>3. candidate[t] \in Trained /\ Trained' = Trained /\ AllModels' = AllModels
  BY <1>2 DEF GateInv, GateTypes, Trained, AllModels
<1>4. GateTypes'
  BY <1>1, <1>2, <1>3 DEF Verdict, EndCycle, GateInv, GateTypes
<1>5. ASSUME settled, ~astray, adopt, base[t] # NoOne PROVE Keeps(candidate[t])
  <2>1. ~Regresses(passed[candidate[t]], passed[base[t]])
    BY <1>1, <1>5 DEF Adopts
  <2>2. base[t] \in Trained /\ Keeps(base[t])
    BY <1>5 DEF GateInv, GateTypes
  <2>3. \A s \in Suites : passed[candidate[t]][s] >= passed[base[t]][s]
    BY <1>3, <2>1, <2>2, NoCaseIsLost DEF GateInv, GateTypes
  <2> QED BY <1>3, <2>2, <2>3 DEF Keeps, GateInv, GateTypes
<1>6. \A k \in Trained : Keeps(k)' <=> Keeps(k)
  BY <1>2 DEF Keeps
<1>7. base[t] # NoOne /\ base' = [base EXCEPT ![t] = NoOne]
  BY <1>2 DEF Verdict, EndCycle, GateInv, GateTypes
<1>8. ASSUME settled, ~astray, NEW k \in adopted \cup approvable' PROVE Keeps(k)'
  BY <1>1, <1>3, <1>5, <1>6, <1>7, <1>8 DEF GateInv, GateTypes
<1>9. ASSUME settled, ~astray, NEW u \in Trainers, base'[u] # NoOne PROVE Keeps(base[u])'
  BY <1>2, <1>7, <1>9 DEF GateInv, GateTypes, Keeps
<1> QED BY <1>2, <1>4, <1>8, <1>9 DEF GateInv

\* What is adopted of what keeps, and any seed, keeps.
LEMMA GateInvOwner ==
    ASSUME GateInv,
           (\E m \in AllModels : Adopt(m) \/ RollbackTo(m))
               \/ \E t \in Trainers : AdoptSeedOf(t)
    PROVE  GateInv'
<1>1. /\ passed' = passed /\ Trained' = Trained /\ AllModels' = AllModels
      /\ seeds \subseteq seeds'
  BY DEF Adopt, RollbackTo, AdoptSeedOf, Trained, AllModels
<1>2. \A k \in Trained : Keeps(k) => Keeps(k)'
  BY <1>1 DEF Keeps
<1>3. ASSUME NEW m \in AllModels, Adopt(m) PROVE GateInv'
  <2>1. /\ m \in approvable /\ current' = m /\ adopted' = adopted \cup {m}
        /\ UNCHANGED <<passed, base, candidate, approvable, seeds, settled, astray>>
    BY <1>3 DEF Adopt, AdoptModel
  <2> QED BY <1>1, <1>2, <2>1 DEF GateInv, GateTypes
<1>4. ASSUME NEW m \in AllModels, RollbackTo(m) PROVE GateInv'
  BY <1>1, <1>2, <1>4 DEF RollbackTo, GateInv, GateTypes
<1>5. ASSUME NEW t \in Trainers, AdoptSeedOf(t) PROVE GateInv'
  <2>0. PICK m \in Trained : m = candidate[t]
    BY <1>5 DEF AdoptSeedOf, GateInv, GateTypes
  <2>1. /\ current' = m /\ adopted' = adopted \cup {m}
        /\ seeds' = seeds \cup {m}
        /\ base' = [base EXCEPT ![t] = NoOne] /\ candidate' = [candidate EXCEPT ![t] = NoOne]
        /\ UNCHANGED <<passed, approvable, settled, astray>>
    BY <1>5, <2>0 DEF AdoptSeedOf, AdoptModel, EndCycle
  <2>2. Keeps(m)'
    <3>1. m \in seeds' /\ \A s \in Suites : passed'[m][s] \in Nat
      BY <1>1, <2>1 DEF GateInv, GateTypes
    <3> QED BY <3>1 DEF Keeps
  <2>3. GateTypes'
    BY <1>1, <2>1 DEF GateInv, GateTypes
  <2>4. ASSUME settled, ~astray, NEW u \in Trainers, base'[u] # NoOne PROVE Keeps(base[u])'
    BY <1>2, <2>1, <2>4 DEF GateInv, GateTypes, Keeps
  <2> QED BY <1>2, <2>1, <2>2, <2>3, <2>4 DEF GateInv, GateTypes, Keeps
<1> QED BY <1>3, <1>4, <1>5

LEMMA GateInvNext == GateInv /\ [GateNext]_gateVars => GateInv'
<1> SUFFICES ASSUME GateInv, [GateNext]_gateVars PROVE GateInv'
  OBVIOUS
<1> USE DEF GateInv, GateTypes, Trained, AllModels, Keeps
<1>1. CASE UNCHANGED gateVars
  BY <1>1 DEF gateVars
<1>2. CASE WorldChanges
  BY <1>2 DEF WorldChanges
<1>3. ASSUME NEW t \in Trainers, BeginCycle(t) PROVE GateInv'
  BY <1>3 DEF BeginCycle
<1>4. ASSUME NEW t \in Trainers, CycleRaisesAnywhere(t) PROVE GateInv'
  BY <1>4 DEF CycleRaisesAnywhere, EndCycle
<1> QED BY <1>1, <1>2, <1>3, <1>4, GateInvTrain, GateInvVerdict, GateInvOwner DEF GateNext

LEMMA GateInvHolds == GateSpec => []GateInv
  BY GateInvInit, GateInvNext, PTL DEF GateSpec

\* No chain of adoptions, however long, loses a case that every adopted seed passes: what
\* is in production keeps the counts of one of them, for any suites of fewer than fifty
\* cases and any number of cycles and bootstraps at once.
THEOREM AdoptionsNeverForget == GateSpec => []NeverForgets
<1>1. GateInv => NeverForgets
  BY DEF GateInv, GateTypes, Keeps, NeverForgets
<1> QED BY <1>1, GateInvHolds, PTL

-----------------------------------------------------------------------------
(* RateLimit.                                                              *)

LEMMA Earliest ==
    ASSUME NEW S, S \subseteq Nat, S # {}
    PROVE  \E i \in S : \A j \in S : i <= j
<1>1. PICK i \in S : \A j \in S : ~ (<<j, i>> \in OpToRel(<, Nat))
  BY NatLessThanWellFounded, WFMin
<1>2. \A j \in S : ~ (j < i)
  BY <1>1 DEF OpToRel
<1>3. \A j \in S : i \in Nat /\ j \in Nat
  OBVIOUS
<1>4. \A j \in S : i <= j
  BY <1>2, <1>3
<1> QED BY <1>4

\* Pruning never lengthens the queue, and a time inside the window stays.
LEMMA PruneKeeps ==
    ASSUME NEW q \in Seq(Hit), NEW now \in Nat
    PROVE  /\ Prune(q, now) \in Seq(Hit)
           /\ Len(Prune(q, now)) <= Len(q)
           /\ \A i \in 1..Len(q) : q[i].at > now - Window =>
                  \E j \in 1..Len(Prune(q, now)) : Prune(q, now)[j] = q[i]
<1> DEFINE inside == {i \in 1..Len(q) : q[i].at > now - Window}
           first == IF inside = {} THEN Len(q) + 1
                    ELSE CHOOSE i \in inside : \A j \in inside : i <= j
<1>1. Prune(q, now) = SubSeq(q, first, Len(q))
  BY DEF Prune
<1>2. inside \subseteq 1..Len(q) /\ Len(q) \in Nat
  OBVIOUS
<1>3. first \in 1..(Len(q) + 1) /\ \A i \in inside : first <= i
  <2>1. CASE inside = {}
    BY <1>2, <2>1
  <2>2. CASE inside # {}
    <3>1. inside \subseteq Nat
      BY <1>2
    <3>2. \E i \in inside : \A j \in inside : i <= j
      <4> HIDE DEF inside
      <4> QED BY <2>2, <3>1, Earliest
    <3>3. first \in inside /\ \A j \in inside : first <= j
      <4>1. first = CHOOSE i \in inside : \A j \in inside : i <= j
        BY <2>2
      <4> HIDE DEF inside, first
      <4> QED BY <3>2, <4>1
    <3> HIDE DEF inside, first
    <3> QED BY <1>2, <3>3
  <2> QED BY <2>1, <2>2
<1> HIDE DEF first
<1>4. /\ SubSeq(q, first, Len(q)) \in Seq(Hit)
      /\ Len(SubSeq(q, first, Len(q))) = Len(q) - first + 1
      /\ \A j \in 1..(Len(q) - first + 1) : SubSeq(q, first, Len(q))[j] = q[first + j - 1]
  BY <1>2, <1>3, SubSeqProperties
<1>5. ASSUME NEW i \in 1..Len(q), q[i].at > now - Window
      PROVE  \E j \in 1..(Len(q) - first + 1) : SubSeq(q, first, Len(q))[j] = q[i]
  <2>1. first <= i
    BY <1>3, <1>5
  <2>2. i - first + 1 \in 1..(Len(q) - first + 1) /\ first + (i - first + 1) - 1 = i
    BY <1>2, <1>3, <2>1
  <2>3. SubSeq(q, first, Len(q))[i - first + 1] = q[i]
    BY <1>4, <2>2
  <2> QED BY <2>2, <2>3
<1> DEFINE rest == SubSeq(q, first, Len(q))
<1>6. rest \in Seq(Hit) /\ Len(rest) = Len(q) - first + 1
  BY <1>4
<1>7. \A i \in 1..Len(q) : q[i].at > now - Window => \E j \in 1..Len(rest) : rest[j] = q[i]
  BY <1>5, <1>6
<1>8. Len(rest) <= Len(q)
  BY <1>2, <1>3, <1>6
<1> QED BY <1>1, <1>6, <1>7, <1>8

\* Whoever has passed allowed() has a place that the queue leaves free.
Guessing == {t \in Callers : login[t] \in {"token", "stamp", "record"}}
RoomInv == Len(hits) + Cardinality(Guessing) <= Limit - 1 + Cardinality(Callers)

\* A wrong attempt of the window is on its way to the queue, or in it.
InHits(w) == \E i \in 1..Len(hits) : hits[i].of = w.of /\ hits[i].at >= w.at
OnTheWay(w) == \E t \in Callers : login[t] \in {"stamp", "record"} /\ attempt[t] = w.of

WrongInv(w) ==
    /\ w.at <= time /\ w.at > time - Window /\ w.of <= attempts
    /\ \A v \in wrong : v.of = w.of => v = w
    /\ \A t \in Callers : login[t] \in {"allowed", "token", "clear"} => attempt[t] # w.of
    /\ \A t \in Callers : login[t] = "record" /\ attempt[t] = w.of => seenAt[t] >= w.at
    /\ InHits(w) \/ OnTheWay(w)

CallerInv ==
    /\ \A t \in Callers : seenAt[t] <= time /\ attempt[t] <= attempts
    /\ \A s, t \in Callers :
           s # t /\ login[s] # "idle" /\ login[t] # "idle" => attempt[s] # attempt[t]

RateInv == LimiterTypeOK /\ RoomInv /\ CallerInv /\ \A w \in wrong : WrongInv(w)

\* What a step of one thread leaves alone.
Others(t) == \A s \in Callers \ {t} :
    login'[s] = login[s] /\ attempt'[s] = attempt[s] /\ seenAt'[s] = seenAt[s]

LEMMA GuessingFinite ==
    /\ Cardinality(Callers) \in Nat
    /\ \A S : S \subseteq Callers =>
           IsFiniteSet(S) /\ Cardinality(S) \in Nat /\ Cardinality(S) <= Cardinality(Callers)
  BY CallersAssumption, FS_CardinalityType, FS_Subset

LEMMA RateInvInit == LimiterInit => RateInv
<1> SUFFICES ASSUME LimiterInit PROVE RateInv
  OBVIOUS
<1>1. Guessing = {} /\ Len(hits) = 0
  BY DEF LimiterInit, Guessing
<1>2. RoomInv
  BY <1>1, FS_EmptySet, GuessingFinite, LimitAssumption DEF RoomInv
<1> QED BY <1>2 DEF LimiterInit, RateInv, LimiterTypeOK, LoginLabels, CallerInv

\* The steps that leave the queue alone.
LEMMA RateInvOutside ==
    ASSUME RateInv, NEW t \in Callers,
           BeginLogin(t) \/ WrongToken(t) \/ RightToken(t) \/ Stamp(t)
    PROVE  RateInv'
<1>0. /\ \A w \in wrong : w.at \in Nat /\ w.of \in Nat
      /\ \A s \in Callers : seenAt[s] \in Nat /\ attempt[s] \in Nat
  BY DEF RateInv, LimiterTypeOK, Hit
<1>1. hits' = hits /\ time' = time /\ time \in Nat /\ attempts \in Nat
  BY DEF BeginLogin, WrongToken, RightToken, Stamp, RateInv, LimiterTypeOK
<1>2. RoomInv'
  <2>1. Guessing' \subseteq Guessing
    BY DEF BeginLogin, WrongToken, RightToken, Stamp, At, Guessing, RateInv, LimiterTypeOK
  <2>2. Guessing \subseteq Callers
    BY DEF Guessing
  <2>3. /\ Cardinality(Guessing') <= Cardinality(Guessing)
        /\ Cardinality(Guessing) \in Nat /\ Cardinality(Guessing') \in Nat
    BY <2>1, <2>2, FS_Subset, GuessingFinite
  <2>4. Len(hits) \in Nat
    BY DEF RateInv, LimiterTypeOK
  <2> QED BY <1>1, <2>3, <2>4, GuessingFinite, LimitAssumption DEF RateInv, RoomInv
<1>3. \A w \in wrong : InHits(w)' <=> InHits(w)
  BY <1>1 DEF InHits
<1>4. LimiterTypeOK' /\ CallerInv' /\ (\A w \in wrong' : WrongInv(w)')
  <2>1. CASE BeginLogin(t)
    <3>0. /\ login[t] = "idle" /\ login'[t] = "allowed" /\ attempt'[t] = attempts + 1
          /\ seenAt'[t] = time /\ attempts' = attempts + 1 /\ wrong' = wrong
          /\ Others(t)
      BY <2>1 DEF BeginLogin, At, Others, RateInv, LimiterTypeOK
    <3>1. LimiterTypeOK'
      BY <2>1 DEF BeginLogin, At, RateInv, LimiterTypeOK, LoginLabels, Hit
    <3>2. CallerInv'
      BY <1>0, <1>1, <3>0 DEF Others, RateInv, CallerInv
    <3>3. \A w \in wrong' : WrongInv(w)'
      BY <1>0, <1>1, <1>3, <3>0, LimitAssumption
         DEF RateInv, CallerInv, WrongInv, OnTheWay, Others
    <3> QED BY <3>1, <3>2, <3>3
  <2>2. CASE WrongToken(t)
    <3>0. /\ login[t] = "token" /\ login'[t] = "stamp" /\ attempt'[t] = attempt[t]
          /\ seenAt'[t] = seenAt[t] /\ attempts' = attempts
          /\ wrong' = wrong \cup {[at |-> time, of |-> attempt[t]]}
          /\ Others(t)
      BY <2>2 DEF WrongToken, At, Others, RateInv, LimiterTypeOK
    <3>1. LimiterTypeOK'
      BY <2>2 DEF WrongToken, At, RateInv, LimiterTypeOK, LoginLabels, Hit
    <3>2. CallerInv'
      BY <1>0, <1>1, <3>0 DEF Others, RateInv, CallerInv
    <3>3. \A w \in wrong' : WrongInv(w)'
      BY <1>0, <1>1, <1>3, <3>0, LimitAssumption
         DEF RateInv, CallerInv, WrongInv, OnTheWay, Others
    <3> QED BY <3>1, <3>2, <3>3
  <2>3. CASE RightToken(t)
    <3>0. /\ login[t] = "token" /\ login'[t] = "clear" /\ attempt'[t] = attempt[t]
          /\ seenAt'[t] = seenAt[t] /\ attempts' = attempts /\ wrong' = wrong
          /\ Others(t)
      BY <2>3 DEF RightToken, At, Others, RateInv, LimiterTypeOK
    <3>1. LimiterTypeOK'
      BY <2>3 DEF RightToken, At, RateInv, LimiterTypeOK, LoginLabels, Hit
    <3>2. CallerInv'
      BY <1>0, <1>1, <3>0 DEF Others, RateInv, CallerInv
    <3>3. \A w \in wrong' : WrongInv(w)'
      BY <1>0, <1>1, <1>3, <3>0, LimitAssumption
         DEF RateInv, CallerInv, WrongInv, OnTheWay, Others
    <3> QED BY <3>1, <3>2, <3>3
  <2>4. CASE Stamp(t)
    <3>0. /\ login[t] = "stamp" /\ login'[t] = "record" /\ attempt'[t] = attempt[t]
          /\ seenAt'[t] = time /\ attempts' = attempts /\ wrong' = wrong
          /\ Others(t)
      BY <2>4 DEF Stamp, At, Others, RateInv, LimiterTypeOK
    <3>1. LimiterTypeOK'
      BY <2>4 DEF Stamp, At, RateInv, LimiterTypeOK, LoginLabels, Hit
    <3>2. CallerInv'
      BY <1>0, <1>1, <3>0 DEF Others, RateInv, CallerInv
    <3>3. \A w \in wrong' : WrongInv(w)'
      BY <1>0, <1>1, <1>3, <3>0, LimitAssumption
         DEF RateInv, CallerInv, WrongInv, OnTheWay, Others
    <3> QED BY <3>1, <3>2, <3>3
  <2> QED BY <2>1, <2>2, <2>3, <2>4
<1> QED BY <1>2, <1>4 DEF RateInv

\* The two steps that prune the queue: what is in it of the window stays.
LEMMA PruneWrong ==
    ASSUME RateInv, NEW t \in Callers, NEW w \in wrong, InHits(w)
    PROVE  \E j \in 1..Len(Prune(hits, seenAt[t])) :
               Prune(hits, seenAt[t])[j].of = w.of /\ Prune(hits, seenAt[t])[j].at >= w.at
<1>1. hits \in Seq(Hit) /\ seenAt[t] \in Nat /\ seenAt[t] <= time /\ time \in Nat
  BY DEF RateInv, LimiterTypeOK, CallerInv
<1>2. PICK i \in 1..Len(hits) : hits[i].of = w.of /\ hits[i].at >= w.at
  BY DEF InHits
<1>3. w.at > time - Window /\ w.at \in Nat /\ hits[i].at \in Nat
  <2>1. w.at > time - Window /\ w \in Hit
    BY DEF RateInv, WrongInv, LimiterTypeOK
  <2>2. hits[i] \in Hit
    BY <1>1, <1>2
  <2> QED BY <2>1, <2>2 DEF Hit
<1>4. hits[i].at > seenAt[t] - Window
  BY <1>1, <1>2, <1>3, LimitAssumption
<1>5. PICK j \in 1..Len(Prune(hits, seenAt[t])) : Prune(hits, seenAt[t])[j] = hits[i]
  BY <1>1, <1>4, PruneKeeps
<1> QED BY <1>2, <1>5

LEMMA RateInvAllowed == ASSUME RateInv, NEW t \in Callers, Allowed(t) PROVE RateInv'
<1>0. /\ \A w \in wrong : w.at \in Nat /\ w.of \in Nat
      /\ \A s \in Callers : seenAt[s] \in Nat /\ attempt[s] \in Nat
      /\ time \in Nat /\ attempts \in Nat /\ hits \in Seq(Hit)
  BY DEF RateInv, LimiterTypeOK, Hit
<1>1. hits' = Prune(hits, seenAt[t]) /\ UNCHANGED <<time, attempts, wrong>>
  BY DEF Allowed
<1>2. hits' \in Seq(Hit) /\ Len(hits') <= Len(hits) /\ Len(hits) \in Nat /\ Len(hits') \in Nat
  <2>1. hits' \in Seq(Hit) /\ Len(hits') <= Len(hits)
    BY <1>0, <1>1, PruneKeeps
  <2> QED BY <1>0, <2>1, LenProperties
<1>3. login[t] = "allowed" /\ Others(t)
  BY DEF Allowed, At, Done, Others, RateInv, LimiterTypeOK
<1>4. \/ /\ Len(hits') < Limit /\ login'[t] = "token"
         /\ attempt'[t] = attempt[t] /\ seenAt'[t] = seenAt[t]
      \/ login'[t] = "idle" /\ attempt'[t] = 0 /\ seenAt'[t] = 0
  BY DEF Allowed, At, Done, RateInv, LimiterTypeOK
<1>5. LimiterTypeOK'
  <2>1. /\ login' \in [Callers -> LoginLabels]
        /\ seenAt' \in [Callers -> Nat] /\ attempt' \in [Callers -> Nat]
    <3>1. CASE Len(hits') < Limit
      BY <3>1 DEF Allowed, At, RateInv, LimiterTypeOK, LoginLabels
    <3>2. CASE ~(Len(hits') < Limit)
      <4>1. /\ login' = [login EXCEPT ![t] = "idle"]
            /\ seenAt' = [seenAt EXCEPT ![t] = 0] /\ attempt' = [attempt EXCEPT ![t] = 0]
        BY <3>2 DEF Allowed, At, Done
      <4> QED BY <4>1 DEF RateInv, LimiterTypeOK, LoginLabels
    <3> QED BY <3>1, <3>2
  <2> QED BY <1>0, <1>1, <1>2, <2>1 DEF RateInv, LimiterTypeOK
<1>6. RoomInv'
  <2>1. Guessing \subseteq Callers /\ Guessing' \subseteq Callers
    BY DEF Guessing
  <2>2. CASE Len(hits') < Limit
    BY <1>2, <2>1, <2>2, GuessingFinite, LimitAssumption DEF RoomInv
  <2>3. CASE ~(Len(hits') < Limit)
    <3>1. Guessing' \subseteq Guessing
      BY <1>3, <1>4, <2>3 DEF Guessing, Others
    <3>2. Cardinality(Guessing') <= Cardinality(Guessing)
      BY <2>1, <3>1, FS_Subset, GuessingFinite
    <3> QED BY <1>2, <2>1, <3>2, GuessingFinite, LimitAssumption DEF RateInv, RoomInv
  <2> QED BY <2>2, <2>3
<1>7. CallerInv'
  BY <1>0, <1>1, <1>3, <1>4 DEF Others, RateInv, CallerInv
<1>8. \A w \in wrong : InHits(w) => InHits(w)'
  BY <1>1, PruneWrong DEF InHits
<1>9. \A w \in wrong' : WrongInv(w)'
  BY <1>0, <1>1, <1>3, <1>4, <1>8 DEF RateInv, WrongInv, OnTheWay, Others
<1> QED BY <1>5, <1>6, <1>7, <1>9 DEF RateInv

LEMMA RateInvRecord == ASSUME RateInv, NEW t \in Callers, Record(t) PROVE RateInv'
<1> DEFINE queue == Prune(hits, seenAt[t])
           hit == [at |-> seenAt[t], of |-> attempt[t]]
<1>0. /\ \A w \in wrong : w.at \in Nat /\ w.of \in Nat
      /\ \A s \in Callers : seenAt[s] \in Nat /\ attempt[s] \in Nat
      /\ time \in Nat /\ attempts \in Nat /\ hits \in Seq(Hit)
  BY DEF RateInv, LimiterTypeOK, Hit
<1>1. hits' = Append(queue, hit) /\ UNCHANGED <<time, attempts, wrong>>
  BY DEF Record
<1>2. queue \in Seq(Hit) /\ Len(queue) <= Len(hits) /\ Len(hits) \in Nat /\ Len(queue) \in Nat
  <2>1. queue \in Seq(Hit) /\ Len(queue) <= Len(hits)
    BY <1>0, PruneKeeps
  <2> HIDE DEF queue
  <2> QED BY <1>0, <2>1, LenProperties
<1>3. hit \in Hit /\ hit.at = seenAt[t] /\ hit.of = attempt[t]
  BY <1>0 DEF Hit
<1>4. /\ hits' \in Seq(Hit) /\ Len(hits') = Len(queue) + 1
      /\ \A i \in 1..Len(queue) : hits'[i] = queue[i]
      /\ hits'[Len(queue) + 1] = hit
  <2> HIDE DEF queue, hit
  <2> QED BY <1>1, <1>2, <1>3
<1>5. /\ login[t] = "record" /\ login'[t] = "idle" /\ attempt'[t] = 0 /\ seenAt'[t] = 0
      /\ Others(t)
  BY DEF Record, At, Done, Others, RateInv, LimiterTypeOK
<1>6. LimiterTypeOK'
  BY <1>4 DEF Record, At, Done, RateInv, LimiterTypeOK, LoginLabels
<1>7. RoomInv'
  <2>1. Guessing' = Guessing \ {t} /\ t \in Guessing /\ Guessing \subseteq Callers
    BY <1>5 DEF Guessing, Others
  <2>2. Cardinality(Guessing') = Cardinality(Guessing) - 1
    BY <2>1, FS_RemoveElement, GuessingFinite
  <2>3. Cardinality(Guessing) \in Nat
    BY <2>1, GuessingFinite
  <2> HIDE DEF queue
  <2> QED BY <1>2, <1>4, <2>2, <2>3, GuessingFinite, LimitAssumption DEF RateInv, RoomInv
<1>8. CallerInv'
  BY <1>0, <1>1, <1>5 DEF Others, RateInv, CallerInv
<1>9. ASSUME NEW w \in wrong, InHits(w) PROVE InHits(w)'
  <2>1. PICK j \in 1..Len(queue) : queue[j].of = w.of /\ queue[j].at >= w.at
    BY <1>9, PruneWrong
  <2> HIDE DEF queue
  <2>2. j \in 1..Len(hits') /\ hits'[j] = queue[j]
    BY <1>2, <1>4
  <2> QED BY <2>1, <2>2 DEF InHits
<1>10. ASSUME NEW w \in wrong, attempt[t] = w.of PROVE InHits(w)'
  <2>1. seenAt[t] >= w.at
    BY <1>5, <1>10 DEF RateInv, WrongInv
  <2>2. Len(queue) + 1 \in 1..Len(hits')
    BY <1>2, <1>4
  <2> HIDE DEF queue, hit
  <2> QED BY <1>3, <1>4, <1>10, <2>1, <2>2 DEF InHits
<1>11. \A w \in wrong' : WrongInv(w)'
  <2>1. wrong' = wrong /\ time' = time /\ attempts' = attempts
    BY <1>1
  <2>2. \A w \in wrong : InHits(w) \/ attempt[t] = w.of => InHits(w)'
    BY <1>9, <1>10
  <2> HIDE DEF queue, hit
  <2> QED BY <1>0, <1>5, <2>1, <2>2 DEF RateInv, WrongInv, OnTheWay, Others
<1> QED BY <1>6, <1>7, <1>8, <1>11 DEF RateInv

\* A right token and a restart forget both the queue and what was wrong.
LEMMA RateInvForget ==
    ASSUME RateInv, LimiterRestart \/ \E t \in Callers : ClearHits(t)
    PROVE  RateInv'
<1>1. hits' = << >> /\ wrong' = {} /\ time' = time /\ attempts' = attempts
  BY DEF LimiterRestart, ClearHits
<1>2. RoomInv'
  <2>1. Guessing' \subseteq Callers /\ Len(hits') = 0
    BY <1>1 DEF Guessing
  <2> QED BY <2>1, GuessingFinite, LimitAssumption DEF RoomInv
<1>3. LimiterTypeOK' /\ CallerInv'
  <2>1. CASE LimiterRestart
    BY <1>1, <2>1 DEF LimiterRestart, RateInv, LimiterTypeOK, CallerInv, LoginLabels
  <2>2. ASSUME NEW t \in Callers, ClearHits(t) PROVE LimiterTypeOK' /\ CallerInv'
    BY <1>1, <2>2 DEF ClearHits, At, Done, RateInv, LimiterTypeOK, CallerInv, LoginLabels
  <2> QED BY <2>1, <2>2
<1> QED BY <1>1, <1>2, <1>3 DEF RateInv

LEMMA RateInvTick == ASSUME RateInv, ClockTick PROVE RateInv'
<1>1. /\ time' = time + 1 /\ wrong' = {w \in wrong : w.at > time' - Window}
      /\ UNCHANGED <<hits, login, seenAt, attempt, attempts>>
  BY DEF ClockTick
<1>2. /\ \A w \in wrong : w.at \in Nat /\ w.of \in Nat
      /\ \A s \in Callers : seenAt[s] \in Nat /\ attempt[s] \in Nat
      /\ time \in Nat /\ attempts \in Nat
  BY DEF RateInv, LimiterTypeOK, Hit
<1>3. LimiterTypeOK' /\ RoomInv' /\ CallerInv'
  BY <1>1, <1>2 DEF RateInv, LimiterTypeOK, RoomInv, Guessing, CallerInv
<1>4. \A w \in wrong' : WrongInv(w)'
  BY <1>1, <1>2 DEF RateInv, WrongInv, InHits, OnTheWay
<1> QED BY <1>3, <1>4 DEF RateInv

LEMMA RateInvNext == RateInv /\ [LimiterNext]_limiterVars => RateInv'
<1> SUFFICES ASSUME RateInv, [LimiterNext]_limiterVars PROVE RateInv'
  OBVIOUS
<1>1. CASE UNCHANGED limiterVars
  BY <1>1 DEF limiterVars, RateInv, LimiterTypeOK, RoomInv, Guessing, CallerInv, WrongInv,
     InHits, OnTheWay
<1>2. ASSUME NEW t \in Callers, LoginStep(t) PROVE RateInv'
  BY <1>2, RateInvOutside, RateInvAllowed, RateInvRecord, RateInvForget DEF LoginStep
<1> QED BY <1>1, <1>2, RateInvForget, RateInvTick DEF LimiterNext

LEMMA RateInvHolds == LimiterSpec => []RateInv
  BY RateInvInit, RateInvNext, PTL DEF LimiterSpec

\* The attempts in the queue and those on the way to it are counted apart.
LEMMA CountWrong == RateInv => AttemptsBounded
<1> SUFFICES ASSUME RateInv PROVE AttemptsBounded
  OBVIOUS
<1> DEFINE W1 == {w \in wrong : InHits(w)}
           W2 == {w \in wrong : OnTheWay(w)}
           place == [w \in W1 |-> CHOOSE i \in 1..Len(hits) : hits[i].of = w.of]
           carrier == [w \in W2 |-> CHOOSE t \in Guessing : attempt[t] = w.of]
<1>0. /\ \A v, w \in wrong : v.of = w.of => v = w
      /\ Len(hits) \in Nat /\ Guessing \subseteq Callers
  BY DEF RateInv, WrongInv, LimiterTypeOK, Guessing
<1>1. wrong = W1 \cup W2
  BY DEF RateInv, WrongInv
<1>2. \A w \in W1 : place[w] \in 1..Len(hits) /\ hits[place[w]].of = w.of
  BY DEF InHits
<1>3. \A w \in W2 : carrier[w] \in Guessing /\ attempt[carrier[w]] = w.of
  <2>1. \A w \in W2 : \E t \in Guessing : attempt[t] = w.of
    BY DEF OnTheWay, Guessing
  <2> QED BY <2>1
<1>4. W1 \subseteq wrong /\ W2 \subseteq wrong
  OBVIOUS
<1>5. place \in [W1 -> 1..Len(hits)] /\ carrier \in [W2 -> Guessing]
  BY <1>2, <1>3
<1> HIDE DEF W1, W2, place, carrier
<1>6. place \in Injection(W1, 1..Len(hits))
  BY <1>0, <1>2, <1>4, <1>5 DEF Injection, IsInjective
<1>7. carrier \in Injection(W2, Guessing)
  BY <1>0, <1>3, <1>4, <1>5 DEF Injection, IsInjective
<1>8. IsFiniteSet(1..Len(hits)) /\ Cardinality(1..Len(hits)) = Len(hits)
  <2>1. 1 \in Int /\ Len(hits) \in Int /\ (1 > Len(hits) => Len(hits) = 0)
    BY <1>0
  <2>2. Cardinality(1..Len(hits)) = IF 1 > Len(hits) THEN 0 ELSE Len(hits) - 1 + 1
    BY <2>1, FS_Interval
  <2>3. IsFiniteSet(1..Len(hits))
    BY <2>1, FS_Interval
  <2> QED BY <1>0, <2>2, <2>3
<1>9. IsFiniteSet(W1) /\ Cardinality(W1) <= Len(hits)
  BY <1>6, <1>8, FS_Injection
<1>10. IsFiniteSet(W2) /\ Cardinality(W2) <= Cardinality(Guessing)
  BY <1>0, <1>7, GuessingFinite, FS_Injection
<1>11. Cardinality(wrong) <= Cardinality(W1) + Cardinality(W2)
  <2>1. Cardinality(W1 \cup W2) = Cardinality(W1) + Cardinality(W2) - Cardinality(W1 \cap W2)
    BY <1>9, <1>10, FS_Union
  <2>2. IsFiniteSet(W1 \cap W2)
    BY <1>9, FS_Intersection
  <2>3. Cardinality(W1 \cap W2) \in Nat /\ Cardinality(W1) \in Nat /\ Cardinality(W2) \in Nat
    BY <1>9, <1>10, <2>2, FS_CardinalityType
  <2> QED BY <1>1, <2>1, <2>3
<1>12. /\ Cardinality(W1) \in Nat /\ Cardinality(W2) \in Nat /\ Cardinality(Guessing) \in Nat
       /\ Cardinality(wrong) \in Nat
  <2>1. IsFiniteSet(wrong)
    BY <1>1, <1>9, <1>10, FS_Union
  <2> QED BY <1>0, <1>9, <1>10, <2>1, FS_CardinalityType, GuessingFinite
<1> QED BY <1>0, <1>9, <1>10, <1>11, <1>12, GuessingFinite, LimitAssumption
       DEF RateInv, RoomInv, AttemptsBounded

\* Within a window the token can be guessed wrong `limit` times, and once more for each
\* other thread of the server: for every limit, window and number of threads.
THEOREM GuessesAreBounded == LimiterSpec => []AttemptsBounded
  BY RateInvHolds, CountWrong, PTL
=============================================================================
