---------------------------- MODULE AgentProofs -----------------------------
(***************************************************************************)
(* Proofs about AgentTask and AgentPipeline, for every value of the limits,*)
(* every number of human interventions and every set of faults.            *)
(*                                                                         *)
(* One task's file: no command leaves the budgets, or tells a story of the *)
(* task that its history does not bear out.                                *)
(*                                                                         *)
(* The pipeline: whoever holds a copy of state.json either holds one that  *)
(* follows from the branch as it is (Copies), or is marked stale, and then *)
(* its push is refused.                                                    *)
(***************************************************************************)
EXTENDS AgentTask, AgentPipeline, TLAPS

(* AgentTask: the commands, as the proofs see them *)

\* Every command that changes the task record applies an event to it, starts a
\* hand run, or changes control.  The proofs below need no more of TaskNext.
LEMMA CommandCases ==
  ASSUME TypeOK, TaskNext
  PROVE  \/ \E e \in Events, extra \in Int \ {0} : Apply(e, extra)
         \/ HandStart
         \/ \E c \in Controls : StateControl(c)
<1>1. CASE StateInit
  BY <1>1 DEF StateInit, Events
<1>2. CASE HandFinish
  BY <1>2 DEF HandFinish, Events, HandEvents
<1>3. ASSUME NEW e \in Events, NEW extra \in ExtraFor(e), NEW rightReason \in EvidenceFor(e),
             StateAdvance(e, extra, "", FALSE, FALSE, rightReason)
      PROVE  \E f \in Events, x \in Int \ {0} : Apply(f, x)
  <2>1. Classified(task, e, rightReason) \in Events
    BY <1>3 DEF Classified, Events
  <2>2. \A x \in Extras : Grant(x) \in Int \ {0}
    BY ExtrasAssumption DEF Grant
  <2>3. extra \in Int \ {0}
    BY <2>2 DEF ExtraFor
  <2>4. QED
    BY <1>3, <2>1, <2>3 DEF StateAdvance
<1>4. QED
  BY <1>1, <1>2, <1>3 DEF TaskNext

-----------------------------------------------------------------------------
(* AgentTask: type correctness *)

LEMMA AdvanceTyped ==
  ASSUME NEW t \in Task, NEW e \in Events, NEW extra \in Int, NEW nxt \in States
  PROVE  Moved(t, e, extra, nxt) \in Task
<1>1. FailuresAfter(t, e) \in Nat
  BY DEF FailuresAfter, Task
<1>2. ManagedAfter(t, e) \in Nat
  BY DEF ManagedAfter, Task
<1>3. ReasonFor(t, e, nxt) \in Reasons
  BY DEF ReasonFor, FailureReason, Task, Reasons
<1>4. QED
  BY <1>1, <1>2, <1>3, LimitsAssumption DEF Moved, AttemptAfter, Task

\* Every saved state.json is well formed.
THEOREM TaskTypeCorrect == TaskSpec => []TypeOK
<1>1. TaskInit => TypeOK
  <2> SUFFICES ASSUME TaskInit PROVE TypeOK
    OBVIOUS
  <2>1. PICK max \in 1..HardMaxAttempts, red \in BOOLEAN, maint \in BOOLEAN :
          task = NewTask("auto", max, red, maint)
    BY DEF TaskInit
  <2>2. NewTask("auto", max, red, maint) \in Task
    BY LimitsAssumption DEF NewTask, Task, States, Controls, Modes, Reasons
  <2>3. QED
    BY <2>1, <2>2 DEF TaskInit, TypeOK, Verdicts
<1>2. TypeOK /\ [TaskNext]_taskVars => TypeOK'
  <2> SUFFICES ASSUME TypeOK, [TaskNext]_taskVars PROVE TypeOK'
    OBVIOUS
  <2>1. ASSUME NEW e \in Events, NEW extra \in Int \ {0}, Apply(e, extra)
        PROVE  TypeOK'
    <3>1. PICK nxt \in States : task' = Moved(task, e, extra, nxt) /\ Observed(e, extra, nxt)
      BY <2>1 DEF Apply, Reached
    <3>2. task' \in Task
      BY <3>1, AdvanceTyped DEF TypeOK
    <3>3. verdict' \in Verdicts /\ granted' \in BOOLEAN /\ lowered' \in BOOLEAN
      BY <3>1 DEF Observed, TypeOK, Verdicts
    <3>4. QED
      BY <3>2, <3>3 DEF TypeOK
  <2>2. CASE HandStart
    <3>1. [task EXCEPT !.mode = "hand"] \in Task
      BY DEF TypeOK, Task, Modes
    <3>2. task' \in Task
      BY <2>2, <3>1, AdvanceTyped DEF HandStart, Events, HandEvents, States
    <3>3. verdict' \in Verdicts /\ granted' \in BOOLEAN /\ lowered' \in BOOLEAN
      BY <2>2 DEF HandStart, Observed, TypeOK, Verdicts
    <3>4. QED
      BY <3>2, <3>3 DEF TypeOK
  <2>3. ASSUME NEW c \in Controls, StateControl(c)
        PROVE  TypeOK'
    BY <2>3 DEF StateControl, SetControl, TypeOK, Task
  <2>4. CASE UNCHANGED taskVars
    BY <2>4 DEF taskVars, TypeOK
  <2>5. QED
    BY <2>1, <2>2, <2>3, <2>4, CommandCases
<1>3. QED
  BY <1>1, <1>2, PTL DEF TaskSpec

-----------------------------------------------------------------------------
(* The budgets: attempts, manager invocations, failures in a row *)

\* One event, from a state within its budgets, stays within them.
LEMMA ApplyKeepsBudgets ==
  ASSUME TypeOK, Budgets, NEW e \in Events, NEW extra \in Int \ {0},
         Apply(e, extra)
  PROVE  Budgets'
<1>1. PICK nxt \in States :
        /\ Admits(task, e) /\ Leads(task, e, extra, nxt)
        /\ task' = Moved(task, e, extra, nxt)
        /\ Observed(e, extra, nxt)
  BY DEF Apply, Reached
<1>2. /\ task'.state = nxt /\ task'.last = e
      /\ task'.attempt = AttemptAfter(task, e)
      /\ task'.maxAttempts = IF e = "MANAGER_RETRY" THEN task.maxAttempts + extra ELSE task.maxAttempts
      /\ task'.failures = FailuresAfter(task, e) /\ task'.managed = ManagedAfter(task, e)
      /\ lowered' = (lowered \/ (e = "MANAGER_RETRY" /\ extra < 0))
  BY <1>1 DEF Moved, Observed
<1>3. /\ task.attempt \in Nat /\ task.maxAttempts \in Int
      /\ task.managed \in Nat /\ task.failures \in Nat /\ task.state \in States
  BY DEF TypeOK, Task
<1>4. AttemptsBounded'
  <2>1. /\ task.attempt <= HardMaxAttempts /\ task.maxAttempts <= HardMaxAttempts
        /\ task.attempt <= task.maxAttempts \/ lowered
    BY DEF Budgets, AttemptsBounded
  <2>2. CASE e = "DISPATCH_CODE_AGENT"
    <3>1. task.attempt < task.maxAttempts
      BY <1>1, <2>2 DEF Leads, HasBudget
    <3>2. task'.attempt = task.attempt + 1 /\ task'.maxAttempts = task.maxAttempts
      BY <1>2, <2>2 DEF AttemptAfter
    <3>3. QED
      BY <1>3, <2>1, <3>1, <3>2, LimitsAssumption DEF AttemptsBounded
  <2>3. CASE e = "MANAGER_RETRY"
    <3>1. task.maxAttempts + extra <= HardMaxAttempts
      BY <1>1, <2>3 DEF Leads
    <3>2. task'.attempt = task.attempt /\ task'.maxAttempts = task.maxAttempts + extra
      BY <1>2, <2>3 DEF AttemptAfter
    <3>3. lowered' \/ (task.attempt <= task.maxAttempts /\ ~(extra < 0))
      BY <1>2, <2>1, <2>3
    <3>4. task.attempt <= task.maxAttempts /\ ~(extra < 0) => task'.attempt <= task'.maxAttempts
      BY <1>3, <3>2
    <3>5. task'.attempt <= HardMaxAttempts /\ task'.maxAttempts <= HardMaxAttempts
      BY <2>1, <3>1, <3>2
    <3>6. QED
      BY <3>3, <3>4, <3>5 DEF AttemptsBounded
  <2>4. CASE e \notin {"DISPATCH_CODE_AGENT", "MANAGER_RETRY"}
    BY <1>2, <2>1, <2>4 DEF AttemptsBounded, AttemptAfter
  <2>5. QED
    BY <2>2, <2>3, <2>4
<1>5. ManagerBounded'
  BY <1>1, <1>2, <1>3, LimitsAssumption DEF Budgets, ManagerBounded, ManagedAfter
<1>6. RetryHasBudget'
  <2> SUFFICES ASSUME nxt = "RETRY_READY"
               PROVE  task'.attempt < task'.maxAttempts \/ (lowered' /\ task'.last = "MANAGER_RETRY")
    BY <1>2 DEF RetryHasBudget
  <2>1. (e = "DISTILLED" /\ HasBudget(task)) \/ e = "MANAGER_RETRY"
    BY <1>1 DEF Leads, AfterGreenBaseline, AfterFailure
  <2>2. CASE e = "DISTILLED" /\ HasBudget(task)
    BY <1>2, <2>2 DEF HasBudget, AttemptAfter
  <2>3. CASE e = "MANAGER_RETRY"
    <3>1. extra < 0 => lowered'
      BY <1>2, <2>3
    <3>2. task.attempt <= task.maxAttempts \/ lowered
      BY DEF Budgets, AttemptsBounded
    <3>3. lowered => lowered'
      BY <1>2
    <3>4. task'.attempt = task.attempt /\ task'.maxAttempts = task.maxAttempts + extra
          /\ task'.last = "MANAGER_RETRY"
      BY <1>2, <2>3 DEF AttemptAfter
    <3>5. lowered' \/ (task.attempt <= task.maxAttempts /\ extra >= 0)
      BY <3>1, <3>2, <3>3
    <3>6. QED
      BY <1>3, <3>4, <3>5
  <2>4. QED
    BY <2>1, <2>2, <2>3
<1>7. FailuresStopAtTwo'
  BY <1>1, <1>2, <1>3, LimitsAssumption
     DEF Budgets, FailuresStopAtTwo, FailuresAfter, Leads, HasBudget, AfterGreenBaseline, AfterFailure, Admits, Terminal
<1>8. QED
  BY <1>4, <1>5, <1>6, <1>7 DEF Budgets

\* For every value of the limits, every caller and every grant, negative ones
\* included: the attempts counted stay within HARD_MAX_ATTEMPTS, and within the
\* budget until a grant lowers it; RETRY_READY is a dead end only then; the
\* manager's invocations are bounded, and a third failure in a row cannot happen.
THEOREM BudgetsHold == TaskSpec => []Budgets
<1>1. TaskInit => Budgets
  BY LimitsAssumption
     DEF TaskInit, NewTask, Budgets, AttemptsBounded, ManagerBounded, RetryHasBudget, FailuresStopAtTwo
<1>2. TypeOK /\ Budgets /\ [TaskNext]_taskVars => Budgets'
  <2> SUFFICES ASSUME TypeOK, Budgets, [TaskNext]_taskVars PROVE Budgets'
    OBVIOUS
  <2> USE DEF Budgets, AttemptsBounded, ManagerBounded, RetryHasBudget, FailuresStopAtTwo
  <2>1. ASSUME NEW e \in Events, NEW extra \in Int \ {0}, Apply(e, extra)
        PROVE  Budgets'
    BY <2>1, ApplyKeepsBudgets
  <2>2. CASE HandStart
    BY <2>2 DEF HandStart, Moved, AttemptAfter, FailuresAfter, ManagedAfter, TypeOK, Task, Observed
  <2>3. ASSUME NEW c \in Controls, StateControl(c)
        PROVE  Budgets'
    BY <2>3 DEF StateControl, SetControl, TypeOK, Task
  <2>4. CASE UNCHANGED taskVars
    BY <2>4 DEF taskVars
  <2>5. QED
    BY <2>1, <2>2, <2>3, <2>4, CommandCases
<1>3. QED
  BY <1>1, <1>2, TaskTypeCorrect, PTL DEF TaskSpec

-----------------------------------------------------------------------------
(* What a state says about how the task got there *)

\* One event keeps the conjuncts of Story together: HandIsNotDriven needs to know
\* that a task with no file was never dispatched (DraftIsFresh).
LEMMA ApplyKeepsStory ==
  ASSUME TypeOK, Story, NEW e \in Events, NEW extra \in Int \ {0},
         Apply(e, extra)
  PROVE  Story'
<1>1. PICK nxt \in States :
        /\ Admits(task, e) /\ Leads(task, e, extra, nxt)
        /\ task' = Moved(task, e, extra, nxt)
        /\ Observed(e, extra, nxt)
  BY DEF Apply, Reached
<1>2. task.attempt \in Nat /\ task.state \in States
  BY DEF TypeOK, Task
<1>3. ImplementationIsCounted'
  BY <1>1, <1>2 DEF Story, ImplementationIsCounted, Moved, AttemptAfter, Leads, HasBudget, AfterGreenBaseline, AfterFailure
<1>4. CodeAfterRed'
  BY <1>1, <1>2
     DEF Story, CodeAfterRed, ImplementationStates, Moved, AttemptAfter, Leads, HasBudget, AfterGreenBaseline, AfterFailure, Observed
<1>5. ReasonMatchesState'
  BY <1>1, <1>2
     DEF Story, ReasonMatchesState, Moved, AttemptAfter, Leads, HasBudget, AfterGreenBaseline, AfterFailure, ReasonFor, FailureReason,
         ClearsEscalation, Admits, Terminal
<1>6. HandIsNotDriven'
  <2> SUFFICES ASSUME task.mode = "hand" PROVE HandIsNotDriven'
    BY <1>1 DEF HandIsNotDriven, Moved, AttemptAfter
  <2>1. e \in HandAccepts
    BY <1>1 DEF Admits
  <2>2. task'.state \in {"HAND_RUNNING", "COMPLETE", "ESCALATED", "CANCELLED"}
    BY <1>1, <2>1 DEF Leads, HasBudget, AfterGreenBaseline, Moved, AttemptAfter, HandAccepts, HandEvents
  <2>3. task'.dispatched = "none"
    BY <1>1, <2>1 DEF Story, HandIsNotDriven, Moved, AttemptAfter, HandAccepts, HandEvents, Dispatches
  <2>4. NextKind(task') \in {"halt", "cancel"}
    BY <1>1 DEF NextKind, Halts, Moved, AttemptAfter
  <2>5. QED
    BY <2>2, <2>3, <2>4 DEF HandIsNotDriven
<1>7. DraftIsFresh'
  BY <1>1 DEF DraftIsFresh, Moved, AttemptAfter, Leads, HasBudget, AfterGreenBaseline, AfterFailure
<1>8. QED
  BY <1>3, <1>4, <1>5, <1>6, <1>7 DEF Story

\* Test-first (CodeAfterRed), the count of code-agent runs, the reason a task
\* shows, and the separation of hand runs from the orchestrator, for every
\* sequence of commands.
THEOREM StoryHolds == TaskSpec => []Story
<1>1. TaskInit => Story
  BY DEF TaskInit, NewTask, Story, ImplementationIsCounted, CodeAfterRed,
         ImplementationStates, ReasonMatchesState, HandIsNotDriven, DraftIsFresh
<1>2. TypeOK /\ Story /\ [TaskNext]_taskVars => Story'
  <2> SUFFICES ASSUME TypeOK, Story, [TaskNext]_taskVars PROVE Story'
    OBVIOUS
  <2>1. ASSUME NEW e \in Events, NEW extra \in Int \ {0}, Apply(e, extra)
        PROVE  Story'
    BY <2>1, ApplyKeepsStory
  <2>2. CASE HandStart
    <3>1. /\ task'.state = "HAND_RUNNING" /\ task'.mode = "hand"
          /\ task'.dispatched = "none" /\ task'.reason = "none"
      BY <2>2 DEF HandStart, Moved, AttemptAfter, ReasonFor, TypeOK, Task, Story, ReasonMatchesState,
                  DraftIsFresh, ClearsEscalation, Dispatches
    <3>2. NextKind(task') \in {"halt", "cancel"}
      BY <3>1 DEF NextKind, Halts
    <3>3. HandIsNotDriven'
      BY <3>1, <3>2 DEF HandIsNotDriven
    <3>4. QED
      BY <3>1, <3>3 DEF Story, ImplementationIsCounted, CodeAfterRed, ImplementationStates,
                        ReasonMatchesState, DraftIsFresh
  <2>3. ASSUME NEW c \in Controls, StateControl(c)
        PROVE  Story'
    <3>1. /\ task' = [task EXCEPT !.control = c] /\ UNCHANGED <<verdict, granted>>
          /\ task.state # "DRAFT"
      BY <2>3 DEF StateControl, SetControl
    <3>2. NextKind(task) \in {"halt", "cancel"} /\ task.mode = "hand"
            => NextKind(task') \in {"halt", "cancel"}
      BY <3>1 DEF NextKind, Halts, TypeOK, Task
    <3>3. QED
      BY <3>1, <3>2 DEF Story, ImplementationIsCounted, CodeAfterRed, ImplementationStates,
                        ReasonMatchesState, HandIsNotDriven, DraftIsFresh, TypeOK, Task
  <2>4. CASE UNCHANGED taskVars
    BY <2>4 DEF taskVars, Story, ImplementationIsCounted, CodeAfterRed, ImplementationStates,
                ReasonMatchesState, HandIsNotDriven, DraftIsFresh, NextKind, Halts
  <2>5. QED
    BY <2>1, <2>2, <2>3, <2>4, CommandCases
<1>3. QED
  BY <1>1, <1>2, TaskTypeCorrect, PTL DEF TaskSpec

-----------------------------------------------------------------------------
(* AgentPipeline: the inductive invariant *)

OrchPhases == {"idle", "start", "push", "act", "escalate"}
WorkerPhases == {"idle", "model", "push", "handback"}
Acts == {"none", "wake", "failed", "ci"} \cup Roles
CiVerdicts == {"CI_PASSED", "CI_FAILED", "ESCALATE"}
Wakes ==
  {w \in [kind : {"none", "plain", "event", "ci"}, event : Events \cup {"none"},
          work : Nat, right : BOOLEAN] :
     /\ w.kind = "none" => w = NoWake
     /\ w.kind = "event" => w.event \in HumanEvents
     /\ w.kind = "ci" => w.event \in CiVerdicts}

OrchType ==
  [phase : OrchPhases, wake : Wakes, local : Task, act : Acts, changed : BOOLEAN, stale : BOOLEAN]
WorkerType ==
  [phase : WorkerPhases, role : Roles \cup {"none"}, local : Task, commits : {0, 1}, stale : BOOLEAN]

PipelineType ==
  /\ branch \in Task
  /\ work \in Nat
  /\ orch \in OrchType
  /\ pending \in Wakes
  /\ worker \in WorkerType
  /\ waiting \in Roles \cup {"none"}
  /\ IsABag(ci) /\ BagToSet(ci) \subseteq Nat
  /\ human \in Nat
  /\ codeRuns \in Nat
  /\ reruns \in Nat
  /\ orch.phase \in {"start", "push", "act", "escalate"} => orch.wake.kind # "none"
  /\ worker.phase = "model" => worker.role \in Roles

\* What every copy of the task satisfies, wherever it is.
Awaiting == {"TEST_AGENT_RUNNING", "CODE_AGENT_RUNNING", "BASELINE_CI", "IMPL_CI"}
Sound(t) ==
  /\ t.attempt <= t.maxAttempts
  /\ t.maxAttempts <= HardMaxAttempts
  /\ t.state \in Awaiting => t.last \in Dispatches

InCi == {"BASELINE_CI", "IMPL_CI"}
PastCi == {"READY_FOR_IMPLEMENTATION", "CODE_AGENT_RUNNING", "CONTEXT_MAINTENANCE", "COMPLETE"}

\* What a run may make of a copy t that a human has paused or cancelled.
Heeds(t, s) ==
  /\ s.control = t.control
  /\ t.control # "RUN" =>
       /\ s.attempt = t.attempt /\ s.managed = t.managed
       /\ s.state \in {t.state, "ESCALATED", "CANCELLED"}

\* The code agent that a copy's dispatch is about to start.
CodeAgent(act) == IF act = "code_agent" THEN 1 ELSE 0

\* What the orchestrator may make of t in one run, woken by w.
Follows(t, s, w) ==
  /\ t.state \in InCi /\ s.state \in PastCi => w.kind = "ci" /\ w.work = work
  /\ t.state = "ESCALATED" /\ s.state # "ESCALATED" => w.kind = "event"

OrchCopy ==
  /\ orch.phase = "push" /\ orch.act \in Roles => orch.changed
  /\ orch.phase = "push" /\ ~orch.stale =>
       /\ branch.attempt + CodeAgent(orch.act) <= orch.local.attempt
       /\ Follows(branch, orch.local, orch.wake)
       /\ Heeds(branch, orch.local)
       /\ ~orch.changed => orch.local = branch
  /\ orch.phase \in {"act", "escalate"} /\ ~orch.stale => orch.local = branch

WorkerCopy ==
  worker.phase = "push" /\ ~worker.stale =>
    /\ branch.attempt <= worker.local.attempt
    /\ branch.state \in InCi => worker.local.state \notin PastCi
    /\ branch.state = "ESCALATED" => worker.local.state = "ESCALATED"
    /\ Heeds(branch, worker.local)

Copies == OrchCopy /\ WorkerCopy

\* A code agent that a pushed dispatch has still to start is counted already.
CodeRunsOwed ==
  /\ codeRuns + (IF orch.phase = "act" THEN CodeAgent(orch.act) ELSE 0) <= branch.attempt + reruns
  /\ reruns + human <= HumanBudget

IInv ==
  /\ PipelineType
  /\ Sound(branch) /\ Sound(orch.local) /\ Sound(worker.local)
  /\ Copies
  /\ CodeRunsOwed

-----------------------------------------------------------------------------
(* What one event does to a copy *)

\* An event keeps a copy sound, counts a code agent and nothing else, and is
\* the copy's last one.
LEMMA AdvanceKeeps ==
  ASSUME NEW t \in Task, Sound(t), NEW e \in Events, NEW s \in Advance(t, e, 1)
  PROVE  /\ s \in Task
         /\ Sound(s)
         /\ s.attempt = AttemptAfter(t, e)
         /\ s.last = e
         /\ Admits(t, e)
         /\ Leads(t, e, 1, s.state)
         /\ Heeds(t, s)
<1>1. PICK nxt \in States : Admits(t, e) /\ Leads(t, e, 1, nxt) /\ s = Moved(t, e, 1, nxt)
  BY DEF Advance, Reached
<1>2. s \in Task
  BY <1>1, AdvanceTyped
<1>3. s.state = nxt /\ s.last = e /\ s.attempt = AttemptAfter(t, e)
      /\ s.maxAttempts = IF e = "MANAGER_RETRY" THEN t.maxAttempts + 1 ELSE t.maxAttempts
  BY <1>1 DEF Moved
<1>4. t.attempt \in Nat /\ t.maxAttempts \in Nat /\ t.attempt <= t.maxAttempts
      /\ t.maxAttempts <= HardMaxAttempts
  BY DEF Task, Sound
<1>5. s.attempt <= s.maxAttempts
  <2>1. e = "DISPATCH_CODE_AGENT" => t.attempt < t.maxAttempts
    BY <1>1 DEF Leads, HasBudget
  <2>2. QED
    BY <1>3, <1>4, <2>1 DEF AttemptAfter
<1>6. s.maxAttempts <= HardMaxAttempts
  <2>1. e = "MANAGER_RETRY" => t.maxAttempts + 1 <= HardMaxAttempts
    BY <1>1 DEF Leads
  <2>2. QED
    BY <1>3, <1>4, <2>1
<1>7. nxt \in Awaiting => e \in Dispatches
  BY <1>1 DEF Leads, Awaiting, Dispatches, AfterFailure, AfterGreenBaseline
<1>8. Heeds(t, s)
  <2>1. s.control = t.control /\ s.managed = ManagedAfter(t, e)
    BY <1>1 DEF Moved
  <2>2. t.control # "RUN" => e \in {"CANCEL", "ESCALATE"}
    BY <1>1 DEF Admits, Task, Controls
  <2>3. e \in {"CANCEL", "ESCALATE"} => nxt \in {"ESCALATED", "CANCELLED"}
    BY <1>1 DEF Leads
  <2>4. QED
    BY <1>3, <2>1, <2>2, <2>3 DEF Heeds, AttemptAfter, ManagedAfter
<1>9. QED
  BY <1>1, <1>2, <1>3, <1>5, <1>6, <1>7, <1>8 DEF Sound

\* An event that is refused changes nothing: from InCi only CI's own verdict leads
\* past it, and from ESCALATED only MANAGER_RETRY and MANAGER_RESCOPE or an end.
LEMMA LeadsFromCi ==
  ASSUME NEW t \in Task, NEW e \in Events, NEW nxt, Leads(t, e, 1, nxt),
         t.state \in InCi, e \notin {"CI_PASSED", "CI_FAILED", "CI_FAILED_WRONG_REASON"}
  PROVE  nxt \in {"ESCALATED", "CANCELLED", "FAILED", "MANAGER_REVIEW"}
         /\ (e \in {"ESCALATE", "GUARD_VIOLATION"} => nxt = "ESCALATED")
         /\ (e = "CANCEL" => nxt = "CANCELLED")
         /\ e \in {"ESCALATE", "GUARD_VIOLATION", "CANCEL", "INFRA_FAILED", "AGENT_FAILED"}
BY DEF Leads, InCi, AfterFailure, HasBudget, AfterGreenBaseline

LEMMA LeadsFromEscalated ==
  ASSUME NEW t \in Task, NEW e \in Events, NEW nxt, Leads(t, e, 1, nxt),
         t.state = "ESCALATED", e \notin {"MANAGER_RETRY", "MANAGER_RESCOPE", "CANCEL", "INFRA_FAILED"}
  PROVE  nxt = "ESCALATED"
BY DEF Leads, AfterFailure, HasBudget, AfterGreenBaseline

-----------------------------------------------------------------------------
(* What a run makes of the copy it has checked out *)

\* The input steps count nothing, pass CI only on a verdict for the work the
\* branch carries, and take a task out of ESCALATED only for the human.
LEMMA InputKeeps ==
  ASSUME NEW t \in Task, Sound(t), NEW w \in Wakes, w.kind # "none",
         NEW s \in AfterInput(t, w)
  PROVE  /\ s \in Task
         /\ Sound(s)
         /\ s.attempt = t.attempt
         /\ ~Consumes(t, w) => s = t
         /\ t.state \in InCi => \/ s.state \in {t.state, "ESCALATED", "CANCELLED"}
                               \/ (w.kind = "ci" /\ w.work = work)
         /\ t.state = "ESCALATED" => s.state = "ESCALATED" \/ w.kind = "event"
         /\ Heeds(t, s)
<1>1. w.kind \in {"plain", "event", "ci"} /\ w.event \in Events \cup {"none"}
      /\ (w.kind = "event" => w.event \in HumanEvents)
      /\ (w.kind = "ci" => w.event \in CiVerdicts)
  BY DEF Wakes
<1>2. CASE s = t
  BY <1>2 DEF InCi, Heeds
<1>3. CASE s # t
  <2> DEFINE e == Classified(t, w.event, w.right)
  <2>1. w.kind # "plain" /\ ~Outdated(w) /\ s \in Advance(t, e, 1)
        /\ ~(w.kind = "ci" /\ t.state \in Terminal)
    BY <1>3 DEF AfterInput
  <2>2. e \in {"MANAGER_RETRY", "MANAGER_RESCOPE", "ESCALATE", "CANCEL", "AGENT_COMMITTED",
               "CI_PASSED", "CI_FAILED", "CI_FAILED_WRONG_REASON"}
        /\ (e \in {"CI_PASSED", "CI_FAILED", "CI_FAILED_WRONG_REASON"}
             => w.kind = "ci" /\ w.event # "ESCALATE")
        /\ (e \in {"MANAGER_RETRY", "MANAGER_RESCOPE", "CANCEL"} => w.kind = "event")
    BY <1>1, <2>1 DEF Classified, HumanEvents, CiVerdicts
  <2>3. e \in Events
    BY <2>2 DEF Events
  <2> HIDE DEF e
  <2>4. /\ s \in Task /\ Sound(s) /\ s.attempt = AttemptAfter(t, e)
        /\ Leads(t, e, 1, s.state) /\ Heeds(t, s)
    BY <2>1, <2>3, AdvanceKeeps
  <2>5. s.attempt = t.attempt
    BY <2>2, <2>4 DEF AttemptAfter
  <2>6. Consumes(t, w)
    BY <1>1, <2>1 DEF Consumes
  <2>7. ASSUME t.state \in InCi
        PROVE  \/ s.state \in {t.state, "ESCALATED", "CANCELLED"}
               \/ (w.kind = "ci" /\ w.work = work)
    <3>1. CASE e \in {"CI_PASSED", "CI_FAILED", "CI_FAILED_WRONG_REASON"}
      BY <2>1, <2>2, <3>1 DEF Outdated
    <3>2. CASE e \notin {"CI_PASSED", "CI_FAILED", "CI_FAILED_WRONG_REASON"}
      BY <2>2, <2>3, <2>4, <2>7, <3>2, LeadsFromCi
    <3>3. QED
      BY <3>1, <3>2
  <2>8. ASSUME t.state = "ESCALATED"
        PROVE  s.state = "ESCALATED" \/ w.kind = "event"
    BY <2>2, <2>3, <2>4, <2>8, LeadsFromEscalated
  <2>9. QED
    BY <2>4, <2>5, <2>6, <2>7, <2>8
<1>4. QED
  BY <1>2, <1>3

\* The decision counts the code agent it starts, moves the copy when it starts
\* an agent, and leaves a copy alone that waits for CI or for the human.
LEMMA DecisionKeeps ==
  ASSUME NEW t \in Task, Sound(t), NEW d \in Decision(t)
  PROVE  /\ d.local \in Task
         /\ Sound(d.local)
         /\ d.act \in Acts
         /\ d.moved \in BOOLEAN
         /\ t.attempt + CodeAgent(d.act) <= d.local.attempt
         /\ ~d.moved => d.local = t /\ d.act \notin Roles
         /\ t.state \in InCi \cup {"ESCALATED", "CANCELLED"} => d.local = t
         /\ Heeds(t, d.local)
<1> DEFINE kind == NextKind(t)
           moved == Advance(t, DispatchEvent(t), 1)
<1>0. t.attempt \in Nat
  BY DEF Task
<1>1. ASSUME NEW e \in Events, NEW s \in Advance(t, e, 1), e # "DISPATCH_CODE_AGENT", d.act # "code_agent",
             d.act \in Acts, d = [local |-> s, act |-> d.act, moved |-> TRUE],
             t.state \notin InCi \cup {"ESCALATED", "CANCELLED"}
      PROVE  /\ d.local \in Task /\ Sound(d.local) /\ d.act \in Acts /\ d.moved = TRUE
             /\ t.attempt + CodeAgent(d.act) <= d.local.attempt
             /\ Heeds(t, d.local)
  <2>1. s \in Task /\ Sound(s) /\ s.attempt = AttemptAfter(t, e) /\ Heeds(t, s)
    BY <1>1, AdvanceKeeps
  <2>2. d.local = s /\ d.moved = TRUE
    BY <1>1
  <2>3. s.attempt = t.attempt /\ CodeAgent(d.act) = 0
    BY <1>1, <2>1 DEF AttemptAfter, CodeAgent
  <2>4. QED
    BY <1>0, <1>1, <2>1, <2>2, <2>3
<1>2. CASE kind \in {"validate", "distill"}
  <2>1. t.state \notin InCi \cup {"ESCALATED", "CANCELLED"}
    BY <1>2 DEF NextKind, Halts, Terminal, InCi
  <2>2. PICK e \in {"VALIDATED", "DISTILLED"} :
          \E s \in Advance(t, e, 1) : d = [local |-> s, act |-> "wake", moved |-> TRUE]
    BY <1>2 DEF Decision
  <2>3. PICK s \in Advance(t, e, 1) : d = [local |-> s, act |-> "wake", moved |-> TRUE]
    BY <2>2
  <2>4. e \in Events /\ e # "DISPATCH_CODE_AGENT"
    BY DEF Events
  <2>5. d.act = "wake" /\ d.act \in Acts
    BY <2>3 DEF Acts
  <2>6. d = [local |-> s, act |-> d.act, moved |-> TRUE]
    BY <2>3, <2>5
  <2>7. QED
    BY <1>1, <2>1, <2>4, <2>5, <2>6
<1>3. ASSUME NEW act \in {"failed", "none"}, d = [local |-> t, act |-> act, moved |-> FALSE]
      PROVE  /\ d.local = t /\ d.act \in Acts \ Roles /\ d.moved = FALSE
             /\ t.attempt + CodeAgent(d.act) <= d.local.attempt
             /\ Heeds(t, d.local)
  BY <1>0, <1>3 DEF Acts, Roles, CodeAgent, Heeds
<1>4. CASE kind \in {"run_ci", "dispatch_agent"} /\ moved # {}
  <2>1. /\ t.state \in {"READY", "READY_FOR_IMPLEMENTATION", "RETRY_READY", "MANAGER_REVIEW",
                        "CONTEXT_MAINTENANCE", "TESTS_COMMITTED", "IMPL_COMMITTED"}
        /\ kind = "run_ci" <=> t.state \in {"TESTS_COMMITTED", "IMPL_COMMITTED"}
    BY <1>4 DEF NextKind, Halts, Terminal
  <2>2. t.state \notin InCi \cup {"ESCALATED", "CANCELLED"}
    BY <2>1 DEF InCi
  <2>3. PICK s \in moved :
          d = [local |-> s,
               act |-> IF s.state = "ESCALATED" THEN "none"
                       ELSE IF kind = "run_ci" THEN "ci" ELSE RoleOf(s.last),
               moved |-> TRUE]
    BY <1>4 DEF Decision
  <2>4. /\ DispatchEvent(t) \in Dispatches
        /\ kind = "dispatch_agent" => DispatchEvent(t) \in AgentDispatchesOnly
        /\ DispatchEvent(t) = "DISPATCH_CODE_AGENT"
             <=> t.state \in {"READY_FOR_IMPLEMENTATION", "RETRY_READY"}
    BY <1>4, <2>1 DEF DispatchEvent, Dispatches, AgentDispatchesOnly
  <2>5. DispatchEvent(t) \in Events
    BY <2>4 DEF Dispatches, Events
  <2>6. /\ s \in Task /\ Sound(s) /\ s.attempt = AttemptAfter(t, DispatchEvent(t))
        /\ s.last = DispatchEvent(t) /\ Heeds(t, s)
    BY <2>3, <2>5, AdvanceKeeps
  <2>7. d.local = s /\ d.moved = TRUE
        /\ d.act = IF s.state = "ESCALATED" THEN "none"
                   ELSE IF kind = "run_ci" THEN "ci" ELSE RoleOf(s.last)
    BY <2>3
  <2>8. d.act \in Acts /\ (d.act = "code_agent" => DispatchEvent(t) = "DISPATCH_CODE_AGENT")
    BY <1>4, <2>4, <2>6, <2>7 DEF RoleOf, Acts, Roles, AgentDispatchesOnly
  <2>9. t.attempt + CodeAgent(d.act) <= s.attempt
    BY <1>0, <2>6, <2>8 DEF CodeAgent, AttemptAfter
  <2>10. QED
    BY <2>2, <2>6, <2>7, <2>8, <2>9
<1>5. CASE kind \notin {"validate", "distill", "run_ci", "dispatch_agent"}
  <2>1. d = [local |-> t, act |-> "none", moved |-> FALSE]
    BY <1>5 DEF Decision
  <2>2. QED
    BY <1>3, <2>1
<1>6. CASE kind \in {"run_ci", "dispatch_agent"} /\ moved = {}
  <2>1. d = [local |-> t, act |-> "failed", moved |-> FALSE]
    BY <1>6 DEF Decision
  <2>2. QED
    BY <1>3, <2>1
<1>7. QED
  BY <1>2, <1>4, <1>5, <1>6

\* A worker's result counts nothing, never passes CI and never reopens a task,
\* whatever has become of the task since the worker was started.
LEMMA LandingKeeps ==
  ASSUME NEW t \in Task, Sound(t), NEW r \in Roles, NEW l \in Landings(t, r)
  PROVE  /\ l.local \in Task
         /\ Sound(l.local)
         /\ l.commits \in {0, 1}
         /\ l.local.attempt = t.attempt
         /\ t.state \in InCi => l.local.state \notin PastCi
         /\ t.state = "ESCALATED" => l.local.state = "ESCALATED"
         /\ Heeds(t, l.local)
<1>1. /\ l.commits \in {0, 1}
      /\ \/ l.local \in OrUnchanged(t, "AGENT_FAILED") \cup OrUnchanged(t, "GUARD_VIOLATION")
         \/ \E e \in ResultEvents(r) : l.local \in Applied(t, r, e)
  BY DEF Landings
<1>2. FromState(r) \notin InCi \cup {"ESCALATED"}
  BY DEF FromState, Roles, InCi
<1>3. \/ l.local = t
      \/ \E e \in {"AGENT_FAILED", "GUARD_VIOLATION"} : l.local \in Advance(t, e, 1)
      \/ /\ t.state = FromState(r)
         /\ \E e \in ResultEvents(r) : l.local \in Advance(t, e, 1)
  BY <1>1 DEF OrUnchanged, Applied
<1>4. CASE l.local = t
  BY <1>1, <1>4 DEF InCi, PastCi, Heeds
<1>5. ASSUME NEW e \in {"AGENT_FAILED", "GUARD_VIOLATION"}, l.local \in Advance(t, e, 1)
      PROVE  /\ l.local \in Task /\ Sound(l.local) /\ l.local.attempt = t.attempt
             /\ t.state \in InCi => l.local.state \notin PastCi
             /\ t.state = "ESCALATED" => l.local.state = "ESCALATED"
             /\ Heeds(t, l.local)
  <2>1. e \in Events
    BY DEF Events
  <2>2. /\ l.local \in Task /\ Sound(l.local) /\ l.local.attempt = AttemptAfter(t, e)
        /\ Leads(t, e, 1, l.local.state) /\ Heeds(t, l.local)
    BY <1>5, <2>1, AdvanceKeeps
  <2>3. t.state \in InCi => l.local.state \notin PastCi
    BY <2>1, <2>2, LeadsFromCi DEF PastCi
  <2>4. t.state = "ESCALATED" => l.local.state = "ESCALATED"
    BY <2>1, <2>2, LeadsFromEscalated
  <2>5. QED
    BY <2>2, <2>3, <2>4 DEF AttemptAfter
<1>6. ASSUME NEW e \in ResultEvents(r), l.local \in Advance(t, e, 1), t.state = FromState(r)
      PROVE  /\ l.local \in Task /\ Sound(l.local) /\ l.local.attempt = t.attempt
             /\ t.state \notin InCi /\ t.state # "ESCALATED" /\ Heeds(t, l.local)
  <2>1. e \in Events /\ e # "DISPATCH_CODE_AGENT"
    BY DEF ResultEvents, Roles, Events
  <2>2. /\ l.local \in Task /\ Sound(l.local) /\ l.local.attempt = AttemptAfter(t, e)
        /\ Heeds(t, l.local)
    BY <1>6, <2>1, AdvanceKeeps
  <2>3. QED
    BY <1>2, <1>6, <2>1, <2>2 DEF AttemptAfter
<1>7. QED
  BY <1>1, <1>3, <1>4, <1>5, <1>6

-----------------------------------------------------------------------------
(* Runs that start and end *)

\* A run that is idle or has not checked the branch out holds no copy.
OrchFresh ==
  /\ orch \in OrchType
  /\ orch.phase \in {"idle", "start"}
  /\ orch.phase = "start" => orch.wake.kind # "none"
  /\ orch.local = Blank

WorkerFresh ==
  /\ worker \in WorkerType
  /\ worker.phase \in {"idle", "model"}
  /\ worker.phase = "model" => worker.role \in Roles
  /\ worker.local = Blank

LEMMA BlankIsSound == Blank \in Task /\ Sound(Blank) /\ Blank.attempt = 0
BY LimitsAssumption, PipelineAssumption
   DEF Blank, NewTask, Task, Sound, States, Controls, Modes, Reasons, Awaiting

LEMMA PlainIsAWake == Plain \in Wakes /\ NoWake \in Wakes /\ Plain.kind # "none" /\ NoWake.kind = "none"
BY DEF Plain, NoWake, Wakes

LEMMA OrchRunTyped ==
  ASSUME NEW w \in Wakes
  PROVE  /\ OrchRun(w) \in OrchType /\ OrchRun(w).phase = "start"
         /\ OrchRun(w).wake = w /\ OrchRun(w).local = Blank
         /\ IdleOrch \in OrchType /\ IdleOrch.phase = "idle" /\ IdleOrch.local = Blank
BY BlankIsSound, PlainIsAWake DEF OrchRun, IdleOrch, OrchType, OrchPhases, Acts

LEMMA WorkerRunTyped ==
  ASSUME NEW r \in Roles
  PROVE  /\ WorkerRun(r) \in WorkerType /\ WorkerRun(r).phase = "model"
         /\ WorkerRun(r).role = r /\ WorkerRun(r).local = Blank
BY BlankIsSound DEF WorkerRun, IdleWorker, WorkerType, WorkerPhases

LEMMA IdleWorkerTyped ==
  IdleWorker \in WorkerType /\ IdleWorker.phase = "idle" /\ IdleWorker.local = Blank
BY BlankIsSound DEF IdleWorker, WorkerType, WorkerPhases

LEMMA EndRunTyped ==
  ASSUME NEW w \in Wakes, EndRun(w)
  PROVE  OrchFresh' /\ pending' \in Wakes
<1>1. w # NoWake => w.kind # "none"
  BY DEF Wakes
<1>2. QED
  BY <1>1, OrchRunTyped, PlainIsAWake DEF EndRun, OrchFresh

LEMMA WakeTyped ==
  ASSUME PipelineType, NEW w \in Wakes, w.kind # "none", Wake(w)
  PROVE  (orch' = orch \/ OrchFresh') /\ pending' \in Wakes
BY OrchRunTyped DEF Wake, OrchFresh, PipelineType

LEMMA NextWorkerTyped ==
  ASSUME PipelineType, NextWorker
  PROVE  WorkerFresh' /\ waiting' \in Roles \cup {"none"}
<1>1. waiting # "none" => waiting \in Roles
  BY DEF PipelineType
<1>2. QED
  BY <1>1, WorkerRunTyped, IdleWorkerTyped DEF NextWorker, WorkerFresh

LEMMA BagKept ==
  ASSUME NEW B, IsABag(B), BagToSet(B) \subseteq Nat, NEW n \in Nat
  PROVE  /\ IsABag(B (+) SetToBag({n})) /\ BagToSet(B (+) SetToBag({n})) \subseteq Nat
         /\ IsABag(B (-) SetToBag({n})) /\ BagToSet(B (-) SetToBag({n})) \subseteq Nat
<1>1. /\ DOMAIN SetToBag({n}) = {n} /\ SetToBag({n})[n] = 1
  BY DEF SetToBag
<1>2. \A m \in DOMAIN B : B[m] \in Nat /\ B[m] > 0
  BY DEF IsABag
<1>3. IsABag(B (+) SetToBag({n})) /\ BagToSet(B (+) SetToBag({n})) \subseteq Nat
  BY <1>1, <1>2 DEF IsABag, BagToSet, (+)
<1>4. IsABag(B (-) SetToBag({n})) /\ BagToSet(B (-) SetToBag({n})) \subseteq Nat
  BY <1>1, <1>2 DEF IsABag, BagToSet, (-)
<1>5. QED
  BY <1>3, <1>4

-----------------------------------------------------------------------------
(* The steps *)

\* A run that holds no copy asks nothing of the branch.
LEMMA FreshOrchKeeps ==
  ASSUME IInv, OrchFresh', UNCHANGED <<branch, work, worker, waiting, ci, human, codeRuns, reruns>>,
         pending' \in Wakes
  PROVE  IInv'
<1>1. PipelineType'
  BY DEF IInv, PipelineType, OrchFresh
<1>2. Sound(branch)' /\ Sound(orch.local)' /\ Sound(worker.local)'
  BY BlankIsSound DEF IInv, OrchFresh
<1>3. Copies'
  BY DEF IInv, Copies, OrchCopy, WorkerCopy, OrchFresh
<1>4. CodeRunsOwed'
  BY DEF IInv, PipelineType, Task, CodeRunsOwed, CodeAgent, OrchFresh
<1>5. QED
  BY <1>1, <1>2, <1>3, <1>4 DEF IInv

LEMMA FreshWorkerKeeps ==
  ASSUME IInv, WorkerFresh', UNCHANGED <<branch, work, orch, pending, ci, human, codeRuns, reruns>>,
         waiting' \in Roles \cup {"none"}
  PROVE  IInv'
<1>1. PipelineType'
  BY DEF IInv, PipelineType, WorkerFresh
<1>2. Sound(branch)' /\ Sound(orch.local)' /\ Sound(worker.local)'
  BY BlankIsSound DEF IInv, WorkerFresh
<1>3. Copies'
  BY DEF IInv, Copies, OrchCopy, WorkerCopy, Follows, WorkerFresh
<1>4. CodeRunsOwed'
  BY DEF IInv, CodeRunsOwed
<1>5. QED
  BY <1>1, <1>2, <1>3, <1>4 DEF IInv

\* A copy that a run has made and not pushed yet.
LEMMA CopyTaken ==
  ASSUME IInv, orch.phase = "start", NEW s \in AfterInput(branch, orch.wake),
         NEW l \in Task, Sound(l), NEW act \in Acts, NEW changed \in BOOLEAN,
         branch.attempt + CodeAgent(act) <= l.attempt,
         act \in Roles => changed,
         s.state \in InCi \cup {"ESCALATED", "CANCELLED"} => l = s,
         ~changed => l = branch,
         Heeds(branch, l),
         orch' = [orch EXCEPT !.phase = "push", !.local = l, !.act = act, !.stale = FALSE,
                              !.changed = changed],
         UNCHANGED <<branch, work, pending, worker, waiting, ci, human, codeRuns, reruns>>
  PROVE  IInv'
<1>1. /\ orch' \in OrchType /\ orch'.phase = "push" /\ orch'.local = l /\ orch'.act = act
      /\ orch'.stale = FALSE /\ orch'.changed = changed /\ orch'.wake = orch.wake
  BY DEF IInv, PipelineType, OrchType, OrchPhases
<1>2. PipelineType'
  BY <1>1 DEF IInv, PipelineType
<1>3. Sound(branch)' /\ Sound(orch.local)' /\ Sound(worker.local)'
  BY <1>1 DEF IInv
<1>4. /\ branch.state \in InCi => \/ s.state \in {branch.state, "ESCALATED", "CANCELLED"}
                                  \/ (orch.wake.kind = "ci" /\ orch.wake.work = work)
      /\ branch.state = "ESCALATED" => s.state = "ESCALATED" \/ orch.wake.kind = "event"
  BY InputKeeps DEF IInv, PipelineType, OrchType
<1>5. Follows(branch, l, orch.wake)
  BY <1>4 DEF Follows, InCi, PastCi
<1>6. Follows(branch, orch.local, orch.wake)'
  BY <1>1, <1>5 DEF Follows
<1>7. Copies'
  BY <1>1, <1>6 DEF IInv, Copies, OrchCopy, WorkerCopy
<1>8. CodeRunsOwed'
  BY <1>1 DEF IInv, CodeRunsOwed, CodeAgent, PipelineType, Task
<1>9. QED
  BY <1>2, <1>3, <1>7, <1>8 DEF IInv

LEMMA DecideKeeps == ASSUME IInv, OrchDecide PROVE IInv'
<1>1. orch.wake \in Wakes /\ orch.wake.kind # "none" /\ branch \in Task /\ Sound(branch)
      /\ pending \in Wakes
  BY DEF OrchDecide, IInv, PipelineType, OrchType
<1>2. ASSUME NEW s \in AfterInput(branch, orch.wake), NEW d \in Decision(s),
             orch' = [orch EXCEPT !.phase = "push", !.local = d.local, !.act = d.act, !.stale = FALSE,
                                  !.changed = d.moved \/ Consumes(branch, orch.wake)],
             UNCHANGED pending
      PROVE  IInv'
  <2>1. /\ s \in Task /\ Sound(s) /\ s.attempt = branch.attempt
        /\ ~Consumes(branch, orch.wake) => s = branch
        /\ Heeds(branch, s)
    BY <1>1, InputKeeps
  <2>2. /\ d.local \in Task /\ Sound(d.local) /\ d.act \in Acts /\ d.moved \in BOOLEAN
        /\ s.attempt + CodeAgent(d.act) <= d.local.attempt
        /\ ~d.moved => d.local = s /\ d.act \notin Roles
        /\ s.state \in InCi \cup {"ESCALATED", "CANCELLED"} => d.local = s
        /\ Heeds(s, d.local)
    BY <2>1, DecisionKeeps
  <2> DEFINE changed == d.moved \/ Consumes(branch, orch.wake)
  <2>3. changed \in BOOLEAN /\ (d.act \in Roles => changed) /\ (~changed => d.local = branch)
    BY <2>1, <2>2
  <2>4. orch' = [orch EXCEPT !.phase = "push", !.local = d.local, !.act = d.act, !.stale = FALSE,
                             !.changed = changed]
    BY <1>2
  <2>5. orch.phase = "start" /\ UNCHANGED <<branch, work, pending, worker, waiting, ci, human, codeRuns, reruns>>
    BY <1>2 DEF OrchDecide
  <2>6. Heeds(branch, d.local)
    BY <2>1, <2>2 DEF Heeds
  <2> HIDE DEF changed
  <2>7. QED
    BY <2>1, <2>2, <2>3, <2>4, <2>5, <2>6, CopyTaken
<1>3. CASE EndRun(pending)
  BY <1>1, <1>3, EndRunTyped, FreshOrchKeeps DEF OrchDecide
<1>4. QED
  BY <1>2, <1>3 DEF OrchDecide

LEMMA DistilFailsKeeps == ASSUME IInv, OrchDistilFails PROVE IInv'
<1>1. orch.wake \in Wakes /\ orch.wake.kind # "none" /\ branch \in Task /\ Sound(branch)
  BY DEF OrchDistilFails, IInv, PipelineType, OrchType
<1>2. PICK s \in AfterInput(branch, orch.wake) :
        orch' = [orch EXCEPT !.phase = "push", !.local = s, !.act = "failed",
                             !.changed = Consumes(branch, orch.wake), !.stale = FALSE]
  BY DEF OrchDistilFails
<1> DEFINE changed == Consumes(branch, orch.wake)
<1>3. /\ s \in Task /\ Sound(s) /\ s.attempt = branch.attempt
      /\ ~changed => s = branch
      /\ Heeds(branch, s)
  BY <1>1, InputKeeps
<1>4. changed \in BOOLEAN
  BY DEF Consumes
<1>5. "failed" \in Acts /\ "failed" \notin Roles /\ branch.attempt + CodeAgent("failed") <= s.attempt
  BY <1>1, <1>3 DEF Acts, Roles, CodeAgent, Task
<1>6. /\ orch' = [orch EXCEPT !.phase = "push", !.local = s, !.act = "failed", !.stale = FALSE,
                             !.changed = changed]
      /\ orch.phase = "start" /\ UNCHANGED <<branch, work, pending, worker, waiting, ci, human, codeRuns, reruns>>
  BY <1>2 DEF OrchDistilFails
<1> HIDE DEF changed
<1>7. QED
  BY <1>3, <1>4, <1>5, <1>6, CopyTaken

\* A push leaves every other copy stale.
LEMMA PushedWorker ==
  ASSUME PipelineType, NEW t, Push(t)
  PROVE  /\ worker' \in WorkerType /\ worker'.phase = worker.phase /\ worker'.role = worker.role
         /\ worker'.local = worker.local /\ (worker'.phase = "push" => worker'.stale)
         /\ branch' = t
BY DEF PipelineType, Push, WorkerType

LEMMA PushKeeps == ASSUME IInv, OrchPush PROVE IInv'
<1>0. /\ orch \in OrchType /\ worker \in WorkerType /\ orch.phase = "push"
      /\ branch \in Task /\ Sound(branch) /\ Sound(orch.local) /\ Sound(worker.local)
      /\ codeRuns \in Nat /\ reruns \in Nat /\ codeRuns <= branch.attempt + reruns
      /\ reruns + human <= HumanBudget
  <2>1. orch.phase = "push" /\ (orch.phase = "push" => orch.phase # "act")
    BY DEF OrchPush
  <2>2. QED
    BY <2>1 DEF IInv, PipelineType, Task, CodeRunsOwed
<1>1. CASE orch.changed /\ orch.stale /\ EndRun(pending) /\ UNCHANGED <<branch, worker>>
  <2>1. pending \in Wakes
    BY DEF IInv, PipelineType
  <2>2. QED
    BY <1>1, <2>1, EndRunTyped, FreshOrchKeeps DEF OrchPush
<1>2. CASE /\ orch.changed => ~orch.stale
           /\ IF orch.changed THEN Push(orch.local) ELSE UNCHANGED <<branch, worker>>
           /\ orch' = [orch EXCEPT !.phase = IF orch.act = "failed" THEN "escalate" ELSE "act"]
           /\ UNCHANGED pending
  <2>1. /\ orch' \in OrchType /\ orch'.phase \in {"act", "escalate"} /\ orch'.wake = orch.wake
        /\ orch'.local = orch.local /\ orch'.act = orch.act /\ orch'.stale = orch.stale
        /\ orch'.changed = orch.changed
    BY <1>0, <1>2 DEF OrchType, OrchPhases
  <2>2. /\ worker' \in WorkerType /\ worker'.phase = worker.phase /\ worker'.role = worker.role
        /\ worker'.local = worker.local
        /\ branch' # branch => (worker'.phase = "push" => worker'.stale)
        /\ branch' = branch => worker' = worker \/ (worker'.phase = "push" => worker'.stale)
        /\ branch' = IF orch.changed THEN orch.local ELSE branch
    <3>1. CASE orch.changed
      BY <1>2, <3>1, PushedWorker DEF IInv
    <3>2. CASE ~orch.changed
      BY <1>0, <1>2, <3>2
    <3>3. QED
      BY <3>1, <3>2
  <2>3. branch' \in Task /\ Sound(branch')
    BY <1>0, <2>2 DEF OrchType
  <2>4. PipelineType'
    BY <1>0, <1>2, <2>1, <2>2, <2>3 DEF IInv, PipelineType, OrchPush
  <2>5. Sound(branch)' /\ Sound(orch.local)' /\ Sound(worker.local)'
    BY <1>0, <2>1, <2>2, <2>3
  <2>6. OrchCopy'
    BY <1>0, <1>2, <2>1, <2>2 DEF IInv, Copies, OrchCopy
  <2>7. WorkerCopy'
    BY <2>2 DEF IInv, Copies, WorkerCopy
  <2>8. codeRuns + CodeAgent(orch.act) <= branch'.attempt + reruns
    <3>1. CASE orch.changed
      <4>1. branch.attempt + CodeAgent(orch.act) <= orch.local.attempt
        BY <1>0, <1>2, <3>1 DEF IInv, Copies, OrchCopy
      <4>2. branch.attempt \in Nat /\ orch.local.attempt \in Nat /\ CodeAgent(orch.act) \in Nat
        BY <1>0 DEF OrchType, Task, CodeAgent
      <4>3. QED
        BY <1>0, <2>2, <3>1, <4>1, <4>2
    <3>2. CASE ~orch.changed
      <4>1. CodeAgent(orch.act) = 0
        BY <1>0, <3>2 DEF IInv, Copies, OrchCopy, CodeAgent, Roles
      <4>2. QED
        BY <1>0, <2>2, <3>2, <4>1
    <3>3. QED
      BY <3>1, <3>2
  <2>9. UNCHANGED <<codeRuns, reruns, human>> /\ branch'.attempt \in Nat
    BY <2>3 DEF OrchPush, Task
  <2>10. CodeRunsOwed'
    BY <1>0, <2>1, <2>8, <2>9 DEF CodeRunsOwed, CodeAgent
  <2>11. QED
    BY <2>4, <2>5, <2>6, <2>7, <2>10 DEF IInv, Copies
<1>3. QED
  BY <1>1, <1>2 DEF OrchPush

\* The code agent that starts is the one that was counted.
LEMMA ActKeeps == ASSUME IInv, OrchAct PROVE IInv'
<1>0. /\ orch.phase = "act" /\ UNCHANGED <<branch, work, human, reruns>>
      /\ worker \in WorkerType /\ worker.phase \in WorkerPhases /\ branch.attempt \in Nat /\ codeRuns \in Nat
      /\ codeRuns + CodeAgent(orch.act) <= branch.attempt + reruns
      /\ reruns \in Nat /\ reruns + human <= HumanBudget
  BY DEF OrchAct, IInv, PipelineType, CodeRunsOwed, Task, WorkerType
<1>1. OrchFresh' /\ pending' \in Wakes
  BY PlainIsAWake, EndRunTyped DEF OrchAct, IInv, PipelineType
<1>2. \/ UNCHANGED <<worker, waiting>>
      \/ /\ WorkerFresh' /\ UNCHANGED waiting
      \/ /\ waiting' \in Roles /\ UNCHANGED worker
  BY WorkerRunTyped DEF OrchAct, WorkerFresh
<1>3. codeRuns' \in Nat /\ codeRuns' <= branch.attempt + reruns
  BY <1>0 DEF OrchAct, CodeAgent
<1>4. IsABag(ci)' /\ BagToSet(ci)' \subseteq Nat
  BY BagKept DEF OrchAct, IInv, PipelineType
<1>5. /\ worker' \in WorkerType /\ (worker'.phase = "model" => worker'.role \in Roles)
      /\ Sound(worker'.local) /\ waiting' \in Roles \cup {"none"}
      /\ worker' = worker \/ worker'.phase # "push"
  BY <1>2, BlankIsSound DEF WorkerFresh, IInv, PipelineType
<1>6. PipelineType'
  BY <1>0, <1>1, <1>3, <1>4, <1>5 DEF IInv, PipelineType, OrchFresh
<1>7. Sound(branch)' /\ Sound(orch.local)' /\ Sound(worker.local)'
  BY <1>0, <1>1, <1>5, BlankIsSound DEF IInv, OrchFresh
<1>8. Copies'
  BY <1>0, <1>1, <1>5 DEF IInv, Copies, OrchCopy, WorkerCopy, OrchFresh
<1>9. CodeRunsOwed'
  BY <1>0, <1>1, <1>3 DEF CodeRunsOwed, OrchFresh
<1>10. QED
  BY <1>6, <1>7, <1>8, <1>9 DEF IInv

LEMMA ActFailsKeeps == ASSUME IInv, OrchActFails PROVE IInv'
<1>1. /\ orch.phase = "act" /\ orch \in OrchType
      /\ orch' = [orch EXCEPT !.phase = "escalate"]
      /\ UNCHANGED <<branch, work, pending, worker, waiting, ci, human, codeRuns, reruns>>
  BY DEF OrchActFails, IInv, PipelineType
<1>2. /\ orch' \in OrchType /\ orch'.phase = "escalate" /\ orch'.wake = orch.wake
      /\ orch'.local = orch.local /\ orch'.stale = orch.stale
  BY <1>1 DEF OrchType, OrchPhases
<1>3. PipelineType'
  BY <1>1, <1>2 DEF IInv, PipelineType
<1>4. Copies'
  BY <1>1, <1>2 DEF IInv, Copies, OrchCopy, WorkerCopy
<1>5. CodeRunsOwed'
  BY <1>1, <1>2 DEF IInv, PipelineType, Task, CodeRunsOwed, CodeAgent
<1>6. QED
  BY <1>1, <1>2, <1>3, <1>4, <1>5 DEF IInv

LEMMA EscalateKeeps == ASSUME IInv, OrchEscalate PROVE IInv'
<1>0. /\ orch.phase = "escalate" /\ UNCHANGED <<work, waiting, ci, human, codeRuns, reruns>>
      /\ orch \in OrchType /\ orch.local \in Task /\ Sound(orch.local) /\ pending \in Wakes
      /\ EndRun(pending)
  BY DEF OrchEscalate, IInv, PipelineType, OrchType
<1>1. OrchFresh' /\ pending' \in Wakes
  BY <1>0, EndRunTyped
<1>2. CASE UNCHANGED <<branch, worker>>
  BY <1>0, <1>1, <1>2, FreshOrchKeeps
<1>3. ASSUME NEW t \in Advance(orch.local, "ESCALATE", 1), ~orch.stale, Push(t)
      PROVE  IInv'
  <2>1. "ESCALATE" \in Events
    BY DEF Events
  <2>2. t \in Task /\ Sound(t) /\ t.attempt = orch.local.attempt
    BY <1>0, <2>1, AdvanceKeeps DEF AttemptAfter
  <2>3. orch.local = branch
    BY <1>0, <1>3 DEF IInv, Copies, OrchCopy
  <2>4. /\ worker' \in WorkerType /\ worker'.phase = worker.phase /\ worker'.role = worker.role
        /\ worker'.local = worker.local /\ (worker'.phase = "push" => worker'.stale)
        /\ branch' = t
    BY <1>3, PushedWorker DEF IInv
  <2>5. PipelineType'
    BY <1>0, <1>1, <2>2, <2>4 DEF IInv, PipelineType, OrchFresh
  <2>6. Sound(branch)' /\ Sound(orch.local)' /\ Sound(worker.local)'
    BY <1>1, <2>2, <2>4, BlankIsSound DEF IInv, OrchFresh
  <2>7. Copies'
    BY <1>1, <2>4 DEF Copies, OrchCopy, WorkerCopy, OrchFresh
  <2>8. CodeRunsOwed'
    BY <1>0, <1>1, <2>2, <2>3, <2>4 DEF IInv, CodeRunsOwed, OrchFresh
  <2>9. QED
    BY <2>5, <2>6, <2>7, <2>8 DEF IInv
<1>4. QED
  BY <1>2, <1>3 DEF OrchEscalate

LEMMA DiesKeeps == ASSUME IInv, OrchDies PROVE IInv'
<1>1. pending \in Wakes /\ EndRun(pending)
      /\ UNCHANGED <<branch, work, worker, waiting, ci, human, codeRuns, reruns>>
  BY DEF OrchDies, IInv, PipelineType
<1>2. QED
  BY <1>1, EndRunTyped, FreshOrchKeeps

LEMMA LandKeeps == ASSUME IInv, Land PROVE IInv'
<1>0. /\ worker.phase = "model" /\ worker \in WorkerType /\ worker.role \in Roles
      /\ branch \in Task /\ Sound(branch)
      /\ UNCHANGED <<branch, work, orch, pending, waiting, ci, human, codeRuns, reruns>>
  BY DEF Land, IInv, PipelineType
<1>1. PICK l \in Landings(branch, worker.role) :
        worker' = [worker EXCEPT !.phase = "push", !.local = l.local,
                                 !.commits = l.commits, !.stale = FALSE]
  BY DEF Land
<1>2. /\ l.local \in Task /\ Sound(l.local) /\ l.commits \in {0, 1}
      /\ l.local.attempt = branch.attempt
      /\ branch.state \in InCi => l.local.state \notin PastCi
      /\ branch.state = "ESCALATED" => l.local.state = "ESCALATED"
      /\ Heeds(branch, l.local)
  BY <1>0, LandingKeeps
<1>3. /\ worker' \in WorkerType /\ worker'.phase = "push" /\ worker'.local = l.local
  BY <1>0, <1>1, <1>2 DEF WorkerType, WorkerPhases
<1>4. PipelineType'
  BY <1>0, <1>3 DEF IInv, PipelineType
<1>5. Sound(branch)' /\ Sound(orch.local)' /\ Sound(worker.local)'
  BY <1>0, <1>2, <1>3 DEF IInv
<1>6. OrchCopy'
  BY <1>0 DEF IInv, Copies, OrchCopy, Follows
<1>7. branch.attempt <= l.local.attempt
  BY <1>0, <1>2 DEF Task
<1>8. WorkerCopy'
  BY <1>0, <1>2, <1>3, <1>7 DEF WorkerCopy
<1>9. CodeRunsOwed'
  BY <1>0 DEF IInv, CodeRunsOwed
<1>10. QED
  BY <1>4, <1>5, <1>6, <1>8, <1>9 DEF IInv, Copies

\* Another run's push marks the orchestrator's copy.
LEMMA OrchMarked ==
  ASSUME PipelineType,
         orch' = [orch EXCEPT !.stale = @ \/ orch.phase \in {"push", "act", "escalate"}]
  PROVE  /\ orch' \in OrchType /\ orch'.phase = orch.phase /\ orch'.wake = orch.wake
         /\ orch'.local = orch.local /\ orch'.act = orch.act /\ orch'.changed = orch.changed
         /\ orch.phase \in {"push", "act", "escalate"} => orch'.stale
BY DEF PipelineType, OrchType

LEMMA LandPushKeeps == ASSUME IInv, LandPush PROVE IInv'
<1>0. /\ worker.phase = "push" /\ worker \in WorkerType /\ worker.local \in Task
      /\ worker.commits \in {0, 1} /\ work \in Nat /\ orch \in OrchType
      /\ worker' = [worker EXCEPT !.phase = "handback"]
      /\ UNCHANGED <<pending, waiting, ci, human, codeRuns, reruns>>
  BY DEF LandPush, IInv, PipelineType, WorkerType
<1>1. worker' \in WorkerType /\ worker'.phase = "handback" /\ worker'.local = worker.local
  BY <1>0 DEF WorkerType, WorkerPhases
<1>2. CASE worker.stale
  <2>1. UNCHANGED <<branch, work, orch>>
    BY <1>2 DEF LandPush
  <2>2. PipelineType'
    BY <1>0, <1>1, <2>1 DEF IInv, PipelineType
  <2>3. Copies'
    BY <1>1, <2>1 DEF IInv, Copies, OrchCopy, WorkerCopy, Follows
  <2>4. QED
    BY <1>0, <1>1, <2>1, <2>2, <2>3 DEF IInv, CodeRunsOwed
<1>3. CASE ~worker.stale
  <2>1. /\ branch' = worker.local /\ work' = work + worker.commits
        /\ orch' = [orch EXCEPT !.stale = @ \/ orch.phase \in {"push", "act", "escalate"}]
    BY <1>3 DEF LandPush
  <2>2. /\ orch' \in OrchType /\ orch'.phase = orch.phase /\ orch'.wake = orch.wake
        /\ orch'.local = orch.local /\ orch'.act = orch.act /\ orch'.changed = orch.changed
        /\ orch.phase \in {"push", "act", "escalate"} => orch'.stale
    BY <2>1, OrchMarked DEF IInv
  <2>3. branch.attempt <= branch'.attempt /\ branch.attempt \in Nat /\ branch'.attempt \in Nat
    BY <1>0, <1>3, <2>1 DEF IInv, PipelineType, Copies, WorkerCopy, Task
  <2>4. PipelineType'
    BY <1>0, <1>1, <2>1, <2>2 DEF IInv, PipelineType
  <2>5. Sound(branch)' /\ Sound(orch.local)' /\ Sound(worker.local)'
    BY <1>1, <2>1, <2>2 DEF IInv
  <2>6. OrchCopy'
    BY <2>2 DEF IInv, Copies, OrchCopy
  <2>7. WorkerCopy'
    BY <1>1 DEF WorkerCopy
  <2>8. codeRuns \in Nat /\ reruns \in Nat /\ CodeAgent(orch.act) \in Nat
    BY DEF IInv, PipelineType, CodeAgent
  <2>9. CodeRunsOwed'
    BY <1>0, <2>2, <2>3, <2>8 DEF IInv, CodeRunsOwed
  <2>10. QED
    BY <2>4, <2>5, <2>6, <2>7, <2>9 DEF IInv, Copies
<1>4. QED
  BY <1>2, <1>3

\* The human's budget only shrinks, and what it has been spent on stays counted.
LEMMA HumanSpends ==
  ASSUME IInv, human' \in Nat, human' <= human, reruns' = reruns
  PROVE  (reruns + human <= HumanBudget)'
<1>1. reruns \in Nat /\ human \in Nat /\ HumanBudget \in Nat /\ reruns + human <= HumanBudget
  BY PipelineAssumption DEF IInv, PipelineType, CodeRunsOwed
<1>2. reruns' \in Nat /\ human' \in Nat /\ human' <= human /\ reruns' = reruns
  BY <1>1
<1>3. \A a, b, c, h \in Nat : b <= a /\ c + a <= h => c + b <= h
  OBVIOUS
<1>4. reruns + human' <= HumanBudget
  BY ONLY <1>1, <1>2, <1>3
<1>5. QED
  BY <1>2, <1>4

\* A run that wakes the orchestrator, or waits to.
LEMMA WokenKeeps ==
  ASSUME IInv, NEW w \in Wakes, w.kind # "none", Wake(w),
         IsABag(ci)', BagToSet(ci)' \subseteq Nat, human' \in Nat, human' <= human,
         UNCHANGED <<branch, work, codeRuns, reruns>>,
         \/ UNCHANGED <<worker, waiting>>
         \/ WorkerFresh' /\ waiting' \in Roles \cup {"none"}
  PROVE  IInv'
<1>1. (orch' = orch \/ OrchFresh') /\ pending' \in Wakes
  BY WakeTyped DEF IInv
<1>2. /\ worker' \in WorkerType /\ (worker'.phase = "model" => worker'.role \in Roles)
      /\ Sound(worker'.local) /\ waiting' \in Roles \cup {"none"}
      /\ worker' = worker \/ worker'.phase # "push"
  BY BlankIsSound DEF WorkerFresh, IInv, PipelineType
<1>3. PipelineType'
  BY <1>1, <1>2 DEF IInv, PipelineType, OrchFresh
<1>4. Sound(branch)' /\ Sound(orch.local)' /\ Sound(worker.local)'
  BY <1>1, <1>2, BlankIsSound DEF IInv, OrchFresh
<1>5. OrchCopy'
  BY <1>1 DEF IInv, Copies, OrchCopy, Follows, OrchFresh
<1>6. WorkerCopy'
  BY <1>2 DEF IInv, Copies, WorkerCopy
<1>7. CodeRunsOwed'
  BY <1>1, HumanSpends DEF IInv, PipelineType, Task, CodeRunsOwed, CodeAgent, OrchFresh
<1>8. QED
  BY <1>3, <1>4, <1>5, <1>6, <1>7 DEF IInv, Copies

LEMMA HandBackKeeps == ASSUME IInv, HandBack \/ HandBackFails \/ WorkerLost PROVE IInv'
<1>1. WorkerFresh' /\ waiting' \in Roles \cup {"none"}
  BY NextWorkerTyped DEF HandBack, HandBackFails, WorkerLost, IInv
<1>2. CASE HandBack
  BY <1>1, <1>2, PlainIsAWake, WokenKeeps DEF HandBack, IInv, PipelineType
<1>3. CASE HandBackFails \/ WorkerLost
  BY <1>1, <1>3, FreshWorkerKeeps DEF HandBackFails, WorkerLost
<1>4. QED
  BY <1>2, <1>3

LEMMA CiKeeps == ASSUME IInv, CiConcludes \/ CiLost PROVE IInv'
<1>1. CASE CiConcludes
  <2>1. PICK n \in BagToSet(ci), e \in CiVerdicts, right \in BOOLEAN :
          /\ ci' = ci (-) SetToBag({n})
          /\ Wake(CiWake(e, n, right))
          /\ UNCHANGED <<branch, work, worker, waiting, human, codeRuns, reruns>>
    BY <1>1 DEF CiConcludes, CiVerdicts
  <2>2. n \in Nat /\ IsABag(ci)' /\ BagToSet(ci)' \subseteq Nat
    BY <2>1, BagKept DEF IInv, PipelineType
  <2>3. CiWake(e, n, right) \in Wakes /\ CiWake(e, n, right).kind # "none"
    BY <2>2 DEF CiWake, Wakes, CiVerdicts, Events
  <2>4. QED
    BY <2>1, <2>2, <2>3, WokenKeeps DEF IInv, PipelineType
<1>2. CASE CiLost
  <2>1. IsABag(ci)' /\ BagToSet(ci)' \subseteq Nat
    BY <1>2, BagKept DEF CiLost, IInv, PipelineType
  <2>2. UNCHANGED <<branch, work, orch, pending, worker, waiting, human, codeRuns, reruns>>
    BY <1>2 DEF CiLost
  <2>3. QED
    BY <2>1, <2>2 DEF IInv, PipelineType, Copies, OrchCopy, WorkerCopy, Follows, CodeRunsOwed
<1>3. QED
  BY <1>1, <1>2

LEMMA HumanKeeps == ASSUME IInv, Human PROVE IInv'
<1>0. human' \in Nat /\ human \in Nat /\ human' = human - 1 /\ human' <= human
  BY DEF Human, HumanDispatch, HumanControl, HumanRerunsCi, HumanRerunsWorker, IInv, PipelineType
<1>1. CASE HumanDispatch
  <2>1. PICK w \in {Plain} \cup {HumanWake(e) : e \in HumanEvents} : Wake(w)
    BY <1>1 DEF HumanDispatch
  <2>2. w \in Wakes /\ w.kind # "none"
    <3>1. ASSUME NEW e \in HumanEvents
          PROVE  HumanWake(e) \in Wakes /\ HumanWake(e).kind # "none"
      BY DEF HumanWake, Wakes, HumanEvents, Events
    <3>2. QED
      BY <2>1, <3>1, PlainIsAWake
  <2>3. QED
    BY <1>0, <1>1, <2>1, <2>2, WokenKeeps DEF HumanDispatch, IInv, PipelineType
<1>2. CASE HumanControl
  <2>1. PICK c \in Controls : Push(SetControl(branch, c))
    BY <1>2 DEF HumanControl
  <2>2. /\ SetControl(branch, c) \in Task /\ Sound(SetControl(branch, c))
        /\ SetControl(branch, c).attempt = branch.attempt
    BY DEF SetControl, IInv, PipelineType, Task, Sound
  <2>3. /\ worker' \in WorkerType /\ worker'.phase = worker.phase /\ worker'.role = worker.role
        /\ worker'.local = worker.local /\ (worker'.phase = "push" => worker'.stale)
        /\ branch' = SetControl(branch, c)
    BY <2>1, PushedWorker DEF IInv
  <2>4. /\ orch' \in OrchType /\ orch'.phase = orch.phase /\ orch'.wake = orch.wake
        /\ orch'.local = orch.local /\ orch'.act = orch.act /\ orch'.changed = orch.changed
        /\ orch.phase \in {"push", "act", "escalate"} => orch'.stale
    BY <1>2, OrchMarked DEF HumanControl, IInv
  <2>5. UNCHANGED <<work, pending, waiting, ci, codeRuns, reruns>>
    BY <1>2 DEF HumanControl
  <2>6. PipelineType'
    BY <1>0, <2>2, <2>3, <2>4, <2>5 DEF IInv, PipelineType
  <2>7. Sound(branch)' /\ Sound(orch.local)' /\ Sound(worker.local)'
    BY <2>2, <2>3, <2>4 DEF IInv
  <2>8. OrchCopy'
    BY <2>4 DEF IInv, Copies, OrchCopy
  <2>9. WorkerCopy'
    BY <2>3 DEF WorkerCopy
  <2>10. CodeRunsOwed'
    BY <1>0, <2>2, <2>3, <2>4, <2>5, HumanSpends DEF IInv, CodeRunsOwed
  <2>11. QED
    BY <2>6, <2>7, <2>8, <2>9, <2>10 DEF IInv, Copies
<1>3. CASE HumanRerunsCi
  <2>1. IsABag(ci)' /\ BagToSet(ci)' \subseteq Nat
    BY <1>3, BagKept DEF HumanRerunsCi, IInv, PipelineType
  <2>2. UNCHANGED <<branch, work, orch, pending, worker, waiting, codeRuns, reruns>>
    BY <1>3 DEF HumanRerunsCi
  <2>3. CodeRunsOwed'
    BY <1>0, <2>2, HumanSpends DEF IInv, CodeRunsOwed
  <2>4. QED
    BY <1>0, <2>1, <2>2, <2>3 DEF IInv, PipelineType, Copies, OrchCopy, WorkerCopy, Follows
<1>4. CASE HumanRerunsWorker
  <2>1. PICK r \in Roles : worker' = WorkerRun(r)
    BY <1>4 DEF HumanRerunsWorker, Roles
  <2>2. WorkerFresh'
    BY <2>1, WorkerRunTyped DEF WorkerFresh
  <2>3. /\ UNCHANGED <<branch, work, orch, pending, waiting, ci>>
        /\ \/ UNCHANGED <<codeRuns, reruns>>
           \/ codeRuns' = codeRuns + 1 /\ reruns' = reruns + 1
    BY <1>4 DEF HumanRerunsWorker
  <2>4. PipelineType'
    BY <1>0, <2>2, <2>3 DEF IInv, PipelineType, WorkerFresh
  <2>5. Sound(branch)' /\ Sound(orch.local)' /\ Sound(worker.local)'
    BY <2>2, <2>3, BlankIsSound DEF IInv, WorkerFresh
  <2>6. Copies'
    BY <2>2, <2>3 DEF IInv, Copies, OrchCopy, WorkerCopy, Follows, WorkerFresh
  <2>7. CodeRunsOwed'
    <3>1. /\ codeRuns \in Nat /\ reruns \in Nat /\ branch.attempt \in Nat /\ HumanBudget \in Nat
          /\ reruns + human <= HumanBudget
          /\ codeRuns + (IF orch.phase = "act" THEN CodeAgent(orch.act) ELSE 0) <= branch.attempt + reruns
      BY PipelineAssumption DEF IInv, CodeRunsOwed, PipelineType, Task
    <3>2. (IF orch.phase = "act" THEN CodeAgent(orch.act) ELSE 0) \in {0, 1}
      BY DEF CodeAgent
    <3>3. (reruns + human <= HumanBudget)'
      BY <1>0, <2>3, <3>1
    <3>4. UNCHANGED <<orch, branch>>
      BY <2>3
    <3>5. codeRuns' + (IF orch.phase = "act" THEN CodeAgent(orch.act) ELSE 0) <= branch.attempt + reruns'
      BY <2>3, <3>1, <3>2
    <3>6. QED
      BY <3>3, <3>4, <3>5 DEF CodeRunsOwed
  <2>8. QED
    BY <2>4, <2>5, <2>6, <2>7 DEF IInv
<1>5. QED
  BY <1>1, <1>2, <1>3, <1>4 DEF Human

LEMMA InitHolds == Init => IInv
<1> SUFFICES ASSUME Init PROVE IInv
  OBVIOUS
<1>1. PICK red \in BOOLEAN, maint \in BOOLEAN : branch = NewTask("auto", MaxAttempts, red, maint)
  BY DEF Init
<1>2. branch \in Task /\ Sound(branch) /\ branch.attempt = 0
  BY <1>1, LimitsAssumption, PipelineAssumption
     DEF NewTask, Task, Sound, States, Controls, Modes, Reasons, Awaiting
<1>3. /\ work = 0 /\ orch = OrchRun(Plain) /\ pending = NoWake /\ worker = IdleWorker
      /\ waiting = "none" /\ ci = EmptyBag /\ human = HumanBudget /\ codeRuns = 0 /\ reruns = 0
  BY DEF Init
<1>4. /\ orch \in OrchType /\ orch.phase = "start" /\ orch.wake.kind # "none" /\ orch.local = Blank
  BY <1>3, OrchRunTyped, PlainIsAWake
<1>5. worker \in WorkerType /\ worker.phase = "idle" /\ worker.local = Blank
  BY <1>3, IdleWorkerTyped
<1>6. IsABag(ci) /\ BagToSet(ci) \subseteq Nat
  BY <1>3 DEF EmptyBag, SetToBag, IsABag, BagToSet
<1>7. PipelineType
  BY <1>2, <1>3, <1>4, <1>5, <1>6, PlainIsAWake, PipelineAssumption DEF PipelineType
<1>8. CodeRunsOwed
  BY <1>2, <1>3, <1>4, PipelineAssumption DEF CodeRunsOwed
<1>9. QED
  BY <1>2, <1>3, <1>4, <1>5, <1>7, <1>8, BlankIsSound DEF IInv, Copies, OrchCopy, WorkerCopy

LEMMA StepKeeps == IInv /\ [Next]_vars => IInv'
<1> SUFFICES ASSUME IInv, [Next]_vars PROVE IInv'
  OBVIOUS
<1>1. CASE Orchestrator
  BY <1>1, DecideKeeps, DistilFailsKeeps, PushKeeps, ActKeeps, ActFailsKeeps, EscalateKeeps
     DEF Orchestrator
<1>2. CASE Worker
  BY <1>2, LandKeeps, LandPushKeeps, HandBackKeeps DEF Worker
<1>3. CASE CiConcludes
  BY <1>3, CiKeeps
<1>4. CASE Human
  BY <1>4, HumanKeeps
<1>5. CASE Loss
  BY <1>5, DiesKeeps, HandBackKeeps, CiKeeps DEF Loss
<1>6. CASE UNCHANGED vars
  BY <1>6 DEF vars, IInv, PipelineType, Copies, OrchCopy, WorkerCopy, Follows, CodeRunsOwed
<1>7. QED
  BY <1>1, <1>2, <1>3, <1>4, <1>5, <1>6 DEF Next

-----------------------------------------------------------------------------
(* The theorems *)

\* The branch, every copy of it and every run in progress stay well formed, and
\* every copy that may still be pushed follows from the branch as it is.
THEOREM InvariantHolds == Spec => []IInv
BY InitHolds, StepKeeps, PTL DEF Spec

\* The state file, the two runs in progress, the two that wait and the bag of
\* CI runs have the types that agentctl and the workflows read them at.
THEOREM PipelineTypeCorrect == Spec => []PipelineType
<1>1. IInv => PipelineType
  BY DEF IInv
<1>2. QED
  BY <1>1, InvariantHolds, PTL

\* No code agent ever runs that the branch has not counted (orchestrator
\* "Persisted before dispatch"), whatever is lost or doubled, but the ones a human
\* starts again by hand.
THEOREM CodeRunsAreCounted == Spec => []CodeRunsCounted
<1>1. IInv => CodeRunsCounted
  <2> SUFFICES ASSUME IInv PROVE CodeRunsCounted
    OBVIOUS
  <2>1. /\ codeRuns \in Nat /\ reruns \in Nat /\ branch.attempt \in Nat
        /\ branch.attempt <= branch.maxAttempts
        /\ codeRuns + (IF orch.phase = "act" THEN CodeAgent(orch.act) ELSE 0) <= branch.attempt + reruns
    BY DEF IInv, PipelineType, Task, Sound, CodeRunsOwed
  <2>2. QED
    BY <2>1 DEF CodeRunsCounted, CodeAgent
<1>2. QED
  BY <1>1, InvariantHolds, PTL

\* However many runs are lost or doubled, and whatever the human grants, all the
\* code agents that ever start on a task are HARD_MAX_ATTEMPTS and one for each
\* time a human has acted: only a human can start one that is not counted.
THEOREM CodeAgentsAreBounded == Spec => [](codeRuns + human <= HardMaxAttempts + HumanBudget)
<1>1. IInv => codeRuns + human <= HardMaxAttempts + HumanBudget
  <2> SUFFICES ASSUME IInv PROVE codeRuns + human <= HardMaxAttempts + HumanBudget
    OBVIOUS
  <2>1. /\ codeRuns \in Nat /\ branch.attempt \in Nat /\ branch.maxAttempts \in Int
        /\ reruns \in Nat /\ human \in Nat /\ reruns + human <= HumanBudget
        /\ branch.attempt <= branch.maxAttempts /\ branch.maxAttempts <= HardMaxAttempts
        /\ codeRuns + (IF orch.phase = "act" THEN CodeAgent(orch.act) ELSE 0) <= branch.attempt + reruns
    BY DEF IInv, PipelineType, Task, Sound, CodeRunsOwed
  <2>2. QED
    BY <2>1, LimitsAssumption, PipelineAssumption DEF CodeAgent
<1>2. QED
  BY <1>1, InvariantHolds, PTL

\* A task that waits for an agent or for CI shows the dispatch it waits for, so
\* that `agentctl status` can report it STALLED when that run is lost.
THEOREM LostRunsAreReported == Spec => []LostIsReported
<1>1. IInv => LostIsReported
  BY DEF IInv, Sound, Awaiting, LostIsReported, NextKind
<1>2. QED
  BY <1>1, InvariantHolds, PTL

\* Who can move the branch: the orchestrator and the worker, from a copy nobody
\* has overtaken, a failed action's escalation, and the human, its control only.
LEMMA BranchMoves ==
  ASSUME IInv, [Next]_vars, branch' # branch
  PROVE  \/ /\ orch.phase = "push" /\ ~orch.stale
            /\ branch' = orch.local /\ work' = work
         \/ branch'.state = "ESCALATED"
         \/ worker.phase = "push" /\ ~worker.stale /\ branch' = worker.local
         \/ branch'.state = branch.state
<1>1. CASE OrchPush
  BY <1>1 DEF OrchPush, Push
<1>2. CASE OrchEscalate
  <2>1. PICK t \in Advance(orch.local, "ESCALATE", 1) : branch' = t
    BY <1>2 DEF OrchEscalate, Push
  <2>2. "ESCALATE" \in Events /\ orch.local \in Task /\ Sound(orch.local)
    BY DEF Events, IInv, PipelineType, OrchType
  <2>3. Leads(orch.local, "ESCALATE", 1, t.state)
    BY <2>1, <2>2, AdvanceKeeps
  <2>4. QED
    BY <2>1, <2>3 DEF Leads
<1>3. CASE LandPush
  BY <1>3 DEF LandPush
<1>4. CASE HumanControl
  BY <1>4 DEF HumanControl, Push, SetControl, IInv, PipelineType, Task
<1>5. CASE ~(OrchPush \/ OrchEscalate \/ LandPush \/ HumanControl)
  BY <1>5 DEF Next, Orchestrator, Worker, Human, Loss, vars, OrchDecide, OrchDistilFails, OrchAct,
              OrchActFails, OrchDies, Land, HandBack, HandBackFails, WorkerLost, CiConcludes, CiLost,
              HumanDispatch, HumanRerunsCi, HumanRerunsWorker
<1>6. QED
  BY <1>1, <1>2, <1>3, <1>4, <1>5

\* A verdict passes only the work it was reached on (agent-orchestrator.yml
\* `guard tested`, and the push that is refused when work has landed since), and
\* only a human's own event reopens an escalated task.
THEOREM LateRunsAreHarmless == Spec => LateRunsDecideNothing
<1>1. IInv /\ [Next]_vars => [VerdictIsForThisWork /\ EscalatedIsTheHumans]_vars
  <2> SUFFICES ASSUME IInv, [Next]_vars
               PROVE  VerdictIsForThisWork /\ EscalatedIsTheHumans
    OBVIOUS
  <2>1. CASE branch' = branch \/ branch'.state = branch.state \/ branch'.state = "ESCALATED"
    BY <2>1 DEF VerdictIsForThisWork, EscalatedIsTheHumans
  <2>2. CASE orch.phase = "push" /\ ~orch.stale /\ branch' = orch.local /\ work' = work
    <3>1. Follows(branch, orch.local, orch.wake)
      BY <2>2 DEF IInv, Copies, OrchCopy
    <3>2. QED
      BY <2>2, <3>1 DEF Follows, InCi, PastCi, VerdictIsForThisWork, EscalatedIsTheHumans
  <2>3. CASE worker.phase = "push" /\ ~worker.stale /\ branch' = worker.local
    BY <2>3 DEF IInv, Copies, WorkerCopy, InCi, PastCi, VerdictIsForThisWork, EscalatedIsTheHumans
  <2>4. QED
    BY <2>1, <2>2, <2>3, BranchMoves
<1>2. QED
  BY <1>1, InvariantHolds, PTL DEF Spec, LateRunsDecideNothing

\* A human's PAUSE or CANCEL is not lost to a run that was in flight when it was
\* pushed (the rejected push of agent-orchestrator.yml and agent-worker.yml), and
\* nothing but the human moves the task on under it (state.advance).
THEOREM ControlIsTheHumans == Spec => ControlStands
<1>1. ASSUME IInv, [Next]_vars, human' = human
      PROVE  Heeds(branch, branch')
  <2>1. CASE branch' = branch
    BY <2>1 DEF Heeds
  <2>2. CASE OrchPush /\ branch' # branch
    BY <1>1, <2>2 DEF OrchPush, Push, IInv, Copies, OrchCopy
  <2>3. CASE OrchEscalate /\ branch' # branch
    <3>1. PICK t \in Advance(orch.local, "ESCALATE", 1) : branch' = t /\ ~orch.stale
      BY <2>3 DEF OrchEscalate, Push
    <3>2. orch.local = branch /\ branch \in Task /\ Sound(branch)
      BY <1>1, <2>3, <3>1 DEF OrchEscalate, IInv, PipelineType, Copies, OrchCopy
    <3>3. "ESCALATE" \in Events
      BY DEF Events
    <3>4. QED
      BY <3>1, <3>2, <3>3, AdvanceKeeps
  <2>4. CASE LandPush /\ branch' # branch
    BY <1>1, <2>4 DEF LandPush, IInv, Copies, WorkerCopy
  <2>5. CASE HumanControl
    BY <1>1, <2>5 DEF HumanControl, IInv, PipelineType
  <2>6. CASE ~(OrchPush \/ OrchEscalate \/ LandPush \/ HumanControl)
    BY <1>1, <2>1, <2>6 DEF Next, Orchestrator, Worker, Human, Loss, vars, OrchDecide, OrchDistilFails,
          OrchAct, OrchActFails, OrchDies, Land, HandBack, HandBackFails, WorkerLost, CiConcludes,
          CiLost, HumanDispatch, HumanRerunsCi, HumanRerunsWorker
  <2>7. QED
    BY <2>1, <2>2, <2>3, <2>4, <2>5, <2>6
<1>2. IInv /\ [Next]_vars
        => [human' = human =>
              /\ branch'.control = branch.control
              /\ branch.control # "RUN" =>
                   /\ UNCHANGED <<branch.attempt, branch.managed>>
                   /\ branch'.state \in {branch.state, "ESCALATED", "CANCELLED"}]_vars
  BY <1>1 DEF Heeds
<1>3. QED
  BY <1>2, InvariantHolds, PTL DEF Spec, ControlStands
=============================================================================
