--------------------------- MODULE AgentPipeline ----------------------------
(***************************************************************************)
(* One task driven by the GitHub workflows: agent-orchestrator.yml decides *)
(* and dispatches, agent-worker.yml runs a model and lands its result,     *)
(* test-agent.yml gives CI's verdict, and a human interferes.  They share  *)
(* only the task branch: each run checks it out, works on its copy, and    *)
(* pushes, which fails when somebody else pushed in between.               *)
(*                                                                         *)
(* GitHub's concurrency groups are external: one run in progress and one   *)
(* pending per group, a newer pending run replacing an older one.          *)
(***************************************************************************)
EXTENDS AgentState, Bags

CONSTANTS
  MaxAttempts,  \* the spec's max_impl_attempts
  HumanBudget,  \* how many times the human acts in a behaviour
  Faults        \* the infrastructure failures of a behaviour, a subset of FaultKinds

FaultKinds ==
  {"worker_lost",     \* `land` is cancelled or times out
   "ci_lost",         \* a finished CI run never wakes the orchestrator
   "handback_lost",   \* the worker's `gh workflow run` fails
   "orchestrator_dies", "dispatch_fails"}

ASSUME PipelineAssumption ==
  /\ MaxAttempts \in 1..HardMaxAttempts
  /\ HumanBudget \in Nat
  /\ Faults \subseteq FaultKinds

VARIABLES
  branch,   \* state.json at the tip of agent/<ID>
  work,     \* how many test or implementation commits the branch carries
  orch,     \* the orchestrator run in progress
  pending,  \* the orchestrator run waiting for it
  worker,   \* the worker run in progress
  waiting,  \* the role of the worker run waiting for it
  ci,       \* CI runs in progress: a bag of the amounts of work they test
  human,    \* how often the human may still act
  codeRuns, \* history variable: code agents started, by whomever
  reruns    \* history variable: those among them that the human started again

vars == <<branch, work, orch, pending, worker, waiting, ci, human, codeRuns, reruns>>

-----------------------------------------------------------------------------
NoWake == [kind |-> "none", event |-> "none", work |-> 0, right |-> FALSE]
Plain  == [kind |-> "plain", event |-> "none", work |-> 0, right |-> FALSE]
HumanWake(e) == [kind |-> "event", event |-> e, work |-> 0, right |-> FALSE]
CiWake(e, n, right) == [kind |-> "ci", event |-> e, work |-> n, right |-> right]

Blank == NewTask("auto", MaxAttempts, TRUE, TRUE)

\* phase: idle, start (waiting for a runner), push (state decided, not pushed),
\* act (pushed, nothing dispatched yet), escalate (the action failed).
IdleOrch ==
  [phase |-> "idle", wake |-> NoWake, local |-> Blank, act |-> "none",
   changed |-> FALSE, stale |-> FALSE]
OrchRun(w) == [IdleOrch EXCEPT !.phase = "start", !.wake = w]

\* phase: idle, model (the model runs), push (result recorded, not pushed),
\* handback (pushed or not, the orchestrator is still to be woken).
IdleWorker ==
  [phase |-> "idle", role |-> "none", local |-> Blank, commits |-> 0, stale |-> FALSE]
WorkerRun(r) == [IdleWorker EXCEPT !.phase = "model", !.role = r]

Init ==
  /\ \E red \in BOOLEAN, maint \in BOOLEAN :
       branch = NewTask("auto", MaxAttempts, red, maint)
  /\ work = 0
  /\ orch = OrchRun(Plain)     \* a human dispatches the first run
  /\ pending = NoWake
  /\ worker = IdleWorker
  /\ waiting = "none"
  /\ ci = EmptyBag
  /\ human = HumanBudget
  /\ codeRuns = 0
  /\ reruns = 0

\* A new orchestrator run: at once if none is in progress, else it is the
\* pending one, in place of whichever was.
Wake(w) ==
  IF orch.phase = "idle"
  THEN orch' = OrchRun(w) /\ UNCHANGED pending
  ELSE pending' = w /\ UNCHANGED orch

\* The orchestrator run ends and the pending one, w, starts.
EndRun(w) ==
  /\ orch' = IF w = NoWake THEN IdleOrch ELSE OrchRun(w)
  /\ pending' = NoWake

\* Faulty: `git push --force`.
PushForced(t) == branch' = t /\ UNCHANGED worker

\* A push moves the branch under every other run that has checked it out.
Push(t) ==
  /\ branch' = t
  /\ worker' = [worker EXCEPT !.stale = worker.phase = "push"]

-----------------------------------------------------------------------------
(* The orchestrator: one run does one thing *)

\* Faulty: a verdict is applied whatever work it tested.
AfterAnyInput(t, w) ==
  IF w.kind = "plain" THEN {t}
  ELSE IF t.state = "DRAFT" THEN {}
  ELSE IF w.kind = "ci" /\ (t.state \in Terminal \/ t.control = "PAUSE") THEN {t}
  ELSE Advance(t, Classified(t, w.event, w.right), 1)

\* CI tested other work than the branch carries.
Outdated(w) == w.kind = "ci" /\ w.event # "ESCALATE" /\ w.work # work

\* "Apply the CI result" and "Apply a human-supplied event": the copies the
\* input steps can leave, empty when the step fails the run, for want of a
\* state file or because "guard tested" refuses the verdict.
AfterInput(t, w) ==
  IF w.kind = "plain" THEN {t}
  ELSE IF t.state = "DRAFT" \/ Outdated(w) THEN {}
  ELSE IF w.kind = "ci" /\ (t.state \in Terminal \/ t.control = "PAUSE") THEN {t}
  ELSE Advance(t, Classified(t, w.event, w.right), 1)

\* An input that is applied, or noted because the task is paused, changes
\* state.json.
Consumes(t, w) == w.kind = "event" \/ (w.kind = "ci" /\ t.state \notin Terminal)

\* "Decide the next action" and the action's own transition: the copy to
\* persist and what is to be started once it is.
Decision(t) ==
  LET kind == NextKind(t)
      moved == Advance(t, DispatchEvent(t), 1)
      Does(s, act) == [local |-> s, act |-> act, moved |-> TRUE]
      Nothing(act) == [local |-> t, act |-> act, moved |-> FALSE]
  IN CASE kind = "validate" -> {Does(s, "wake") : s \in Advance(t, "VALIDATED", 1)}
       [] kind = "distill" -> {Does(s, "wake") : s \in Advance(t, "DISTILLED", 1)}
       [] kind \in {"run_ci", "dispatch_agent"} ->
            IF moved = {} THEN {Nothing("failed")}
            ELSE {Does(s, IF s.state = "ESCALATED" THEN "none"
                          ELSE IF kind = "run_ci" THEN "ci" ELSE RoleOf(s.last)) : s \in moved}
       [] OTHER -> {Nothing("none")}

\* Check the branch out, apply the input, decide, and take the transition.
OrchDecide ==
  /\ orch.phase = "start"
  /\ \/ \E t \in AfterInput(branch, orch.wake) : \E d \in Decision(t) :
          /\ orch' = [orch EXCEPT !.phase = "push", !.local = d.local, !.act = d.act,
                                  !.stale = FALSE,
                                  !.changed = d.moved \/ Consumes(branch, orch.wake)]
          /\ UNCHANGED pending
     \/ /\ AfterInput(branch, orch.wake) = {}
        /\ EndRun(pending)
  /\ UNCHANGED <<branch, work, worker, waiting, ci, human, codeRuns, reruns>>

\* "Distil the failure" fails: the input is still persisted, then escalated.
OrchDistilFails ==
  /\ "dispatch_fails" \in Faults
  /\ orch.phase = "start"
  /\ \E t \in AfterInput(branch, orch.wake) :
       /\ NextKind(t) = "distill"
       /\ orch' = [orch EXCEPT !.phase = "push", !.local = t, !.act = "failed",
                               !.changed = Consumes(branch, orch.wake), !.stale = FALSE]
  /\ UNCHANGED <<branch, work, pending, worker, waiting, ci, human, codeRuns, reruns>>

\* Faulty: what was decided is started although its push was rejected.
OrchPushUnchecked ==
  /\ orch.phase = "push"
  /\ orch' = [orch EXCEPT !.phase = IF orch.act = "failed" THEN "escalate" ELSE "act"]
  /\ IF orch.changed /\ ~orch.stale THEN Push(orch.local) ELSE UNCHANGED <<branch, worker>>
  /\ UNCHANGED <<work, pending, waiting, ci, human, codeRuns, reruns>>

\* "Commit the state change".  A rejected push fails the run: nothing is started.
OrchPush ==
  /\ orch.phase = "push"
  /\ \/ /\ orch.changed => ~orch.stale
        /\ IF orch.changed THEN Push(orch.local) ELSE UNCHANGED <<branch, worker>>
        /\ orch' = [orch EXCEPT !.phase = IF orch.act = "failed" THEN "escalate" ELSE "act"]
        /\ UNCHANGED pending
     \/ /\ orch.changed /\ orch.stale
        /\ EndRun(pending)
        /\ UNCHANGED <<branch, worker>>
  /\ UNCHANGED <<work, waiting, ci, human, codeRuns, reruns>>

\* "Run the authoritative test suite", "Dispatch the worker", "Continue".
OrchAct ==
  /\ orch.phase = "act"
  /\ \/ orch.act = "none" /\ EndRun(pending) /\ UNCHANGED <<worker, waiting, ci, codeRuns>>
     \/ orch.act = "wake" /\ EndRun(Plain) /\ UNCHANGED <<worker, waiting, ci, codeRuns>>
     \/ /\ orch.act = "ci"
        /\ ci' = ci (+) SetToBag({work})
        /\ EndRun(pending)
        /\ UNCHANGED <<worker, waiting, codeRuns>>
     \/ /\ orch.act \in Roles
        /\ IF worker.phase = "idle"
           THEN worker' = WorkerRun(orch.act) /\ UNCHANGED waiting
           ELSE waiting' = orch.act /\ UNCHANGED worker
        /\ codeRuns' = IF orch.act = "code_agent" THEN codeRuns + 1 ELSE codeRuns
        /\ EndRun(pending)
        /\ UNCHANGED ci
  /\ UNCHANGED <<branch, work, human, reruns>>

\* Starting the worker, CI or the next run fails.
OrchActFails ==
  /\ "dispatch_fails" \in Faults
  /\ orch.phase = "act"
  /\ orch.act # "none"
  /\ orch' = [orch EXCEPT !.phase = "escalate"]
  /\ UNCHANGED <<branch, work, pending, worker, waiting, ci, human, codeRuns, reruns>>

\* "Escalate an action that failed" and "Commit the escalation".
OrchEscalate ==
  /\ orch.phase = "escalate"
  /\ LET escalated == Advance(orch.local, "ESCALATE", 1)
     IN \/ escalated # {} /\ ~orch.stale /\ \E t \in escalated : Push(t)
        \/ (escalated = {} \/ orch.stale) /\ UNCHANGED <<branch, worker>>
  /\ EndRun(pending)
  /\ UNCHANGED <<work, waiting, ci, human, codeRuns, reruns>>

\* The runner dies, wherever the run is.
OrchDies ==
  /\ "orchestrator_dies" \in Faults
  /\ orch.phase # "idle"
  /\ EndRun(pending)
  /\ UNCHANGED <<branch, work, worker, waiting, ci, human, codeRuns, reruns>>

-----------------------------------------------------------------------------
(* The worker: run-model, then land *)

\* The state each role's result is for, and the events it can be.
FromState(r) ==
  CASE r = "test_agent" -> "TEST_AGENT_RUNNING"
    [] r = "code_agent" -> "CODE_AGENT_RUNNING"
    [] r = "context_maintainer" -> "CONTEXT_MAINTENANCE"
    [] r = "manager" -> "MANAGER_REVIEW"

ResultEvents(r) ==
  CASE r \in {"test_agent", "code_agent"} -> {"AGENT_COMMITTED"}
    [] r = "context_maintainer" -> {"MAINTAINER_DONE"}
    [] r = "manager" -> {"MANAGER_RETRY", "MANAGER_RESCOPE", "ESCALATE"}

\* An event that is refused leaves the copy as it was.
OrUnchanged(t, e) == IF Advance(t, e, 1) = {} THEN {t} ELSE Advance(t, e, 1)

\* "Advance the workflow", and "Record a result that could not be applied".
Applied(t, r, e) ==
  IF t.state = FromState(r) /\ Advance(t, e, 1) # {}
  THEN Advance(t, e, 1) ELSE OrUnchanged(t, "AGENT_FAILED")

\* `land` on a fresh checkout: the model failed, broke a boundary (its work is
\* discarded), or succeeded (its work, if any, is committed before it is applied).
Landings(t, r) ==
  {[local |-> s, commits |-> 0] :
     s \in OrUnchanged(t, "AGENT_FAILED") \cup OrUnchanged(t, "GUARD_VIOLATION")}
  \cup
  {[local |-> s, commits |-> n] :
     s \in UNION {Applied(t, r, e) : e \in ResultEvents(r)},
     n \in IF r = "manager" THEN {0} ELSE {0, 1}}

Land ==
  /\ worker.phase = "model"
  /\ \E l \in Landings(branch, worker.role) :
       worker' = [worker EXCEPT !.phase = "push", !.local = l.local,
                                !.commits = l.commits, !.stale = FALSE]
  /\ UNCHANGED <<branch, work, orch, pending, waiting, ci, human, codeRuns, reruns>>

\* "Push state and work": at the least the invocation's telemetry is new.  A
\* rejected push loses the result and the work.
LandPush ==
  /\ worker.phase = "push"
  /\ worker' = [worker EXCEPT !.phase = "handback"]
  /\ IF worker.stale
     THEN UNCHANGED <<branch, work, orch>>
     ELSE /\ branch' = worker.local
          /\ work' = work + worker.commits
          /\ orch' = [orch EXCEPT !.stale = @ \/ orch.phase \in {"push", "act", "escalate"}]
  /\ UNCHANGED <<pending, waiting, ci, human, codeRuns, reruns>>

\* The next worker run of the task's group starts.
NextWorker ==
  /\ worker' = IF waiting = "none" THEN IdleWorker ELSE WorkerRun(waiting)
  /\ waiting' = "none"

\* "Hand control back to the orchestrator", whether the push succeeded or not.
HandBack ==
  /\ worker.phase = "handback"
  /\ Wake(Plain)
  /\ NextWorker
  /\ UNCHANGED <<branch, work, ci, human, codeRuns, reruns>>

HandBackFails ==
  /\ "handback_lost" \in Faults
  /\ worker.phase = "handback"
  /\ NextWorker
  /\ UNCHANGED <<branch, work, orch, pending, ci, human, codeRuns, reruns>>

\* `land` itself is cancelled or times out: nothing is recorded or handed back.
WorkerLost ==
  /\ "worker_lost" \in Faults
  /\ worker.phase \in {"model", "push"}
  /\ NextWorker
  /\ UNCHANGED <<branch, work, orch, pending, ci, human, codeRuns, reruns>>

-----------------------------------------------------------------------------
(* CI *)

\* A run concludes and wakes the orchestrator with its verdict.
CiConcludes ==
  \E n \in BagToSet(ci) : \E e \in {"CI_PASSED", "CI_FAILED", "ESCALATE"} :
    \E right \in IF e = "CI_FAILED" THEN BOOLEAN ELSE {FALSE} :
      /\ ci' = ci (-) SetToBag({n})
      /\ Wake(CiWake(e, n, right))
      /\ UNCHANGED <<branch, work, worker, waiting, human, codeRuns, reruns>>

CiLost ==
  /\ "ci_lost" \in Faults
  /\ \E n \in BagToSet(ci) : ci' = ci (-) SetToBag({n})
  /\ UNCHANGED <<branch, work, orch, pending, worker, waiting, human, codeRuns, reruns>>

-----------------------------------------------------------------------------
(* The human *)

\* The events operations.md tells the human to supply.
HumanEvents == {"MANAGER_RETRY", "MANAGER_RESCOPE", "ESCALATE", "CANCEL", "AGENT_COMMITTED"}

\* `gh workflow run agent-orchestrator.yml`, with or without an event.
HumanDispatch ==
  /\ human > 0
  /\ human' = human - 1
  /\ \E w \in {Plain} \cup
             {HumanWake(e) : e \in HumanEvents} :
       Wake(w)
  /\ UNCHANGED <<branch, work, worker, waiting, ci, codeRuns, reruns>>

\* `agentctl state control`, committed and pushed by hand.
HumanControl ==
  /\ human > 0
  /\ human' = human - 1
  /\ branch.state # "DRAFT"
  /\ \E c \in Controls \ {branch.control} : Push(SetControl(branch, c))
  /\ orch' = [orch EXCEPT !.stale = @ \/ orch.phase \in {"push", "act", "escalate"}]
  /\ UNCHANGED <<work, pending, waiting, ci, codeRuns, reruns>>

\* `gh workflow run test-agent.yml --ref agent/<ID>`: CI again, on the tip.
HumanRerunsCi ==
  /\ human > 0
  /\ human' = human - 1
  /\ ci' = ci (+) SetToBag({work})
  /\ UNCHANGED <<branch, work, orch, pending, worker, waiting, codeRuns, reruns>>

\* `gh workflow run agent-worker.yml -f role=<role>`, for a worker that was lost:
\* the state already says it is running, so nothing is counted again.
HumanRerunsWorker ==
  /\ human > 0
  /\ human' = human - 1
  /\ worker.phase = "idle"
  /\ \E r \in {"test_agent", "code_agent"} :
       /\ branch.state = FromState(r)
       /\ worker' = WorkerRun(r)
       /\ codeRuns' = IF r = "code_agent" THEN codeRuns + 1 ELSE codeRuns
       /\ reruns' = IF r = "code_agent" THEN reruns + 1 ELSE reruns
  /\ UNCHANGED <<branch, work, orch, pending, waiting, ci>>

-----------------------------------------------------------------------------
Orchestrator ==
  OrchDecide \/ OrchDistilFails \/ OrchPush \/ OrchAct \/ OrchActFails \/ OrchEscalate
Worker == Land \/ LandPush \/ HandBack
Human == HumanDispatch \/ HumanControl \/ HumanRerunsCi \/ HumanRerunsWorker
Loss == OrchDies \/ WorkerLost \/ HandBackFails \/ CiLost

Next == Orchestrator \/ Worker \/ CiConcludes \/ Human \/ Loss

\* GitHub runs what is queued: a started run makes its next step, a worker
\* lands, a CI run concludes.  Nothing obliges the human or a fault.
Fairness ==
  /\ WF_vars(OrchDecide \/ OrchDistilFails) /\ WF_vars(OrchPush)
  /\ WF_vars(OrchAct \/ OrchActFails) /\ WF_vars(OrchEscalate)
  /\ WF_vars(Land) /\ WF_vars(LandPush) /\ WF_vars(HandBack \/ HandBackFails)
  /\ WF_vars(CiConcludes \/ CiLost)

Spec == Init /\ [][Next]_vars /\ Fairness

-----------------------------------------------------------------------------
(* Properties *)

\* Persisted before dispatch: no code agent ever runs that the branch has not
\* counted, whichever runs die, lose their push or are started twice, but the one
\* a human starts again by hand; and the branch counts no more than its budget.
CodeRunsCounted ==
  /\ codeRuns <= branch.attempt + reruns
  /\ branch.attempt <= branch.maxAttempts

\* The branch passes CI only on a verdict for exactly the work it carries: no
\* work lands between the check of the tested commit and the push it allows.
VerdictIsForThisWork ==
  branch.state \in {"BASELINE_CI", "IMPL_CI"}
    /\ branch'.state \in {"READY_FOR_IMPLEMENTATION", "CODE_AGENT_RUNNING",
                          "CONTEXT_MAINTENANCE", "COMPLETE"}
  => orch.wake.kind = "ci" /\ orch.wake.work = work'

\* Out of ESCALATED only by a human's own event: no late worker, CI verdict or
\* second orchestrator run reopens the task.
EscalatedIsTheHumans ==
  branch.state = "ESCALATED" /\ branch'.state # "ESCALATED" => orch.wake.kind = "event"

\* However late, doubled or overtaken its run is, a verdict passes only the work
\* it was reached on, and an escalated task is reopened only by its human.
LateRunsDecideNothing == [][VerdictIsForThisWork /\ EscalatedIsTheHumans]_vars

\* What a human sets with `state control` stands until the human changes it: no
\* run that had checked the branch out before pushes its own copy over it, and
\* while it says PAUSE or CANCEL, nothing late or new spends a budget or moves
\* the task but to the human or to its end.
ControlStands ==
  [][human' = human =>
       /\ branch'.control = branch.control
       /\ branch.control # "RUN" =>
            /\ UNCHANGED <<branch.attempt, branch.managed>>
            /\ branch'.state \in {branch.state, "ESCALATED", "CANCELLED"}]_vars

\* Nothing of this task is running, queued or on its way.
Quiet ==
  /\ orch.phase = "idle" /\ pending = NoWake
  /\ worker.phase = "idle"
  /\ ci = EmptyBag

\* A task that waits for something nobody will send is one `agentctl status`
\* can report as STALLED: its last event is the dispatch that was lost.
LostIsReported ==
  Quiet /\ NextKind(branch) \in {"await_agent", "await_ci"} => branch.last \in Dispatches

\* The human has not acted since the first dispatch.
LeftAlone == human = HumanBudget

\* Bounded orchestration: however it fails and whatever the human does, the
\* pipeline stops by itself; a task left alone stops finished or escalated.
Settles ==
  <>[](Quiet /\ (LeftAlone => branch.state \in {"COMPLETE", "ESCALATED"}))

=============================================================================
