----------------------------- MODULE AgentTask ------------------------------
(***************************************************************************)
(* One task's state.json under agentctl (.ai/bin/agentctl.py), whoever     *)
(* calls it: the orchestrator, a worker, or a human at a shell.  Every     *)
(* action is one command: it loads the file, decides, and saves it.        *)
(*                                                                         *)
(* The file does not exist until `state init` or `hand start` saves one,   *)
(* and both save a state past DRAFT, so DRAFT stands for "no file yet".    *)
(***************************************************************************)
EXTENDS AgentState

CONSTANTS
  Extras,      \* the values --extra-attempts is given: any integers
  LeastBudget  \* bound: no grant of the model lowers max_attempts below it

ASSUME ExtrasAssumption == Extras \subseteq Int /\ LeastBudget \in Int

VARIABLES
  task,      \* state.json
  verdict,   \* history variable: CI's verdict on the current tests
  granted,   \* history variable: a MANAGER_RETRY since the tests were last due
  lowered    \* history variable: a MANAGER_RETRY has lowered the budget

taskVars == <<task, verdict, granted, lowered>>

Verdicts == {"none", "red", "wrong_red", "green"}

TaskInit ==
  /\ \E max \in 1..HardMaxAttempts, red \in BOOLEAN, maint \in BOOLEAN :
       task = NewTask("auto", max, red, maint)
  /\ verdict = "none"
  /\ granted = FALSE
  /\ lowered = FALSE

\* What the history variables record of event e, applied to the current task.
Observed(e, extra, nxt) ==
  /\ verdict' = CASE nxt = "READY" -> "none"
                  [] task.state = "BASELINE_CI" /\ e = "CI_FAILED" -> "red"
                  [] task.state = "BASELINE_CI" /\ e = "CI_PASSED" -> "green"
                  [] e = "CI_FAILED_WRONG_REASON" -> "wrong_red"
                  [] OTHER -> verdict
  /\ granted' = CASE nxt = "READY" -> FALSE
                  [] e = "MANAGER_RETRY" -> TRUE
                  [] OTHER -> granted
  /\ lowered' = (lowered \/ (e = "MANAGER_RETRY" /\ extra < 0))

\* state.advance on the saved file, saved back.
Apply(e, extra) ==
  \E nxt \in Reached(task, e, extra) :
    /\ task' = Moved(task, e, extra, nxt)
    /\ Observed(e, extra, nxt)

-----------------------------------------------------------------------------
(* The commands *)

\* cmd_state_init: a task with a file is left alone.
StateInit ==
  /\ task.state = "DRAFT"
  /\ Apply("VALIDATED", 1)

\* cmd_hand_start: refuses if there is any state file.
HandStart ==
  /\ task.state = "DRAFT"
  /\ task' = Moved([task EXCEPT !.mode = "hand"], "HAND_STARTED", 1, "HAND_RUNNING")
  /\ Observed("HAND_STARTED", 1, "HAND_RUNNING")

\* cmd_hand_finish
HandFinish ==
  /\ task.state # "DRAFT"
  /\ Apply("HAND_FINISHED", 1)

\* cmd_state_control
StateControl(c) ==
  /\ task.state # "DRAFT"
  /\ task' = SetControl(task, c)
  /\ UNCHANGED <<verdict, granted, lowered>>

\* cmd_state_advance.  fromState is "" when --from-state is not given; with
\* --ignore-terminal and --discard-if-paused the command ends without advancing.
StateAdvance(e, extra, fromState, ignoreTerminal, discardIfPaused, rightReason) ==
  /\ task.state # "DRAFT"
  /\ ~(ignoreTerminal /\ task.state \in Terminal)
  /\ fromState \in {"", task.state}
  /\ ~(discardIfPaused /\ task.control = "PAUSE")
  /\ Apply(Classified(task, e, rightReason), extra)

\* What advance is told to add: 0 counts as an option not given, and that means 1.
Grant(n) == IF n = 0 THEN 1 ELSE n

\* The options that matter for event e: only a retry has a budget to add, and
\* only a CI failure has evidence to classify.
ExtraFor(e) ==
  IF e = "MANAGER_RETRY"
  THEN {1} \cup {n \in {Grant(x) : x \in Extras} : task.maxAttempts + n >= LeastBudget}
  ELSE {1}
EvidenceFor(e) == IF e = "CI_FAILED" THEN BOOLEAN ELSE {TRUE}

TaskNext ==
  \/ StateInit
  \/ HandStart
  \/ HandFinish
  \/ \E c \in Controls : StateControl(c)
  \/ \E e \in Events : \E extra \in ExtraFor(e), rightReason \in EvidenceFor(e) :
       StateAdvance(e, extra, "", FALSE, FALSE, rightReason)

TaskSpec == TaskInit /\ [][TaskNext]_taskVars

-----------------------------------------------------------------------------
(* Properties *)

TypeOK ==
  /\ task \in Task
  /\ verdict \in Verdicts
  /\ granted \in BOOLEAN
  /\ lowered \in BOOLEAN

\* The retry loop is bounded: whatever is granted, no more code agents are
\* counted than the hard cap, and no more than the budget it had, unless a
\* grant has since lowered that budget.
AttemptsBounded ==
  /\ task.attempt <= HardMaxAttempts
  /\ task.maxAttempts <= HardMaxAttempts
  /\ task.attempt <= task.maxAttempts \/ lowered

\* A manager is invoked at most MaxManagerInvocations times before a human acts.
ManagerBounded == task.managed <= MaxManagerInvocations

\* RETRY_READY means "distilled, budget remains": the code agent's dispatch, which
\* next_action then asks for, is not refused.  The one way there without a budget
\* is a MANAGER_RETRY of a task whose budget was lowered: nothing checks the
\* sign of --extra-attempts.
RetryHasBudget ==
  task.state = "RETRY_READY" =>
    task.attempt < task.maxAttempts \/ (lowered /\ task.last = "MANAGER_RETRY")

\* An implementation only exists after a code agent was dispatched and counted.
ImplementationIsCounted ==
  task.state \in {"CODE_AGENT_RUNNING", "IMPL_COMMITTED", "IMPL_CI", "DISTILLING"}
    => task.attempt > 0

\* Test-first: a code agent works only against tests CI has seen fail, unless the
\* task waives the red baseline or the manager's retry overrode it.
ImplementationStates ==
  {"READY_FOR_IMPLEMENTATION", "CODE_AGENT_RUNNING", "IMPL_COMMITTED", "IMPL_CI",
   "DISTILLING", "RETRY_READY", "CONTEXT_MAINTENANCE"}

CodeAfterRed ==
  task.state \in ImplementationStates /\ task.requireRed /\ ~granted
    => verdict = "red"

\* A task that stopped says why, and one that is moving does not still
\* advertise why it once stopped.
ReasonMatchesState ==
  /\ task.state \in {"MANAGER_REVIEW", "ESCALATED", "FAILED"} => task.reason # "none"
  /\ task.state \notin {"MANAGER_REVIEW", "ESCALATED", "FAILED", "CANCELLED"}
       => task.reason = "none"

\* consecutive_failures never reaches 3: the second failure in a row can only
\* be the manager's own, which escalates at once.
FailuresStopAtTwo ==
  /\ task.failures <= 2
  /\ task.failures = 2 => task.state \in {"ESCALATED", "FAILED"}
  /\ task.failures = 1 => task.state \in {"MANAGER_REVIEW", "ESCALATED", "FAILED"}

\* Whoever sends which commands with whatever grants, the limits of state.py hold:
\* attempts, manager invocations, failures in a row; and RETRY_READY has the
\* budget it promises unless a negative grant took it away.
Budgets == AttemptsBounded /\ ManagerBounded /\ RetryHasBudget /\ FailuresStopAtTwo

\* A hand-run task only ever ends, escalates or is cancelled: the orchestrator
\* has nothing to dispatch for it, in any state it reaches.
HandIsNotDriven ==
  task.mode = "hand" =>
    /\ NextKind(task) \in {"halt", "cancel"}
    /\ task.state \in {"HAND_RUNNING", "COMPLETE", "ESCALATED", "CANCELLED"}
    /\ task.dispatched = "none"

\* A task with no file was never dispatched.
DraftIsFresh == task.state = "DRAFT" => task.dispatched = "none"

\* The state a task is in tells how it got there: what CI said of its tests,
\* that a code agent was counted, why it stopped, and who drives it.
Story ==
  /\ ImplementationIsCounted /\ CodeAfterRed /\ ReasonMatchesState /\ HandIsNotDriven
  /\ DraftIsFresh

=============================================================================
