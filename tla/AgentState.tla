----------------------------- MODULE AgentState -----------------------------
(***************************************************************************)
(* The transition function of the agent pipeline: .ai/agentlib/state.py.   *)
(*                                                                         *)
(* A task is one state.json.  The fields the control flow reads are kept;  *)
(* history is reduced to its length (hops) and the event of its last entry *)
(* (last), which are all that next_action and stalled read from it.        *)
(* Texts (reasons, notes, timestamps, session ids) are reduced to a tag.   *)
(*                                                                         *)
(* Some definitions are preceded by a faulty variant of themselves, which  *)
(* nothing uses: PROJECT.json names the property each would break.         *)
(***************************************************************************)
EXTENDS Integers, FiniteSets

CONSTANTS
  HardMaxAttempts,         \* HARD_MAX_ATTEMPTS, 8
  MaxConsecutiveFailures,  \* MAX_CONSECUTIVE_FAILURES, 3
  MaxManagerInvocations,   \* MAX_MANAGER_INVOCATIONS, 3
  MaxTransitions           \* orchestrator.MAX_TRANSITIONS, 100

ASSUME LimitsAssumption ==
  /\ HardMaxAttempts \in Nat \ {0}
  /\ MaxConsecutiveFailures \in Nat \ {0}
  /\ MaxManagerInvocations \in Nat \ {0}
  /\ MaxTransitions \in Nat

-----------------------------------------------------------------------------
States ==
  {"DRAFT", "READY", "TEST_AGENT_RUNNING", "TESTS_COMMITTED", "BASELINE_CI",
   "READY_FOR_IMPLEMENTATION", "CODE_AGENT_RUNNING", "IMPL_COMMITTED",
   "IMPL_CI", "DISTILLING", "RETRY_READY", "MANAGER_REVIEW",
   "CONTEXT_MAINTENANCE", "COMPLETE", "ESCALATED", "CANCELLED", "FAILED",
   "HAND_RUNNING"}

Terminal == {"COMPLETE", "CANCELLED", "FAILED"}

ClearsEscalation ==
  {"READY", "READY_FOR_IMPLEMENTATION", "RETRY_READY", "CONTEXT_MAINTENANCE",
   "COMPLETE"}

Controls == {"RUN", "PAUSE", "CANCEL"}
Modes == {"auto", "hand"}
HandEvents == {"HAND_STARTED", "HAND_FINISHED"}
HandAccepts == HandEvents \cup {"CANCEL", "ESCALATE"}

\* Every event that starts something outside the orchestrator's own run.
AgentDispatchesOnly ==
  {"DISPATCH_TEST_AGENT", "DISPATCH_CODE_AGENT", "DISPATCH_MAINTAINER", "DISPATCH_MANAGER"}
Dispatches ==
  {"DISPATCH_TEST_AGENT", "DISPATCH_CODE_AGENT", "DISPATCH_MAINTAINER",
   "DISPATCH_MANAGER", "CI_STARTED"}

Events ==
  HandEvents \cup
  {"DISPATCH_TEST_AGENT", "DISPATCH_CODE_AGENT", "DISPATCH_MAINTAINER",
   "DISPATCH_MANAGER", "CI_STARTED", "VALIDATED", "AGENT_COMMITTED", "MAINTAINER_DONE", "AGENT_FAILED",
   "GUARD_VIOLATION", "CI_PASSED", "CI_FAILED", "CI_FAILED_WRONG_REASON",
   "DISTILLED", "MANAGER_RETRY", "MANAGER_RESCOPE", "ESCALATE", "CANCEL",
   "INFRA_FAILED"}

\* escalation_reason, reduced to which assignment in _transition wrote it.
Reasons ==
  {"none", "escalate", "guard", "infra", "agent_failed", "manager_failed",
   "repeated_failures", "manager_limit", "wrong_reason", "not_red", "exhausted"}

Task ==
  [state : States, control : Controls, mode : Modes,
   attempt : Nat, maxAttempts : Int, requireRed : BOOLEAN,
   maintain : BOOLEAN,          \* the spec's run_context_maintainer
   failures : Nat,              \* consecutive_failures
   managed : Nat,               \* manager_invocations
   reason : Reasons,            \* escalation_reason
   last : Events \cup {"none"}, \* event of the last history entry
   hops : Nat,                  \* len(history), saturating past MaxTransitions
   dispatched : Dispatches \cup {"none"}]  \* last_dispatch

\* new_state / draft_state: a task nobody has started.
NewTask(mode, max, red, maint) ==
  [state |-> "DRAFT", control |-> "RUN", mode |-> mode, attempt |-> 0,
   maxAttempts |-> max, requireRed |-> red, maintain |-> maint,
   failures |-> 0, managed |-> 0, reason |-> "none", last |-> "none",
   hops |-> 0, dispatched |-> "none"]

-----------------------------------------------------------------------------
(* advance() *)

\* The checks advance makes before it consults the transition table.
Admits(t, e) ==
  /\ t.state \notin Terminal
  /\ t.control = "CANCEL" => e = "CANCEL"
  /\ t.control = "PAUSE" => e \in {"CANCEL", "ESCALATE"}
  /\ t.mode = "hand" => e \in HandAccepts
  /\ t.mode # "hand" => e \notin HandEvents

\* AGENT_FAILED: a late failure leaves ESCALATED with the human, a manager
\* that fails escalates, and so does the MaxConsecutiveFailures-th in a row.
AfterFailure(t) ==
  IF \/ t.state \in {"ESCALATED", "MANAGER_REVIEW"}
     \/ t.failures + 1 >= MaxConsecutiveFailures
  THEN "ESCALATED" ELSE "MANAGER_REVIEW"

\* Another code agent may be dispatched.
HasBudgetOrIsAtIt(t) == t.attempt <= t.maxAttempts
HasBudget(t) == t.attempt < t.maxAttempts

\* A green baseline: the new tests prove nothing, unless that check is waived.
AfterGreenAlways(t) == "READY_FOR_IMPLEMENTATION"
AfterGreenBaseline(t) ==
  IF t.requireRed THEN "MANAGER_REVIEW" ELSE "READY_FOR_IMPLEMENTATION"

\* The transition table: event e takes task t to state nxt.  An event with no
\* row for t.state is the StateError at the end of _transition.
Leads(t, e, extra, nxt) ==
  \/ e = "CANCEL" /\ nxt = "CANCELLED"
  \/ e \in {"ESCALATE", "GUARD_VIOLATION"} /\ nxt = "ESCALATED"
  \/ e = "INFRA_FAILED" /\ nxt = "FAILED"
  \/ e = "AGENT_FAILED" /\ nxt = AfterFailure(t)
  \/ e = "HAND_STARTED" /\ t.state = "DRAFT" /\ nxt = "HAND_RUNNING"
  \/ e = "HAND_FINISHED" /\ t.state = "HAND_RUNNING" /\ nxt = "COMPLETE"
  \/ e = "VALIDATED" /\ t.state \in {"DRAFT", "MANAGER_REVIEW"} /\ nxt = "READY"
  \/ e = "DISPATCH_TEST_AGENT" /\ t.state = "READY" /\ nxt = "TEST_AGENT_RUNNING"
  \/ /\ e = "DISPATCH_CODE_AGENT"
     /\ t.state \in {"READY_FOR_IMPLEMENTATION", "RETRY_READY"}
     /\ HasBudget(t)
     /\ nxt = "CODE_AGENT_RUNNING"
  \/ /\ e = "DISPATCH_MAINTAINER" /\ t.state = "CONTEXT_MAINTENANCE"
     /\ nxt = "CONTEXT_MAINTENANCE"
  \/ /\ e = "DISPATCH_MANAGER" /\ t.state = "MANAGER_REVIEW"
     /\ nxt = IF t.managed >= MaxManagerInvocations
              THEN "ESCALATED" ELSE "MANAGER_REVIEW"
  \/ e = "AGENT_COMMITTED" /\ t.state = "TEST_AGENT_RUNNING" /\ nxt = "TESTS_COMMITTED"
  \/ e = "AGENT_COMMITTED" /\ t.state = "CODE_AGENT_RUNNING" /\ nxt = "IMPL_COMMITTED"
  \/ e = "MAINTAINER_DONE" /\ t.state = "CONTEXT_MAINTENANCE" /\ nxt = "COMPLETE"
  \/ e = "CI_STARTED" /\ t.state = "TESTS_COMMITTED" /\ nxt = "BASELINE_CI"
  \/ e = "CI_STARTED" /\ t.state = "IMPL_COMMITTED" /\ nxt = "IMPL_CI"
  \/ e = "CI_FAILED_WRONG_REASON" /\ t.state = "BASELINE_CI" /\ nxt = "MANAGER_REVIEW"
  \/ e = "CI_FAILED" /\ t.state = "BASELINE_CI" /\ nxt = "READY_FOR_IMPLEMENTATION"
  \/ /\ e = "CI_PASSED" /\ t.state = "BASELINE_CI"
     /\ nxt = AfterGreenBaseline(t)
  \/ /\ e = "CI_PASSED" /\ t.state = "IMPL_CI"
     /\ nxt = IF t.maintain THEN "CONTEXT_MAINTENANCE" ELSE "COMPLETE"
  \/ e = "CI_FAILED" /\ t.state = "IMPL_CI" /\ nxt = "DISTILLING"
  \/ /\ e = "DISTILLED" /\ t.state = "DISTILLING"
     /\ nxt = IF HasBudget(t) THEN "RETRY_READY" ELSE "MANAGER_REVIEW"
  \/ /\ e = "MANAGER_RETRY" /\ t.state \in {"MANAGER_REVIEW", "ESCALATED"}
     /\ t.maxAttempts + extra <= HardMaxAttempts
     /\ nxt = "RETRY_READY"
  \/ /\ e = "MANAGER_RESCOPE" /\ t.state \in {"MANAGER_REVIEW", "ESCALATED"}
     /\ nxt = "READY"

\* Why a task stopped, as _transition records it for event e.
FailureReason(t, nxt) ==
  IF t.state = "ESCALATED" THEN t.reason
  ELSE IF t.state = "MANAGER_REVIEW" THEN "manager_failed"
  ELSE IF nxt = "ESCALATED" THEN "repeated_failures" ELSE "agent_failed"

ReasonFor(t, e, nxt) ==
  IF nxt \in ClearsEscalation THEN "none"
  ELSE CASE e = "ESCALATE"        -> "escalate"
         [] e = "GUARD_VIOLATION" -> "guard"
         [] e = "INFRA_FAILED"    -> "infra"
         [] e = "AGENT_FAILED"    -> FailureReason(t, nxt)
         [] e = "DISPATCH_MANAGER" /\ nxt = "ESCALATED"  -> "manager_limit"
         [] e = "CI_FAILED_WRONG_REASON"                 -> "wrong_reason"
         [] e = "CI_PASSED" /\ nxt = "MANAGER_REVIEW"    -> "not_red"
         [] e = "DISTILLED" /\ nxt = "MANAGER_REVIEW"    -> "exhausted"
         [] OTHER                 -> t.reason

\* consecutive_failures after event e: AGENT_FAILED counts (not when it is late,
\* in ESCALATED), INFRA_FAILED leaves it, every other event resets it.
FailuresAfter(t, e) ==
  IF e \notin {"AGENT_FAILED", "INFRA_FAILED"} THEN 0
  ELSE IF e = "AGENT_FAILED" /\ t.state # "ESCALATED" THEN t.failures + 1
  ELSE t.failures

\* The attempt counter after event e.
AttemptAfter(t, e) == IF e = "DISPATCH_CODE_AGENT" THEN t.attempt + 1 ELSE t.attempt

\* manager_invocations after event e: counted per dispatch, reset only when a
\* human takes the task out of ESCALATED.
ManagedAfter(t, e) ==
  CASE e = "DISPATCH_MANAGER" /\ t.managed < MaxManagerInvocations -> t.managed + 1
    [] e \in {"MANAGER_RETRY", "MANAGER_RESCOPE"} /\ t.state = "ESCALATED" -> 0
    [] OTHER -> t.managed

\* What advance returns once the table has named the next state.
Moved(t, e, extra, nxt) ==
  [state       |-> nxt,
   control     |-> t.control,
   mode        |-> t.mode,
   attempt     |-> AttemptAfter(t, e),
   maxAttempts |-> IF e = "MANAGER_RETRY" THEN t.maxAttempts + extra ELSE t.maxAttempts,
   requireRed  |-> t.requireRed,
   maintain    |-> t.maintain,
   failures    |-> FailuresAfter(t, e),
   managed     |-> ManagedAfter(t, e),
   reason      |-> ReasonFor(t, e, nxt),
   last        |-> e,
   hops        |-> IF t.hops > MaxTransitions THEN t.hops ELSE t.hops + 1,
   dispatched  |-> IF e \in Dispatches /\ nxt # "ESCALATED" THEN e ELSE t.dispatched]

\* The states advance can reach by e: empty when it raises, else one.
Reached(t, e, extra) == {nxt \in States : Admits(t, e) /\ Leads(t, e, extra, nxt)}

\* advance() as a function: the set of its results, empty when it raises.
Advance(t, e, extra) == {Moved(t, e, extra, nxt) : nxt \in Reached(t, e, extra)}

\* cmd_state_advance: a CI_FAILED on a baseline that must be red is replaced by
\* CI_FAILED_WRONG_REASON unless ciresult.baseline_verdict accepts the failure.
Classified(t, e, rightReason) ==
  IF e = "CI_FAILED" /\ t.state = "BASELINE_CI" /\ t.requireRed /\ ~rightReason
  THEN "CI_FAILED_WRONG_REASON" ELSE e

\* set_control
SetControl(t, c) == [t EXCEPT !.control = c]

-----------------------------------------------------------------------------
(* orchestrator.next_action *)

ActionKinds ==
  {"cancel", "halt", "validate", "dispatch_agent", "run_ci", "await_agent",
   "await_ci", "distill"}

HaltsWithoutCeiling(t) ==
  \/ t.control = "PAUSE"
  \/ t.state \in Terminal \cup {"ESCALATED"}
  \/ t.mode = "hand"

\* Terminal, gated on a human, or over the transition ceiling.
Halts(t) ==
  \/ t.control = "PAUSE"
  \/ t.hops > MaxTransitions
  \/ t.state \in Terminal \cup {"ESCALATED"}
  \/ t.mode = "hand"

NextKind(t) ==
  IF t.control = "CANCEL" THEN "cancel"
  ELSE IF Halts(t) THEN "halt"
  ELSE CASE t.state = "DRAFT"      -> "validate"
         [] t.state = "DISTILLING" -> "distill"
         [] t.state \in {"READY", "READY_FOR_IMPLEMENTATION", "RETRY_READY",
                         "MANAGER_REVIEW", "CONTEXT_MAINTENANCE"} -> "dispatch_agent"
         [] t.state \in {"TEST_AGENT_RUNNING", "CODE_AGENT_RUNNING"} -> "await_agent"
         [] t.state \in {"TESTS_COMMITTED", "IMPL_COMMITTED"} -> "run_ci"
         [] t.state \in {"BASELINE_CI", "IMPL_CI"} -> "await_ci"
         [] OTHER                  -> "halt"

\* The event the orchestrator applies before it dispatches (_ACTIONS), and the
\* role the worker is dispatched for.
DispatchEvent(t) ==
  CASE t.state = "READY" -> "DISPATCH_TEST_AGENT"
    [] t.state \in {"READY_FOR_IMPLEMENTATION", "RETRY_READY"} -> "DISPATCH_CODE_AGENT"
    [] t.state = "MANAGER_REVIEW" -> "DISPATCH_MANAGER"
    [] t.state = "CONTEXT_MAINTENANCE" -> "DISPATCH_MAINTAINER"
    [] t.state \in {"TESTS_COMMITTED", "IMPL_COMMITTED"} -> "CI_STARTED"

Roles == {"test_agent", "code_agent", "manager", "context_maintainer"}

RoleOf(e) ==
  CASE e = "DISPATCH_TEST_AGENT" -> "test_agent"
    [] e = "DISPATCH_CODE_AGENT" -> "code_agent"
    [] e = "DISPATCH_MANAGER"    -> "manager"
    [] e = "DISPATCH_MAINTAINER" -> "context_maintainer"
=============================================================================
