------------------------------- MODULE Runner -------------------------------
(***************************************************************************)
(* One evaluation run: Runner.run of runner/runner.py, its tool executor   *)
(* and its concurrency hook, around the agent of ReferenceAgent.           *)
(*                                                                         *)
(* The world may crash at any time, any request to it may time out, the    *)
(* verifier may raise, the stores may fail and the run may be cancelled.   *)
(* One action is the code between two awaits that suspend.                 *)
(***************************************************************************)
EXTENDS ReferenceAgent

CONSTANT Concurrent    (* does the task stage a human edit                  *)

ASSUME RunnerAssumption == Concurrent \in BOOLEAN

VARIABLES
  stage,                 (* where Runner.run is                             *)
  world,                 (* the world process                               *)
  lost,                  (* it went down under the agent                    *)
  executing,             (* what the executor is at                         *)
  fired,                 (* the concurrency hook's flag                     *)
  infrastructure_error,  (* the executor's                                  *)
  unreachable,           (* a tool call got no answer from the world        *)
  verdict,               (* the rollout's verification                      *)
  status,                (* the rollout's status                            *)
  manifest               (* of the stored run: its status, and how many     *)
                         (* events its trajectory has                       *)

runner == <<stage, world, lost, executing, fired, infrastructure_error, unreachable,
            verdict, status, manifest>>
vars == <<agent, runner>>

(* The agent's variables but for the events.                               *)
loop == <<pc, elapsed, counters, exceeded, had_tool_error, calls, messages, result>>
outcome == <<verdict, status, manifest>>

Verdicts == {"passed", "partial", "failed"}
NotStored == [status |-> "none", size |-> 0]

----------------------------------------------------------------------------
(* The exception handlers of Runner.run, behind the session's `finally`.   *)

abort(why) ==
  /\ stage' = "completing" /\ status' = why /\ verdict' = "not_run"
  /\ world' = IF world = "up" THEN "stopped" ELSE world
  /\ UNCHANGED manifest

EnvironmentFails ==
  /\ stage \in {"resolving", "starting", "building"}
  /\ abort("environment_error")
  /\ UNCHANGED <<agent, lost, executing, fired, infrastructure_error, unreachable>>

ResolveSnapshot ==
  /\ stage = "resolving" /\ stage' = "starting"
  /\ UNCHANGED <<agent, world, lost, executing, fired, infrastructure_error, unreachable, outcome>>

(* world_session: the world is started and restored.                       *)
StartWorld ==
  /\ stage = "starting" /\ stage' = "building" /\ world' = "up"
  /\ UNCHANGED <<agent, lost, executing, fired, infrastructure_error, unreachable, outcome>>

BuildExecutor ==
  /\ stage = "building" /\ stage' = "agent"
  /\ UNCHANGED <<agent, world, lost, executing, fired, infrastructure_error, unreachable, outcome>>

----------------------------------------------------------------------------
(* The agent, and the executor that makes its tool calls.                  *)

AgentThinks == stage = "agent" /\ Think /\ UNCHANGED runner

(* execute: a tool that exists is a request to the world.                  *)
ExecuteTool(known) ==
  /\ stage = "agent"
  /\ CallTool(IF known THEN <<"world.api.request">> ELSE << >>)
  /\ executing' = IF pc' # "tool" THEN "nothing" ELSE IF known THEN "request" ELSE "unknown"
  /\ UNCHANGED <<stage, world, lost, fired, infrastructure_error, unreachable, outcome>>

UnknownTool ==
  /\ stage = "agent" /\ executing = "unknown"
  /\ ToolReturns(TRUE, << >>)
  /\ executing' = "nothing"
  /\ UNCHANGED <<stage, world, lost, fired, infrastructure_error, unreachable, outcome>>

(* The world answers; `refused` is a 4xx, which the tool raises.           *)
WorldAnswers(refused) ==
  /\ stage = "agent" /\ executing = "request" /\ world = "up"
  /\ ToolReturns(refused, <<"world.api.response">>)
  /\ executing' = "nothing"
  /\ UNCHANGED <<stage, world, lost, fired, infrastructure_error, unreachable, outcome>>

(* A timeout or a broken connection: to the executor, an error like any.   *)
WorldUnreachable ==
  /\ stage = "agent" /\ executing = "request"
  /\ ToolReturns(TRUE, <<"world.api.response">>)
  /\ executing' = "nothing" /\ unreachable' = TRUE
  /\ UNCHANGED <<stage, world, lost, fired, infrastructure_error, outcome>>

(* Mutant: the flag is set when the edit has come back.                    *)
ReadFiresHookUnflagged ==
  /\ stage = "agent" /\ executing = "request" /\ world = "up"
  /\ Concurrent /\ ~fired
  /\ executing' = "editing"
  /\ emit(<<"control.request">>)
  /\ UNCHANGED <<loop, stage, world, lost, fired, infrastructure_error, unreachable, outcome>>

(* The page to be raced for has been read: the hook sends the human edit.  *)
ReadFiresHook ==
  /\ stage = "agent" /\ executing = "request" /\ world = "up"
  /\ Concurrent /\ ~fired
  /\ fired' = TRUE /\ executing' = "editing"
  /\ emit(<<"control.request">>)
  /\ UNCHANGED <<loop, stage, world, lost, infrastructure_error, unreachable, outcome>>

EditAnswers ==
  /\ stage = "agent" /\ executing = "editing" /\ world = "up"
  /\ ToolReturns(FALSE, <<"control.response", "world.api.response">>)
  /\ executing' = "nothing"
  /\ UNCHANGED <<stage, world, lost, fired, infrastructure_error, unreachable, outcome>>

(* It is refused, times out or finds no world: the page was read, but the  *)
(* agent is told of an error, and the run will not be scored.              *)
EditFails ==
  /\ stage = "agent" /\ executing = "editing"
  /\ ToolReturns(TRUE, <<"world.api.response">>)
  /\ executing' = "nothing" /\ infrastructure_error' = TRUE
  /\ UNCHANGED <<stage, world, lost, fired, unreachable, outcome>>

----------------------------------------------------------------------------
(* The end of the session.                                                 *)

TakeSnapshot ==
  /\ stage = "agent" /\ pc = "done"
  /\ ~infrastructure_error /\ world = "up"
  /\ world' = "stopped" /\ stage' = "judging"
  /\ UNCHANGED <<agent, lost, executing, fired, infrastructure_error, unreachable, outcome>>

(* Mutant: without a final snapshot, the run is judged by what it has.     *)
JudgeWithoutSnapshot ==
  /\ stage = "agent" /\ pc \in {"done", "raised"}
  /\ IF pc = "raised"
     THEN abort("environment_error")
     ELSE /\ stage' = "judging"
          /\ world' = IF world = "up" THEN "stopped" ELSE world
          /\ UNCHANGED outcome
  /\ UNCHANGED <<agent, lost, executing, fired, infrastructure_error, unreachable>>

(* Mutant: what the agent's run raises is not expected.                    *)
SessionFailsUnlessRaised ==
  /\ stage = "agent" /\ pc = "done"
  /\ abort("environment_error")
  /\ UNCHANGED <<agent, lost, executing, fired, infrastructure_error, unreachable>>

(* The agent raised, the hook had failed, or there is no final snapshot.   *)
SessionFails ==
  /\ stage = "agent" /\ pc \in {"done", "raised"}
  /\ abort("environment_error")
  /\ UNCHANGED <<agent, lost, executing, fired, infrastructure_error, unreachable>>

(* Mutant: the verdict is taken for a status.                              *)
StatusIsVerdict(v) == v

(* A score above zero makes a failed verification a partial success.       *)
StatusAfterVerification(v) ==
  CASE v = "passed" -> "pass" [] v = "partial" -> "partial" [] OTHER -> "task_fail"

(* Mutant: every run is verified, and takes the verdict's status.          *)
JudgeEveryRun(v) ==
  /\ stage = "judging"
  /\ verdict' = v /\ emit(<<"verification.completed">>)
  /\ status' = StatusAfterVerification(v)
  /\ stage' = "completing"
  /\ UNCHANGED <<loop, world, lost, executing, fired, infrastructure_error, unreachable, manifest>>

(* The runs that came to an answer are verified; a tool error stays one.   *)
Judge(v) ==
  /\ stage = "judging"
  /\ IF result \in {"pass", "tool_error"}
     THEN /\ verdict' = v /\ emit(<<"verification.completed">>)
          /\ status' = IF result = "pass" THEN StatusAfterVerification(v) ELSE "tool_error"
     ELSE status' = result /\ UNCHANGED <<verdict, events>>
  /\ stage' = "completing"
  /\ UNCHANGED <<loop, world, lost, executing, fired, infrastructure_error, unreachable, manifest>>

VerifierFails ==
  /\ stage = "judging" /\ result \in {"pass", "tool_error"}
  /\ abort("verifier_error")
  /\ UNCHANGED <<agent, lost, executing, fired, infrastructure_error, unreachable>>

(* Mutant: the trajectory is stored before the run's last event.           *)
StoreThenComplete ==
  /\ stage = "completing" /\ stage' = "indexing"
  /\ manifest' = [status |-> status, size |-> Len(events)]
  /\ emit(<<"run.completed">>)
  /\ UNCHANGED <<loop, world, lost, executing, fired, infrastructure_error, unreachable, verdict, status>>

(* The last event, and store_run.                                          *)
Complete ==
  /\ stage = "completing" /\ stage' = "indexing"
  /\ emit(<<"run.completed">>)
  /\ manifest' = [status |-> status, size |-> Len(events')]
  /\ UNCHANGED <<loop, world, lost, executing, fired, infrastructure_error, unreachable, verdict, status>>

(* store_run raises, and so does Runner.run.                               *)
StoreFails ==
  /\ stage = "completing" /\ stage' = "raised"
  /\ emit(<<"run.completed">>)
  /\ UNCHANGED <<loop, world, lost, executing, fired, infrastructure_error, unreachable, outcome>>

(* The index row, if there is an index, and the rollout.                   *)
Return ==
  /\ stage = "indexing" /\ stage' \in {"returned", "raised"}
  /\ UNCHANGED <<agent, world, lost, executing, fired, infrastructure_error, unreachable, outcome>>

----------------------------------------------------------------------------
(* What happens to a run.                                                  *)

WorldCrashes ==
  /\ world = "up"
  /\ world' = "crashed" /\ lost' = TRUE
  /\ UNCHANGED <<agent, stage, executing, fired, infrastructure_error, unreachable, outcome>>

(* CancelledError passes all handlers but the session's `finally`.         *)
Cancelled ==
  /\ stage \in {"starting", "building", "agent", "judging", "indexing"}
  /\ stage' = "raised"
  /\ world' = IF world = "up" THEN "stopped" ELSE world
  /\ UNCHANGED <<agent, lost, executing, fired, infrastructure_error, unreachable, outcome>>

TimePasses == stage # "raised" /\ Tick /\ UNCHANGED runner

----------------------------------------------------------------------------
RunnerInit ==
  /\ AgentInit
  /\ events = << [type |-> "run.started", size |-> 0] >>
  /\ stage = "resolving" /\ world = "down" /\ lost = FALSE
  /\ executing = "nothing" /\ fired = FALSE
  /\ infrastructure_error = FALSE /\ unreachable = FALSE
  /\ verdict = "not_run" /\ status = "environment_error"
  /\ manifest = NotStored

Proceed ==
  \/ EnvironmentFails \/ ResolveSnapshot \/ StartWorld \/ BuildExecutor
  \/ AgentThinks
  \/ \E known \in BOOLEAN : ExecuteTool(known)
  \/ UnknownTool
  \/ \E refused \in BOOLEAN : WorldAnswers(refused)
  \/ WorldUnreachable
  \/ ReadFiresHook \/ EditAnswers \/ EditFails
  \/ TakeSnapshot \/ SessionFails
  \/ \E v \in Verdicts : Judge(v)
  \/ VerifierFails \/ Complete \/ StoreFails \/ Return

RunnerNext == Proceed \/ WorldCrashes \/ Cancelled \/ TimePasses

(* Every await of a run ends: each request to the model and to the world   *)
(* has a timeout, and the stores and the verifier do not wait for anyone.  *)
RunnerSpec == RunnerInit /\ [][RunnerNext]_vars /\ WF_vars(Proceed)

----------------------------------------------------------------------------
(* Properties.                                                             *)

RunnerTypeOK ==
  /\ TypeOK
  /\ stage \in {"resolving", "starting", "building", "agent", "judging", "completing",
                "indexing", "returned", "raised"}
  /\ world \in {"down", "up", "crashed", "stopped"}
  /\ executing \in {"nothing", "request", "unknown", "editing"}
  /\ lost \in BOOLEAN /\ fired \in BOOLEAN
  /\ infrastructure_error \in BOOLEAN /\ unreachable \in BOOLEAN
  /\ verdict \in Verdicts \cup {"not_run"}
  /\ status \in Statuses \cup {"partial", "task_fail", "environment_error", "verifier_error"}
  /\ manifest \in [status: {"none"} \cup Statuses \cup
                     {"partial", "task_fail", "environment_error", "verifier_error"}, size: Nat]

Decided == stage \in {"completing", "indexing", "returned"}

(* A world that crashed under the agent, or could not stage the human      *)
(* edit, is never held against the package, whatever the agent made of it: *)
(* an error, a timeout, a budget used up, or a proud final answer.         *)
CrashNotCharged ==
  (Decided /\ (lost \/ infrastructure_error))
    => status = "environment_error" /\ verdict = "not_run"

(* The race the task stages is run once or the run is not scored: the edit *)
(* is sent at most once, and no verdict is given on a run whose edit was   *)
(* sent and never came back.                                               *)
RaceStagedOnce ==
  LET sent == Cardinality(Recorded({"control.request"}))
      came == Cardinality(Recorded({"control.response"}))
  IN /\ sent <= 1
     /\ verdict # "not_run" => came = sent

(* The three records of a stored run agree: the manifest has the rollout's *)
(* status, the stored trajectory begins and ends where the run did, and it *)
(* holds a verdict exactly when the rollout does.                          *)
RecordsAgree ==
  stage \in {"indexing", "returned"} =>
    /\ manifest.status = status
    /\ Recorded({"run.started"}) = {1}
    /\ Recorded({"run.completed"}) = {manifest.size}
    /\ manifest.size = Len(events)
    /\ Cardinality(Recorded({"verification.completed"})) = (IF verdict = "not_run" THEN 0 ELSE 1)

(* A score is earned: `pass` means that the agent gave its answer without  *)
(* any tool error and was verified; a run that was cut short by a budget,  *)
(* or that failed, has no verdict at all.                                  *)
VerdictsAreEarned ==
  Decided =>
    /\ status = "pass" => /\ verdict = "passed"
                          /\ Recorded({"tool.error", "agent.error"}) = {}
    /\ status \in {"partial", "task_fail"} => result = "pass"
    /\ verdict # "not_run" => Recorded({"agent.completed"}) # {}

(* Every run ends, with its world stopped or crashed.                      *)
RunEnds == <>[](stage \in {"returned", "raised"} /\ world # "up")

(* The human edit, by what the trajectory has of it.                       *)
staged_edit ==
  LET sent == Cardinality(Recorded({"control.request"}))
      came == Cardinality(Recorded({"control.response"}))
  IN CASE sent = 0 /\ came = 0 -> "unsent"
       [] sent = 1 /\ came = 0 -> IF executing = "editing" THEN "sent" ELSE "failed"
       [] sent = 1 /\ came = 1 -> "taken"
       [] OTHER -> "repeated"

Promise ==
  INSTANCE Evaluation WITH
    world <- IF stage = "judging" THEN "captured" ELSE world,
    edit <- staged_edit,
    outcome <- IF Decided THEN [status |-> status, verdict |-> verdict]
                          ELSE [status |-> "none", verdict |-> "none"],
    record <- manifest.status,
    answer <- IF stage \in {"returned", "raised"} THEN stage ELSE "none"

(* A run, with its agent, executor, hook, recorder and handlers, is an     *)
(* evaluation: the world is up once, the edit is sent once and made or the *)
(* run is not scored, the outcome is decided once, by the final state or   *)
(* as the environment's fault, and is what is stored and returned.         *)
ImplementsEvaluation == Promise!Spec

(* SPEC section 67: environmental failures are never attributed to the     *)
(* package. A run that lost a tool call to the world's silence is an       *)
(* environment error.                                                      *)
SilenceNotCharged ==
  (Decided /\ unreachable) => status = "environment_error"
=============================================================================
