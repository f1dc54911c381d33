---------------------------- MODULE RunnerProofs ----------------------------
(***************************************************************************)
(* Proofs about an evaluation run, for any budgets and whether or not its  *)
(* task stages a human edit.                                               *)
(***************************************************************************)
EXTENDS Runner, ReferenceAgentProofs

----------------------------------------------------------------------------
(* The invariant.                                                          *)

(* Where a run is, and what cannot have happened to it yet.                *)
Placed ==
  /\ stage \in {"resolving", "starting"} => world = "down"
  /\ stage \in {"resolving", "starting", "building"} => pc = "idle"
  /\ stage = "judging" => pc = "done" /\ ~lost /\ ~infrastructure_error /\ world = "stopped"
  /\ world = "up" => stage \in {"building", "agent"}
  /\ lost => world = "crashed"
  /\ executing # "nothing" <=> pc = "tool"
  /\ stage \in {"resolving", "starting", "building", "agent", "judging"} => verdict = "not_run"
  /\ verdict # "not_run" => pc = "done" /\ ~infrastructure_error

Sent == Cardinality(Recorded({"control.request"}))
Came == Cardinality(Recorded({"control.response"}))

(* The staged edit is sent when the flag is set, and answered or failed    *)
(* when the executor is done with it.                                      *)
RaceOK ==
  /\ Sent = IF fired THEN 1 ELSE 0
  /\ ~fired => executing # "editing" /\ ~infrastructure_error
  /\ executing = "editing" => ~infrastructure_error
  /\ Came = IF fired /\ executing # "editing" /\ ~infrastructure_error THEN 1 ELSE 0

(* What is recorded of the run itself, and what the manifest says of it.   *)
TrajectoryOK ==
  /\ Recorded({"run.started"}) = {1}
  /\ stage \notin {"indexing", "returned", "raised"} =>
       Recorded({"run.completed"}) = {} /\ manifest.status = "none"
  /\ stage \in {"indexing", "returned"} =>
       /\ Recorded({"run.completed"}) = {Len(events)}
       /\ manifest = [status |-> status, size |-> Len(events)]
  /\ Cardinality(Recorded({"verification.completed"})) = IF verdict = "not_run" THEN 0 ELSE 1

RunnerInv ==
  /\ AgentInv /\ RunnerTypeOK
  /\ Placed /\ RaceOK /\ TrajectoryOK
  /\ CrashNotCharged /\ VerdictsAreEarned

----------------------------------------------------------------------------
(* The recorder.                                                           *)

LoopTypes == {"agent.started", "model.request", "model.response", "tool.call", "tool.result",
              "tool.error", "agent.error", "agent.completed"}

(* What the loop and its executor do not record.                           *)
LEMMA LoopRecords ==
  ASSUME AgentInv, NEW W \in SUBSET WorldTypes, NEW T, T \cap (W \cup LoopTypes) = {},
         \/ Think
         \/ \E recorded \in Seq(W) :
              CallTool(recorded) \/ \E failed \in BOOLEAN : ToolReturns(failed, recorded)
  PROVE  Recorded(T)' = Recorded(T)
<1>1. events \in Seq(Event) /\ messages \in Seq(Message) /\ LoopTypes \subseteq Types
  BY DEF AgentInv, TypeOK, LoopTypes, Types
<1>2. ASSUME NEW type \in LoopTypes, emit(<<type>>)
      PROVE  Recorded(T)' = Recorded(T)
  BY <1>1, <1>2, EmitOne
<1>3. CASE emit(<<"model.response", "agent.completed">>)
  BY <1>1, <1>3, FinishRecords DEF LoopTypes
<1>4. ASSUME NEW recorded \in Seq(W), emit(<<"tool.call">> \o recorded)
      PROVE  Recorded(T)' = Recorded(T)
  <2>1. (W \cup {"tool.call"}) \cap T = {}
    BY DEF LoopTypes
  <2> QED BY <1>1, <1>4, <2>1, DispatchRecords
<1>5. ASSUME NEW recorded \in Seq(W), NEW failed \in BOOLEAN, emit(recorded \o ToolEvents(failed))
      PROVE  Recorded(T)' = Recorded(T)
  <2>1. (W \cup {"tool.result", "tool.error"}) \cap T = {}
    BY DEF LoopTypes
  <2> QED BY <1>1, <1>5, <2>1, ReturnRecords
<1>6. CASE UNCHANGED events
  BY <1>6 DEF Recorded
<1>7. CASE Think
  <2>1. \/ UNCHANGED events \/ emit(<<"agent.started">>) \/ emit(<<"agent.error">>)
        \/ emit(<<"model.request">>) \/ emit(<<"model.response">>)
        \/ emit(<<"model.response", "agent.completed">>)
    BY <1>7 DEF Think, BuildPromptFails, Begin, RequestModel, ModelAnswers, ModelFails, Exceed, Fail
  <2> QED BY <1>2, <1>3, <1>6, <2>1 DEF LoopTypes
<1>8. ASSUME NEW recorded \in Seq(W), CallTool(recorded)
      PROVE  Recorded(T)' = Recorded(T)
  <2>1. emit(<<"agent.error">>) \/ emit(<<"tool.call">> \o recorded)
    BY <1>8 DEF CallTool, Exceed
  <2> QED BY <1>2, <1>4, <2>1 DEF LoopTypes
<1>9. ASSUME NEW recorded \in Seq(W), NEW failed \in BOOLEAN, ToolReturns(failed, recorded)
      PROVE  Recorded(T)' = Recorded(T)
  BY <1>5, <1>9 DEF ToolReturns
<1> QED BY <1>7, <1>8, <1>9

OuterTypes == {"control.request", "verification.completed", "run.completed"}

(* What the runner records does not concern the loop.                      *)
LEMMA OuterKeeps ==
  ASSUME AgentInv, UNCHANGED loop, NEW type \in OuterTypes, emit(<<type>>)
  PROVE  AgentInv'
<1>1. UNCHANGED <<pc, elapsed, model_turns, tool_calls, tokens, exceeded, had_tool_error, calls,
                  messages, result>>
  BY DEF loop, counters
<1>2. events' \in Seq(Event) /\ \A T : type \notin T => Recorded(T)' = Recorded(T)
  BY EmitOne DEF AgentInv, TypeOK, OuterTypes, Types
<1>3. /\ Recorded({"model.request"})' = Recorded({"model.request"})
      /\ Recorded({"tool.call"})' = Recorded({"tool.call"})
      /\ Recorded({"tool.result"})' = Recorded({"tool.result"})
      /\ Recorded({"tool.error"})' = Recorded({"tool.error"})
      /\ Recorded({"agent.completed"})' = Recorded({"agent.completed"})
      /\ Recorded({"agent.error"})' = Recorded({"agent.error"})
  BY <1>2 DEF OuterTypes
<1>4. TypeOK' /\ Busy' /\ Undecided' /\ BudgetOutcomesDistinct'
  BY <1>1, <1>2 DEF AgentInv, TypeOK, Within, Busy, Undecided, BudgetOutcomesDistinct
<1>5. MetricsMatchTrajectory' /\ FailuresRecorded' /\ EndRecorded'
  BY <1>1, <1>3 DEF AgentInv, MetricsMatchTrajectory, FailuresRecorded, EndRecorded
<1>6. ConversationOK'
  BY <1>1 DEF AgentInv, ConversationOK, Awaiting, Answered, Owed
<1> QED BY <1>4, <1>5, <1>6 DEF AgentInv

----------------------------------------------------------------------------
(* Steps while the agent works.                                            *)

(* They touch the executor, and leave the rest of the run as it is.        *)
LEMMA WorkingKeeps ==
  ASSUME RunnerInv, stage = "agent", AgentInv',
         UNCHANGED <<stage, world, lost, verdict, status, manifest>>,
         executing' \in {"nothing", "request", "unknown", "editing"},
         fired' \in BOOLEAN, infrastructure_error' \in BOOLEAN, unreachable' \in BOOLEAN,
         executing' # "nothing" <=> pc' = "tool",
         RaceOK',
         Recorded({"run.started"})' = Recorded({"run.started"}),
         Recorded({"run.completed"})' = Recorded({"run.completed"}),
         Recorded({"verification.completed"})' = Recorded({"verification.completed"})
  PROVE  RunnerInv'
<1>1. RunnerTypeOK'
  BY DEF RunnerInv, RunnerTypeOK, AgentInv
<1>2. Placed'
  BY DEF RunnerInv, Placed
<1>3. TrajectoryOK'
  BY DEF RunnerInv, TrajectoryOK
<1>4. CrashNotCharged' /\ VerdictsAreEarned'
  BY DEF CrashNotCharged, VerdictsAreEarned, Decided
<1> QED BY <1>1, <1>2, <1>3, <1>4 DEF RunnerInv

(* The loop's own steps, and the executor's that are not about the edit.   *)
LEMMA LoopStepKeeps ==
  ASSUME AgentAssumption, RunnerInv, stage = "agent",
         \/ Think
         \/ \E recorded \in Seq({"world.api.request", "world.api.response"}) :
              CallTool(recorded) \/ \E failed \in BOOLEAN : ToolReturns(failed, recorded),
         UNCHANGED <<stage, world, lost, fired, verdict, status, manifest>>,
         executing' \in {"nothing", "request", "unknown"},
         executing' # "nothing" <=> pc' = "tool",
         unreachable' \in BOOLEAN,
         infrastructure_error' \in BOOLEAN,
         infrastructure_error' <=> infrastructure_error \/ executing = "editing"
  PROVE  RunnerInv'
<1> DEFINE W == {"world.api.request", "world.api.response"}
<1>1. W \in SUBSET WorldTypes /\ Seq(W) \subseteq Seq(WorldTypes)
  BY DEF WorldTypes
<1>2. AgentMoves
  BY <1>1 DEF AgentMoves
<1>3. AgentInv'
  BY <1>2, AgentMovesKeep DEF RunnerInv
<1>4. ASSUME NEW T, T \cap (W \cup LoopTypes) = {}
      PROVE  Recorded(T)' = Recorded(T)
  BY <1>1, <1>4, LoopRecords DEF RunnerInv
<1>5. /\ Recorded({"control.request"})' = Recorded({"control.request"})
      /\ Recorded({"control.response"})' = Recorded({"control.response"})
      /\ Recorded({"run.started"})' = Recorded({"run.started"})
      /\ Recorded({"run.completed"})' = Recorded({"run.completed"})
      /\ Recorded({"verification.completed"})' = Recorded({"verification.completed"})
  BY <1>4 DEF LoopTypes
<1>6. Sent' = Sent /\ Came' = Came
  BY <1>5 DEF Sent, Came
<1>7. RaceOK'
  BY <1>6 DEF RunnerInv, RaceOK
<1>8. fired' \in BOOLEAN
  BY DEF RunnerInv, RunnerTypeOK
<1> QED BY <1>3, <1>5, <1>7, <1>8, WorkingKeeps

LEMMA ExecutorKeeps ==
  ASSUME AgentAssumption, RunnerInv,
         \/ AgentThinks \/ UnknownTool \/ WorldUnreachable \/ EditFails
         \/ \E known \in BOOLEAN : ExecuteTool(known)
         \/ \E refused \in BOOLEAN : WorldAnswers(refused)
  PROVE  RunnerInv'
<1> DEFINE W == {"world.api.request", "world.api.response"}
<1>1. << >> \in Seq(W) /\ <<"world.api.request">> \in Seq(W) /\ <<"world.api.response">> \in Seq(W)
  OBVIOUS
<1>2. /\ executing \in {"nothing", "request", "unknown", "editing"} /\ unreachable \in BOOLEAN
      /\ infrastructure_error \in BOOLEAN
      /\ executing # "nothing" <=> pc = "tool"
  BY DEF RunnerInv, RunnerTypeOK, Placed
<1> DEFINE Working == /\ stage = "agent"
                      /\ UNCHANGED <<stage, world, lost, fired, verdict, status, manifest>>
<1>3. CASE AgentThinks
  <2>1. Working /\ Think /\ UNCHANGED <<executing, unreachable, infrastructure_error>>
    BY <1>3 DEF AgentThinks, runner
  <2>2. executing = "nothing" /\ pc' # "tool"
    <3>1. pc # "tool" /\ pc' # "tool"
      BY <2>1 DEF Think, BuildPromptFails, Begin, RequestModel, ModelAnswers, ModelFails, Exceed, Fail
    <3> QED BY <1>2, <3>1
  <2> QED BY <1>2, <2>1, <2>2, LoopStepKeeps
<1>4. ASSUME NEW known \in BOOLEAN, ExecuteTool(known)
      PROVE  RunnerInv'
  <2>1. Working /\ UNCHANGED <<unreachable, infrastructure_error>>
        /\ executing' = IF pc' # "tool" THEN "nothing" ELSE IF known THEN "request" ELSE "unknown"
    BY <1>4 DEF ExecuteTool, outcome
  <2>2. \E recorded \in Seq(W) : CallTool(recorded)
    BY <1>1, <1>4 DEF ExecuteTool
  <2>3. executing = "nothing"
    BY <1>2, <2>2 DEF CallTool
  <2> QED BY <1>2, <2>1, <2>2, <2>3, LoopStepKeeps
<1>5. ASSUME NEW recorded \in Seq(W), NEW failed \in BOOLEAN, ToolReturns(failed, recorded), Working,
             executing' = "nothing", unreachable' \in BOOLEAN, infrastructure_error' \in BOOLEAN,
             infrastructure_error' <=> infrastructure_error \/ executing = "editing"
      PROVE  RunnerInv'
  <2>1. pc' # "tool"
    BY <1>5 DEF ToolReturns
  <2> QED BY <1>5, <2>1, LoopStepKeeps
<1>6. CASE UnknownTool
  BY <1>1, <1>2, <1>5, <1>6 DEF UnknownTool, outcome
<1>7. ASSUME NEW refused \in BOOLEAN, WorldAnswers(refused)
      PROVE  RunnerInv'
  BY <1>1, <1>2, <1>5, <1>7 DEF WorldAnswers, outcome
<1>8. CASE WorldUnreachable
  BY <1>1, <1>2, <1>5, <1>8 DEF WorldUnreachable, outcome
<1>9. CASE EditFails
  BY <1>1, <1>2, <1>5, <1>9 DEF EditFails, outcome
<1> QED BY <1>3, <1>4, <1>6, <1>7, <1>8, <1>9

(* The flag goes up with the edit: none is sent when it is up.             *)
LEMMA ReadFiresKeeps ==
  ASSUME RunnerInv, ReadFiresHook
  PROVE  RunnerInv'
<1>1. /\ stage = "agent" /\ executing = "request" /\ executing' = "editing" /\ ~fired /\ fired'
      /\ emit(<<"control.request">>)
      /\ UNCHANGED <<pc, stage, world, lost, infrastructure_error, unreachable, verdict, status, manifest>>
      /\ UNCHANGED loop
  BY DEF ReadFiresHook, loop, outcome
<1>2. AgentInv'
  BY <1>1, OuterKeeps DEF RunnerInv, OuterTypes
<1>3. /\ \A T : "control.request" \notin T => Recorded(T)' = Recorded(T)
      /\ Cardinality(Recorded({"control.request"}))' = Cardinality(Recorded({"control.request"})) + 1
  BY <1>1, EmitOne DEF RunnerInv, AgentInv, TypeOK, Types
<1>4. Sent' = Sent + 1 /\ Came' = Came
  <2>1. Recorded({"control.response"})' = Recorded({"control.response"})
    BY <1>3
  <2> QED BY <1>3, <2>1 DEF Sent, Came
<1>5. RaceOK'
  <2>1. Sent = 0 /\ Came = 0 /\ ~infrastructure_error
    BY <1>1 DEF RunnerInv, RaceOK
  <2> QED BY <1>1, <1>4, <2>1 DEF RaceOK
<1>6. /\ Recorded({"run.started"})' = Recorded({"run.started"})
      /\ Recorded({"run.completed"})' = Recorded({"run.completed"})
      /\ Recorded({"verification.completed"})' = Recorded({"verification.completed"})
  BY <1>3
<1>7. pc' = "tool" /\ fired' \in BOOLEAN /\ infrastructure_error' \in BOOLEAN /\ unreachable' \in BOOLEAN
  BY <1>1 DEF ReadFiresHook, RunnerInv, RunnerTypeOK, Placed
<1> QED BY <1>1, <1>2, <1>5, <1>6, <1>7, WorkingKeeps

LEMMA EditAnswersKeeps ==
  ASSUME AgentAssumption, RunnerInv, EditAnswers
  PROVE  RunnerInv'
<1> DEFINE recorded == <<"control.response", "world.api.response">>
<1>1. /\ stage = "agent" /\ executing = "editing" /\ executing' = "nothing"
      /\ ToolReturns(FALSE, recorded)
      /\ UNCHANGED <<stage, world, lost, fired, infrastructure_error, unreachable, verdict, status, manifest>>
  BY DEF EditAnswers, outcome
<1>2. recorded \in Seq(WorldTypes)
  BY DEF WorldTypes
<1>3. AgentInv'
  BY <1>1, <1>2, AgentMovesKeep DEF RunnerInv, AgentMoves
<1>4. /\ Recorded({"control.request"})' = Recorded({"control.request"})
      /\ Recorded({"run.started"})' = Recorded({"run.started"})
      /\ Recorded({"run.completed"})' = Recorded({"run.completed"})
      /\ Recorded({"verification.completed"})' = Recorded({"verification.completed"})
  <2>1. ASSUME NEW T, T \cap (WorldTypes \cup LoopTypes) = {}
        PROVE  Recorded(T)' = Recorded(T)
    BY <1>1, <1>2, <2>1, LoopRecords DEF RunnerInv
  <2> QED BY <2>1 DEF WorldTypes, LoopTypes
<1>5. Came' = Came + 1
  <2> DEFINE last == <<"tool.result">>
             types == recorded \o last
  <2>1. emit(types)
    BY <1>1 DEF ToolReturns, ToolEvents
  <2>2. /\ recorded \in Seq(Types) /\ Len(recorded) = 2
        /\ recorded[1] = "control.response" /\ recorded[2] = "world.api.response"
        /\ last \in Seq(Types) /\ Len(last) = 1 /\ last[1] = "tool.result"
    BY DEF Types
  <2> HIDE DEF recorded, last
  <2>3. /\ types \in Seq(Types) /\ Len(types) = 3
        /\ types[1] = "control.response" /\ types[2] = "world.api.response" /\ types[3] = "tool.result"
    BY <2>2, ConcatProperties, SMTT(20)
  <2> HIDE DEF types
  <2>4. 1 \in 1 .. Len(types) /\ \A i \in 1 .. Len(types) : types[i] \in {"control.response"} <=> i = 1
    BY <2>3
  <2>5. events \in Seq(Event) /\ messages \in Seq(Message)
    BY DEF RunnerInv, AgentInv, TypeOK
  <2> QED BY <2>1, <2>3, <2>4, <2>5, EmitAdds DEF Came
<1>6. Sent' = Sent
  BY <1>4 DEF Sent
<1>7. RaceOK'
  <2>1. Came = 0 /\ fired
    BY <1>1 DEF RunnerInv, RaceOK
  <2> QED BY <1>1, <1>5, <1>6, <2>1 DEF RunnerInv, RaceOK
<1>8. pc' # "tool"
  BY <1>1 DEF ToolReturns
<1>9. fired' \in BOOLEAN /\ infrastructure_error' \in BOOLEAN /\ unreachable' \in BOOLEAN
  BY <1>1 DEF RunnerInv, RunnerTypeOK
<1> QED BY <1>1, <1>3, <1>4, <1>7, <1>8, <1>9, WorkingKeeps

----------------------------------------------------------------------------
(* Steps of the run around the agent.                                      *)

(* Where nothing is recorded, the race and the loop stay as they are.      *)
LEMMA SilentKeeps ==
  ASSUME AgentAssumption, RunnerInv, UNCHANGED agent,
         UNCHANGED <<executing, fired, infrastructure_error, unreachable>>
  PROVE  /\ AgentInv' /\ TypeOK' /\ RaceOK'
         /\ \A T : Recorded(T)' = Recorded(T)
         /\ UNCHANGED <<pc, result, events>>
<1>1. UNCHANGED <<pc, result, events>>
  BY DEF agent
<1>2. \A T : Recorded(T)' = Recorded(T)
  BY <1>1 DEF Recorded
<1>3. AgentInv'
  BY IdleKeeps DEF RunnerInv
<1>4. RaceOK'
  BY <1>2 DEF RunnerInv, RaceOK, Sent, Came
<1> QED BY <1>1, <1>2, <1>3, <1>4 DEF AgentInv

(* On to the next stage, nothing decided.                                  *)
LEMMA AdvanceKeeps ==
  ASSUME AgentAssumption, RunnerInv, ResolveSnapshot \/ StartWorld \/ BuildExecutor \/ TakeSnapshot
  PROVE  RunnerInv'
<1>1. UNCHANGED agent /\ UNCHANGED <<executing, fired, infrastructure_error, unreachable, lost>>
      /\ UNCHANGED <<verdict, status, manifest>>
      /\ stage' \in {"starting", "building", "agent", "judging"}
      /\ stage \in {"resolving", "starting", "building", "agent"}
  BY DEF ResolveSnapshot, StartWorld, BuildExecutor, TakeSnapshot, outcome
<1>2. /\ AgentInv' /\ TypeOK' /\ RaceOK'
      /\ \A T : Recorded(T)' = Recorded(T)
      /\ UNCHANGED <<pc, result, events>>
  BY <1>1, SilentKeeps
<1>3. RunnerTypeOK'
  BY <1>1, <1>2 DEF RunnerInv, RunnerTypeOK, ResolveSnapshot, StartWorld, BuildExecutor, TakeSnapshot
<1>4. Placed'
  BY <1>1, <1>2 DEF RunnerInv, Placed, ResolveSnapshot, StartWorld, BuildExecutor, TakeSnapshot
<1>5. TrajectoryOK'
  BY <1>1, <1>2 DEF RunnerInv, TrajectoryOK
<1>6. CrashNotCharged' /\ VerdictsAreEarned'
  BY <1>1 DEF CrashNotCharged, VerdictsAreEarned, Decided
<1> QED BY <1>2, <1>3, <1>4, <1>5, <1>6 DEF RunnerInv

(* The handlers: no verdict, and nobody to blame but the environment or,   *)
(* when the session is over and nothing was lost, the verifier.            *)
LEMMA AbortKeeps ==
  ASSUME AgentAssumption, RunnerInv, EnvironmentFails \/ SessionFails \/ VerifierFails
  PROVE  RunnerInv'
<1>1. /\ UNCHANGED agent /\ UNCHANGED <<executing, fired, infrastructure_error, unreachable, lost, manifest>>
      /\ stage \in {"resolving", "starting", "building", "agent", "judging"} /\ stage' = "completing"
      /\ world' = (IF world = "up" THEN "stopped" ELSE world) /\ verdict' = "not_run"
      /\ \/ status' = "environment_error"
         \/ status' = "verifier_error" /\ stage = "judging"
  BY DEF EnvironmentFails, SessionFails, VerifierFails, abort
<1>2. /\ AgentInv' /\ TypeOK' /\ RaceOK'
      /\ \A T : Recorded(T)' = Recorded(T)
      /\ UNCHANGED <<pc, result, events>>
  BY <1>1, SilentKeeps
<1>3. RunnerTypeOK'
  BY <1>1, <1>2 DEF RunnerInv, RunnerTypeOK
<1>4. Placed'
  BY <1>1, <1>2 DEF RunnerInv, Placed
<1>5. TrajectoryOK'
  BY <1>1, <1>2 DEF RunnerInv, Placed, TrajectoryOK
<1>6. CrashNotCharged'
  BY <1>1 DEF RunnerInv, Placed, CrashNotCharged
<1>7. VerdictsAreEarned'
  BY <1>1 DEF VerdictsAreEarned
<1> QED BY <1>2, <1>3, <1>4, <1>5, <1>6, <1>7 DEF RunnerInv

(* What happens to a run, and its return.                                  *)
LEMMA EventsKeep ==
  ASSUME AgentAssumption, RunnerInv, WorldCrashes \/ Cancelled \/ Return
  PROVE  RunnerInv'
<1>1. /\ UNCHANGED agent /\ UNCHANGED <<executing, fired, infrastructure_error, unreachable>>
      /\ UNCHANGED <<verdict, status, manifest>>
  BY DEF WorldCrashes, Cancelled, Return, outcome
<1>2. /\ AgentInv' /\ TypeOK' /\ RaceOK'
      /\ \A T : Recorded(T)' = Recorded(T)
      /\ UNCHANGED <<pc, result, events>>
  BY <1>1, SilentKeeps
<1>3. CASE WorldCrashes
  <2>1. /\ stage' = stage /\ world = "up" /\ world' = "crashed" /\ lost'
        /\ stage \in {"building", "agent"} /\ lost' \in BOOLEAN
    BY <1>3 DEF WorldCrashes, RunnerInv, Placed
  <2>2. RunnerTypeOK' /\ Placed' /\ TrajectoryOK'
    BY <1>1, <1>2, <2>1 DEF RunnerInv, RunnerTypeOK, Placed, TrajectoryOK
  <2>3. CrashNotCharged' /\ VerdictsAreEarned'
    BY <2>1 DEF CrashNotCharged, VerdictsAreEarned, Decided
  <2> QED BY <1>2, <2>2, <2>3 DEF RunnerInv
<1>4. CASE Cancelled
  <2>1. stage' = "raised" /\ world' = (IF world = "up" THEN "stopped" ELSE world) /\ lost' = lost
    BY <1>4 DEF Cancelled
  <2>2. RunnerTypeOK' /\ Placed' /\ TrajectoryOK'
    BY <1>1, <1>2, <2>1 DEF RunnerInv, RunnerTypeOK, Placed, TrajectoryOK
  <2>3. CrashNotCharged' /\ VerdictsAreEarned'
    BY <2>1 DEF CrashNotCharged, VerdictsAreEarned, Decided
  <2> QED BY <1>2, <2>2, <2>3 DEF RunnerInv
<1>5. CASE Return
  <2>1. stage = "indexing" /\ stage' \in {"returned", "raised"} /\ UNCHANGED <<world, lost>>
    BY <1>5 DEF Return
  <2>2. RunnerTypeOK' /\ Placed' /\ TrajectoryOK'
    BY <1>1, <1>2, <2>1 DEF RunnerInv, RunnerTypeOK, Placed, TrajectoryOK
  <2>3. CrashNotCharged' /\ VerdictsAreEarned'
    BY <1>1, <1>2, <2>1 DEF RunnerInv, CrashNotCharged, VerdictsAreEarned, Decided
  <2> QED BY <1>2, <2>2, <2>3 DEF RunnerInv
<1> QED BY <1>3, <1>4, <1>5

LEMMA TimeKeeps ==
  ASSUME AgentAssumption, RunnerInv, TimePasses
  PROVE  RunnerInv'
<1>1. /\ Tick /\ UNCHANGED <<pc, result, events, stage, world, lost, executing, fired,
                            infrastructure_error, unreachable, verdict, status, manifest>>
  BY DEF TimePasses, Tick, runner
<1>2. \A T : Recorded(T)' = Recorded(T)
  BY <1>1 DEF Recorded
<1>3. AgentInv' /\ TypeOK'
  BY <1>1, IdleKeeps DEF RunnerInv, AgentInv
<1>4. RunnerTypeOK' /\ Placed' /\ TrajectoryOK'
  BY <1>1, <1>2, <1>3 DEF RunnerInv, RunnerTypeOK, Placed, TrajectoryOK
<1>5. RaceOK'
  BY <1>1, <1>2 DEF RunnerInv, RaceOK, Sent, Came
<1>6. CrashNotCharged' /\ VerdictsAreEarned'
  BY <1>1, <1>2 DEF RunnerInv, CrashNotCharged, VerdictsAreEarned, Decided
<1> QED BY <1>3, <1>4, <1>5, <1>6 DEF RunnerInv

(* A verdict is given to a run that came to an answer. Without tool error, *)
(* no failure is recorded of it.                                           *)
LEMMA JudgeKeeps ==
  ASSUME AgentAssumption, RunnerInv, NEW v \in Verdicts, Judge(v)
  PROVE  RunnerInv'
<1>1. /\ stage = "judging" /\ stage' = "completing" /\ UNCHANGED loop
      /\ UNCHANGED <<pc, result, world, lost, executing, fired, infrastructure_error, unreachable, manifest>>
  BY DEF Judge, loop
<1>2. /\ pc = "done" /\ ~lost /\ ~infrastructure_error /\ verdict = "not_run"
      /\ result \in Statuses /\ Cardinality(Recorded({"verification.completed"})) = 0
  BY <1>1 DEF RunnerInv, Placed, TrajectoryOK, AgentInv, TypeOK, Undecided
<1>3. CASE result \in {"pass", "tool_error"}
  <2>1. /\ emit(<<"verification.completed">>) /\ verdict' = v
        /\ status' = IF result = "pass" THEN StatusAfterVerification(v) ELSE "tool_error"
    BY <1>3 DEF Judge
  <2>2. AgentInv'
    BY <1>1, <2>1, OuterKeeps DEF RunnerInv, OuterTypes
  <2>3. /\ \A T : "verification.completed" \notin T => Recorded(T)' = Recorded(T)
        /\ Cardinality(Recorded({"verification.completed"}))' = 1
    BY <1>2, <2>1, EmitOne DEF RunnerInv, AgentInv, TypeOK, Types
  <2>4. v \in {"passed", "partial", "failed"} /\ StatusAfterVerification(v) \in {"pass", "partial", "task_fail"}
        /\ (StatusAfterVerification(v) = "pass" => v = "passed")
    BY DEF Verdicts, StatusAfterVerification
  <2>5. RunnerTypeOK'
    BY <1>1, <2>1, <2>2, <2>4 DEF RunnerInv, AgentInv, RunnerTypeOK, Verdicts, Statuses
  <2>6. Placed'
    BY <1>1, <1>2 DEF RunnerInv, Placed
  <2>7. RaceOK'
    <3>1. /\ Recorded({"control.request"})' = Recorded({"control.request"})
          /\ Recorded({"control.response"})' = Recorded({"control.response"})
      BY <2>3
    <3> QED BY <1>1, <3>1 DEF RunnerInv, RaceOK, Sent, Came
  <2>8. TrajectoryOK'
    <3>1. /\ Recorded({"run.started"})' = Recorded({"run.started"})
          /\ Recorded({"run.completed"})' = Recorded({"run.completed"})
      BY <2>3
    <3> QED BY <1>1, <2>1, <2>3, <2>4, <3>1 DEF RunnerInv, TrajectoryOK
  <2>9. CrashNotCharged'
    BY <1>1, <1>2 DEF CrashNotCharged
  <2>10. VerdictsAreEarned'
    <3>1. Recorded({"agent.completed"}) # {} /\ Recorded({"agent.error"}) = {}
          /\ (result = "tool_error" <=> had_tool_error)
      BY <1>2, <1>3 DEF RunnerInv, AgentInv, EndRecorded
    <3>2. result = "pass" => Recorded({"tool.error"}) = {}
      BY <3>1 DEF RunnerInv, AgentInv, FailuresRecorded
    <3>3. Recorded({"tool.error", "agent.error"}) = Recorded({"tool.error"}) \cup Recorded({"agent.error"})
      BY DEF Recorded
    <3>4. /\ Recorded({"agent.completed"})' = Recorded({"agent.completed"})
          /\ Recorded({"tool.error", "agent.error"})' = Recorded({"tool.error", "agent.error"})
      BY <2>3
    <3> QED BY <1>1, <1>3, <2>1, <2>4, <3>1, <3>2, <3>3, <3>4 DEF VerdictsAreEarned
  <2> QED BY <2>2, <2>5, <2>6, <2>7, <2>8, <2>9, <2>10 DEF RunnerInv
<1>4. CASE result \notin {"pass", "tool_error"}
  <2>1. status' = result /\ UNCHANGED <<verdict, events>>
    BY <1>4 DEF Judge
  <2>2. UNCHANGED agent
    BY <1>1, <2>1 DEF loop, agent, counters
  <2>3. /\ AgentInv' /\ TypeOK' /\ RaceOK'
        /\ \A T : Recorded(T)' = Recorded(T)
    BY <1>1, <2>2, SilentKeeps
  <2>4. RunnerTypeOK'
    BY <1>1, <1>2, <2>1, <2>3 DEF RunnerInv, RunnerTypeOK
  <2>5. Placed' /\ TrajectoryOK'
    BY <1>1, <1>2, <2>1, <2>3 DEF RunnerInv, Placed, TrajectoryOK
  <2>6. CrashNotCharged' /\ VerdictsAreEarned'
    BY <1>1, <1>2, <1>4, <2>1 DEF CrashNotCharged, VerdictsAreEarned, Statuses
  <2> QED BY <2>3, <2>4, <2>5, <2>6 DEF RunnerInv
<1> QED BY <1>3, <1>4

(* The last event, and nothing else.                                       *)
LEMMA CompleteKeeps ==
  ASSUME AgentAssumption, RunnerInv, Complete \/ StoreFails
  PROVE  RunnerInv'
<1>1. /\ stage = "completing" /\ UNCHANGED loop /\ emit(<<"run.completed">>)
      /\ UNCHANGED <<pc, result, world, lost, executing, fired, infrastructure_error, unreachable, verdict, status>>
      /\ \/ stage' = "indexing" /\ manifest' = [status |-> status, size |-> Len(events')]
         \/ stage' = "raised" /\ manifest' = manifest
  BY DEF Complete, StoreFails, loop, outcome
<1>2. AgentInv'
  BY <1>1, OuterKeeps DEF RunnerInv, OuterTypes
<1>3. /\ \A T : "run.completed" \notin T => Recorded(T)' = Recorded(T)
      /\ Recorded({"run.completed"})' = Recorded({"run.completed"}) \cup {Len(events')}
      /\ events' \in Seq(Event) /\ Len(events') \in Nat
  BY <1>1, EmitOne DEF RunnerInv, AgentInv, TypeOK, Types
<1>4. RunnerTypeOK'
  <2>1. manifest' \in [status: {"none"} \cup Statuses \cup
                         {"partial", "task_fail", "environment_error", "verifier_error"}, size: Nat]
    BY <1>1, <1>3 DEF RunnerInv, RunnerTypeOK
  <2> QED BY <1>1, <1>2, <2>1 DEF RunnerInv, AgentInv, RunnerTypeOK
<1>5. Placed'
  BY <1>1 DEF RunnerInv, Placed
<1>6. RaceOK'
  <2>1. /\ Recorded({"control.request"})' = Recorded({"control.request"})
        /\ Recorded({"control.response"})' = Recorded({"control.response"})
    BY <1>3
  <2> QED BY <1>1, <2>1 DEF RunnerInv, RaceOK, Sent, Came
<1>7. TrajectoryOK'
  <2>1. /\ Recorded({"run.started"})' = Recorded({"run.started"})
        /\ Recorded({"verification.completed"})' = Recorded({"verification.completed"})
    BY <1>3
  <2>2. Recorded({"run.completed"})' = {Len(events')}
    BY <1>1, <1>3 DEF RunnerInv, TrajectoryOK
  <2> QED BY <1>1, <2>1, <2>2 DEF RunnerInv, TrajectoryOK
<1>8. CrashNotCharged'
  BY <1>1 DEF RunnerInv, CrashNotCharged, Decided
<1>9. VerdictsAreEarned'
  <2>1. /\ Recorded({"agent.completed"})' = Recorded({"agent.completed"})
        /\ Recorded({"tool.error", "agent.error"})' = Recorded({"tool.error", "agent.error"})
    BY <1>3
  <2> QED BY <1>1, <2>1 DEF RunnerInv, VerdictsAreEarned, Decided
<1> QED BY <1>2, <1>4, <1>5, <1>6, <1>7, <1>8, <1>9 DEF RunnerInv

LEMMA InitKeeps == RunnerInit => RunnerInv
<1> SUFFICES ASSUME RunnerInit PROVE RunnerInv
  OBVIOUS
<1>1. /\ events \in Seq(Event) /\ Len(events) = 1 /\ DOMAIN events = {1}
      /\ events[1].type = "run.started"
  BY DEF RunnerInit, Event, Types
<1>2. AgentInv
  BY <1>1, AgentInitKeeps, AgentAssumption DEF RunnerInit
<1>3. ASSUME NEW T, "run.started" \notin T
      PROVE  Cardinality(Recorded(T)) = 0 /\ Recorded(T) = {}
  BY <1>1, <1>3, FS_EmptySet DEF Recorded
<1>4. RunnerTypeOK
  BY <1>2 DEF RunnerInit, RunnerTypeOK, AgentInv, NotStored
<1>5. Placed
  BY DEF RunnerInit, Placed, AgentInit
<1>6. RaceOK
  <2>1. Sent = 0 /\ Came = 0
    BY <1>3 DEF Sent, Came
  <2> QED BY <2>1 DEF RunnerInit, RaceOK
<1>7. TrajectoryOK
  <2>1. Recorded({"run.started"}) = {1}
    BY <1>1 DEF Recorded
  <2>2. Recorded({"run.completed"}) = {} /\ Cardinality(Recorded({"verification.completed"})) = 0
    BY <1>3
  <2> QED BY <2>1, <2>2 DEF RunnerInit, TrajectoryOK, NotStored
<1>8. CrashNotCharged /\ VerdictsAreEarned
  BY DEF RunnerInit, CrashNotCharged, VerdictsAreEarned, Decided
<1> QED BY <1>2, <1>4, <1>5, <1>6, <1>7, <1>8 DEF RunnerInv

LEMMA NextKeeps ==
  ASSUME AgentAssumption, RunnerInv, [RunnerNext]_vars
  PROVE  RunnerInv'
<1>1. CASE AgentThinks \/ UnknownTool \/ WorldUnreachable \/ EditFails
           \/ (\E known \in BOOLEAN : ExecuteTool(known))
           \/ (\E refused \in BOOLEAN : WorldAnswers(refused))
  BY <1>1, ExecutorKeeps
<1>2. CASE ReadFiresHook
  BY <1>2, ReadFiresKeeps
<1>3. CASE EditAnswers
  BY <1>3, EditAnswersKeeps
<1>4. CASE ResolveSnapshot \/ StartWorld \/ BuildExecutor \/ TakeSnapshot
  BY <1>4, AdvanceKeeps
<1>5. CASE EnvironmentFails \/ SessionFails \/ VerifierFails
  BY <1>5, AbortKeeps
<1>6. CASE \E v \in Verdicts : Judge(v)
  BY <1>6, JudgeKeeps
<1>7. CASE Complete \/ StoreFails
  BY <1>7, CompleteKeeps
<1>8. CASE WorldCrashes \/ Cancelled \/ Return
  BY <1>8, EventsKeep
<1>9. CASE TimePasses
  BY <1>9, TimeKeeps
<1>10. CASE UNCHANGED vars
  <2>1. /\ UNCHANGED agent /\ UNCHANGED <<executing, fired, infrastructure_error, unreachable>>
        /\ UNCHANGED <<stage, world, lost, verdict, status, manifest>>
    BY <1>10 DEF vars, runner
  <2>2. /\ AgentInv' /\ TypeOK' /\ RaceOK'
        /\ \A T : Recorded(T)' = Recorded(T)
        /\ UNCHANGED <<pc, result, events>>
    BY <2>1, SilentKeeps
  <2>3. RunnerTypeOK' /\ Placed' /\ TrajectoryOK'
    BY <2>1, <2>2 DEF RunnerInv, RunnerTypeOK, Placed, TrajectoryOK
  <2>4. CrashNotCharged' /\ VerdictsAreEarned'
    BY <2>1, <2>2 DEF RunnerInv, CrashNotCharged, VerdictsAreEarned, Decided
  <2> QED BY <2>2, <2>3, <2>4 DEF RunnerInv
<1> QED BY <1>1, <1>2, <1>3, <1>4, <1>5, <1>6, <1>7, <1>8, <1>9, <1>10 DEF RunnerNext, Proceed

----------------------------------------------------------------------------
(* The theorems.                                                           *)

LEMMA RunnerInvariance == RunnerSpec => []RunnerInv
<1>1. RunnerInv /\ [RunnerNext]_vars => RunnerInv'
  BY NextKeeps, AgentAssumption
<1> QED BY <1>1, InitKeeps, PTL DEF RunnerSpec

(* Every variable of a run has its type, and the budgets hold in it too.   *)
THEOREM RunnerTypeCorrect == RunnerSpec => []RunnerTypeOK
<1>1. RunnerInv => RunnerTypeOK
  BY DEF RunnerInv
<1> QED BY <1>1, RunnerInvariance, PTL

(* Whatever the budgets, the tools and the moment of the crash: a run that *)
(* lost its world, or whose human edit failed, is an environment error,    *)
(* and is not judged.                                                      *)
THEOREM CrashCorrect == RunnerSpec => []CrashNotCharged
<1>1. RunnerInv => CrashNotCharged
  BY DEF RunnerInv
<1> QED BY <1>1, RunnerInvariance, PTL

(* However often the page is read, the edit is sent once, and a run that   *)
(* is judged has had its answer.                                           *)
THEOREM RaceCorrect == RunnerSpec => []RaceStagedOnce
<1>1. ASSUME RunnerInv
      PROVE  RaceStagedOnce
  <2>1. Sent = (IF fired THEN 1 ELSE 0) /\ fired \in BOOLEAN
    BY <1>1 DEF RunnerInv, RaceOK, RunnerTypeOK
  <2>2. ASSUME verdict # "not_run"
        PROVE  Came = Sent
    <3>1. executing # "editing" /\ ~infrastructure_error
      BY <1>1, <2>2 DEF RunnerInv, Placed
    <3> QED BY <1>1, <2>1, <3>1 DEF RunnerInv, RaceOK
  <2>3. Sent <= 1
    BY <2>1
  <2> QED BY <2>2, <2>3 DEF RaceStagedOnce, Sent, Came
<1> QED BY <1>1, RunnerInvariance, PTL

(* What is stored of a run is what happened in it, first event to last.    *)
THEOREM RecordsCorrect == RunnerSpec => []RecordsAgree
<1>1. ASSUME RunnerInv
      PROVE  RecordsAgree
  <2> SUFFICES ASSUME stage \in {"indexing", "returned"}
               PROVE  /\ manifest.status = status
                      /\ Recorded({"run.started"}) = {1}
                      /\ Recorded({"run.completed"}) = {manifest.size}
                      /\ manifest.size = Len(events)
                      /\ Cardinality(Recorded({"verification.completed"})) =
                           (IF verdict = "not_run" THEN 0 ELSE 1)
    BY DEF RecordsAgree
  <2>1. TrajectoryOK
    BY <1>1 DEF RunnerInv
  <2> QED BY <2>1 DEF TrajectoryOK
<1> QED BY <1>1, RunnerInvariance, PTL

(* No run is scored that did not come to an answer, and none passes with a *)
(* tool error in its trajectory.                                           *)
THEOREM VerdictsCorrect == RunnerSpec => []VerdictsAreEarned
<1>1. RunnerInv => VerdictsAreEarned
  BY DEF RunnerInv
<1> QED BY <1>1, RunnerInvariance, PTL

----------------------------------------------------------------------------
(* The run as an evaluation.                                               *)

(* What the trajectory has of the edit is what the executor knows of it.   *)
Edit == IF ~fired THEN "unsent" ELSE IF executing = "editing" THEN "sent"
        ELSE IF infrastructure_error THEN "failed" ELSE "taken"

LEMMA EditStates == RunnerInv => staged_edit = Edit
<1> SUFFICES ASSUME RunnerInv PROVE staged_edit = Edit
  OBVIOUS
<1>1. /\ Sent = IF fired THEN 1 ELSE 0
      /\ ~fired => executing # "editing" /\ ~infrastructure_error
      /\ Came = IF fired /\ executing # "editing" /\ ~infrastructure_error THEN 1 ELSE 0
  BY DEF RunnerInv, RaceOK
<1>2. staged_edit = CASE Sent = 0 /\ Came = 0 -> "unsent"
                      [] Sent = 1 /\ Came = 0 -> IF executing = "editing" THEN "sent" ELSE "failed"
                      [] Sent = 1 /\ Came = 1 -> "taken"
                      [] OTHER -> "repeated"
  BY DEF staged_edit, Sent, Came
<1>3. CASE ~fired
  BY <1>1, <1>2, <1>3 DEF Edit
<1>4. CASE fired /\ (executing = "editing" \/ infrastructure_error)
  BY <1>1, <1>2, <1>4 DEF Edit
<1>5. CASE fired /\ executing # "editing" /\ ~infrastructure_error
  BY <1>1, <1>2, <1>5 DEF Edit
<1> QED BY <1>3, <1>4, <1>5

(* What a caller sees of a run.                                            *)
Seen_world == IF stage = "judging" THEN "captured" ELSE world
Seen_outcome == IF Decided THEN [status |-> status, verdict |-> verdict]
                           ELSE [status |-> "none", verdict |-> "none"]
Seen_answer == IF stage \in {"returned", "raised"} THEN stage ELSE "none"
Seen == <<Seen_world, staged_edit, Seen_outcome, manifest.status, Seen_answer>>

Known == RunnerInv /\ staged_edit = Edit

(* The executor's steps show nothing but the edit.                         *)
LEMMA WorkShowsEdit ==
  ASSUME Known, Known', stage = "agent", UNCHANGED <<stage, world, status, verdict, manifest>>
  PROVE  /\ UNCHANGED <<Seen_world, Seen_outcome, manifest.status, Seen_answer>>
         /\ Seen_world = world /\ Seen_answer = "none"
         /\ UNCHANGED <<fired, infrastructure_error>> /\ executing # "editing" /\ executing' # "editing"
              => UNCHANGED staged_edit
<1>1. UNCHANGED <<fired, infrastructure_error>> /\ executing # "editing" /\ executing' # "editing"
        => UNCHANGED staged_edit
  BY DEF Known, Edit
<1>2. /\ UNCHANGED <<Seen_world, Seen_outcome, manifest.status, Seen_answer>>
      /\ Seen_world = world /\ Seen_answer = "none"
  BY DEF Seen_world, Seen_outcome, Seen_answer, Decided
<1> QED BY <1>1, <1>2

LEMMA WorkIsPromised ==
  ASSUME Known, Known',
         \/ AgentThinks \/ UnknownTool \/ WorldUnreachable
         \/ ReadFiresHook \/ EditAnswers \/ EditFails
         \/ \E known \in BOOLEAN : ExecuteTool(known)
         \/ \E refused \in BOOLEAN : WorldAnswers(refused)
  PROVE  [Promise!Next]_Seen
<1>1. stage = "agent" /\ UNCHANGED <<stage, world, status, verdict, manifest>>
  BY DEF AgentThinks, UnknownTool, WorldUnreachable, ReadFiresHook, EditAnswers, EditFails,
         ExecuteTool, WorldAnswers, runner, outcome
<1>2. executing # "nothing" <=> pc = "tool"
  BY DEF Known, RunnerInv, Placed
<1>3. CASE AgentThinks \/ UnknownTool \/ WorldUnreachable
           \/ (\E known \in BOOLEAN : ExecuteTool(known))
           \/ (\E refused \in BOOLEAN : WorldAnswers(refused))
  <2>1. executing # "editing" /\ executing' # "editing" /\ UNCHANGED <<fired, infrastructure_error>>
    <3>1. CASE AgentThinks
      <4>1. pc # "tool"
        BY <3>1 DEF AgentThinks, Think, BuildPromptFails, Begin, RequestModel, ModelAnswers, ModelFails
      <4> QED BY <1>2, <3>1, <4>1 DEF AgentThinks, runner
    <3>2. ASSUME NEW known \in BOOLEAN, ExecuteTool(known)
          PROVE  executing # "editing" /\ executing' # "editing"
                 /\ UNCHANGED <<fired, infrastructure_error>>
      BY <1>2, <3>2 DEF ExecuteTool, CallTool
    <3>3. CASE UnknownTool \/ WorldUnreachable \/ (\E refused \in BOOLEAN : WorldAnswers(refused))
      BY <3>3 DEF UnknownTool, WorldUnreachable, WorldAnswers
    <3> QED BY <1>3, <3>1, <3>2, <3>3
  <2>2. UNCHANGED Seen
    BY <1>1, <2>1, WorkShowsEdit DEF Seen
  <2> QED BY <2>2
<1>4. CASE ReadFiresHook
  <2>1. /\ Concurrent /\ world = "up" /\ staged_edit = "unsent" /\ staged_edit' = "sent"
    BY <1>4 DEF ReadFiresHook, Known, Edit
  <2> QED BY <1>1, <2>1, WorkShowsEdit
        DEF Promise!Next, Promise!SendEdit, Seen_world, Seen_outcome, Seen_answer
<1>5. CASE EditAnswers
  <2>1. world = "up" /\ staged_edit = "sent" /\ staged_edit' = "taken"
    BY <1>5 DEF EditAnswers, Known, Edit, RunnerInv, RaceOK
  <2> QED BY <1>1, <2>1, WorkShowsEdit
        DEF Promise!Next, Promise!TakeEdit, Seen_world, Seen_outcome, Seen_answer
<1>6. CASE EditFails
  <2>1. staged_edit = "sent" /\ staged_edit' = "failed"
    BY <1>6 DEF EditFails, Known, Edit, RunnerInv, RaceOK
  <2> QED BY <1>1, <2>1, WorkShowsEdit
        DEF Promise!Next, Promise!MissEdit, Seen_world, Seen_outcome, Seen_answer
<1> QED BY <1>3, <1>4, <1>5, <1>6

(* On to the next stage: the world goes up, and is captured.               *)
LEMMA AdvanceIsPromised ==
  ASSUME Known, ResolveSnapshot \/ StartWorld \/ BuildExecutor \/ TakeSnapshot
  PROVE  [Promise!Next]_Seen
<1>1. UNCHANGED <<agent, executing, fired, infrastructure_error, verdict, status, manifest>>
  BY DEF ResolveSnapshot, StartWorld, BuildExecutor, TakeSnapshot, outcome
<1>2. UNCHANGED staged_edit
  BY <1>1 DEF agent, staged_edit, Recorded
<1>3. UNCHANGED <<Seen_outcome, manifest.status, Seen_answer>> /\ Seen_answer = "none"
  BY <1>1 DEF ResolveSnapshot, StartWorld, BuildExecutor, TakeSnapshot, Seen_outcome, Seen_answer, Decided
<1>4. CASE ResolveSnapshot \/ BuildExecutor
  <2>1. UNCHANGED Seen_world
    BY <1>4 DEF ResolveSnapshot, BuildExecutor, Seen_world
  <2> QED BY <1>2, <1>3, <2>1 DEF Seen
<1>5. CASE StartWorld
  <2>1. Seen_world = "down" /\ Seen_world' = "up" /\ ~Decided
    BY <1>5 DEF StartWorld, Seen_world, Known, RunnerInv, Placed, Decided
  <2> QED BY <1>2, <1>3, <2>1
        DEF Promise!Next, Promise!Open, Promise!Undecided, Promise!Outcome,
            Seen_world, Seen_outcome, Seen_answer
<1>6. CASE TakeSnapshot
  <2>1. staged_edit \in {"unsent", "taken"}
    BY <1>6 DEF TakeSnapshot, Known, Edit, RunnerInv, Placed
  <2>2. Seen_world = "up" /\ Seen_world' = "captured"
    BY <1>6 DEF TakeSnapshot, Seen_world
  <2> QED BY <1>2, <1>3, <2>1, <2>2
        DEF Promise!Next, Promise!Capture, Seen_world, Seen_outcome, Seen_answer
<1> QED BY <1>4, <1>5, <1>6

(* The handlers blame the environment, or the verifier.                    *)
LEMMA AbortIsPromised ==
  ASSUME Known, EnvironmentFails \/ SessionFails \/ VerifierFails
  PROVE  [Promise!Next]_Seen
<1>1. UNCHANGED <<agent, executing, fired, infrastructure_error, manifest>>
  BY DEF EnvironmentFails, SessionFails, VerifierFails, abort
<1>2. UNCHANGED staged_edit
  BY <1>1 DEF agent, staged_edit, Recorded
<1>3. /\ stage' = "completing" /\ verdict' = "not_run"
      /\ world' = (IF world = "up" THEN "stopped" ELSE world)
      /\ stage \in {"resolving", "starting", "building", "agent", "judging"}
  BY DEF EnvironmentFails, SessionFails, VerifierFails, abort
<1>4. /\ UNCHANGED <<manifest.status, Seen_answer>> /\ Seen_answer = "none" /\ ~Decided
      /\ Seen_outcome' = [status |-> status', verdict |-> "not_run"]
  BY <1>1, <1>3 DEF Seen_outcome, Seen_answer, Decided
<1>5. CASE EnvironmentFails \/ SessionFails
  <2>1. stage # "judging" /\ status' = "environment_error"
    BY <1>5 DEF EnvironmentFails, SessionFails, abort
  <2>2. staged_edit # "sent"
    BY <1>5 DEF EnvironmentFails, SessionFails, Known, Edit, RunnerInv, Placed
  <2>3. Seen_world # "captured" /\ Seen_world' = Promise!Down(Seen_world)
    BY <1>3, <2>1 DEF Seen_world, Promise!Down, Known, RunnerInv, RunnerTypeOK
  <2> QED BY <1>2, <1>4, <2>1, <2>2, <2>3
        DEF Promise!Next, Promise!Abort, Promise!Undecided, Promise!EnvironmentError, Promise!Outcome,
            Seen_world, Seen_outcome, Seen_answer
<1>6. CASE VerifierFails
  <2>1. stage = "judging" /\ status' = "verifier_error"
    BY <1>6 DEF VerifierFails, abort
  <2>2. Seen_world = "captured" /\ Seen_world' = "stopped"
    BY <1>3, <2>1 DEF Seen_world, Known, RunnerInv, Placed
  <2>3. Seen_outcome' \in Promise!Judgements
    BY <1>4, <2>1 DEF Promise!Judgements, Promise!Outcome
  <2> QED BY <1>2, <1>4, <2>2, <2>3
        DEF Promise!Next, Promise!Judge, Promise!Down, Seen_world, Seen_outcome, Seen_answer
<1> QED BY <1>5, <1>6

LEMMA JudgeIsPromised ==
  ASSUME Known, Known', NEW v \in Verdicts, Judge(v)
  PROVE  [Promise!Next]_Seen
<1>1. /\ stage = "judging" /\ stage' = "completing"
      /\ UNCHANGED <<world, executing, fired, infrastructure_error, manifest>>
  BY DEF Judge
<1>2. UNCHANGED staged_edit
  BY <1>1 DEF Known, Edit
<1>3. Seen_world = "captured" /\ Seen_world' = "stopped"
  BY <1>1 DEF Seen_world, Known, RunnerInv, Placed
<1>4. /\ UNCHANGED <<manifest.status, Seen_answer>> /\ Seen_answer = "none"
      /\ Seen_outcome' = [status |-> status', verdict |-> verdict']
  BY <1>1 DEF Seen_outcome, Seen_answer, Decided
<1>5. Seen_outcome' \in Promise!Judgements
  <2>1. result \in Statuses /\ verdict = "not_run"
    BY <1>1 DEF Known, RunnerInv, Placed, AgentInv, TypeOK, Undecided
  <2>2. CASE result = "pass"
    BY <1>4, <2>2 DEF Judge, StatusAfterVerification, Verdicts, Promise!Judgements, Promise!Outcome
  <2>3. CASE result = "tool_error"
    BY <1>4, <2>3 DEF Judge, Verdicts, Promise!Judgements, Promise!Outcome
  <2>4. CASE result \notin {"pass", "tool_error"}
    BY <1>4, <2>1, <2>4 DEF Judge, Statuses, Promise!Judgements, Promise!Outcome
  <2> QED BY <2>2, <2>3, <2>4
<1> QED BY <1>2, <1>3, <1>4, <1>5
      DEF Promise!Next, Promise!Judge, Promise!Down, Seen_world, Seen_outcome, Seen_answer

(* The record, the answer, and what ends a run before it has one.          *)
LEMMA EndIsPromised ==
  ASSUME Known, Known', Complete \/ StoreFails \/ Return \/ WorldCrashes \/ Cancelled
  PROVE  [Promise!Next]_Seen
<1>1. UNCHANGED staged_edit /\ UNCHANGED <<verdict, status>>
  BY DEF Complete, StoreFails, Return, WorldCrashes, Cancelled, outcome, Known, Edit
<1>2. /\ world \in {"down", "up", "crashed", "stopped"} /\ verdict \in Verdicts \cup {"not_run"}
      /\ world = "up" => stage \in {"building", "agent"}
      /\ stage = "judging" => world = "stopped"
  BY DEF Known, RunnerInv, RunnerTypeOK, Placed
<1>3. CASE Complete
  <2>1. /\ stage = "completing" /\ stage' = "indexing" /\ world' = world
        /\ manifest.status = "none" /\ manifest'.status = status
    BY <1>3 DEF Complete, Known, RunnerInv, TrajectoryOK
  <2>2. /\ UNCHANGED <<Seen_world, Seen_outcome, Seen_answer>> /\ Seen_answer = "none"
        /\ Seen_outcome = [status |-> status, verdict |-> verdict]
    BY <1>1, <2>1 DEF Seen_world, Seen_outcome, Seen_answer, Decided
  <2>3. Seen_outcome # Promise!Undecided
    BY <1>2, <2>2 DEF Verdicts, Promise!Undecided, Promise!Outcome
  <2> QED BY <1>1, <2>1, <2>2, <2>3
        DEF Promise!Next, Promise!Store, Seen_world, Seen_outcome, Seen_answer
<1>4. ASSUME stage' = "raised", stage \notin {"returned", "raised"}, UNCHANGED manifest,
             Seen_world' = Promise!Down(Seen_world)
      PROVE  [Promise!Next]_Seen
  <2>1. /\ Seen_answer = "none" /\ Seen_answer' = "raised"
        /\ Seen_outcome' = Promise!Undecided
    BY <1>4 DEF Seen_answer, Seen_outcome, Decided, Promise!Undecided, Promise!Outcome
  <2> QED BY <1>1, <1>4, <2>1
        DEF Promise!Next, Promise!Raise, Seen_world, Seen_outcome, Seen_answer
<1>5. CASE StoreFails
  <2>1. stage = "completing" /\ stage' = "raised" /\ UNCHANGED <<world, manifest>>
    BY <1>5 DEF StoreFails, outcome
  <2>2. Seen_world' = Promise!Down(Seen_world)
    BY <1>2, <2>1 DEF Seen_world, Promise!Down
  <2> QED BY <1>4, <2>1, <2>2
<1>6. CASE Return
  <2>1. /\ stage = "indexing" /\ stage' \in {"returned", "raised"} /\ UNCHANGED <<world, manifest>>
        /\ manifest.status = status
    BY <1>6 DEF Return, outcome, Known, RunnerInv, TrajectoryOK
  <2>2. CASE stage' = "raised"
    <3>1. Seen_world' = Promise!Down(Seen_world)
      BY <1>2, <2>1, <2>2 DEF Seen_world, Promise!Down
    <3> QED BY <1>4, <2>1, <2>2, <3>1
  <2>3. CASE stage' = "returned"
    <3>1. /\ UNCHANGED <<Seen_world, Seen_outcome, manifest.status>>
          /\ Seen_answer = "none" /\ Seen_answer' = "returned"
          /\ Seen_outcome = [status |-> status, verdict |-> verdict]
      BY <1>1, <2>1, <2>3 DEF Seen_world, Seen_outcome, Seen_answer, Decided
    <3>2. Seen_outcome # Promise!Undecided /\ manifest.status = Seen_outcome.status
      BY <1>2, <2>1, <3>1 DEF Verdicts, Promise!Undecided, Promise!Outcome
    <3> QED BY <1>1, <3>1, <3>2
          DEF Promise!Next, Promise!Return, Seen_world, Seen_outcome, Seen_answer
  <2> QED BY <2>1, <2>2, <2>3
<1>7. CASE WorldCrashes
  <2>1. /\ world = "up" /\ world' = "crashed" /\ UNCHANGED <<stage, manifest>>
        /\ stage \in {"building", "agent"}
    BY <1>2, <1>7 DEF WorldCrashes, outcome
  <2>2. /\ UNCHANGED <<Seen_outcome, manifest.status, Seen_answer>> /\ Seen_answer = "none"
        /\ Seen_world = "up" /\ Seen_world' = "crashed"
    BY <1>1, <2>1 DEF Seen_world, Seen_outcome, Seen_answer, Decided
  <2> QED BY <1>1, <2>2
        DEF Promise!Next, Promise!Crash, Seen_world, Seen_outcome, Seen_answer
<1>8. CASE Cancelled
  <2>1. /\ stage \in {"starting", "building", "agent", "judging", "indexing"} /\ stage' = "raised"
        /\ world' = (IF world = "up" THEN "stopped" ELSE world) /\ UNCHANGED manifest
    BY <1>8 DEF Cancelled, outcome
  <2>2. Seen_world' = Promise!Down(Seen_world)
    BY <1>2, <2>1 DEF Seen_world, Promise!Down
  <2> QED BY <1>4, <2>1, <2>2
<1> QED BY <1>3, <1>5, <1>6, <1>7, <1>8

LEMMA StepIsPromised ==
  ASSUME Known, Known', [RunnerNext]_vars
  PROVE  [Promise!Next]_Seen
<1>1. CASE AgentThinks \/ UnknownTool \/ WorldUnreachable
           \/ ReadFiresHook \/ EditAnswers \/ EditFails
           \/ (\E known \in BOOLEAN : ExecuteTool(known))
           \/ (\E refused \in BOOLEAN : WorldAnswers(refused))
  BY <1>1, WorkIsPromised
<1>2. CASE ResolveSnapshot \/ StartWorld \/ BuildExecutor \/ TakeSnapshot
  BY <1>2, AdvanceIsPromised
<1>3. CASE EnvironmentFails \/ SessionFails \/ VerifierFails
  BY <1>3, AbortIsPromised
<1>4. CASE \E v \in Verdicts : Judge(v)
  BY <1>4, JudgeIsPromised
<1>5. CASE Complete \/ StoreFails \/ Return \/ WorldCrashes \/ Cancelled
  BY <1>5, EndIsPromised
<1>6. CASE TimePasses \/ UNCHANGED vars
  <2>1. UNCHANGED <<runner, events>>
    BY <1>6 DEF TimePasses, Tick, vars, agent
  <2> QED BY <2>1 DEF runner, Seen, Seen_world, Seen_outcome, Seen_answer, Decided, staged_edit, Recorded
<1> QED BY <1>1, <1>2, <1>3, <1>4, <1>5, <1>6 DEF RunnerNext, Proceed

(* Whatever its agent, its world and its tools do, and with any budgets, a *)
(* run is an evaluation: one world, one edit at most, an outcome decided   *)
(* once and by what was captured of an intact world or not by the agent at *)
(* all, stored as it is and then returned.                                 *)
THEOREM RunImplementsEvaluation == RunnerSpec => ImplementsEvaluation
<1>1. RunnerInit => Promise!Init
  <2> SUFFICES ASSUME RunnerInit PROVE Promise!Init
    OBVIOUS
  <2>1. staged_edit = "unsent"
    BY InitKeeps, EditStates DEF RunnerInit, Edit
  <2> QED BY <2>1 DEF RunnerInit, Promise!Init, Promise!Undecided, Promise!Outcome, Decided, NotStored
<1>2. Known /\ Known' /\ [RunnerNext]_vars => [Promise!Next]_(Promise!evaluation)
  <2>1. Seen = Promise!evaluation
    BY DEF Seen, Promise!evaluation, Seen_world, Seen_outcome, Seen_answer
  <2>2. Seen' = Promise!evaluation'
    BY DEF Seen, Promise!evaluation, Seen_world, Seen_outcome, Seen_answer
  <2> SUFFICES ASSUME Known, Known', [RunnerNext]_vars
               PROVE  Promise!Next \/ UNCHANGED Promise!evaluation
    OBVIOUS
  <2> QED BY <2>1, <2>2, StepIsPromised
<1>3. RunnerSpec => []Known
  <2>1. RunnerInv => Known
    BY EditStates DEF Known
  <2> QED BY <2>1, RunnerInvariance, PTL
<1> QED BY <1>1, <1>2, <1>3, PTL DEF RunnerSpec, Promise!Spec, ImplementsEvaluation

----------------------------------------------------------------------------
(* How long a run can be: a step of the loop uses up some of its budgets,  *)
(* and another takes the run to a later phase, sends the edit, or is the   *)
(* crash of the world.                                                     *)

Ahead == [resolving |-> 7, starting |-> 6, building |-> 5, agent |-> 4, judging |-> 3,
          completing |-> 2, indexing |-> 1, returned |-> 0, raised |-> 0][stage]

(* A world that is up may crash between two phases.                        *)
Apart == 2 * Ahead + (IF world = "up" THEN 1 ELSE 0) + (IF fired THEN 0 ELSE 1)
RunLeft == Left + Apart
RunSteps == Steps + 16

Stages == {"resolving", "starting", "building", "agent", "judging", "completing",
           "indexing", "returned", "raised"}

LEMMA SumLess ==
  ASSUME NEW a \in Nat, NEW b \in Nat, NEW c \in Nat, a < b
  PROVE  a + c < b + c /\ c + a < c + b
OBVIOUS

LEMMA RunLeftBounded ==
  ASSUME AgentAssumption, RunnerInv
  PROVE  RunLeft \in 0 .. RunSteps /\ Left \in Nat /\ Apart \in Nat
<1>1. TypeOK /\ stage \in Stages /\ (world = "up" => stage \in {"building", "agent"})
  BY DEF RunnerInv, RunnerTypeOK, Placed, Stages
<1>2. Left \in 0 .. Steps /\ Steps \in Nat
  BY <1>1, LeftBounded DEF Steps, AgentAssumption
<1>3. Apart \in 0 .. 16
  BY <1>1 DEF Apart, Ahead, Stages
<1> QED BY <1>2, <1>3 DEF RunLeft, RunSteps

LEMMA NaturalAfter ==
  ASSUME AgentAssumption, RunnerInv'
  PROVE  Left' \in Nat /\ Apart' \in Nat
<1>1. TypeOK' /\ stage' \in Stages
  BY DEF RunnerInv, RunnerTypeOK, Stages
<1>2. Left' \in Nat
  <2>1. /\ MaxTurns \in Nat /\ MaxToolCalls \in Nat /\ MaxWall \in Nat
        /\ model_turns' \in 0 .. MaxTurns /\ tool_calls' \in 0 .. MaxToolCalls
        /\ elapsed' \in 0 .. MaxWall
    BY <1>1 DEF AgentAssumption, TypeOK
  <2>2. Underway' \in Nat
    BY DEF Underway
  <2>3. \A t \in 0 .. MaxTurns, c \in 0 .. MaxToolCalls, w \in 0 .. MaxWall, u \in Nat :
          2 * ((MaxTurns - t) + (MaxToolCalls - c)) + (MaxWall - w) + u \in Nat
    BY <2>1
  <2> QED BY <2>1, <2>2, <2>3, Zenon DEF Left
<1>3. Apart' \in Nat
  BY <1>1 DEF Apart, Ahead, Stages
<1> QED BY <1>2, <1>3

(* The loop moves, and the rest of the run is where it was.                *)
LEMMA LoopUsesUp ==
  ASSUME AgentAssumption, RunnerInv, RunnerInv', AgentMoves \/ Tick,
         UNCHANGED <<stage, world, fired>>
  PROVE  RunLeft' < RunLeft
<1>1. Left' < Left
  BY MovesUseUp DEF RunnerInv, RunnerTypeOK
<1>2. Apart' = Apart
  BY DEF Apart, Ahead
<1> QED BY <1>1, <1>2, RunLeftBounded, NaturalAfter, SumLess, Zenon DEF RunLeft

(* The loop is still, and the rest of the run moves.                       *)
LEMMA RestUsesUp ==
  ASSUME AgentAssumption, RunnerInv, RunnerInv',
         UNCHANGED <<pc, elapsed, model_turns, tool_calls>>, Apart' < Apart
  PROVE  RunLeft' < RunLeft
<1>1. Left' = Left
  BY DEF Left, Underway
<1> QED BY <1>1, RunLeftBounded, NaturalAfter, SumLess, Zenon DEF RunLeft

LEMMA RunnerStepUsesUp ==
  ASSUME AgentAssumption, RunnerInv, RunnerInv', RunnerNext
  PROVE  RunLeft' < RunLeft
<1>1. /\ << >> \in Seq(WorldTypes) /\ <<"world.api.request">> \in Seq(WorldTypes)
      /\ <<"world.api.response">> \in Seq(WorldTypes)
      /\ <<"control.response", "world.api.response">> \in Seq(WorldTypes)
  BY DEF WorldTypes
<1>2. CASE AgentThinks
  BY <1>2, LoopUsesUp DEF AgentThinks, AgentMoves, runner
<1>3. ASSUME NEW known \in BOOLEAN, ExecuteTool(known)
      PROVE  RunLeft' < RunLeft
  <2>1. \E recorded \in Seq(WorldTypes) : CallTool(recorded)
    BY <1>1, <1>3 DEF ExecuteTool
  <2> QED BY <1>3, <2>1, LoopUsesUp DEF ExecuteTool, AgentMoves
<1>4. CASE \/ UnknownTool \/ WorldUnreachable \/ EditAnswers \/ EditFails
           \/ \E refused \in BOOLEAN : WorldAnswers(refused)
  <2>1. \E recorded \in Seq(WorldTypes), failed \in BOOLEAN : ToolReturns(failed, recorded)
    BY <1>1, <1>4 DEF UnknownTool, WorldUnreachable, EditAnswers, EditFails, WorldAnswers
  <2>2. UNCHANGED <<stage, world, fired>>
    BY <1>4 DEF UnknownTool, WorldUnreachable, EditAnswers, EditFails, WorldAnswers
  <2> QED BY <2>1, <2>2, LoopUsesUp DEF AgentMoves
<1>5. CASE TimePasses
  BY <1>5, LoopUsesUp DEF TimePasses, runner
<1>6. stage \in Stages /\ fired \in BOOLEAN
  BY DEF RunnerInv, RunnerTypeOK, Stages
<1>7. CASE ReadFiresHook \/ WorldCrashes
  <2>1. UNCHANGED <<pc, elapsed, model_turns, tool_calls, stage>>
    BY <1>7 DEF ReadFiresHook, WorldCrashes, loop, counters, agent
  <2>2. Apart' < Apart
    BY <1>6, <1>7, <2>1 DEF ReadFiresHook, WorldCrashes, Apart, Ahead, Stages
  <2> QED BY <2>1, <2>2, RestUsesUp
<1>8. CASE ResolveSnapshot \/ StartWorld \/ BuildExecutor \/ TakeSnapshot
  <2>1. UNCHANGED <<pc, elapsed, model_turns, tool_calls>>
    BY <1>8 DEF ResolveSnapshot, StartWorld, BuildExecutor, TakeSnapshot, agent
  <2>2. Apart' < Apart
    BY <1>6, <1>8 DEF ResolveSnapshot, StartWorld, BuildExecutor, TakeSnapshot, Apart, Ahead
  <2> QED BY <2>1, <2>2, RestUsesUp
<1>9. CASE EnvironmentFails \/ SessionFails \/ VerifierFails \/ Cancelled
  <2>1. UNCHANGED <<pc, elapsed, model_turns, tool_calls>>
    BY <1>9 DEF EnvironmentFails, SessionFails, VerifierFails, Cancelled, agent
  <2>2. Apart' < Apart
    BY <1>6, <1>9 DEF EnvironmentFails, SessionFails, VerifierFails, Cancelled, abort, Apart, Ahead
  <2> QED BY <2>1, <2>2, RestUsesUp
<1>10. CASE (\E v \in Verdicts : Judge(v)) \/ Complete \/ StoreFails \/ Return
  <2>1. UNCHANGED <<pc, elapsed, model_turns, tool_calls>>
    BY <1>10 DEF Judge, Complete, StoreFails, Return, loop, counters, agent
  <2>2. Apart' < Apart
    BY <1>6, <1>10 DEF Judge, Complete, StoreFails, Return, Apart, Ahead
  <2> QED BY <2>1, <2>2, RestUsesUp
<1> QED BY <1>2, <1>3, <1>4, <1>5, <1>7, <1>8, <1>9, <1>10 DEF RunnerNext, Proceed

(* However the endpoint, the tools and the world behave, a run takes no    *)
(* more than RunSteps steps: RunEnds is left to each step being taken.     *)
THEOREM EvaluationsAreBounded ==
  RunnerSpec => [](RunLeft \in 0 .. RunSteps) /\ [][RunLeft' < RunLeft]_vars
<1>1. RunnerInv => RunLeft \in 0 .. RunSteps
  BY RunLeftBounded, AgentAssumption
<1>2. RunnerInv /\ RunnerInv' /\ [RunnerNext]_vars => [RunLeft' < RunLeft]_vars
  BY RunnerStepUsesUp, AgentAssumption
<1> QED BY <1>1, <1>2, RunnerInvariance, PTL DEF RunnerSpec
=============================================================================
