--------------------------- MODULE ReferenceAgent ---------------------------
(***************************************************************************)
(* The model/tool loop of runtime/reference_agent.py under the budgets of  *)
(* runner/budgets.py, recording into runner/recorder.py.                   *)
(*                                                                         *)
(* The model (the LLM endpoint) and the tools answer or fail as they like. *)
(* Time passes between any two steps; the loop looks at the clock only     *)
(* where the code calls check_wall. One action is the code between two     *)
(* awaits that really suspend: a call of the model or of a tool.           *)
(***************************************************************************)
EXTENDS Naturals, Sequences, FiniteSets

CONSTANTS
  MaxWall, MaxTurns, MaxToolCalls,  (* the ExecutionBudget                  *)
  MaxTokens,                        (* ... a number, or Unlimited           *)
  Unlimited,
  Batches,      (* how many tool calls a response may ask for               *)
  Usages        (* how many tokens a response may have cost                 *)

ASSUME AgentAssumption ==
  /\ MaxWall \in Nat /\ MaxTurns \in Nat /\ MaxToolCalls \in Nat
  /\ MaxTokens \in Nat \cup {Unlimited} /\ Unlimited \notin Nat
  /\ Batches \subseteq Nat /\ Usages \subseteq Nat

VARIABLES
  pc,              (* where run() is                                        *)
  elapsed,         (* the tracker's wall clock, stopped at MaxWall          *)
  model_turns, tool_calls, tokens,  (* the tracker's counters               *)
  exceeded,        (* the dimension of the BudgetExceeded raised, or "none" *)
  had_tool_error,
  calls,           (* tool calls of the last response still to be made      *)
  messages,        (* the conversation                                      *)
  events,          (* the recorder's events                                 *)
  result           (* the RuntimeResult's status, or "none"                 *)

agent == <<pc, elapsed, model_turns, tool_calls, tokens, exceeded, had_tool_error,
           calls, messages, events, result>>

Dimensions == {"wall_seconds", "model_turns", "tool_calls", "tokens"}
Statuses == {"pass", "tool_error", "agent_error", "timeout", "budget_exceeded"}
Types == {"run.started", "agent.started", "model.request", "model.response", "tool.call",
          "tool.result", "tool.error", "world.api.request", "world.api.response",
          "control.request", "control.response",   (* world.api.*, by the runner *)
          "agent.error", "agent.completed", "verification.completed", "run.completed"}

(* `size` is the length of the conversation when the event was appended.   *)
Event == [type: Types, size: Nat]
Message == [role: {"system", "user", "assistant", "tool"}, calls: Nat]

EventOf(type) == [type |-> type, size |-> Len(messages)]
Say(role, n) == [role |-> role, calls |-> n]

(* TrajectoryRecorder.append                                               *)
emit(types) == events' = events \o [i \in DOMAIN types |-> EventOf(types[i])]

(* What the i-th event, a model.request, says was sent: append copies the  *)
(* payload's top level only, so the list under "messages" is the loop's    *)
(* own, and is dumped as it is when the trajectory is stored.              *)
Says(i) == Len(messages)

----------------------------------------------------------------------------
(* BudgetTracker.                                                          *)

check_wall == elapsed < MaxWall

(* Mutant: the limit itself is taken for one more.                         *)
WithinOneMore(used, amount, limit) == limit # Unlimited => used + amount <= limit + 1

(* check_and_bump and record_tokens raise when the attempted value would   *)
(* pass the limit, and count only when they do not raise.                  *)
Within(used, amount, limit) == limit # Unlimited => used + amount <= limit

(* Mutant: a passed wall-clock limit is reported like any other.           *)
ExceedAlike(dimension) ==
  /\ pc' = "done" /\ exceeded' = dimension /\ result' = "budget_exceeded"
  /\ emit(<<"agent.error">>)

(* Mutant: the exception is swallowed and the loop goes round again.       *)
ExceedAndGoOn(dimension) ==
  /\ exceeded' = dimension
  /\ UNCHANGED <<pc, events, result>>

(* The handler of BudgetExceeded ends the run.                             *)
Exceed(dimension) ==
  /\ pc' = "done" /\ exceeded' = dimension
  /\ result' = IF dimension = "wall_seconds" THEN "timeout" ELSE "budget_exceeded"
  /\ emit(<<"agent.error">>)

(* ... and so does that of any other exception.                            *)
Fail ==
  /\ pc' = "done" /\ result' = "agent_error"
  /\ emit(<<"agent.error">>)
  /\ UNCHANGED exceeded

counters == <<model_turns, tool_calls, tokens>>

----------------------------------------------------------------------------
(* The prompt is built before the loop's try: an artifact that cannot be   *)
(* read makes run() raise.                                                 *)
BuildPromptFails ==
  /\ pc = "idle"
  /\ pc' = "raised"
  /\ UNCHANGED <<elapsed, counters, exceeded, had_tool_error, calls, messages, events, result>>

Begin ==
  /\ pc = "idle"
  /\ pc' = "turn"
  /\ messages' = << Say("system", 0), Say("user", 0) >>
  /\ emit(<<"agent.started">>)
  /\ UNCHANGED <<elapsed, counters, exceeded, had_tool_error, calls, result>>

(* check_wall, check_and_bump("model_turns"), the event, and the call.     *)
RequestModel ==
  /\ pc = "turn"
  /\ \/ /\ ~check_wall
        /\ Exceed("wall_seconds") /\ UNCHANGED model_turns
     \/ /\ check_wall /\ ~Within(model_turns, 1, MaxTurns)
        /\ Exceed("model_turns") /\ UNCHANGED model_turns
     \/ /\ check_wall /\ Within(model_turns, 1, MaxTurns)
        /\ model_turns' = model_turns + 1
        /\ pc' = "model"
        /\ emit(<<"model.request">>)
        /\ UNCHANGED <<exceeded, result>>
  /\ UNCHANGED <<elapsed, tool_calls, tokens, had_tool_error, calls, messages>>

(* The response: check_wall, record_tokens, the event, and either the      *)
(* final answer or the tool calls it asks for.                             *)
ModelAnswers(n, usage) ==
  /\ pc = "model"
  /\ \/ /\ ~check_wall
        /\ Exceed("wall_seconds") /\ UNCHANGED <<tokens, calls, messages>>
     \/ /\ check_wall /\ ~Within(tokens, usage, MaxTokens)
        /\ Exceed("tokens") /\ UNCHANGED <<tokens, calls, messages>>
     \/ /\ check_wall /\ Within(tokens, usage, MaxTokens)
        /\ tokens' = tokens + usage
        /\ IF n = 0
           THEN /\ pc' = "done"
                /\ result' = IF had_tool_error THEN "tool_error" ELSE "pass"
                /\ emit(<<"model.response", "agent.completed">>)
                /\ UNCHANGED <<calls, messages>>
           ELSE /\ pc' = "tools" /\ calls' = n
                /\ messages' = Append(messages, Say("assistant", n))
                /\ emit(<<"model.response">>)
                /\ UNCHANGED result
        /\ UNCHANGED exceeded
  /\ UNCHANGED <<elapsed, model_turns, tool_calls, had_tool_error>>

(* The endpoint fails, or answers what is no LLMResponse.                  *)
ModelFails ==
  /\ pc = "model"
  /\ Fail
  /\ UNCHANGED <<elapsed, counters, had_tool_error, calls, messages>>

(* Mutant: the call is made and not counted.                               *)
CallToolUncounted(recorded) ==
  /\ pc = "tools"
  /\ IF check_wall
     THEN /\ pc' = "tool" /\ emit(<<"tool.call">> \o recorded)
          /\ UNCHANGED <<exceeded, result>>
     ELSE Exceed("wall_seconds")
  /\ UNCHANGED <<elapsed, counters, had_tool_error, calls, messages>>

(* One tool call begins; `recorded` is what the executor records of it.    *)
CallTool(recorded) ==
  /\ pc = "tools"
  /\ \/ /\ ~check_wall
        /\ Exceed("wall_seconds") /\ UNCHANGED tool_calls
     \/ /\ check_wall /\ ~Within(tool_calls, 1, MaxToolCalls)
        /\ Exceed("tool_calls") /\ UNCHANGED tool_calls
     \/ /\ check_wall /\ Within(tool_calls, 1, MaxToolCalls)
        /\ tool_calls' = tool_calls + 1
        /\ pc' = "tool"
        /\ emit(<<"tool.call">> \o recorded)
        /\ UNCHANGED <<exceeded, result>>
  /\ UNCHANGED <<elapsed, model_turns, tokens, had_tool_error, calls, messages>>

ToolEvents(failed) == IF failed THEN <<"tool.result", "tool.error">> ELSE <<"tool.result">>

(* Mutant: a failed call is recorded and the model never told.             *)
ToolReturnsSilently(failed, recorded) ==
  /\ pc = "tool"
  /\ had_tool_error' = (had_tool_error \/ failed)
  /\ messages' = IF failed THEN messages ELSE Append(messages, Say("tool", 0))
  /\ calls' = calls - 1
  /\ pc' = IF calls = 1 THEN "turn" ELSE "tools"
  /\ emit(recorded \o ToolEvents(failed))
  /\ UNCHANGED <<elapsed, counters, exceeded, result>>

(* Mutant: the last call decides whether the run had a tool error.         *)
ToolReturnsForgetting(failed, recorded) ==
  /\ pc = "tool"
  /\ had_tool_error' = failed
  /\ messages' = Append(messages, Say("tool", 0))
  /\ calls' = calls - 1
  /\ pc' = IF calls = 1 THEN "turn" ELSE "tools"
  /\ emit(recorded \o ToolEvents(failed))
  /\ UNCHANGED <<elapsed, counters, exceeded, result>>

(* It ends, with a result, an error result or an exception caught.         *)
ToolReturns(failed, recorded) ==
  /\ pc = "tool"
  /\ had_tool_error' = (had_tool_error \/ failed)
  /\ messages' = Append(messages, Say("tool", 0))
  /\ calls' = calls - 1
  /\ pc' = IF calls = 1 THEN "turn" ELSE "tools"
  /\ emit(recorded \o ToolEvents(failed))
  /\ UNCHANGED <<elapsed, counters, exceeded, result>>

Tick ==
  /\ pc \notin {"done", "raised"}
  /\ elapsed < MaxWall
  /\ elapsed' = elapsed + 1
  /\ UNCHANGED <<pc, counters, exceeded, had_tool_error, calls, messages, events, result>>

----------------------------------------------------------------------------
AgentInit ==
  /\ pc = "idle"
  /\ elapsed = 0 /\ model_turns = 0 /\ tool_calls = 0 /\ tokens = 0
  /\ exceeded = "none" /\ had_tool_error = FALSE /\ calls = 0
  /\ messages = << >>
  /\ result = "none"

(* What the agent does without its tools.                                  *)
Think ==
  \/ BuildPromptFails
  \/ Begin
  \/ RequestModel
  \/ \E n \in Batches, usage \in Usages : ModelAnswers(n, usage)
  \/ ModelFails

Act ==
  \/ CallTool(<< >>)
  \/ \E failed \in BOOLEAN : ToolReturns(failed, << >>)

AgentStep == Think \/ Act

Init == AgentInit /\ events = << >>

Next == AgentStep \/ Tick

(* Every call of the model and of a tool ends: both go through an HTTP     *)
(* client with a timeout.                                                  *)
Spec == Init /\ [][Next]_agent /\ WF_agent(AgentStep)

----------------------------------------------------------------------------
(* Properties.                                                             *)

Recorded(types) == {i \in DOMAIN events : events[i].type \in types}

TypeOK ==
  /\ pc \in {"idle", "turn", "model", "tools", "tool", "done", "raised"}
  /\ elapsed \in 0 .. MaxWall
  /\ model_turns \in 0 .. MaxTurns /\ tool_calls \in 0 .. MaxToolCalls
  /\ tokens \in Nat /\ Within(tokens, 0, MaxTokens)
  /\ exceeded \in Dimensions \cup {"none"}
  /\ had_tool_error \in BOOLEAN
  /\ calls \in Nat
  /\ messages \in Seq(Message)
  /\ events \in Seq(Event)
  /\ result \in Statuses \cup {"none"}

(* The metrics stored with a rollout agree with its trajectory, whatever   *)
(* ended the run: as many turns as model.request events, as many calls as  *)
(* tool.call events, and a result for every call but the one under way.    *)
MetricsMatchTrajectory ==
  /\ Cardinality(Recorded({"model.request"})) = model_turns
  /\ Cardinality(Recorded({"tool.call"})) = tool_calls
  /\ Cardinality(Recorded({"tool.result"})) = tool_calls - (IF pc = "tool" THEN 1 ELSE 0)

(* What the model is asked is a conversation it accepts: each of its       *)
(* messages that asks for n tool calls is followed by exactly n answers.   *)
ConversationComplete ==
  pc = "model" =>
    \A i \in {j \in DOMAIN messages : messages[j].role # "tool"} :
      LET n == messages[i].calls
      IN /\ i + n <= Len(messages)
         /\ \A j \in 1 .. n : messages[i + j].role = "tool"
         /\ i + n < Len(messages) => messages[i + n + 1].role # "tool"

(* The status tells what happened: the trajectory of a run that ended has  *)
(* one final event, its last; `pass` means that no tool ever failed, and   *)
(* `tool_error` that some tool did, however long ago.                      *)
StatusMatchesTrajectory ==
  pc = "done" =>
    LET final == IF result \in {"pass", "tool_error"} THEN "agent.completed" ELSE "agent.error"
    IN /\ Recorded({"agent.completed", "agent.error"}) = {Len(events)}
       /\ events[Len(events)].type = final
       /\ final = "agent.completed" =>
            (result = "tool_error" <=> Recorded({"tool.error"}) # {})

(* Budget violations are distinct outcomes: `timeout` for the clock and    *)
(* nothing else, `budget_exceeded` for a counter that stands at its limit. *)
BudgetOutcomesDistinct ==
  /\ result = "timeout" <=> exceeded = "wall_seconds"
  /\ exceeded = "wall_seconds" => elapsed = MaxWall
  /\ result = "budget_exceeded" =>
       \/ exceeded = "model_turns" /\ model_turns = MaxTurns
       \/ exceeded = "tool_calls" /\ tool_calls = MaxToolCalls
       \/ exceeded = "tokens" /\ MaxTokens # Unlimited

(* A run ends, however long the model goes on asking for tools: the turn   *)
(* budget, the finite responses and the calls' own timeouts see to it.     *)
Termination == <>(pc \in {"done", "raised"})

(* trajectory.py: an event is one interaction recorded at an observable    *)
(* boundary. What a model.request event of the stored trajectory says is   *)
(* the conversation that was sent with that request.                       *)
RequestsRecordedAsSent == pc = "done" =>
  \A i \in Recorded({"model.request"}) : Says(i) = events[i].size
=============================================================================
