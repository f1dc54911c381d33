------------------------ MODULE ReferenceAgentProofs ------------------------
(***************************************************************************)
(* Proofs about the agent's loop, for any budgets, batches and usages, and *)
(* for any executor that records what it does of a tool call.              *)
(***************************************************************************)
EXTENDS ReferenceAgent, FiniteSetTheorems, SequenceTheorems, TLAPS

----------------------------------------------------------------------------
(* The invariant.                                                          *)

Busy == pc \in {"tools", "tool"} => calls > 0

(* The answers that the last response is still owed.                       *)
Owed == IF pc \in {"tools", "tool"} THEN calls ELSE 0

Answered(i) ==
  LET n == messages[i].calls
  IN /\ i + n <= Len(messages)
     /\ \A j \in 1 .. n : messages[i + j].role = "tool"
     /\ i + n < Len(messages) => messages[i + n + 1].role # "tool"

Awaiting(i) ==
  /\ Owed > 0
  /\ i + messages[i].calls = Len(messages) + Owed
  /\ \A j \in i + 1 .. Len(messages) : messages[j].role = "tool"

(* Each message that asks for tool calls has its answers, but for the last *)
(* one, which has all that it is not owed.                                 *)
ConversationOK ==
  pc \in {"turn", "model", "tools", "tool"} =>
    \A i \in DOMAIN messages : messages[i].role # "tool" =>
      \/ Awaiting(i)
      \/ Answered(i) /\ (Owed > 0 => i + messages[i].calls < Len(messages))

Undecided ==
  /\ pc # "done" => result = "none" /\ exceeded = "none"
  /\ pc = "done" => result # "none"

FailuresRecorded == had_tool_error <=> Recorded({"tool.error"}) # {}

(* How a run ended is recorded once it has, and not before.                *)
EndRecorded ==
  /\ pc # "done" => Recorded({"agent.completed"}) = {} /\ Recorded({"agent.error"}) = {}
  /\ (pc = "done" /\ result \in {"pass", "tool_error"}) =>
       /\ Recorded({"agent.completed"}) # {} /\ Recorded({"agent.error"}) = {}
       /\ result = "tool_error" <=> had_tool_error

AgentInv ==
  /\ TypeOK /\ Busy /\ Undecided /\ BudgetOutcomesDistinct
  /\ MetricsMatchTrajectory /\ FailuresRecorded /\ EndRecorded
  /\ ConversationOK

----------------------------------------------------------------------------
(* The recorder.                                                           *)

LEMMA RecordedIs ==
  ASSUME events \in Seq(Event), NEW T
  PROVE  /\ Recorded(T) \subseteq 1 .. Len(events)
         /\ IsFiniteSet(Recorded(T)) /\ Cardinality(Recorded(T)) \in Nat
<1>1. Recorded(T) \subseteq 1 .. Len(events) /\ Len(events) \in Nat
  BY DEF Recorded
<1>2. IsFiniteSet(1 .. Len(events))
  BY <1>1, FS_Interval
<1>3. IsFiniteSet(Recorded(T))
  BY <1>1, <1>2, FS_Subset
<1> QED BY <1>1, <1>3, FS_CardinalityType

LEMMA EmitIs ==
  ASSUME events \in Seq(Event), messages \in Seq(Message), NEW types \in Seq(Types), emit(types)
  PROVE  /\ events' \in Seq(Event) /\ Len(events') = Len(events) + Len(types)
         /\ Len(events) \in Nat /\ Len(types) \in Nat
         /\ DOMAIN events = 1 .. Len(events) /\ DOMAIN events' = 1 .. Len(events) + Len(types)
         /\ \A i \in 1 .. Len(events) : events'[i] = events[i]
         /\ \A i \in 1 .. Len(types) : events'[Len(events) + i].type = types[i]
<1> DEFINE es == [i \in DOMAIN types |-> EventOf(types[i])]
<1>1. \A i \in DOMAIN types : EventOf(types[i]) \in Event /\ EventOf(types[i]).type = types[i]
  BY DEF EventOf, Event
<1>2. es \in Seq(Event) /\ Len(es) = Len(types)
  BY <1>1
<1>3. \A i \in 1 .. Len(types) : es[i].type = types[i]
  BY <1>1
<1>4. events' = events \o es
  BY DEF emit
<1> HIDE DEF es
<1>5. events' \in Seq(Event) /\ Len(events') = Len(events) + Len(types)
  <2>1. events \o es \in Seq(Event) /\ Len(events \o es) = Len(events) + Len(es)
    BY <1>2
  <2> QED BY <1>2, <1>4, <2>1
<1>6. Len(events) \in Nat /\ Len(types) \in Nat
      /\ DOMAIN events = 1 .. Len(events) /\ DOMAIN events' = 1 .. Len(events')
  BY <1>5
<1>7. DOMAIN events' = 1 .. Len(events) + Len(types)
  BY <1>5, <1>6
<1>8. \A i \in 1 .. Len(events) : events'[i] = events[i]
  BY <1>2, <1>4
<1>9. \A i \in 1 .. Len(types) : events'[Len(events) + i] = es[i]
  BY <1>2, <1>4
<1> QED BY <1>3, <1>5, <1>6, <1>7, <1>8, <1>9

(* What is recorded after: what was before, and the new ones.              *)
LEMMA EmitRecords ==
  ASSUME events \in Seq(Event), messages \in Seq(Message), NEW types \in Seq(Types), emit(types),
         NEW T
  PROVE  \A i : i \in Recorded(T)' <=>
           i \in Recorded(T) \/ \E j \in 1 .. Len(types) : types[j] \in T /\ i = Len(events) + j
<1>1. ASSUME NEW i \in 1 .. Len(events)
      PROVE  i \in Recorded(T)' <=> i \in Recorded(T)
  BY EmitIs DEF Recorded
<1>2. ASSUME NEW j \in 1 .. Len(types)
      PROVE  Len(events) + j \in Recorded(T)' <=> types[j] \in T
  BY EmitIs DEF Recorded
<1>3. ASSUME NEW i \in Recorded(T)', i \notin 1 .. Len(events)
      PROVE  \E j \in 1 .. Len(types) : types[j] \in T /\ i = Len(events) + j
  <2>1. i \in 1 .. Len(events) + Len(types)
    BY EmitIs DEF Recorded
  <2>2. i - Len(events) \in 1 .. Len(types) /\ i = Len(events) + (i - Len(events))
    BY <1>3, <2>1, EmitIs
  <2> QED BY <1>2, <1>3, <2>2
<1>4. Recorded(T) \subseteq 1 .. Len(events)
  BY EmitIs DEF Recorded
<1> QED BY <1>1, <1>2, <1>3, <1>4

(* What is emitted of other types does not count.                          *)
LEMMA EmitKeeps ==
  ASSUME events \in Seq(Event), messages \in Seq(Message), NEW types \in Seq(Types), emit(types),
         NEW T, \A i \in 1 .. Len(types) : types[i] \notin T
  PROVE  Recorded(T)' = Recorded(T)
<1>1. \A i : i \in Recorded(T)' <=> i \in Recorded(T)
  BY EmitRecords
<1> QED BY <1>1

(* Whatever is emitted once counts once.                                   *)
LEMMA EmitAdds ==
  ASSUME events \in Seq(Event), messages \in Seq(Message), NEW types \in Seq(Types), emit(types),
         NEW T, NEW k \in 1 .. Len(types), \A i \in 1 .. Len(types) : types[i] \in T <=> i = k
  PROVE  /\ Recorded(T)' = Recorded(T) \cup {Len(events) + k}
         /\ Cardinality(Recorded(T))' = Cardinality(Recorded(T)) + 1
<1>1. Recorded(T)' = Recorded(T) \cup {Len(events) + k}
  <2> DEFINE adds(i) == \E j \in 1 .. Len(types) : types[j] \in T /\ i = Len(events) + j
  <2>1. \A i : adds(i) <=> i = Len(events) + k
    OBVIOUS
  <2>2. \A i : i \in Recorded(T)' <=> i \in Recorded(T) \/ adds(i)
    BY EmitRecords
  <2> HIDE DEF adds
  <2> QED BY <2>1, <2>2
<1>2. Len(events) + k \notin Recorded(T)
  BY EmitIs DEF Recorded
<1> QED BY <1>1, <1>2, RecordedIs, FS_AddElement

(* One event counts where its type does.                                   *)
LEMMA EmitOne ==
  ASSUME events \in Seq(Event), messages \in Seq(Message), NEW type \in Types, emit(<<type>>)
  PROVE  /\ events' \in Seq(Event) /\ Len(events') = Len(events) + 1
         /\ events'[Len(events')].type = type
         /\ \A T : type \notin T => Recorded(T)' = Recorded(T)
         /\ \A T : type \in T =>
              /\ Recorded(T)' = Recorded(T) \cup {Len(events')}
              /\ Cardinality(Recorded(T))' = Cardinality(Recorded(T)) + 1
<1> DEFINE types == <<type>>
<1>1. types \in Seq(Types) /\ Len(types) = 1 /\ types[1] = type
  OBVIOUS
<1>2. emit(types) /\ 1 \in 1 .. Len(types)
  BY <1>1
<1> HIDE DEF types
<1>3. \A i \in 1 .. Len(types) : i = 1 /\ types[i] = type
  BY <1>1
<1>4. ASSUME NEW T, type \notin T PROVE Recorded(T)' = Recorded(T)
  BY <1>1, <1>2, <1>3, <1>4, EmitKeeps
<1>5. ASSUME NEW T, type \in T
      PROVE  /\ Recorded(T)' = Recorded(T) \cup {Len(events) + 1}
             /\ Cardinality(Recorded(T))' = Cardinality(Recorded(T)) + 1
  <2>1. \A i \in 1 .. Len(types) : types[i] \in T <=> i = 1
    BY <1>3, <1>5
  <2> QED BY <1>1, <1>2, <2>1, EmitAdds
<1>6. events' \in Seq(Event) /\ Len(events') = Len(events) + 1 /\ events'[Len(events) + 1].type = type
  BY <1>1, <1>2, EmitIs
<1> QED BY <1>4, <1>5, <1>6

----------------------------------------------------------------------------
(* The steps of the loop, one by one.                                      *)

(* What an executor records of a tool call, besides the agent.             *)
WorldTypes == {"world.api.request", "world.api.response", "control.response"}

(* A limit, or an exception, ends the run.                                 *)
Stops ==
  /\ pc \in {"turn", "model", "tools"} /\ pc' = "done"
  /\ emit(<<"agent.error">>)
  /\ UNCHANGED <<elapsed, model_turns, tool_calls, tokens, had_tool_error, calls, messages>>
  /\ \/ result' = "agent_error" /\ exceeded' = exceeded
     \/ result' = "timeout" /\ exceeded' = "wall_seconds" /\ elapsed = MaxWall
     \/ /\ result' = "budget_exceeded"
        /\ \/ exceeded' = "model_turns" /\ model_turns = MaxTurns
           \/ exceeded' = "tool_calls" /\ tool_calls = MaxToolCalls
           \/ exceeded' = "tokens" /\ MaxTokens # Unlimited

Requests ==
  /\ pc = "turn" /\ pc' = "model"
  /\ model_turns' = model_turns + 1 /\ model_turns + 1 <= MaxTurns
  /\ emit(<<"model.request">>)
  /\ UNCHANGED <<elapsed, tool_calls, tokens, exceeded, had_tool_error, calls, messages, result>>

Responds(usage) ==
  /\ pc = "model"
  /\ tokens' = tokens + usage /\ Within(tokens, usage, MaxTokens)
  /\ UNCHANGED <<elapsed, model_turns, tool_calls, exceeded, had_tool_error>>

Finishes(usage) ==
  /\ Responds(usage)
  /\ pc' = "done" /\ result' = IF had_tool_error THEN "tool_error" ELSE "pass"
  /\ emit(<<"model.response", "agent.completed">>)
  /\ UNCHANGED <<calls, messages>>

Asks(n, usage) ==
  /\ Responds(usage)
  /\ pc' = "tools" /\ calls' = n /\ n # 0
  /\ messages' = Append(messages, Say("assistant", n))
  /\ emit(<<"model.response">>)
  /\ UNCHANGED result

Dispatches(recorded) ==
  /\ pc = "tools" /\ pc' = "tool"
  /\ tool_calls' = tool_calls + 1 /\ tool_calls + 1 <= MaxToolCalls
  /\ emit(<<"tool.call">> \o recorded)
  /\ UNCHANGED <<elapsed, model_turns, tokens, exceeded, had_tool_error, calls, messages, result>>

(* What the loop does, whatever records its tool calls.                    *)
AgentMoves ==
  \/ Think
  \/ \E recorded \in Seq(WorldTypes) :
       CallTool(recorded) \/ \E failed \in BOOLEAN : ToolReturns(failed, recorded)

LEMMA StepKinds ==
  ASSUME AgentAssumption, TypeOK, AgentMoves
  PROVE  \/ BuildPromptFails \/ Begin \/ Stops \/ Requests
         \/ \E usage \in Usages : Finishes(usage)
         \/ \E n \in Batches, usage \in Usages : Asks(n, usage)
         \/ \E recorded \in Seq(WorldTypes) : Dispatches(recorded)
         \/ \E recorded \in Seq(WorldTypes), failed \in BOOLEAN : ToolReturns(failed, recorded)
<1>1. ~check_wall => elapsed = MaxWall
  BY DEF AgentAssumption, TypeOK, check_wall
<1>2. MaxTurns # Unlimited /\ MaxToolCalls # Unlimited
  BY DEF AgentAssumption
<1>3. CASE RequestModel
  BY <1>1, <1>2, <1>3 DEF RequestModel, Exceed, Stops, Requests, Within, TypeOK, AgentAssumption
<1>4. ASSUME NEW n \in Batches, NEW usage \in Usages, ModelAnswers(n, usage)
      PROVE  Stops \/ Finishes(usage) \/ Asks(n, usage)
  BY <1>1, <1>4 DEF ModelAnswers, Exceed, Stops, Finishes, Asks, Responds, Within
<1>5. CASE ModelFails
  BY <1>5 DEF ModelFails, Fail, Stops, counters
<1>6. ASSUME NEW recorded \in Seq(WorldTypes), CallTool(recorded)
      PROVE  Stops \/ Dispatches(recorded)
  BY <1>1, <1>2, <1>6 DEF CallTool, Exceed, Stops, Dispatches, Within, TypeOK, AgentAssumption
<1> QED BY <1>3, <1>4, <1>5, <1>6 DEF AgentMoves, Think

----------------------------------------------------------------------------
(* What the steps record.                                                  *)

LEMMA FinishRecords ==
  ASSUME events \in Seq(Event), messages \in Seq(Message),
         emit(<<"model.response", "agent.completed">>)
  PROVE  /\ events' \in Seq(Event) /\ Len(events') = Len(events) + 2
         /\ events'[Len(events')].type = "agent.completed"
         /\ \A T : {"model.response", "agent.completed"} \cap T = {} => Recorded(T)' = Recorded(T)
         /\ \A T : ("agent.completed" \in T /\ "model.response" \notin T) =>
              Recorded(T)' = Recorded(T) \cup {Len(events')}
<1> DEFINE types == <<"model.response", "agent.completed">>
<1>1. types \in Seq(Types) /\ Len(types) = 2
      /\ types[1] = "model.response" /\ types[2] = "agent.completed"
  BY DEF Types
<1>2. emit(types) /\ 2 \in 1 .. Len(types)
  BY <1>1
<1> HIDE DEF types
<1>3. \A i \in 1 .. Len(types) : (i = 1 /\ types[i] = "model.response") \/ (i = 2 /\ types[i] = "agent.completed")
  BY <1>1
<1>4. ASSUME NEW T, {"model.response", "agent.completed"} \cap T = {}
      PROVE  Recorded(T)' = Recorded(T)
  BY <1>1, <1>2, <1>3, <1>4, EmitKeeps
<1>5. ASSUME NEW T, "agent.completed" \in T, "model.response" \notin T
      PROVE  Recorded(T)' = Recorded(T) \cup {Len(events) + 2}
  <2>1. \A i \in 1 .. Len(types) : types[i] \in T <=> i = 2
    BY <1>1, <1>3, <1>5
  <2> QED BY <1>1, <1>2, <2>1, EmitAdds
<1>6. events' \in Seq(Event) /\ Len(events') = Len(events) + 2
      /\ events'[Len(events) + 2].type = "agent.completed"
  BY <1>1, <1>2, EmitIs
<1> QED BY <1>4, <1>5, <1>6

LEMMA DispatchRecords ==
  ASSUME events \in Seq(Event), messages \in Seq(Message), NEW W \in SUBSET WorldTypes,
         NEW recorded \in Seq(W),
         emit(<<"tool.call">> \o recorded)
  PROVE  /\ events' \in Seq(Event)
         /\ Cardinality(Recorded({"tool.call"}))' = Cardinality(Recorded({"tool.call"})) + 1
         /\ \A T : (W \cup {"tool.call"}) \cap T = {} => Recorded(T)' = Recorded(T)
<1> DEFINE types == <<"tool.call">> \o recorded
<1>1. <<"tool.call">> \in Seq(Types) /\ recorded \in Seq(Types)
  <2>1. WorldTypes \subseteq Types
    BY DEF Types, WorldTypes
  <2>2. \A i \in 1 .. Len(recorded) : recorded[i] \in Types
    BY <2>1
  <2> QED BY <2>2 DEF Types
<1>2. types \in Seq(Types) /\ Len(types) = 1 + Len(recorded) /\ types[1] = "tool.call"
      /\ \A i \in 2 .. Len(types) : types[i] = recorded[i - 1]
  <2>1. Len(<<"tool.call">>) = 1
    OBVIOUS
  <2> QED BY <1>1, <2>1, ConcatProperties
<1>3. emit(types)
  OBVIOUS
<1> HIDE DEF types
<1>4. \A i \in 1 .. Len(types) : i # 1 => types[i] \in W
  <2> SUFFICES ASSUME NEW i \in 1 .. Len(types), i # 1 PROVE types[i] \in W
    OBVIOUS
  <2>1. i - 1 \in 1 .. Len(recorded) /\ types[i] = recorded[i - 1]
    BY <1>2
  <2> QED BY <2>1
<1>5. 1 \in 1 .. Len(types) /\ \A i \in 1 .. Len(types) : types[i] \in {"tool.call"} <=> i = 1
  <2>1. Len(recorded) \in Nat /\ "tool.call" \notin W
    BY DEF WorldTypes
  <2> QED BY <1>2, <1>4, <2>1
<1>6. Cardinality(Recorded({"tool.call"}))' = Cardinality(Recorded({"tool.call"})) + 1
  BY <1>2, <1>3, <1>5, EmitAdds
<1>7. ASSUME NEW T, (W \cup {"tool.call"}) \cap T = {}
      PROVE  Recorded(T)' = Recorded(T)
  <2>1. \A i \in 1 .. Len(types) : types[i] \notin T
    BY <1>2, <1>4, <1>7
  <2> QED BY <1>2, <1>3, <2>1, EmitKeeps
<1> QED BY <1>2, <1>3, <1>6, <1>7, EmitIs

LEMMA ReturnRecords ==
  ASSUME events \in Seq(Event), messages \in Seq(Message), NEW W \in SUBSET WorldTypes,
         NEW recorded \in Seq(W),
         NEW failed \in BOOLEAN, emit(recorded \o ToolEvents(failed))
  PROVE  /\ events' \in Seq(Event)
         /\ Cardinality(Recorded({"tool.result"}))' = Cardinality(Recorded({"tool.result"})) + 1
         /\ failed => Recorded({"tool.error"})' # {}
         /\ ~failed => Recorded({"tool.error"})' = Recorded({"tool.error"})
         /\ \A T : (W \cup {"tool.result", "tool.error"}) \cap T = {} => Recorded(T)' = Recorded(T)
<1> DEFINE last == ToolEvents(failed)
           types == recorded \o last
           n == Len(recorded)
<1>1. recorded \in Seq(Types) /\ n \in Nat /\ last \in Seq(Types)
      /\ Len(last) = (IF failed THEN 2 ELSE 1) /\ last[1] = "tool.result"
      /\ (failed => last[2] = "tool.error")
  <2>1. recorded \in Seq(Types) /\ n \in Nat
    <3>1. WorldTypes \subseteq Types
      BY DEF Types, WorldTypes
    <3>2. \A i \in 1 .. Len(recorded) : recorded[i] \in Types
      BY <3>1
    <3> QED BY <3>2
  <2>2. CASE failed
    BY <2>1, <2>2 DEF Types, ToolEvents
  <2>3. CASE ~failed
    BY <2>1, <2>3 DEF Types, ToolEvents
  <2> QED BY <2>2, <2>3
<1>2. emit(types)
  OBVIOUS
<1> HIDE DEF last
<1>3. types \in Seq(Types) /\ Len(types) = n + Len(last)
      /\ \A i \in 1 .. n + Len(last) : types[i] = IF i <= n THEN recorded[i] ELSE last[i - n]
  BY <1>1, ConcatProperties
<1>9. \A i \in 1 .. n : recorded[i] \in W
  OBVIOUS
<1> HIDE DEF types, n
<1>4. /\ n + 1 \in 1 .. Len(types) /\ types[n + 1] = "tool.result"
      /\ failed => n + 2 \in 1 .. Len(types) /\ types[n + 2] = "tool.error"
      /\ \A i \in 1 .. Len(types) : \/ types[i] \in W \/ i = n + 1 \/ (failed /\ i = n + 2)
  <2>1. 1 .. Len(types) = 1 .. n + Len(last) /\ (Len(last) = 1 \/ Len(last) = 2)
    BY <1>1, <1>3
  <2>2. n + 1 \in 1 .. Len(types) /\ ~(n + 1 <= n) /\ (n + 1) - n = 1
    BY <1>1, <2>1
  <2>3. failed => n + 2 \in 1 .. Len(types) /\ ~(n + 2 <= n) /\ (n + 2) - n = 2
    BY <1>1, <2>1
  <2>4. types[n + 1] = "tool.result" /\ (failed => types[n + 2] = "tool.error")
    BY <1>1, <1>3, <2>1, <2>2, <2>3
  <2>5. \A i \in 1 .. Len(types) : i \in 1 .. n \/ i = n + 1 \/ (failed /\ i = n + 2)
    BY <1>1, <2>1
  <2>6. \A i \in 1 .. n : types[i] \in W
    BY <1>1, <1>3, <1>9, <2>1
  <2> QED BY <2>2, <2>3, <2>4, <2>5, <2>6
<1>5. Cardinality(Recorded({"tool.result"}))' = Cardinality(Recorded({"tool.result"})) + 1
  <2>1. \A i \in 1 .. Len(types) : types[i] \in {"tool.result"} <=> i = n + 1
    BY <1>1, <1>4 DEF WorldTypes
  <2> QED BY <1>2, <1>3, <1>4, <2>1, EmitAdds
<1>6. ASSUME failed PROVE Recorded({"tool.error"})' # {}
  <2>1. ASSUME NEW T, T = {"tool.error"}
        PROVE  Recorded(T)' # {}
    <3>1. n + 2 \in 1 .. Len(types)
      BY <1>4, <1>6
    <3>2. \A i \in 1 .. Len(types) : types[i] \in T <=> i = n + 2
      BY <1>1, <1>4, <1>6, <2>1 DEF WorldTypes
    <3>3. Recorded(T)' = Recorded(T) \cup {Len(events) + (n + 2)}
      BY <1>2, <1>3, <3>1, <3>2, EmitAdds
    <3> QED BY <3>3
  <2> QED BY <2>1
<1>7. ASSUME ~failed PROVE Recorded({"tool.error"})' = Recorded({"tool.error"})
  <2>1. \A i \in 1 .. Len(types) : types[i] \notin {"tool.error"}
    BY <1>1, <1>4, <1>7 DEF WorldTypes
  <2> QED BY <1>2, <1>3, <2>1, EmitKeeps
<1>8. ASSUME NEW T, (W \cup {"tool.result", "tool.error"}) \cap T = {}
      PROVE  Recorded(T)' = Recorded(T)
  <2>1. \A i \in 1 .. Len(types) : types[i] \notin T
    BY <1>4, <1>8
  <2> QED BY <1>2, <1>3, <2>1, EmitKeeps
<1> QED BY <1>2, <1>3, <1>5, <1>6, <1>7, <1>8, EmitIs

----------------------------------------------------------------------------
(* Steps.                                                                  *)

(* Where nothing but the clock, or the place of a run that raised, changes.*)
LEMMA IdleKeeps ==
  ASSUME AgentAssumption, AgentInv,
         BuildPromptFails \/ Tick \/ UNCHANGED agent
  PROVE  AgentInv'
<1>1. /\ pc' = pc \/ (pc = "idle" /\ pc' = "raised")
      /\ elapsed' = elapsed \/ (elapsed < MaxWall /\ elapsed' = elapsed + 1 /\ pc # "done")
      /\ UNCHANGED <<model_turns, tool_calls, tokens, exceeded, had_tool_error, calls, messages,
                     events, result>>
  BY DEF BuildPromptFails, Tick, agent, counters
<1>2. \A T : Recorded(T)' = Recorded(T)
  BY <1>1 DEF Recorded
<1>3. TypeOK' /\ Busy' /\ Undecided'
  BY <1>1 DEF AgentInv, AgentAssumption, TypeOK, Within, Busy, Undecided
<1>4. BudgetOutcomesDistinct'
  BY <1>1 DEF AgentInv, BudgetOutcomesDistinct, Undecided
<1>5. MetricsMatchTrajectory' /\ FailuresRecorded' /\ EndRecorded'
  BY <1>1, <1>2 DEF AgentInv, MetricsMatchTrajectory, FailuresRecorded, EndRecorded
<1>6. ConversationOK'
  BY <1>1 DEF AgentInv, ConversationOK, Awaiting, Answered, Owed
<1> QED BY <1>3, <1>4, <1>5, <1>6 DEF AgentInv

LEMMA BeginKeeps ==
  ASSUME AgentAssumption, AgentInv, Begin
  PROVE  AgentInv'
<1>1. /\ pc = "idle" /\ pc' = "turn" /\ messages' = <<Say("system", 0), Say("user", 0)>>
      /\ emit(<<"agent.started">>)
      /\ UNCHANGED <<elapsed, model_turns, tool_calls, tokens, exceeded, had_tool_error, calls, result>>
  BY DEF Begin, counters
<1>2. events' \in Seq(Event) /\ \A T : "agent.started" \notin T => Recorded(T)' = Recorded(T)
  BY <1>1, EmitOne DEF AgentInv, TypeOK, Types
<1>3. messages' \in Seq(Message)
  BY <1>1 DEF Say, Message
<1>4. TypeOK' /\ Busy' /\ Undecided' /\ BudgetOutcomesDistinct'
  BY <1>1, <1>2, <1>3 DEF AgentInv, TypeOK, Within, Busy, Undecided, BudgetOutcomesDistinct
<1>5. MetricsMatchTrajectory' /\ FailuresRecorded' /\ EndRecorded'
  BY <1>1, <1>2 DEF AgentInv, MetricsMatchTrajectory, FailuresRecorded, EndRecorded
<1>6. ConversationOK'
  BY <1>1 DEF ConversationOK, Answered, Owed, Say
<1> QED BY <1>4, <1>5, <1>6 DEF AgentInv

LEMMA StopsKeeps ==
  ASSUME AgentAssumption, AgentInv, Stops
  PROVE  AgentInv'
<1>1. events' \in Seq(Event) /\ \A T : "agent.error" \notin T => Recorded(T)' = Recorded(T)
  BY EmitOne DEF Stops, AgentInv, TypeOK, Types
<1>2. pc # "done" /\ pc # "tool" /\ pc' = "done" /\ result' \in {"agent_error", "timeout", "budget_exceeded"}
      /\ UNCHANGED <<elapsed, model_turns, tool_calls, tokens, had_tool_error, calls, messages>>
  BY DEF Stops
<1>3. TypeOK' /\ Busy' /\ Undecided'
  BY <1>1, <1>2 DEF Stops, AgentInv, TypeOK, Within, Busy, Undecided, Dimensions, Statuses
<1>4. BudgetOutcomesDistinct'
  BY <1>2 DEF Stops, AgentInv, Undecided, BudgetOutcomesDistinct
<1>5. MetricsMatchTrajectory' /\ FailuresRecorded' /\ EndRecorded'
  BY <1>1, <1>2 DEF AgentInv, MetricsMatchTrajectory, FailuresRecorded, EndRecorded
<1>6. ConversationOK'
  BY <1>2 DEF ConversationOK
<1> QED BY <1>3, <1>4, <1>5, <1>6 DEF AgentInv

LEMMA RequestsKeeps ==
  ASSUME AgentAssumption, AgentInv, Requests
  PROVE  AgentInv'
<1>1. /\ events' \in Seq(Event)
      /\ \A T : "model.request" \notin T => Recorded(T)' = Recorded(T)
      /\ Cardinality(Recorded({"model.request"}))' = Cardinality(Recorded({"model.request"})) + 1
  BY EmitOne DEF Requests, AgentInv, TypeOK, Types
<1>2. TypeOK' /\ Busy' /\ Undecided' /\ BudgetOutcomesDistinct'
  BY <1>1 DEF Requests, AgentInv, AgentAssumption, TypeOK, Within, Busy, Undecided, BudgetOutcomesDistinct
<1>3. MetricsMatchTrajectory' /\ FailuresRecorded' /\ EndRecorded'
  BY <1>1 DEF Requests, AgentInv, MetricsMatchTrajectory, FailuresRecorded, EndRecorded
<1>4. ConversationOK'
  BY DEF Requests, AgentInv, ConversationOK, Awaiting, Answered, Owed
<1> QED BY <1>2, <1>3, <1>4 DEF AgentInv

LEMMA FinishesKeeps ==
  ASSUME AgentAssumption, AgentInv, NEW usage \in Usages, Finishes(usage)
  PROVE  AgentInv'
<1>1. /\ events' \in Seq(Event)
      /\ \A T : {"model.response", "agent.completed"} \cap T = {} => Recorded(T)' = Recorded(T)
      /\ Recorded({"agent.completed"})' = Recorded({"agent.completed"}) \cup {Len(events')}
  BY FinishRecords DEF Finishes, AgentInv, TypeOK
<1>2. /\ pc = "model" /\ pc' = "done" /\ result' = IF had_tool_error THEN "tool_error" ELSE "pass"
      /\ tokens' = tokens + usage /\ Within(tokens, usage, MaxTokens)
      /\ UNCHANGED <<elapsed, model_turns, tool_calls, exceeded, had_tool_error, calls, messages>>
  BY DEF Finishes, Responds
<1>3. TypeOK' /\ Busy' /\ Undecided' /\ BudgetOutcomesDistinct'
  BY <1>1, <1>2 DEF AgentInv, AgentAssumption, TypeOK, Within, Busy, Undecided, BudgetOutcomesDistinct, Statuses
<1>4. MetricsMatchTrajectory' /\ FailuresRecorded' /\ EndRecorded'
  BY <1>1, <1>2 DEF AgentInv, MetricsMatchTrajectory, FailuresRecorded, EndRecorded
<1>5. ConversationOK'
  BY <1>2 DEF ConversationOK
<1> QED BY <1>3, <1>4, <1>5 DEF AgentInv

(* A new batch: whoever asked before has its answers, and is followed by   *)
(* the message that asks now.                                              *)
LEMMA AsksKeeps ==
  ASSUME AgentAssumption, AgentInv, NEW n \in Batches, NEW usage \in Usages, Asks(n, usage)
  PROVE  AgentInv'
<1> DEFINE m == Len(messages)
<1>1. /\ events' \in Seq(Event)
      /\ \A T : "model.response" \notin T => Recorded(T)' = Recorded(T)
  BY EmitOne DEF Asks, AgentInv, TypeOK, Types
<1>2. /\ pc = "model" /\ pc' = "tools" /\ calls' = n /\ n \in Nat /\ n # 0
      /\ messages' = Append(messages, Say("assistant", n))
      /\ tokens' = tokens + usage /\ Within(tokens, usage, MaxTokens)
      /\ UNCHANGED <<elapsed, model_turns, tool_calls, exceeded, had_tool_error, result>>
  BY DEF Asks, Responds, AgentAssumption
<1>3. messages \in Seq(Message) /\ m \in Nat /\ Say("assistant", n) \in Message
  BY <1>2 DEF AgentInv, TypeOK, Say, Message
<1>4. /\ messages' \in Seq(Message) /\ Len(messages') = m + 1 /\ messages'[m + 1] = Say("assistant", n)
      /\ \A i \in 1 .. m : messages'[i] = messages[i]
      /\ DOMAIN messages = 1 .. m /\ DOMAIN messages' = 1 .. m + 1
  BY <1>2, <1>3
<1>5. TypeOK' /\ Busy' /\ Undecided' /\ BudgetOutcomesDistinct'
  BY <1>1, <1>2, <1>4 DEF AgentInv, AgentAssumption, TypeOK, Within, Busy, Undecided, BudgetOutcomesDistinct
<1>6. MetricsMatchTrajectory' /\ FailuresRecorded' /\ EndRecorded'
  BY <1>1, <1>2 DEF AgentInv, MetricsMatchTrajectory, FailuresRecorded, EndRecorded
<1>7. ConversationOK'
  <2> SUFFICES ASSUME NEW i \in DOMAIN messages', messages'[i].role # "tool"
               PROVE  Awaiting(i)' \/ (Answered(i)' /\ i + messages'[i].calls < Len(messages'))
    BY DEF ConversationOK
  <2>1. Owed' = n
    BY <1>2 DEF Owed
  <2>2. CASE i = m + 1
    <3>1. messages'[i].calls = n /\ i + n = Len(messages') + n /\ n > 0
      BY <1>2, <1>4, <2>2 DEF Say
    <3>2. i + 1 .. Len(messages') = {}
      BY <1>3, <1>4, <2>2
    <3> QED BY <2>1, <3>1, <3>2 DEF Awaiting
  <2>3. CASE i \in 1 .. m
    <3>1. Answered(i)
      BY <1>2, <1>4, <2>3 DEF AgentInv, ConversationOK, Awaiting, Owed
    <3>2. messages[i].calls \in Nat
      <4>1. messages[i] \in Message
        BY <1>3, <2>3
      <4> QED BY <4>1 DEF Message
    <3> DEFINE k == messages[i].calls
    <3>3. k \in Nat /\ i + k <= m /\ messages'[i].calls = k
          /\ (\A j \in 1 .. k : messages[i + j].role = "tool")
          /\ (i + k < m => messages[i + k + 1].role # "tool")
      BY <1>4, <2>3, <3>1, <3>2 DEF Answered
    <3> HIDE DEF k
    <3>4. \A j \in 1 .. k : messages'[i + j].role = "tool"
      BY <1>3, <1>4, <2>3, <3>3
    <3>5. messages'[i + k + 1].role # "tool"
      <4>1. CASE i + k < m
        BY <1>3, <1>4, <2>3, <3>3, <4>1
      <4>2. CASE i + k = m
        BY <1>4, <2>3, <3>3, <4>2 DEF Say
      <4> QED BY <1>3, <2>3, <3>3, <4>1, <4>2
    <3> QED BY <1>3, <1>4, <2>3, <3>3, <3>4, <3>5 DEF Answered
  <2> QED BY <1>3, <1>4, <2>2, <2>3
<1> QED BY <1>5, <1>6, <1>7 DEF AgentInv

LEMMA DispatchesKeeps ==
  ASSUME AgentAssumption, AgentInv, NEW recorded \in Seq(WorldTypes), Dispatches(recorded)
  PROVE  AgentInv'
<1>1. /\ events' \in Seq(Event)
      /\ Cardinality(Recorded({"tool.call"}))' = Cardinality(Recorded({"tool.call"})) + 1
      /\ \A T : (WorldTypes \cup {"tool.call"}) \cap T = {} => Recorded(T)' = Recorded(T)
  BY DispatchRecords DEF Dispatches, AgentInv, TypeOK
<1>2. /\ pc = "tools" /\ pc' = "tool" /\ tool_calls' = tool_calls + 1 /\ tool_calls + 1 <= MaxToolCalls
      /\ UNCHANGED <<elapsed, model_turns, tokens, exceeded, had_tool_error, calls, messages, result>>
  BY DEF Dispatches
<1>3. TypeOK' /\ Busy' /\ Undecided' /\ BudgetOutcomesDistinct'
  BY <1>1, <1>2 DEF AgentInv, AgentAssumption, TypeOK, Within, Busy, Undecided, BudgetOutcomesDistinct
<1>4. MetricsMatchTrajectory'
  <2>1. /\ Recorded({"model.request"})' = Recorded({"model.request"})
        /\ Recorded({"tool.result"})' = Recorded({"tool.result"})
    BY <1>1 DEF WorldTypes
  <2> QED BY <1>1, <1>2, <2>1 DEF AgentInv, TypeOK, MetricsMatchTrajectory
<1>5. FailuresRecorded' /\ EndRecorded'
  <2>1. /\ Recorded({"tool.error"})' = Recorded({"tool.error"})
        /\ Recorded({"agent.completed"})' = Recorded({"agent.completed"})
        /\ Recorded({"agent.error"})' = Recorded({"agent.error"})
    BY <1>1 DEF WorldTypes
  <2> QED BY <1>2, <2>1 DEF AgentInv, FailuresRecorded, EndRecorded
<1>6. ConversationOK'
  BY <1>2 DEF AgentInv, ConversationOK, Awaiting, Answered, Owed
<1> QED BY <1>3, <1>4, <1>5, <1>6 DEF AgentInv

(* One answer more, and one less owed.                                     *)
LEMMA ReturnsKeeps ==
  ASSUME AgentAssumption, AgentInv, NEW recorded \in Seq(WorldTypes), NEW failed \in BOOLEAN,
         ToolReturns(failed, recorded)
  PROVE  AgentInv'
<1> DEFINE m == Len(messages)
<1>1. /\ events' \in Seq(Event)
      /\ Cardinality(Recorded({"tool.result"}))' = Cardinality(Recorded({"tool.result"})) + 1
      /\ failed => Recorded({"tool.error"})' # {}
      /\ ~failed => Recorded({"tool.error"})' = Recorded({"tool.error"})
      /\ \A T : (WorldTypes \cup {"tool.result", "tool.error"}) \cap T = {} => Recorded(T)' = Recorded(T)
  BY ReturnRecords DEF ToolReturns, AgentInv, TypeOK
<1>2. /\ pc = "tool" /\ pc' = IF calls = 1 THEN "turn" ELSE "tools"
      /\ calls' = calls - 1 /\ calls \in Nat /\ calls > 0
      /\ had_tool_error' = (had_tool_error \/ failed)
      /\ messages' = Append(messages, Say("tool", 0))
      /\ UNCHANGED <<elapsed, model_turns, tool_calls, tokens, exceeded, result>>
  BY DEF ToolReturns, counters, AgentInv, TypeOK, Busy
<1>3. messages \in Seq(Message) /\ m \in Nat /\ Say("tool", 0) \in Message
  BY DEF AgentInv, TypeOK, Say, Message
<1>4. /\ messages' \in Seq(Message) /\ Len(messages') = m + 1 /\ messages'[m + 1].role = "tool"
      /\ \A i \in 1 .. m : messages'[i] = messages[i]
      /\ DOMAIN messages = 1 .. m /\ DOMAIN messages' = 1 .. m + 1
  BY <1>2, <1>3 DEF Say
<1>5. TypeOK' /\ Busy' /\ Undecided' /\ BudgetOutcomesDistinct'
  <2>1. calls' \in Nat /\ (calls # 1 => calls' > 0) /\ had_tool_error' \in BOOLEAN
    BY <1>2
  <2> QED BY <1>1, <1>2, <1>4, <2>1 DEF AgentInv, TypeOK, Within, Busy, Undecided, BudgetOutcomesDistinct
<1>6. MetricsMatchTrajectory'
  <2>1. /\ Recorded({"model.request"})' = Recorded({"model.request"})
        /\ Recorded({"tool.call"})' = Recorded({"tool.call"})
    BY <1>1 DEF WorldTypes
  <2> QED BY <1>1, <1>2, <2>1 DEF AgentInv, TypeOK, MetricsMatchTrajectory
<1>7. FailuresRecorded' /\ EndRecorded'
  <2>1. /\ Recorded({"agent.completed"})' = Recorded({"agent.completed"})
        /\ Recorded({"agent.error"})' = Recorded({"agent.error"})
    BY <1>1 DEF WorldTypes
  <2>2. FailuresRecorded'
    BY <1>1, <1>2 DEF AgentInv, FailuresRecorded
  <2> QED BY <1>2, <2>1, <2>2 DEF AgentInv, EndRecorded
<1>8. ConversationOK'
  <2> SUFFICES ASSUME NEW i \in DOMAIN messages', messages'[i].role # "tool"
               PROVE  \/ Awaiting(i)'
                      \/ Answered(i)' /\ (Owed' > 0 => i + messages'[i].calls < Len(messages'))
    BY DEF ConversationOK
  <2>1. i \in 1 .. m /\ messages'[i] = messages[i] /\ messages[i].role # "tool"
    BY <1>3, <1>4
  <2> DEFINE k == messages[i].calls
  <2>2. k \in Nat /\ messages'[i].calls = k
    <3>1. messages[i] \in Message
      BY <1>3, <2>1
    <3> QED BY <2>1, <3>1 DEF Message
  <2>3. Owed = calls /\ Owed' = calls - 1
    BY <1>2 DEF Owed
  <2>4. Awaiting(i) \/ (Answered(i) /\ i + k < m)
    BY <1>2, <1>4, <2>1, <2>3 DEF AgentInv, ConversationOK
  <2>5. CASE Awaiting(i)
    <3>1. i + k = m + calls /\ \A j \in i + 1 .. m : messages[j].role = "tool"
      BY <2>3, <2>5 DEF Awaiting
    <3> HIDE DEF k
    <3>2. \A j \in i + 1 .. m + 1 : messages'[j].role = "tool"
      <4> SUFFICES ASSUME NEW j \in i + 1 .. m + 1 PROVE messages'[j].role = "tool"
        OBVIOUS
      <4>1. CASE j = m + 1
        BY <1>4, <4>1
      <4>2. CASE j \in i + 1 .. m
        BY <1>3, <1>4, <2>1, <3>1, <4>2
      <4> QED BY <1>3, <2>1, <4>1, <4>2
    <3>3. CASE calls > 1
      BY <1>2, <1>3, <1>4, <2>1, <2>2, <2>3, <3>1, <3>2, <3>3 DEF Awaiting
    <3>4. CASE calls = 1
      <4>1. i + k = m + 1 /\ \A j \in 1 .. k : i + j \in i + 1 .. m + 1
        BY <1>3, <2>1, <2>2, <3>1, <3>4
      <4> QED BY <1>3, <1>4, <2>1, <2>2, <2>3, <3>2, <3>4, <4>1 DEF Answered
    <3> QED BY <1>2, <3>3, <3>4
  <2>6. CASE Answered(i) /\ i + k < m
    <3>1. /\ \A j \in 1 .. k : messages[i + j].role = "tool"
          /\ messages[i + k + 1].role # "tool"
      BY <2>6 DEF Answered
    <3> HIDE DEF k
    <3>2. /\ \A j \in 1 .. k : messages'[i + j].role = "tool"
          /\ messages'[i + k + 1].role # "tool"
      BY <1>3, <1>4, <2>1, <2>2, <2>6, <3>1
    <3> QED BY <1>3, <1>4, <2>1, <2>2, <2>6, <3>2 DEF Answered
  <2> QED BY <2>4, <2>5, <2>6
<1> QED BY <1>5, <1>6, <1>7, <1>8 DEF AgentInv

LEMMA AgentMovesKeep ==
  ASSUME AgentAssumption, AgentInv, AgentMoves
  PROVE  AgentInv'
<1>1. TypeOK
  BY DEF AgentInv
<1> QED BY <1>1, StepKinds, IdleKeeps, BeginKeeps, StopsKeeps, RequestsKeeps, FinishesKeeps, AsksKeeps,
           DispatchesKeeps, ReturnsKeeps

(* Init but for the events, of which none is the agent's.                  *)
LEMMA AgentInitKeeps ==
  ASSUME AgentAssumption, AgentInit, events \in Seq(Event),
         \A i \in DOMAIN events : events[i].type = "run.started"
  PROVE  AgentInv
<1>1. ASSUME NEW T, "run.started" \notin T
      PROVE  Recorded(T) = {}
  BY <1>1 DEF Recorded
<1>2. TypeOK /\ Busy /\ Undecided /\ BudgetOutcomesDistinct
  <2>1. << >> \in Seq(Message)
    OBVIOUS
  <2>2. 0 \in 0 .. MaxWall /\ 0 \in 0 .. MaxTurns /\ 0 \in 0 .. MaxToolCalls
        /\ Within(0, 0, MaxTokens)
    BY DEF AgentAssumption, Within
  <2> QED BY <2>1, <2>2 DEF AgentInit, TypeOK, Busy, Undecided, BudgetOutcomesDistinct
<1>3. Cardinality({}) = 0
  BY FS_EmptySet
<1>4. MetricsMatchTrajectory /\ FailuresRecorded /\ EndRecorded
  <2>1. /\ Recorded({"model.request"}) = {} /\ Recorded({"tool.call"}) = {}
        /\ Recorded({"tool.result"}) = {} /\ Recorded({"tool.error"}) = {}
        /\ Recorded({"agent.completed"}) = {} /\ Recorded({"agent.error"}) = {}
    BY <1>1
  <2>2. MetricsMatchTrajectory
    <3>1. /\ Cardinality(Recorded({"model.request"})) = 0
          /\ Cardinality(Recorded({"tool.call"})) = 0
          /\ Cardinality(Recorded({"tool.result"})) = 0
      BY <1>3, <2>1, Zenon
    <3>2. model_turns = 0 /\ tool_calls = 0 /\ tool_calls - (IF pc = "tool" THEN 1 ELSE 0) = 0
      BY DEF AgentInit
    <3> QED BY <3>1, <3>2, Zenon DEF MetricsMatchTrajectory
  <2>3. FailuresRecorded
    BY <2>1 DEF AgentInit, FailuresRecorded
  <2>4. EndRecorded
    BY <2>1 DEF AgentInit, EndRecorded
  <2> QED BY <2>2, <2>3, <2>4
<1>5. ConversationOK
  BY DEF AgentInit, ConversationOK
<1> QED BY <1>2, <1>4, <1>5 DEF AgentInv

LEMMA ConversationFollows ==
  ASSUME AgentInv
  PROVE  ConversationComplete
BY DEF AgentInv, TypeOK, ConversationOK, Awaiting, Answered, Owed, ConversationComplete

(* The final event is recorded by the step that ends the run.              *)
LEMMA StatusKeeps ==
  ASSUME AgentAssumption, AgentInv, StatusMatchesTrajectory, AgentMoves \/ Tick \/ UNCHANGED agent
  PROVE  StatusMatchesTrajectory'
<1> DEFINE ends == {"agent.completed", "agent.error"}
<1>1. Recorded(ends) = Recorded({"agent.completed"}) \cup Recorded({"agent.error"})
  BY DEF Recorded
<1>2. pc # "done" => Recorded(ends) = {}
  BY <1>1 DEF AgentInv, EndRecorded
<1>3. CASE Stops
  <2>1. pc # "done" /\ pc' = "done" /\ result' \notin {"pass", "tool_error"}
    BY <1>3 DEF Stops, AgentInv, Undecided
  <2>2. Recorded(ends)' = {Len(events')} /\ events'[Len(events')].type = "agent.error"
    BY <1>2, <1>3, <2>1, EmitOne DEF Stops, AgentInv, TypeOK, Types
  <2> QED BY <2>1, <2>2 DEF StatusMatchesTrajectory
<1>4. ASSUME NEW usage \in Usages, Finishes(usage)
      PROVE  StatusMatchesTrajectory'
  <2>1. /\ pc = "model" /\ pc' = "done" /\ result' = IF had_tool_error THEN "tool_error" ELSE "pass"
        /\ had_tool_error' = had_tool_error /\ emit(<<"model.response", "agent.completed">>)
    BY <1>4 DEF Finishes, Responds
  <2>2. /\ Recorded(ends)' = {Len(events')} /\ events'[Len(events')].type = "agent.completed"
        /\ Recorded({"tool.error"})' = Recorded({"tool.error"})
    BY <1>2, <2>1, FinishRecords DEF AgentInv, TypeOK
  <2>3. result' = "tool_error" <=> Recorded({"tool.error"})' # {}
    BY <2>1, <2>2 DEF AgentInv, FailuresRecorded
  <2> QED BY <2>1, <2>2, <2>3 DEF StatusMatchesTrajectory
<1>5. ASSUME pc' # "done"
      PROVE  StatusMatchesTrajectory'
  BY <1>5 DEF StatusMatchesTrajectory
<1>6. CASE UNCHANGED agent
  BY <1>6 DEF agent, StatusMatchesTrajectory, Recorded
<1>7. CASE BuildPromptFails \/ Begin \/ Requests \/ Tick
  BY <1>5, <1>7 DEF BuildPromptFails, Begin, Requests, Tick
<1>8. ASSUME NEW n \in Batches, NEW usage \in Usages, Asks(n, usage)
      PROVE  StatusMatchesTrajectory'
  BY <1>5, <1>8 DEF Asks
<1>9. ASSUME NEW recorded, Dispatches(recorded) \/ \E failed \in BOOLEAN : ToolReturns(failed, recorded)
      PROVE  StatusMatchesTrajectory'
  BY <1>5, <1>9 DEF Dispatches, ToolReturns
<1> QED BY <1>3, <1>4, <1>6, <1>7, <1>8, <1>9, StepKinds DEF AgentInv

----------------------------------------------------------------------------
(* The theorems.                                                           *)

LEMMA AgentInvariance == Spec => [](AgentInv /\ StatusMatchesTrajectory)
<1>1. Init => AgentInv /\ StatusMatchesTrajectory
  <2> SUFFICES ASSUME Init PROVE AgentInv /\ StatusMatchesTrajectory
    OBVIOUS
  <2>1. events \in Seq(Event) /\ DOMAIN events = {}
    BY DEF Init
  <2> QED BY <2>1, AgentInitKeeps, AgentAssumption DEF Init, AgentInit, StatusMatchesTrajectory
<1>2. ASSUME AgentInv, StatusMatchesTrajectory, [Next]_agent
      PROVE  AgentInv' /\ StatusMatchesTrajectory'
  <2>1. << >> \in Seq(WorldTypes)
    OBVIOUS
  <2>2. AgentMoves \/ Tick \/ UNCHANGED agent
    BY <1>2, <2>1 DEF Next, AgentStep, Act, AgentMoves
  <2> QED BY <1>2, <2>2, AgentMovesKeep, IdleKeeps, StatusKeeps, AgentAssumption
<1> QED BY <1>1, <1>2, PTL DEF Spec

(* No counter passes its limit, whichever check stands before it.          *)
THEOREM TypeCorrect == Spec => []TypeOK
<1>1. AgentInv => TypeOK
  BY DEF AgentInv
<1> QED BY <1>1, AgentInvariance, PTL

(* The metrics agree with the trajectory, wherever the loop is left.       *)
THEOREM MetricsCorrect == Spec => []MetricsMatchTrajectory
<1>1. AgentInv => MetricsMatchTrajectory
  BY DEF AgentInv
<1> QED BY <1>1, AgentInvariance, PTL

(* Whatever the responses ask for, and whichever calls fail, the model is  *)
(* shown an answer to each call of each of its messages, in its place.     *)
THEOREM ConversationCorrect == Spec => []ConversationComplete
<1>1. AgentInv => ConversationComplete
  BY ConversationFollows
<1> QED BY <1>1, AgentInvariance, PTL

(* The status and the last event tell the same end.                        *)
THEOREM StatusCorrect == Spec => []StatusMatchesTrajectory
BY AgentInvariance, PTL

(* `timeout` is the clock's, `budget_exceeded` a counter's at its limit.   *)
THEOREM OutcomesCorrect == Spec => []BudgetOutcomesDistinct
<1>1. AgentInv => BudgetOutcomesDistinct
  BY DEF AgentInv
<1> QED BY <1>1, AgentInvariance, PTL

----------------------------------------------------------------------------
(* How long a run can be: each step uses up some of what the budgets have  *)
(* left. It is the half of Termination that is not about fairness.         *)

(* A turn, and a tool call, are two steps: it begins and it ends.          *)
Steps == 2 * (MaxTurns + MaxToolCalls) + MaxWall + 2

Underway == IF pc \in {"idle", "model", "tool"} THEN 2
            ELSE IF pc \in {"turn", "tools"} THEN 1 ELSE 0

Left == 2 * ((MaxTurns - model_turns) + (MaxToolCalls - tool_calls)) + (MaxWall - elapsed) + Underway

LEMMA LeftBounded ==
  ASSUME AgentAssumption, TypeOK
  PROVE  Left \in 0 .. Steps
BY DEF AgentAssumption, TypeOK, Left, Steps, Underway

LEMMA MovesUseUp ==
  ASSUME AgentAssumption, TypeOK, TypeOK', AgentMoves \/ Tick
  PROVE  Left' < Left
<1>1. /\ MaxTurns \in Nat /\ MaxToolCalls \in Nat /\ MaxWall \in Nat
      /\ model_turns \in Nat /\ tool_calls \in Nat /\ elapsed \in Nat
  BY DEF AgentAssumption, TypeOK
<1>2. CASE BuildPromptFails \/ Begin
  BY <1>1, <1>2 DEF BuildPromptFails, Begin, counters, Left, Underway
<1>3. CASE Stops
  BY <1>1, <1>3 DEF Stops, Left, Underway
<1>4. CASE Requests
  BY <1>1, <1>4 DEF Requests, Left, Underway
<1>5. ASSUME NEW n, NEW usage, Finishes(usage) \/ Asks(n, usage)
      PROVE  Left' < Left
  <2>1. /\ pc = "model" /\ pc' \in {"done", "tools"}
        /\ UNCHANGED <<elapsed, model_turns, tool_calls>>
    BY <1>5 DEF Finishes, Asks, Responds
  <2>2. Underway = 2 /\ Underway' \in {0, 1}
    BY <2>1 DEF Underway
  <2> DEFINE unused == 2 * ((MaxTurns - model_turns) + (MaxToolCalls - tool_calls)) + (MaxWall - elapsed)
  <2>3. unused \in Int /\ Left = unused + Underway /\ Left' = unused + Underway'
    BY <1>1, <2>1, <2>2 DEF Left
  <2>4. \A rest \in Int, u \in {0, 1} : rest + u < rest + 2
    OBVIOUS
  <2> HIDE DEF unused
  <2>5. unused + Underway' < unused + 2
    BY <2>2, <2>3, <2>4, Zenon
  <2> QED BY <2>2, <2>3, <2>5, Zenon
<1>6. ASSUME NEW recorded, Dispatches(recorded)
      PROVE  Left' < Left
  BY <1>1, <1>6 DEF Dispatches, Left, Underway
<1>7. ASSUME NEW recorded, NEW failed, ToolReturns(failed, recorded)
      PROVE  Left' < Left
  BY <1>1, <1>7 DEF ToolReturns, counters, Left, Underway
<1>8. CASE Tick
  BY <1>1, <1>8 DEF Tick, counters, Left, Underway
<1> QED BY <1>2, <1>3, <1>4, <1>5, <1>6, <1>7, <1>8, StepKinds

(* No run takes more than Steps steps, whatever the model goes on asking   *)
(* for: what is left is a number up to Steps, and every step lessens it.   *)
THEOREM RunsAreBounded == Spec => [](Left \in 0 .. Steps) /\ [][Left' < Left]_agent
<1>1. AgentInv => Left \in 0 .. Steps
  BY LeftBounded, AgentAssumption DEF AgentInv
<1>2. ASSUME AgentInv, AgentInv', [Next]_agent
      PROVE  [Left' < Left]_agent
  <2>1. << >> \in Seq(WorldTypes)
    OBVIOUS
  <2>2. AgentMoves \/ Tick \/ UNCHANGED agent
    BY <1>2, <2>1 DEF Next, AgentStep, Act, AgentMoves
  <2> QED BY <1>2, <2>2, MovesUseUp, AgentAssumption DEF AgentInv
<1> QED BY <1>1, <1>2, AgentInvariance, PTL DEF Spec
=============================================================================
