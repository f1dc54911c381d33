----------------------------- MODULE Evaluation -----------------------------
(***************************************************************************)
(* What one evaluation promises to whoever asked for it, with no agent, no *)
(* tools, no budgets and no trajectory: a world that comes up once and     *)
(* goes down for good, at most one human edit in it, an outcome that is    *)
(* decided once, a record that says the same, and an answer.               *)
(***************************************************************************)
CONSTANT Concurrent    (* does the task stage a human edit                  *)

VARIABLES
  world,      (* "captured" when it is down and its final state is known    *)
  edit,       (* the human edit                                             *)
  outcome,    (* the status and the verdict the caller would be given       *)
  record,     (* the status that is stored                                  *)
  answer      (* "none" while the evaluation is under way                   *)

evaluation == <<world, edit, outcome, record, answer>>

Outcome(status, verdict) == [status |-> status, verdict |-> verdict]

Undecided == Outcome("none", "none")
EnvironmentError == Outcome("environment_error", "not_run")

(* A final state that is known can be judged. An agent that had trouble    *)
(* with its tools is not scored for the verdict it gets, one that did not  *)
(* come to an answer gets none, and a verifier can fail.                   *)
Judgements ==
  { Outcome("pass", "passed"), Outcome("partial", "partial"), Outcome("task_fail", "failed") }
    \cup { Outcome("tool_error", v) : v \in {"passed", "partial", "failed"} }
    \cup { Outcome(s, "not_run") : s \in {"agent_error", "timeout", "budget_exceeded", "verifier_error"} }

Down(w) == IF w \in {"up", "captured"} THEN "stopped" ELSE w

----------------------------------------------------------------------------
Init ==
  /\ world = "down" /\ edit = "unsent"
  /\ outcome = Undecided /\ record = "none" /\ answer = "none"

Open ==
  /\ world = "down" /\ outcome = Undecided
  /\ world' = "up"
  /\ UNCHANGED <<edit, outcome, record, answer>>

Crash ==
  /\ world = "up" /\ world' = "crashed"
  /\ UNCHANGED <<edit, outcome, record, answer>>

SendEdit ==
  /\ Concurrent /\ world = "up" /\ edit = "unsent"
  /\ edit' = "sent"
  /\ UNCHANGED <<world, outcome, record, answer>>

TakeEdit ==
  /\ edit = "sent" /\ world = "up"
  /\ edit' = "taken"
  /\ UNCHANGED <<world, outcome, record, answer>>

MissEdit ==
  /\ edit = "sent" /\ edit' = "failed"
  /\ UNCHANGED <<world, outcome, record, answer>>

(* The world is looked at for the last time: it is still there, and the    *)
(* edit was not sent, or was made.                                         *)
Capture ==
  /\ world = "up" /\ edit \in {"unsent", "taken"}
  /\ world' = "captured"
  /\ UNCHANGED <<edit, outcome, record, answer>>

Judge ==
  /\ world = "captured"
  /\ outcome' \in Judgements
  /\ world' = Down(world)
  /\ UNCHANGED <<edit, record, answer>>

(* Without a final state, nobody is to blame but the environment.          *)
Abort ==
  /\ world # "captured" /\ edit # "sent" /\ outcome = Undecided
  /\ outcome' = EnvironmentError
  /\ world' = Down(world)
  /\ UNCHANGED <<edit, record, answer>>

Store ==
  /\ outcome # Undecided /\ record = "none"
  /\ record' = outcome.status
  /\ UNCHANGED <<world, edit, outcome, answer>>

Return ==
  /\ outcome # Undecided /\ record = outcome.status
  /\ answer' = "returned"
  /\ UNCHANGED <<world, edit, outcome, record>>

(* The caller gets an exception, and no outcome.                           *)
Raise ==
  /\ answer' = "raised" /\ outcome' = Undecided
  /\ world' = Down(world)
  /\ UNCHANGED <<edit, record>>

Next ==
  /\ answer = "none"
  /\ \/ Open \/ Crash
     \/ SendEdit \/ TakeEdit \/ MissEdit
     \/ Capture \/ Judge \/ Abort
     \/ Store \/ Return \/ Raise

Spec == Init /\ [][Next]_evaluation
=============================================================================
