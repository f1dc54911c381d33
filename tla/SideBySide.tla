----------------------------- MODULE SideBySide -----------------------------
(***************************************************************************)
(* Runs side by side in one Python process: the sessions of ProcessWorld   *)
(* and, inside each, the tool executor of runner/runner.py with the tools  *)
(* of packages/baseline/mcp/server.py.                                     *)
(*                                                                         *)
(* The executors of all runs share one os.environ, through which a tool    *)
(* learns which world to call and for whom. Unlike a control request, a    *)
(* tool's request carries no key: whatever child serves the port answers.  *)
(***************************************************************************)
EXTENDS ProcessWorld

CONSTANTS
  Nobody,         (* ACTOR_ID is not set                                    *)
  MaxCalls        (* max_tool_calls of the runs' ExecutionBudget            *)

ASSUME SideBySideAssumption == Nobody \notin Providers /\ MaxCalls \in Nat

VARIABLES
  environ,   (* WORLD_API_URL and ACTOR_ID in os.environ                    *)
  call,      (* the tool call each run is at, and the values it will put back *)
  made,      (* tool calls of the current session                           *)
  astray,    (* the requests that did not go home                           *)
  judged     (* worlds that gave their session its final snapshot           *)

executors == <<environ, call, made, astray, judged>>
allVars == <<vars, executors>>

Environment == [url: Ports \cup {NoPort}, actor: Providers \cup {Nobody}]
Unset == [url |-> NoPort, actor |-> Nobody]

(* `sent` is what the request carries: its target, and X-Actor.            *)
Call == [at: {"none", "sent", "back"}, sent: Environment, old: Environment]
NoCall == [at |-> "none", sent |-> Unset, old |-> Unset]

(* The world of a provider's open session, which may be the child that an  *)
(* earlier start(), cancelled, has left behind.                            *)
World(p) == <<p, handle[p]>>

(* A request of a run in world `own`, sent in the name of `actor`, that a  *)
(* child of `to` answered.                                                 *)
Request == [own: Children, actor: Providers \cup {Nobody}, to: Providers]

WentHome(r) == r.actor = r.own[1] /\ r.to = r.own[1]

Working(p) == step[p] = "open" /\ World(p) \notin judged

----------------------------------------------------------------------------
(* _BaselineToolExecutor.execute.                                          *)

(* Mutant: the variables are set only if nobody has set them before.       *)
ExecuteSettingDefault(p) ==
  /\ Working(p) /\ call[p].at = "none" /\ made[p] < MaxCalls
  /\ environ' = IF environ = Unset THEN [url |-> port[p], actor |-> p] ELSE environ
  /\ call' = [call EXCEPT ![p] = [at |-> "sent", sent |-> environ', old |-> environ]]
  /\ made' = [made EXCEPT ![p] = @ + 1]
  /\ UNCHANGED <<vars, astray, judged>>

(* The old values are kept, the run's own are set, and the tool has read   *)
(* them when its request makes it wait for the first time.                 *)
Execute(p) ==
  /\ Working(p) /\ call[p].at = "none" /\ made[p] < MaxCalls
  /\ environ' = [url |-> port[p], actor |-> p]
  /\ call' = [call EXCEPT ![p] = [at |-> "sent", sent |-> environ', old |-> environ]]
  /\ made' = [made EXCEPT ![p] = @ + 1]
  /\ UNCHANGED <<vars, astray, judged>>

(* The request is handled by the child that serves the port by now.        *)
Answer(p) ==
  /\ call[p].at = "sent"
  /\ \E c \in Children :
       /\ Serves(c, call[p].sent.url)
       /\ LET r == [own |-> World(p), actor |-> call[p].sent.actor, to |-> c[1]]
          IN  astray' = IF WentHome(r) THEN astray ELSE astray \cup {r}
  /\ call' = [call EXCEPT ![p].at = "back"]
  /\ UNCHANGED <<vars, environ, made, judged>>

(* _restore_environment, in the `finally`: this call's old values come     *)
(* back, whatever other runs have set meanwhile.                           *)
restore_environment(p) ==
  /\ environ' = call[p].old
  /\ call' = [call EXCEPT ![p] = NoCall]

(* The call ends: answered, refused, or after httpx's timeout; if a human  *)
(* edit is staged, with that, the variables still set.                     *)
Return(p) ==
  /\ call[p].at # "none"
  /\ restore_environment(p)
  /\ UNCHANGED <<vars, made, astray, judged>>

(* Cancelled at one of the call's awaits: the `finally`s of execute and of *)
(* the session, in this order.                                             *)
CancelCall(p) ==
  /\ call[p].at # "none"
  /\ restore_environment(p)
  /\ Cancel(p)
  /\ UNCHANGED <<made, astray, judged>>

----------------------------------------------------------------------------
(* Runner.run, around the agent.                                           *)

(* The agent has ended and the world is asked for its final state; without *)
(* the answer the run is an environment_error and nobody verifies it.      *)
FinalSnapshot(p) ==
  /\ Working(p) /\ call[p].at = "none"
  /\ Obeying(p) # {}
  /\ judged' = judged \cup {World(p)}
  /\ UNCHANGED <<vars, environ, call, made, astray>>

(* Everything the session does between two tool calls.                     *)
SessionProceeds(p) == call[p].at = "none" /\ Proceed(p) /\ UNCHANGED executors
SessionCancelled(p) == call[p].at = "none" /\ Cancel(p) /\ UNCHANGED executors

(* The provider's next run.                                                *)
NextRun(p) ==
  /\ NextSession(p)
  /\ made' = [made EXCEPT ![p] = 0]
  /\ UNCHANGED <<environ, call, astray, judged>>

----------------------------------------------------------------------------
SideBySideInit ==
  /\ Init
  /\ environ = Unset
  /\ call = [p \in Providers |-> NoCall]
  /\ made = [p \in Providers |-> 0]
  /\ astray = {} /\ judged = {}

SideBySideNext ==
  \/ \E p \in Providers :
       \/ SessionProceeds(p) \/ SessionCancelled(p) \/ NextRun(p)
       \/ Execute(p) \/ Answer(p) \/ Return(p) \/ CancelCall(p)
       \/ FinalSnapshot(p)
  \/ \E c \in Children : (Boots(c) \/ Exits(c)) /\ UNCHANGED executors

(* httpx's timeout ends every call, and ExecutionBudget the calls.         *)
SideBySideSpec ==
  /\ SideBySideInit /\ [][SideBySideNext]_allVars
  /\ \A p \in Providers : WF_allVars(SessionProceeds(p) \/ Return(p))

----------------------------------------------------------------------------
(* Properties.                                                             *)

SideBySideTypeOK ==
  /\ TypeOK
  /\ environ \in Environment
  /\ call \in [Providers -> Call]
  /\ made \in [Providers -> 0 .. MaxCalls]
  /\ astray \subseteq Request
  /\ judged \subseteq Children
  /\ \A p \in Providers : call[p].at # "none" => step[p] = "open"

(* Sharing os.environ does not mix the runs up, though a run may put back  *)
(* another's values, and may even leave them behind: a request always goes *)
(* out in the name of the run's own actor, and it reaches the run's own    *)
(* world as long as that is alive. (But for a stop() that was cancelled,   *)
(* which leaves a second child under the provider's key.)                  *)
CallsGoHome ==
  \A r \in astray :
    /\ r.actor = r.own[1]
    /\ <<r.own[1], "stop">> \in abandoned \/ child[r.own].state = "exited"

(* A request may still go astray: the run's world dies, another run's      *)
(* takes its port, and nothing in the raw API tells them apart. Such a run *)
(* is never judged, for the final snapshot does ask for the key.           *)
StrayRunsUnjudged ==
  \A r \in astray : <<r.own[1], "stop">> \notin abandoned => r.own \notin judged
=============================================================================
