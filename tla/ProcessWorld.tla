---------------------------- MODULE ProcessWorld ----------------------------
(***************************************************************************)
(* World processes: world/process.py, runner/world_entry.py and the        *)
(* sessions of runner/lifecycle.py that start, seed and stop them.         *)
(*                                                                         *)
(* Each provider runs one session after the other. A session's awaits may  *)
(* be cancelled; a child may fail, hang or exit at any moment; and a port  *)
(* is only reserved until the reservation's socket is closed, before the   *)
(* child binds it. Every control request carries the provider's key.       *)
(***************************************************************************)
EXTENDS Naturals, FiniteSets

CONSTANTS
  Providers,
  Ports,
  NoPort,
  MaxSessions     (* bound: sessions each provider runs                     *)

ASSUME ProcessAssumption ==
  /\ NoPort \notin Ports
  /\ MaxSessions \in [Providers -> Nat \ {0}]

VARIABLES
  step,        (* where the provider's session is                           *)
  session,     (* number of the provider's current session                  *)
  handle,      (* self._process: the session whose child it is, 0 for None  *)
  port,        (* self._port and self._base_url                             *)
  reserved,    (* start()'s local `port`                                    *)
  reaping,     (* stop()'s local `process`, 0 for None                      *)
  child,       (* the operating system's view of the children               *)
  abandoned    (* <<p, call>>: the call of p was cancelled                  *)

vars == <<step, session, handle, port, reserved, reaping, child, abandoned>>

Numbers(p) == 1 .. MaxSessions[p]
Children == UNION {{p} \X Numbers(p) : p \in Providers}

(* `seeded` is the session whose initial snapshot the child was restored   *)
(* to, 0 while it has only what it read from the snapshot file.            *)
Child == [state: {"none", "booting", "serving", "exited"}, port: Ports \cup {NoPort}, seeded: Nat]

NoChild == [state |-> "none", port |-> NoPort, seeded |-> 0]

Alive(c) == child[c].state \in {"booting", "serving"}
Running(p) == handle[p] # 0 /\ Alive(<<p, handle[p]>>)

Serves(c, prt) == child[c].state = "serving" /\ child[c].port = prt

----------------------------------------------------------------------------
(* The control channel.                                                    *)

(* Mutant: the control routes forget to ask for the key.                   *)
NoKeyAsked(c, p) == TRUE

(* require_control_key: a child knows the key of its own provider only.    *)
require_control_key(c, p) == c[1] = p

(* The child that serves the provider's URL and obeys its key: it is the   *)
(* one that a probe, restore, snapshot or human_edit of p gets to.         *)
Obeying(p) == {c \in Children : port[p] # NoPort /\ Serves(c, port[p]) /\ require_control_key(c, p)}

----------------------------------------------------------------------------
(* ProcessWorldProvider.                                                   *)

(* Mutant: the URL of the world outlives it.                               *)
stop_keeping_url(p) ==
  /\ handle' = [handle EXCEPT ![p] = 0]
  /\ reaping' = [reaping EXCEPT ![p] = IF Running(p) THEN handle[p] ELSE 0]
  /\ step' = [step EXCEPT ![p] = IF Running(p) THEN "stopping" ELSE "ended"]
  /\ UNCHANGED port

(* Mutant: stop() sends SIGTERM and leaves.                                *)
stop_without_wait(p) ==
  /\ handle' = [handle EXCEPT ![p] = 0]
  /\ port' = [port EXCEPT ![p] = NoPort]
  /\ step' = [step EXCEPT ![p] = "ended"]
  /\ UNCHANGED reaping

(* stop: the provider forgets the child first, then waits for its end.     *)
stop(p) ==
  /\ handle' = [handle EXCEPT ![p] = 0]
  /\ port' = [port EXCEPT ![p] = NoPort]
  /\ reaping' = [reaping EXCEPT ![p] = IF Running(p) THEN handle[p] ELSE 0]
  /\ step' = [step EXCEPT ![p] = IF Running(p) THEN "stopping" ELSE "ended"]

(* start, when the last child is still there: it is taken as it is.        *)
StartAgain(p) ==
  /\ step[p] = "idle"
  /\ Running(p)
  /\ step' = [step EXCEPT ![p] = "restoring"]
  /\ UNCHANGED <<session, handle, port, reserved, reaping, child, abandoned>>

(* ... and when it is not: a free port is reserved, and given back.        *)
Start(p) ==
  /\ step[p] = "idle"
  /\ ~Running(p)
  /\ \E prt \in Ports :
       /\ \A c \in Children : ~Serves(c, prt)
       /\ reserved' = [reserved EXCEPT ![p] = prt]
  /\ step' = [step EXCEPT ![p] = "spawning"]
  /\ UNCHANGED <<session, handle, port, reaping, child, abandoned>>

(* No snapshot file, no port, no process: start() raises before it owns    *)
(* anything.                                                               *)
StartFails(p) ==
  /\ step[p] = "spawning" \/ (step[p] = "idle" /\ ~Running(p))
  /\ step' = [step EXCEPT ![p] = "ended"]
  /\ UNCHANGED <<session, handle, port, reserved, reaping, child, abandoned>>

Spawned(p) ==
  /\ step[p] = "spawning"
  /\ child' = [child EXCEPT ![<<p, session[p]>>] =
                 [state |-> "booting", port |-> reserved[p], seeded |-> 0]]
  /\ handle' = [handle EXCEPT ![p] = session[p]]
  /\ port' = [port EXCEPT ![p] = reserved[p]]
  /\ step' = [step EXCEPT ![p] = "probing"]
  /\ UNCHANGED <<session, reserved, reaping, abandoned>>

(* _wait_until_ready: a snapshot request is the probe.                     *)
ProbeReady(p) ==
  /\ step[p] = "probing"
  /\ Running(p)
  /\ Obeying(p) # {}
  /\ step' = [step EXCEPT ![p] = "restoring"]
  /\ UNCHANGED <<session, handle, port, reserved, reaping, child, abandoned>>

(* Mutant: start() raises without stopping what it has started.            *)
ProbeFailsUnstopped(p) ==
  /\ step[p] = "probing"
  /\ step' = [step EXCEPT ![p] = "ended"]
  /\ UNCHANGED <<session, handle, port, reserved, reaping, child, abandoned>>

(* The child has exited, or the deadline has passed: stop() and raise.     *)
ProbeFails(p) ==
  /\ step[p] = "probing"
  /\ stop(p)
  /\ UNCHANGED <<session, reserved, child, abandoned>>

(* Mutant: after its five seconds stop() goes on waiting.                  *)
KillNever(p) == FALSE /\ UNCHANGED vars

(* stop, after five seconds: SIGKILL.                                      *)
Kill(p) ==
  /\ step[p] = "stopping"
  /\ Alive(<<p, reaping[p]>>)
  /\ child' = [child EXCEPT ![<<p, reaping[p]>>].state = "exited"]
  /\ UNCHANGED <<step, session, handle, port, reserved, reaping, abandoned>>

(* stop: process.wait() returns.                                           *)
Reaped(p) ==
  /\ step[p] = "stopping"
  /\ ~Alive(<<p, reaping[p]>>)
  /\ reaping' = [reaping EXCEPT ![p] = 0]
  /\ step' = [step EXCEPT ![p] = "ended"]
  /\ UNCHANGED <<session, handle, port, reserved, child, abandoned>>

----------------------------------------------------------------------------
(* world_session.                                                          *)

(* Mutant: the world is yielded as it was started.                         *)
YieldUnrestored(p) ==
  /\ step[p] = "restoring"
  /\ step' = [step EXCEPT ![p] = "open"]
  /\ UNCHANGED <<session, handle, port, reserved, reaping, child, abandoned>>

Restore(p) ==
  /\ step[p] = "restoring"
  /\ \E c \in Obeying(p) : child' = [child EXCEPT ![c].seeded = session[p]]
  /\ step' = [step EXCEPT ![p] = "open"]
  /\ UNCHANGED <<session, handle, port, reserved, reaping, abandoned>>

(* The restore fails, or the session's body ends, or it fails: stop().     *)
LeaveSession(p) ==
  /\ step[p] \in {"restoring", "open"}
  /\ stop(p)
  /\ UNCHANGED <<session, reserved, child, abandoned>>

(* CancelledError at the await the session is at. Inside the session the   *)
(* `finally` stops the world. start() catches Exception only, and the      *)
(* session does not yet count as started; stop() is simply left.           *)
Cancel(p) ==
  /\ \/ /\ step[p] \in {"restoring", "open"}
        /\ stop(p)
        /\ UNCHANGED abandoned
     \/ /\ step[p] \in {"spawning", "probing", "stopping"}
        /\ step' = [step EXCEPT ![p] = "ended"]
        /\ reaping' = [reaping EXCEPT ![p] = 0]
        /\ abandoned' = abandoned \cup
             {pc \in {<<p, "start">>} : step[p] = "probing"} \cup
             {pc \in {<<p, "stop">>} : step[p] = "stopping"}
        /\ UNCHANGED <<handle, port>>
  /\ UNCHANGED <<session, reserved, child>>

(* The provider is used for another session.                               *)
NextSession(p) ==
  /\ step[p] = "ended"
  /\ session[p] < MaxSessions[p]
  /\ session' = [session EXCEPT ![p] = @ + 1]
  /\ step' = [step EXCEPT ![p] = "idle"]
  /\ UNCHANGED <<handle, port, reserved, reaping, child, abandoned>>

----------------------------------------------------------------------------
(* The children.                                                           *)

(* world_entry: the app serves, unless its port was taken meanwhile.       *)
Boots(c) ==
  /\ child[c].state = "booting"
  /\ child' = [child EXCEPT ![c].state =
                 IF \E d \in Children : Serves(d, child[c].port) THEN "exited" ELSE "serving"]
  /\ UNCHANGED <<step, session, handle, port, reserved, reaping, abandoned>>

(* It fails to start, crashes, or ends on SIGTERM.                         *)
Exits(c) ==
  /\ Alive(c)
  /\ child' = [child EXCEPT ![c].state = "exited"]
  /\ UNCHANGED <<step, session, handle, port, reserved, reaping, abandoned>>

----------------------------------------------------------------------------
Init ==
  /\ step = [p \in Providers |-> "idle"]
  /\ session = [p \in Providers |-> 1]
  /\ handle = [p \in Providers |-> 0]
  /\ port = [p \in Providers |-> NoPort]
  /\ reserved = [p \in Providers |-> NoPort]
  /\ reaping = [p \in Providers |-> 0]
  /\ child = [c \in Children |-> NoChild]
  /\ abandoned = {}

(* What a provider does by itself, its body's end included.                *)
Proceed(p) ==
  \/ StartAgain(p) \/ Start(p) \/ StartFails(p) \/ Spawned(p)
  \/ ProbeReady(p) \/ ProbeFails(p)
  \/ Restore(p) \/ LeaveSession(p)
  \/ Kill(p) \/ Reaped(p)

Next ==
  \/ \E p \in Providers : Proceed(p) \/ Cancel(p) \/ NextSession(p)
  \/ \E c \in Children : Boots(c) \/ Exits(c)

(* Every await of a session has a timeout of its own or is the agent's     *)
(* run, which ends; nothing is assumed of the children.                    *)
Spec == Init /\ [][Next]_vars /\ \A p \in Providers : WF_vars(Proceed(p))

----------------------------------------------------------------------------
(* Properties.                                                             *)

TypeOK ==
  /\ step \in [Providers -> {"idle", "spawning", "probing", "restoring", "open", "stopping", "ended"}]
  /\ {session, handle, reaping} \subseteq [Providers -> Nat]
  /\ \A p \in Providers :
       /\ session[p] \in Numbers(p)
       /\ handle[p] \in 0 .. session[p] /\ reaping[p] \in 0 .. session[p]
       /\ (handle[p] = 0) <=> (port[p] = NoPort)
  /\ port \in [Providers -> Ports \cup {NoPort}]
  /\ reserved \in [Providers -> Ports \cup {NoPort}]
  /\ child \in [Children -> Child]
  /\ abandoned \subseteq Providers \X {"start", "stop"}

(* What lifecycle.py promises: start, restore, yield, and always stop. No  *)
(* child outlives the session that started it.                             *)
AlwaysStopped ==
  \A p \in Providers : step[p] = "ended" => \A n \in Numbers(p) : ~Alive(<<p, n>>)

(* What holds: the promise is kept in every session, whatever fails and    *)
(* wherever the body is cancelled, until a cancellation lands in start()   *)
(* or stop() themselves.                                                   *)
StoppedUnlessAbandoned ==
  \A p \in Providers :
    (step[p] = "ended" /\ <<p, "start">> \notin abandoned /\ <<p, "stop">> \notin abandoned)
      => \A n \in Numbers(p) : ~Alive(<<p, n>>)

(* Whoever obeys a provider is the process it holds and will stop: neither *)
(* another's child that was faster to the reserved port, nor one that an   *)
(* earlier session of the provider left behind, which has its key. (But    *)
(* for a stop() that was cancelled.)                                       *)
ObeyedIsHeld ==
  \A p \in Providers : <<p, "stop">> \notin abandoned => Obeying(p) \subseteq {<<p, handle[p]>>}

(* A session that is open works on a world that was restored for this very *)
(* session, also when its child was left over from a start() that was      *)
(* cancelled, or when the child it spawned never got the port. (A stop()   *)
(* that was cancelled may leave two children of one key to one port.)      *)
FreshWhenOpen ==
  \A p \in Providers :
    (step[p] = "open" /\ <<p, "stop">> \notin abandoned)
      => \A c \in Obeying(p) : child[c].seeded = session[p]

(* Every session ends, though a child may hang in its start or ignore      *)
(* SIGTERM for ever.                                                       *)
SessionsEnd == \A p \in Providers : step[p] # "ended" ~> step[p] = "ended"
=============================================================================
