-------------------------- MODULE SideBySideProofs --------------------------
(***************************************************************************)
(* Proofs about runs side by side in one process, for any providers, ports *)
(* and numbers of sessions and calls.                                      *)
(***************************************************************************)
EXTENDS SideBySide, ProcessWorldProofs

----------------------------------------------------------------------------
(* The invariant.                                                          *)

ExecutorsTyped ==
  /\ environ \in Environment
  /\ call \in [Providers -> Call]
  /\ made \in [Providers -> 0 .. MaxCalls]
  /\ astray \subseteq Request
  /\ judged \subseteq Children

(* A call is of an open session that has not been judged, and it carries   *)
(* this session's address and actor.                                       *)
CallOK(p) ==
  call[p].at # "none" =>
    /\ step[p] = "open" /\ World(p) \notin judged
    /\ call[p].sent = [url |-> port[p], actor |-> p]

(* Whose request went astray is dead, and will not be judged.              *)
AstrayOK ==
  \A r \in astray :
    /\ r.actor = r.own[1]
    /\ ~StopLeft(r.own[1]) => child[r.own].state = "exited" /\ r.own \notin judged

SideInv == IInv /\ ExecutorsTyped /\ (\A p \in Providers : CallOK(p)) /\ AstrayOK

----------------------------------------------------------------------------
(* What a step of the worlds does not do.                                  *)

ByProvider(p) == Proceed(p) \/ Cancel(p) \/ NextSession(p)

LEMMA OneActs ==
  ASSUME TypeOK, NEW p \in Providers, ByProvider(p), NEW q \in Providers \ {p}
  PROVE  step'[q] = step[q] /\ handle'[q] = handle[q] /\ port'[q] = port[q]
<1>1. CASE Moves(p)
  BY <1>1, MovesFrame
<1>2. CASE Spawned(p) \/ Restore(p) \/ Kill(p)
  BY <1>2 DEF Spawned, Restore, Kill, TypeOK
<1> QED BY <1>1, <1>2 DEF ByProvider, Proceed, Moves

(* The dead stay dead, and what is abandoned stays abandoned.              *)
LEMMA DeadStay ==
  ASSUME IInv, [Next]_vars
  PROVE  /\ \A c \in Children : child[c].state = "exited" => child'[c].state = "exited"
         /\ abandoned \subseteq abandoned'
<1> SUFFICES /\ abandoned \subseteq abandoned'
             /\ \A c \in Children : child[c].state = "exited" => child'[c].state = "exited"
  OBVIOUS
<1>1. CASE UNCHANGED vars
  BY <1>1 DEF vars
<1>2. ASSUME NEW p \in Providers, Moves(p)
      PROVE  child' = child /\ abandoned \subseteq abandoned'
  BY <1>2, MovesFrame DEF IInv
<1>3. ASSUME NEW p \in Providers, Spawned(p), NEW c \in Children, child[c].state = "exited"
      PROVE  child'[c].state = "exited"
  <2>1. child[<<p, session[p]>>].state = "none"
    <3>1. ProviderOK(p) /\ step[p] = "spawning"
      BY <1>3 DEF Spawned, IInv
    <3> QED BY <3>1 DEF ProviderOK, Unborn
  <2> QED BY <1>3, <2>1 DEF Spawned, IInv, TypeOK
<1>4. ASSUME NEW p \in Providers, Restore(p), NEW c \in Children, child[c].state = "exited"
      PROVE  child'[c].state = "exited"
  <2>1. PICK d \in Obeying(p) : child' = [child EXCEPT ![d].seeded = session[p]]
    BY <1>4 DEF Restore
  <2>2. child[c] \in Child /\ child \in [Children -> Child] /\ d \in Children
    BY DEF IInv, TypeOK, Obeying
  <2> QED BY <1>4, <2>1, <2>2 DEF Restore, Child
<1>5. ASSUME NEW p \in Providers, Kill(p), NEW c \in Children, child[c].state = "exited"
      PROVE  child'[c].state = "exited"
  BY <1>5 DEF Kill, IInv, TypeOK, Child
<1>6. ASSUME NEW d \in Children, Boots(d) \/ Exits(d), NEW c \in Children, child[c].state = "exited"
      PROVE  child'[c].state = "exited"
  BY <1>6 DEF Boots, Exits, Alive, IInv, TypeOK, Child
<1>7. ASSUME NEW p \in Providers, Spawned(p) \/ Restore(p) \/ Kill(p)
      PROVE  abandoned' = abandoned
  BY <1>7 DEF Spawned, Restore, Kill
<1>8. ASSUME NEW d \in Children, Boots(d) \/ Exits(d)
      PROVE  abandoned' = abandoned
  BY <1>8 DEF Boots, Exits
<1>9. CASE UNCHANGED vars \/ \E p \in Providers : Moves(p)
  BY <1>1, <1>2, <1>9
<1>10. CASE \E p \in Providers : Spawned(p) \/ Restore(p) \/ Kill(p)
  BY <1>3, <1>4, <1>5, <1>7, <1>10
<1>11. CASE \E d \in Children : Boots(d) \/ Exits(d)
  BY <1>6, <1>8, <1>11
<1> QED BY <1>9, <1>10, <1>11 DEF Next, Proceed, Moves

(* A session that is open has a world.                                     *)
LEMMA WorldIs ==
  ASSUME ProcessAssumption, IInv, NEW p \in Providers, step[p] = "open"
  PROVE  /\ World(p) \in Children /\ World(p)[1] = p /\ port[p] \in Ports
         /\ child[World(p)].port = port[p]
         /\ ~StopLeft(p) => child[World(p)].state \in {"serving", "exited"}
<1>1. ProviderOK(p) /\ port[p] \in Ports \cup {NoPort}
  BY DEF IInv, TypeOK
<1>2. handle[p] \in Numbers(p) /\ port[p] # NoPort
  BY <1>1 DEF ProcessAssumption, ProviderOK, Numbers
<1>3. World(p) \in Children
  BY <1>2, ChildIs DEF World
<1> QED BY <1>1, <1>2, <1>3 DEF ProviderOK, World

----------------------------------------------------------------------------
(* Steps.                                                                  *)

(* Every step is one of the worlds, or none to them.                       *)
LEMMA StepsOfWorlds == SideBySideNext => [Next]_vars
<1> SUFFICES ASSUME SideBySideNext PROVE [Next]_vars
  OBVIOUS
<1>1. ASSUME NEW c \in Children, Boots(c) \/ Exits(c)
      PROVE  Next
  BY <1>1 DEF Next
<1>2. ASSUME NEW p \in Providers, ByProvider(p)
      PROVE  Next
  BY <1>2 DEF Next, ByProvider
<1>3. ASSUME NEW p \in Providers,
             \/ SessionProceeds(p) \/ SessionCancelled(p) \/ NextRun(p)
             \/ CancelCall(p)
      PROVE  Next
  <2>1. ByProvider(p)
    BY <1>3 DEF SessionProceeds, SessionCancelled, NextRun, CancelCall, ByProvider
  <2> QED BY <1>2, <2>1
<1>4. ASSUME NEW p \in Providers, Execute(p) \/ Answer(p) \/ Return(p) \/ FinalSnapshot(p)
      PROVE  UNCHANGED vars
  BY <1>4 DEF Execute, Answer, Return, FinalSnapshot
<1> QED BY <1>1, <1>3, <1>4 DEF SideBySideNext

LEMMA TypesKeep ==
  ASSUME ProcessAssumption, SideBySideAssumption, SideInv, SideBySideNext
  PROVE  ExecutorsTyped'
<1> USE DEF SideInv, ExecutorsTyped
<1>1. Unset \in Environment /\ NoCall \in Call
  BY DEF Unset, Environment, NoCall, Call
<1>2. ASSUME NEW p \in Providers, restore_environment(p)
      PROVE  environ' \in Environment /\ call' \in [Providers -> Call]
  BY <1>1, <1>2 DEF restore_environment, Call
<1>3. ASSUME NEW p \in Providers, Execute(p)
      PROVE  ExecutorsTyped'
  <2>1. port[p] \in Ports \cup {NoPort}
    BY DEF IInv, TypeOK
  <2>2. environ' \in Environment
    BY <1>3, <2>1 DEF Execute, Environment
  <2>3. [at |-> "sent", sent |-> environ', old |-> environ] \in Call
    BY <2>2 DEF Call
  <2>4. made[p] < MaxCalls /\ made' = [made EXCEPT ![p] = @ + 1]
        /\ call' = [call EXCEPT ![p] = [at |-> "sent", sent |-> environ', old |-> environ]]
        /\ UNCHANGED <<astray, judged>>
    BY <1>3 DEF Execute
  <2>5. made' \in [Providers -> 0 .. MaxCalls]
    BY <2>4 DEF SideBySideAssumption
  <2> QED BY <2>2, <2>3, <2>4, <2>5
<1>4. ASSUME NEW p \in Providers, Answer(p)
      PROVE  ExecutorsTyped'
  <2>1. PICK c \in Children :
          LET r == [own |-> World(p), actor |-> call[p].sent.actor, to |-> c[1]]
          IN  astray' = IF WentHome(r) THEN astray ELSE astray \cup {r}
    BY <1>4 DEF Answer
  <2>2. step[p] = "open" /\ call[p] \in Call
    BY <1>4 DEF Answer, CallOK
  <2>3. World(p) \in Children /\ call[p].sent.actor \in Providers \cup {Nobody} /\ c[1] \in Providers
    <3>1. c[1] \in Providers
      BY ChildIs
    <3> QED BY <2>2, <3>1, WorldIs DEF Call, Environment
  <2>4. astray' \subseteq Request
    BY <2>1, <2>3 DEF Request
  <2>5. [call[p] EXCEPT !.at = "back"] \in Call
    BY <2>2 DEF Call
  <2>6. call' = [call EXCEPT ![p].at = "back"] /\ UNCHANGED <<environ, made, judged>>
    BY <1>4 DEF Answer
  <2> QED BY <2>4, <2>5, <2>6
<1>5. ASSUME NEW p \in Providers, Return(p) \/ CancelCall(p)
      PROVE  ExecutorsTyped'
  BY <1>2, <1>5 DEF Return, CancelCall
<1>6. ASSUME NEW p \in Providers, FinalSnapshot(p)
      PROVE  ExecutorsTyped'
  <2>1. World(p) \in Children
    BY <1>6, WorldIs DEF FinalSnapshot, Working
  <2> QED BY <1>6, <2>1 DEF FinalSnapshot
<1>7. ASSUME NEW p \in Providers, NextRun(p)
      PROVE  ExecutorsTyped'
  BY <1>7 DEF NextRun, SideBySideAssumption
<1>8. CASE UNCHANGED executors
  BY <1>8 DEF executors
<1> QED BY <1>3, <1>4, <1>5, <1>6, <1>7, <1>8
      DEF SideBySideNext, SessionProceeds, SessionCancelled

LEMMA CallsKeep ==
  ASSUME ProcessAssumption, SideInv, SideBySideNext
  PROVE  \A q \in Providers : CallOK(q)'
<1> SUFFICES ASSUME NEW q \in Providers PROVE CallOK(q)'
  OBVIOUS
<1>1. CallOK(q) /\ call \in [Providers -> Call] /\ TypeOK
  BY DEF SideInv, ExecutorsTyped, IInv
<1>2. ASSUME call'[q] = call[q], judged' = judged,
             step'[q] = step[q], handle'[q] = handle[q], port'[q] = port[q]
      PROVE  CallOK(q)'
  BY <1>1, <1>2 DEF CallOK, World
<1>3. ASSUME call'[q].at = "none"
      PROVE  CallOK(q)'
  BY <1>3 DEF CallOK
<1>4. ASSUME NEW p \in Providers, ByProvider(p), UNCHANGED <<call, judged>>, call[p].at = "none"
      PROVE  CallOK(q)'
  <2>1. CASE q = p
    BY <1>3, <1>4, <2>1
  <2>2. CASE q # p
    BY <1>1, <1>2, <1>4, <2>2, OneActs
  <2> QED BY <2>1, <2>2
<1>5. ASSUME NEW p \in Providers, SessionProceeds(p) \/ SessionCancelled(p)
      PROVE  CallOK(q)'
  BY <1>4, <1>5 DEF SessionProceeds, SessionCancelled, executors, ByProvider
<1>6. ASSUME NEW p \in Providers, NextRun(p)
      PROVE  CallOK(q)'
  <2>1. call[p].at = "none"
    BY <1>6 DEF NextRun, NextSession, SideInv, CallOK
  <2> QED BY <1>4, <1>6, <2>1 DEF NextRun, ByProvider
<1>7. ASSUME NEW p \in Providers, Execute(p)
      PROVE  CallOK(q)'
  <2>1. UNCHANGED <<step, handle, port, judged>> /\ Working(p)
    BY <1>7 DEF Execute, vars
  <2>2. CASE q = p
    <3>1. call'[p] = [at |-> "sent", sent |-> [url |-> port[p], actor |-> p], old |-> environ]
      BY <1>1, <1>7 DEF Execute
    <3> QED BY <2>1, <2>2, <3>1 DEF CallOK, Working, World
  <2>3. CASE q # p
    <3>1. call'[q] = call[q]
      BY <1>1, <1>7, <2>3 DEF Execute
    <3> QED BY <1>2, <2>1, <3>1
  <2> QED BY <2>2, <2>3
<1>8. ASSUME NEW p \in Providers, Answer(p)
      PROVE  CallOK(q)'
  <2>1. UNCHANGED <<step, handle, port, judged>> /\ call[p].at # "none"
        /\ call' = [call EXCEPT ![p].at = "back"]
    BY <1>8 DEF Answer, vars
  <2>2. call'[q].sent = call[q].sent /\ (call'[q].at # "none" => call[q].at # "none")
    BY <1>1, <2>1 DEF Call
  <2> QED BY <1>1, <2>1, <2>2 DEF CallOK, World
<1>9. ASSUME NEW p \in Providers, Return(p) \/ CancelCall(p)
      PROVE  CallOK(q)'
  <2>1. call' = [call EXCEPT ![p] = NoCall] /\ UNCHANGED judged
    BY <1>9 DEF Return, CancelCall, restore_environment
  <2>2. CASE q = p
    BY <1>1, <1>3, <2>1, <2>2 DEF NoCall
  <2>3. CASE q # p
    <3>1. step'[q] = step[q] /\ handle'[q] = handle[q] /\ port'[q] = port[q]
      <4>1. CASE Return(p)
        BY <4>1 DEF Return, vars
      <4>2. CASE CancelCall(p)
        BY <1>1, <2>3, <4>2, OneActs DEF CancelCall, ByProvider
      <4> QED BY <1>9, <4>1, <4>2
    <3> QED BY <1>1, <1>2, <2>1, <2>3, <3>1
  <2> QED BY <2>2, <2>3
<1>10. ASSUME NEW p \in Providers, FinalSnapshot(p)
       PROVE  CallOK(q)'
  <2>1. call[p].at = "none" /\ judged' = judged \cup {World(p)}
        /\ UNCHANGED <<call, step, handle, port>>
    BY <1>10 DEF FinalSnapshot, vars
  <2>2. CASE q = p
    BY <1>3, <2>1, <2>2
  <2>3. CASE q # p
    <3>1. World(q) # World(p)
      BY <2>3 DEF World
    <3> QED BY <1>1, <2>1, <3>1 DEF CallOK, World
  <2> QED BY <2>2, <2>3
<1>11. ASSUME NEW c \in Children, Boots(c) \/ Exits(c), UNCHANGED executors
       PROVE  CallOK(q)'
  BY <1>2, <1>11 DEF Boots, Exits, executors
<1> QED BY <1>5, <1>6, <1>7, <1>8, <1>9, <1>10, <1>11 DEF SideBySideNext

LEMMA AstrayKeeps ==
  ASSUME ProcessAssumption, SideInv, SideBySideNext
  PROVE  AstrayOK'
<1>1. /\ \A c \in Children : child[c].state = "exited" => child'[c].state = "exited"
      /\ \A p : StopLeft(p) => StopLeft(p)'
  BY DeadStay, StepsOfWorlds DEF SideInv, StopLeft
<1>2. \A r \in astray : r.own \in Children
  BY DEF SideInv, ExecutorsTyped, Request
<1>3. CASE UNCHANGED <<astray, judged>>
  BY <1>1, <1>2, <1>3 DEF SideInv, AstrayOK
<1>4. ASSUME NEW p \in Providers, Answer(p)
      PROVE  AstrayOK'
  <2>1. PICK c \in Children :
          /\ Serves(c, call[p].sent.url)
          /\ LET r == [own |-> World(p), actor |-> call[p].sent.actor, to |-> c[1]]
             IN  astray' = IF WentHome(r) THEN astray ELSE astray \cup {r}
    BY <1>4 DEF Answer
  <2> DEFINE r == [own |-> World(p), actor |-> call[p].sent.actor, to |-> c[1]]
  <2>2. /\ step[p] = "open" /\ World(p) \notin judged
        /\ call[p].sent.url = port[p] /\ call[p].sent.actor = p
    <3>1. CallOK(p)
      BY DEF SideInv
    <3>2. call[p].at = "sent"
      BY <1>4 DEF Answer
    <3> HIDE DEF r
    <3> QED BY <3>1, <3>2 DEF CallOK
  <2>3. /\ World(p) \in Children /\ World(p)[1] = p /\ port[p] \in Ports
        /\ child[World(p)].port = port[p]
        /\ ~StopLeft(p) => child[World(p)].state \in {"serving", "exited"}
    BY <2>2, WorldIs DEF SideInv
  <2>4. UNCHANGED <<judged, child, abandoned>>
    BY <1>4 DEF Answer, vars
  <2>5. (~WentHome(r) /\ ~StopLeft(p)) => child[World(p)].state = "exited"
    <3> SUFFICES ASSUME ~WentHome(r), ~StopLeft(p), child[World(p)].state = "serving"
                 PROVE  FALSE
      BY <2>3
    <3>1. c[1] # p
      BY <2>2, <2>3 DEF WentHome
    <3>2. Serves(World(p), port[p]) /\ Serves(c, port[p])
      BY <2>1, <2>2, <2>3 DEF Serves
    <3>3. c = World(p)
      BY <2>3, <3>2 DEF SideInv, IInv, OnePerPort
    <3> QED BY <2>3, <3>1, <3>3
  <2>6. ASSUME NEW s \in astray'
        PROVE  /\ s.actor = s.own[1]
               /\ ~StopLeft(s.own[1])' => child'[s.own].state = "exited" /\ s.own \notin judged'
    <3>1. CASE s \in astray
      BY <1>1, <1>2, <2>4, <3>1 DEF SideInv, AstrayOK
    <3>2. CASE s = r /\ ~WentHome(r)
      <4>1. s.own = World(p) /\ s.actor = p
        BY <2>2, <3>2
      <4> QED BY <1>1, <2>2, <2>3, <2>4, <2>5, <3>2, <4>1
    <3>3. s \in astray \/ (s = r /\ ~WentHome(r))
      BY <2>1, <2>6
    <3> HIDE DEF r
    <3> QED BY <3>1, <3>2, <3>3
  <2> QED BY <2>6 DEF AstrayOK
<1>5. ASSUME NEW p \in Providers, FinalSnapshot(p)
      PROVE  AstrayOK'
  <2>1. step[p] = "open" /\ judged' = judged \cup {World(p)} /\ UNCHANGED <<astray, child, abandoned>>
        /\ \E c \in Obeying(p) : TRUE
    BY <1>5 DEF FinalSnapshot, Working, vars
  <2>2. World(p)[1] = p
    BY <2>1, WorldIs DEF SideInv
  <2>3. ~StopLeft(p) => child[World(p)].state = "serving"
    BY <2>1, ObeyingIsHeld DEF World, SideInv, IInv
  <2> QED BY <1>1, <1>2, <2>1, <2>2, <2>3 DEF SideInv, AstrayOK
<1> QED BY <1>3, <1>4, <1>5 DEF SideBySideNext, SessionProceeds, SessionCancelled, NextRun, Execute,
          Return, CancelCall, executors

----------------------------------------------------------------------------
(* The theorems.                                                           *)

LEMMA SideInitKeeps ==
  ASSUME ProcessAssumption, SideBySideAssumption, SideBySideInit
  PROVE  SideInv
<1>1. IInv
  BY InitKeeps DEF SideBySideInit
<1>2. ExecutorsTyped
  BY DEF SideBySideInit, SideBySideAssumption, ExecutorsTyped, Unset, Environment, NoCall, Call
<1>3. (\A p \in Providers : CallOK(p)) /\ AstrayOK
  BY DEF SideBySideInit, CallOK, AstrayOK, NoCall
<1> QED BY <1>1, <1>2, <1>3 DEF SideInv

LEMMA SideNextKeeps ==
  ASSUME ProcessAssumption, SideBySideAssumption, SideInv, [SideBySideNext]_allVars
  PROVE  SideInv'
<1>1. CASE SideBySideNext
  <2>1. IInv'
    BY <1>1, StepsOfWorlds, NextKeeps DEF SideInv
  <2> QED BY <1>1, <2>1, TypesKeep, CallsKeep, AstrayKeeps DEF SideInv
<1>2. CASE UNCHANGED allVars
  <2>1. UNCHANGED <<environ, call, made, astray, judged>> /\ UNCHANGED vars
    BY <1>2 DEF allVars, executors
  <2>2. IInv'
    BY <2>1, NextKeeps DEF SideInv
  <2>3. UNCHANGED <<step, handle, port, child, abandoned>>
    BY <2>1 DEF vars
  <2>4. ExecutorsTyped' /\ (\A p \in Providers : CallOK(p))' /\ AstrayOK'
    BY <2>1, <2>3 DEF SideInv, ExecutorsTyped, CallOK, World, AstrayOK, StopLeft
  <2> QED BY <2>2, <2>4 DEF SideInv
<1> QED BY <1>1, <1>2

LEMMA SideInvariance == SideBySideSpec => []SideInv
<1>1. SideBySideInit => SideInv
  BY SideInitKeeps, ProcessAssumption, SideBySideAssumption
<1>2. SideInv /\ [SideBySideNext]_allVars => SideInv'
  BY SideNextKeeps, ProcessAssumption, SideBySideAssumption
<1> QED BY <1>1, <1>2, PTL DEF SideBySideSpec

(* Every variable has its type, and only an open session calls a tool.     *)
THEOREM SideBySideTypeCorrect == SideBySideSpec => []SideBySideTypeOK
<1>1. SideInv => SideBySideTypeOK
  BY DEF SideInv, IInv, ExecutorsTyped, CallOK, SideBySideTypeOK
<1> QED BY <1>1, SideInvariance, PTL

(* What is proved of sessions by themselves holds with runs inside them:   *)
(* each stops its child, is obeyed by that alone, and works on a fresh one.*)
THEOREM SessionsCorrect ==
  SideBySideSpec => [](StoppedUnlessAbandoned /\ ObeyedIsHeld /\ FreshWhenOpen)
<1>1. SideInv => StoppedUnlessAbandoned /\ ObeyedIsHeld /\ FreshWhenOpen
  BY StoppedFollows, HeldFollows, FreshFollows DEF SideInv
<1> QED BY <1>1, SideInvariance, PTL

(* However many runs share os.environ, and in whatever order their calls   *)
(* end, a request goes out for its own actor and reaches the run's own     *)
(* world while that is alive.                                              *)
THEOREM CallsGoHomeCorrect == SideBySideSpec => []CallsGoHome
<1>1. SideInv => CallsGoHome
  BY DEF SideInv, AstrayOK, StopLeft, CallsGoHome
<1> QED BY <1>1, SideInvariance, PTL

(* A run one of whose requests revised another's world is not judged.      *)
THEOREM StrayRunsCorrect == SideBySideSpec => []StrayRunsUnjudged
<1>1. SideInv => StrayRunsUnjudged
  BY DEF SideInv, AstrayOK, StopLeft, StrayRunsUnjudged
<1> QED BY <1>1, SideInvariance, PTL

(* To the worlds, runs side by side are sessions and nothing else: what is *)
(* true of every behaviour of ProcessWorld, however many providers it has, *)
(* is true with tool calls, shared variables and verdicts around it.       *)
THEOREM RunsAreSessions == SideBySideSpec => Init /\ [][Next]_vars
<1>1. SideBySideInit => Init
  BY DEF SideBySideInit
<1>2. [SideBySideNext]_allVars => [Next]_vars
  BY StepsOfWorlds DEF allVars
<1> QED BY <1>1, <1>2, PTL DEF SideBySideSpec
=============================================================================
