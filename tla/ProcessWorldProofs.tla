------------------------- MODULE ProcessWorldProofs -------------------------
(***************************************************************************)
(* Proofs about world processes and their sessions, for any providers,     *)
(* ports and numbers of sessions.                                          *)
(***************************************************************************)
EXTENDS ProcessWorld, TLAPS

----------------------------------------------------------------------------
(* The invariant.                                                          *)

StartLeft(p) == <<p, "start">> \in abandoned
StopLeft(p) == <<p, "stop">> \in abandoned

(* The child of a number that has not come up yet.                         *)
Unborn(p, n) == n > session[p] \/ (n = session[p] /\ step[p] \in {"idle", "spawning"})

(* What a provider knows of its children. Whoever is alive is held by the  *)
(* handle or is being stopped, but for a stop() that was cancelled; and    *)
(* between sessions nobody is held, but for a start() that was.            *)
ProviderOK(p) ==
  /\ session[p] \in Numbers(p)
  /\ handle[p] \in 0 .. session[p] /\ reaping[p] \in 0 .. session[p]
  /\ (handle[p] = 0) <=> (port[p] = NoPort)
  /\ \A n \in Numbers(p) : Unborn(p, n) => child[<<p, n>>].state = "none"
  /\ step[p] = "spawning" => reserved[p] \in Ports /\ ~Running(p)
  /\ step[p] \in {"probing", "restoring", "open"} => handle[p] # 0
  /\ (step[p] = "stopping") <=> (reaping[p] # 0)
  /\ step[p] = "stopping" => handle[p] = 0
  /\ (step[p] \in {"idle", "spawning", "stopping", "ended"} /\ ~StartLeft(p)) => handle[p] = 0
  /\ handle[p] # 0 => child[<<p, handle[p]>>].port = port[p]
  /\ ~StopLeft(p) => \A n \in Numbers(p) : Alive(<<p, n>>) => n \in {handle[p], reaping[p]}
  /\ (step[p] = "open" /\ ~StopLeft(p)) =>
       /\ child[<<p, handle[p]>>].seeded = session[p]
       /\ child[<<p, handle[p]>>].state \in {"serving", "exited"}

(* A port is served by one child at a time.                                *)
OnePerPort == \A c, d \in Children : \A prt \in Ports : (Serves(c, prt) /\ Serves(d, prt)) => c = d

IInv == TypeOK /\ (\A p \in Providers : ProviderOK(p)) /\ OnePerPort

----------------------------------------------------------------------------
(* Facts.                                                                  *)

LEMMA ChildIs == \A c : c \in Children <=> \E p \in Providers : \E n \in Numbers(p) : c = <<p, n>>
BY DEF Children

(* The child that obeys a provider is its own.                             *)
LEMMA ObeyingIs ==
  ASSUME NEW p \in Providers, NEW c \in Obeying(p)
  PROVE  \E n \in Numbers(p) : c = <<p, n>> /\ Serves(c, port[p]) /\ port[p] # NoPort
<1>1. c \in Children /\ c[1] = p /\ Serves(c, port[p]) /\ port[p] # NoPort
  BY DEF Obeying, require_control_key
<1>2. PICK q \in Providers : \E n \in Numbers(q) : c = <<q, n>>
  BY <1>1, ChildIs
<1> QED BY <1>1, <1>2

(* It is the one that is held: nobody else of the provider is alive but    *)
(* the child that is being stopped, and then the provider has no URL.      *)
LEMMA ObeyingIsHeld ==
  ASSUME NEW p \in Providers, ProviderOK(p), ~StopLeft(p),
         NEW c \in Obeying(p)
  PROVE  c = <<p, handle[p]>> /\ child[c].state = "serving"
<1>1. PICK n \in Numbers(p) : c = <<p, n>> /\ Serves(c, port[p]) /\ port[p] # NoPort
  BY ObeyingIs
<1>2. n \in {handle[p], reaping[p]} /\ handle[p] # 0 /\ reaping[p] = 0 /\ n # 0
  BY <1>1 DEF ProviderOK, Alive, Serves, Numbers
<1> QED BY <1>1, <1>2 DEF Serves

(* What a provider does is no other's business.                            *)
LEMMA OthersStay ==
  ASSUME ProcessAssumption, NEW q \in Providers, ProviderOK(q),
         step'[q] = step[q], session'[q] = session[q], handle'[q] = handle[q],
         port'[q] = port[q], reserved'[q] = reserved[q], reaping'[q] = reaping[q],
         \A n \in Numbers(q) : child'[<<q, n>>] = child[<<q, n>>],
         StartLeft(q)' = StartLeft(q), StopLeft(q)' = StopLeft(q)
  PROVE  ProviderOK(q)'
<1>1. handle[q] # 0 => handle[q] \in Numbers(q)
  BY DEF ProcessAssumption, ProviderOK, Numbers
<1>2. \A n \in Numbers(q) : Alive(<<q, n>>)' = Alive(<<q, n>>) /\ Unborn(q, n)' = Unborn(q, n)
  BY DEF Alive, Unborn
<1>3. Running(q)' = Running(q)
  BY <1>1, <1>2 DEF Running
<1>4. handle[q] # 0 => child'[<<q, handle'[q]>>] = child[<<q, handle[q]>>]
  BY <1>1
<1>5. step[q] = "open" => handle[q] # 0
  BY DEF ProviderOK
<1>6. \A n \in Numbers(q) : child'[<<q, n>>].state = child[<<q, n>>].state
  OBVIOUS
<1>7. Numbers(q)' = Numbers(q)
  BY DEF Numbers
<1> QED BY <1>2, <1>3, <1>4, <1>5, <1>6, <1>7 DEF ProviderOK

----------------------------------------------------------------------------
(* Steps of a provider that leave the children alone.                      *)

Moves(p) ==
  \/ StartAgain(p) \/ Start(p) \/ StartFails(p) \/ ProbeReady(p) \/ ProbeFails(p)
  \/ LeaveSession(p) \/ Reaped(p) \/ Cancel(p) \/ NextSession(p)

LEMMA MovesFrame ==
  ASSUME TypeOK, NEW p \in Providers, Moves(p)
  PROVE  /\ child' = child
         /\ \A q \in Providers \ {p} :
              /\ step'[q] = step[q] /\ session'[q] = session[q] /\ handle'[q] = handle[q]
              /\ port'[q] = port[q] /\ reserved'[q] = reserved[q] /\ reaping'[q] = reaping[q]
              /\ StartLeft(q)' = StartLeft(q) /\ StopLeft(q)' = StopLeft(q)
         /\ abandoned \subseteq abandoned' /\ abandoned' \subseteq abandoned \cup {<<p, "start">>, <<p, "stop">>}
<1>1. child' = child
  BY DEF Moves, StartAgain, Start, StartFails, ProbeReady, ProbeFails, LeaveSession, Reaped,
         Cancel, NextSession
<1>2. \A q \in Providers \ {p} :
        /\ step'[q] = step[q] /\ session'[q] = session[q] /\ handle'[q] = handle[q]
        /\ port'[q] = port[q] /\ reserved'[q] = reserved[q] /\ reaping'[q] = reaping[q]
  <2> SUFFICES ASSUME NEW q \in Providers \ {p}
               PROVE  /\ step'[q] = step[q] /\ session'[q] = session[q] /\ handle'[q] = handle[q]
                      /\ port'[q] = port[q] /\ reserved'[q] = reserved[q]
                      /\ reaping'[q] = reaping[q]
    OBVIOUS
  <2>1. stop(p) => step'[q] = step[q] /\ handle'[q] = handle[q] /\ port'[q] = port[q]
                   /\ reaping'[q] = reaping[q]
    BY DEF stop, TypeOK
  <2>2. CASE StartAgain(p) \/ Start(p) \/ StartFails(p) \/ ProbeReady(p) \/ Reaped(p) \/ NextSession(p)
    BY <2>2 DEF TypeOK, StartAgain, Start, StartFails, ProbeReady, Reaped, NextSession
  <2>3. CASE ProbeFails(p) \/ LeaveSession(p)
    BY <2>1, <2>3 DEF ProbeFails, LeaveSession
  <2>4. CASE Cancel(p)
    BY <2>1, <2>4 DEF Cancel, TypeOK
  <2> QED BY <2>2, <2>3, <2>4 DEF Moves
<1>3. abandoned \subseteq abandoned' /\ abandoned' \subseteq abandoned \cup {<<p, "start">>, <<p, "stop">>}
  BY DEF Moves, StartAgain, Start, StartFails, ProbeReady, ProbeFails, LeaveSession, Reaped,
         Cancel, NextSession
<1>4. \A q \in Providers \ {p} : StartLeft(q)' = StartLeft(q) /\ StopLeft(q)' = StopLeft(q)
  BY <1>3 DEF StartLeft, StopLeft
<1> QED BY <1>1, <1>2, <1>3, <1>4

(* stop() leaves a provider that holds nobody and waits for who was held.  *)
LEMMA StopKeeps ==
  ASSUME ProcessAssumption, TypeOK, NEW p \in Providers, ProviderOK(p), stop(p),
         step[p] \in {"probing", "restoring", "open"},
         child' = child, session' = session, StopLeft(p)' = StopLeft(p)
  PROVE  ProviderOK(p)'
<1>1. /\ handle'[p] = 0 /\ port'[p] = NoPort
      /\ reaping'[p] = IF Running(p) THEN handle[p] ELSE 0
      /\ step'[p] = IF Running(p) THEN "stopping" ELSE "ended"
      /\ session'[p] = session[p]
  BY DEF stop, TypeOK
<1>2. handle[p] # 0 /\ reaping[p] = 0
  BY DEF ProviderOK
<1>3. \A n \in Numbers(p) : Unborn(p, n)' => Unborn(p, n)
  BY <1>1 DEF Unborn
<1>4. \A n \in Numbers(p) : Alive(<<p, n>>)' = Alive(<<p, n>>)
  BY DEF Alive
<1>5. ~StopLeft(p) => \A n \in Numbers(p) : Alive(<<p, n>>) => n = handle[p] /\ Running(p)
  BY <1>2 DEF ProviderOK, Running, Numbers
<1>6. Numbers(p)' = Numbers(p)
  BY DEF Numbers
<1> QED BY <1>1, <1>2, <1>3, <1>4, <1>5, <1>6 DEF ProviderOK

LEMMA MovesKeepOwn ==
  ASSUME ProcessAssumption, TypeOK, NEW p \in Providers, ProviderOK(p), Moves(p)
  PROVE  ProviderOK(p)'
<1>1. child' = child /\ Numbers(p)' = Numbers(p)
  BY MovesFrame DEF Numbers
<1>2. \A n : Alive(<<p, n>>)' = Alive(<<p, n>>)
  BY <1>1 DEF Alive
<1>3. StartLeft(p) => StartLeft(p)'
  BY MovesFrame DEF StartLeft
<1>4. StopLeft(p) => StopLeft(p)'
  BY MovesFrame DEF StopLeft
<1>5. CASE StartAgain(p) \/ ProbeReady(p)
  <2>1. step' = [step EXCEPT ![p] = "restoring"] /\ step[p] \in {"idle", "probing"} /\ Running(p)
        /\ UNCHANGED <<session, handle, port, reserved, reaping, abandoned>>
    BY <1>5 DEF StartAgain, ProbeReady
  <2>2. step'[p] = "restoring"
    BY <2>1 DEF TypeOK
  <2>3. handle[p] # 0
    BY <2>1 DEF Running
  <2>4. \A n \in Numbers(p) : Unborn(p, n)' => Unborn(p, n)
    BY <2>1, <2>2 DEF Unborn
  <2> QED BY <1>1, <1>2, <2>1, <2>2, <2>3, <2>4 DEF ProviderOK, StartLeft, StopLeft
<1>6. CASE Start(p)
  <2>1. /\ step[p] = "idle" /\ ~Running(p) /\ step'[p] = "spawning" /\ reserved'[p] \in Ports
        /\ UNCHANGED <<session, handle, port, reaping, abandoned>>
    BY <1>6 DEF Start, TypeOK
  <2>2. \A n \in Numbers(p) : Unborn(p, n)' => Unborn(p, n)
    BY <2>1 DEF Unborn
  <2>3. ~Running(p)'
    BY <1>2, <2>1 DEF Running
  <2> QED BY <1>1, <1>2, <2>1, <2>2, <2>3 DEF ProviderOK, StartLeft, StopLeft
<1>7. CASE StartFails(p)
  <2>1. /\ step[p] \in {"idle", "spawning"} /\ step'[p] = "ended"
        /\ UNCHANGED <<session, handle, port, reserved, reaping, abandoned>>
    BY <1>7 DEF StartFails, TypeOK
  <2>2. \A n \in Numbers(p) : Unborn(p, n)' => Unborn(p, n)
    BY <2>1 DEF Unborn
  <2> QED BY <1>1, <1>2, <2>1, <2>2 DEF ProviderOK, StartLeft, StopLeft
<1>8. CASE ProbeFails(p) \/ LeaveSession(p)
  <2>1. stop(p) /\ step[p] \in {"probing", "restoring", "open"} /\ UNCHANGED <<session, abandoned>>
    BY <1>8 DEF ProbeFails, LeaveSession
  <2> QED BY <1>1, <2>1, StopKeeps DEF StopLeft
<1>9. CASE Reaped(p)
  <2>1. /\ step[p] = "stopping" /\ ~Alive(<<p, reaping[p]>>)
        /\ step'[p] = "ended" /\ reaping'[p] = 0
        /\ UNCHANGED <<session, handle, port, reserved, abandoned>>
    BY <1>9 DEF Reaped, TypeOK
  <2>2. \A n \in Numbers(p) : Unborn(p, n)' => Unborn(p, n)
    BY <2>1 DEF Unborn
  <2>3. ~StopLeft(p) => \A n \in Numbers(p) : Alive(<<p, n>>) => n = handle[p]
    <3> SUFFICES ASSUME ~StopLeft(p), NEW n \in Numbers(p), Alive(<<p, n>>) PROVE n = handle[p]
      OBVIOUS
    <3>1. n \in {handle[p], reaping[p]}
      BY DEF ProviderOK
    <3>2. n # reaping[p]
      BY <2>1
    <3> QED BY <3>1, <3>2
  <2>4. StopLeft(p)' = StopLeft(p) /\ StartLeft(p)' = StartLeft(p)
    BY <2>1 DEF StartLeft, StopLeft
  <2>5. session[p] \in Nat
    BY DEF TypeOK
  <2> QED BY <1>1, <1>2, <2>1, <2>2, <2>3, <2>4, <2>5 DEF ProviderOK
<1>10. CASE Cancel(p)
  <2>1. UNCHANGED <<session, reserved>>
    BY <1>10 DEF Cancel
  <2>2. CASE stop(p) /\ step[p] \in {"restoring", "open"} /\ UNCHANGED abandoned
    BY <1>1, <2>1, <2>2, StopKeeps DEF StopLeft
  <2>3. CASE /\ step[p] \in {"spawning", "probing", "stopping"}
             /\ step' = [step EXCEPT ![p] = "ended"] /\ reaping' = [reaping EXCEPT ![p] = 0]
             /\ abandoned' = abandoned \cup
                  {pc \in {<<p, "start">>} : step[p] = "probing"} \cup
                  {pc \in {<<p, "stop">>} : step[p] = "stopping"}
             /\ UNCHANGED <<handle, port>>
    <3>1. step'[p] = "ended" /\ reaping'[p] = 0
      BY <2>3 DEF TypeOK
    <3>2. \A n \in Numbers(p) : Unborn(p, n)' => Unborn(p, n)
      BY <2>1, <2>3, <3>1 DEF Unborn
    <3>3. (step[p] = "probing" => StartLeft(p)') /\ (step[p] = "stopping" => StopLeft(p)')
      BY <2>3 DEF StartLeft, StopLeft
    <3>4. ~StopLeft(p)' => \A n \in Numbers(p) : Alive(<<p, n>>) => n = handle[p]
      BY <1>4, <2>3, <3>3 DEF ProviderOK, Numbers
    <3>5. ~StartLeft(p)' => handle[p] = 0
      BY <1>3, <2>3, <3>3 DEF ProviderOK
    <3>6. session[p] \in Nat
      BY DEF TypeOK
    <3> QED BY <1>1, <1>2, <2>1, <2>3, <3>1, <3>2, <3>4, <3>5, <3>6 DEF ProviderOK
  <2> QED BY <1>10, <2>2, <2>3 DEF Cancel
<1>11. CASE NextSession(p)
  <2>1. /\ step[p] = "ended" /\ session[p] < MaxSessions[p] /\ session'[p] = session[p] + 1
        /\ step'[p] = "idle" /\ UNCHANGED <<handle, port, reserved, reaping, abandoned>>
    BY <1>11 DEF NextSession, TypeOK
  <2>2. session[p] \in Nat /\ MaxSessions[p] \in Nat /\ session'[p] \in Numbers(p)
    BY <2>1 DEF ProviderOK, Numbers, ProcessAssumption
  <2>3. \A n \in Numbers(p) : Unborn(p, n)' => Unborn(p, n)
    BY <2>1, <2>2 DEF Unborn, Numbers
  <2> QED BY <1>1, <1>2, <2>1, <2>2, <2>3 DEF ProviderOK, StartLeft, StopLeft
<1> QED BY <1>5, <1>6, <1>7, <1>8, <1>9, <1>10, <1>11 DEF Moves

LEMMA MovesKeep ==
  ASSUME ProcessAssumption, IInv, NEW p \in Providers, Moves(p)
  PROVE  IInv'
<1>1. /\ child' = child
      /\ \A q \in Providers \ {p} :
           /\ step'[q] = step[q] /\ session'[q] = session[q] /\ handle'[q] = handle[q]
           /\ port'[q] = port[q] /\ reserved'[q] = reserved[q] /\ reaping'[q] = reaping[q]
           /\ StartLeft(q)' = StartLeft(q) /\ StopLeft(q)' = StopLeft(q)
  BY MovesFrame DEF IInv
<1>2. \A q \in Providers : ProviderOK(q)'
  <2>1. ProviderOK(p)'
    BY MovesKeepOwn DEF IInv
  <2>2. ASSUME NEW q \in Providers \ {p} PROVE ProviderOK(q)'
    BY <1>1, OthersStay DEF IInv
  <2> QED BY <2>1, <2>2
<1>3. TypeOK'
  <2>1. /\ step' \in [Providers -> {"idle", "spawning", "probing", "restoring", "open", "stopping", "ended"}]
        /\ {session', handle', reaping'} \subseteq [Providers -> Nat]
        /\ port' \in [Providers -> Ports \cup {NoPort}]
        /\ reserved' \in [Providers -> Ports \cup {NoPort}]
    <3> USE DEF IInv, TypeOK
    <3>1. stop(p) => /\ step' \in [Providers -> {"idle", "spawning", "probing", "restoring", "open", "stopping", "ended"}]
                     /\ {handle', reaping'} \subseteq [Providers -> Nat]
                     /\ port' \in [Providers -> Ports \cup {NoPort}]
      BY DEF stop
    <3>2. CASE StartAgain(p) \/ Start(p) \/ StartFails(p) \/ ProbeReady(p) \/ Reaped(p) \/ NextSession(p)
      BY <3>2 DEF StartAgain, Start, StartFails, ProbeReady, Reaped, NextSession
    <3>3. CASE ProbeFails(p) \/ LeaveSession(p)
      BY <3>1, <3>3 DEF ProbeFails, LeaveSession
    <3>4. CASE Cancel(p)
      BY <3>1, <3>4 DEF Cancel
    <3> QED BY <3>2, <3>3, <3>4 DEF Moves
  <2>2. abandoned' \subseteq Providers \X {"start", "stop"}
    BY MovesFrame DEF IInv, TypeOK
  <2>3. \A q \in Providers :
          /\ session'[q] \in Numbers(q)
          /\ handle'[q] \in 0 .. session'[q] /\ reaping'[q] \in 0 .. session'[q]
          /\ (handle'[q] = 0) <=> (port'[q] = NoPort)
    BY <1>2 DEF ProviderOK, Numbers
  <2> QED BY <1>1, <2>1, <2>2, <2>3 DEF IInv, TypeOK
<1>4. OnePerPort'
  BY <1>1 DEF IInv, OnePerPort, Serves
<1> QED BY <1>2, <1>3, <1>4 DEF IInv

----------------------------------------------------------------------------
(* Steps that change a child.                                              *)

LEMMA SpawnedKeeps ==
  ASSUME ProcessAssumption, IInv, NEW p \in Providers, Spawned(p)
  PROVE  IInv'
<1> DEFINE new == [state |-> "booting", port |-> reserved[p], seeded |-> 0]
           n == session[p]
<1>1. /\ step[p] = "spawning" /\ child' = [child EXCEPT ![<<p, n>>] = new]
      /\ handle' = [handle EXCEPT ![p] = n] /\ port' = [port EXCEPT ![p] = reserved[p]]
      /\ step' = [step EXCEPT ![p] = "probing"]
      /\ UNCHANGED <<session, reserved, reaping, abandoned>>
  BY DEF Spawned
<1>2. ProviderOK(p) /\ reserved[p] \in Ports /\ n \in Numbers(p) /\ <<p, n>> \in Children
  BY <1>1, ChildIs DEF IInv, ProviderOK
<1>3. MaxSessions[p] \in Nat /\ n \in Nat /\ n # 0 /\ reserved[p] # NoPort
  BY <1>2 DEF ProcessAssumption, Numbers
<1>4. /\ child' \in [Children -> Child]
      /\ \A c \in Children : child'[c] = IF c = <<p, n>> THEN new ELSE child[c]
  BY <1>1, <1>2 DEF Child, IInv, TypeOK
<1>5. ProviderOK(p)'
  <2>1. step'[p] = "probing" /\ handle'[p] = n /\ port'[p] = reserved[p] /\ reaping[p] = 0
    BY <1>1, <1>2 DEF IInv, TypeOK, ProviderOK
  <2>2. \A k \in Numbers(p) : child'[<<p, k>>] = IF k = n THEN new ELSE child[<<p, k>>]
    BY <1>4, ChildIs
  <2>3. \A k \in Numbers(p) : Unborn(p, k)' => k # n /\ Unborn(p, k)
    BY <1>1, <1>3, <2>1 DEF Unborn, Numbers
  <2>4. \A k \in Numbers(p) : Alive(<<p, k>>)' => k = n \/ Alive(<<p, k>>)
    BY <2>2 DEF Alive
  <2>5. ~StopLeft(p) => \A k \in Numbers(p) : ~Alive(<<p, k>>)
    BY <1>1, <1>2, <2>1 DEF ProviderOK, Running, Numbers
  <2>6. child'[<<p, n>>].port = reserved[p]
    BY <1>2, <2>2
  <2>7. \A k \in Numbers(p) : Unborn(p, k)' => child'[<<p, k>>].state = "none"
    BY <1>2, <2>2, <2>3 DEF ProviderOK
  <2>8. Numbers(p)' = Numbers(p) /\ StopLeft(p)' = StopLeft(p)
    BY <1>1 DEF Numbers, StopLeft
  <2> QED BY <1>1, <1>2, <1>3, <2>1, <2>4, <2>5, <2>6, <2>7, <2>8 DEF ProviderOK
<1>6. ASSUME NEW q \in Providers \ {p} PROVE ProviderOK(q)'
  <2>1. \A k \in Numbers(q) : child'[<<q, k>>] = child[<<q, k>>]
    BY <1>4, ChildIs
  <2>2. /\ step'[q] = step[q] /\ session'[q] = session[q] /\ handle'[q] = handle[q]
        /\ port'[q] = port[q] /\ reserved'[q] = reserved[q] /\ reaping'[q] = reaping[q]
        /\ StartLeft(q)' = StartLeft(q) /\ StopLeft(q)' = StopLeft(q)
    BY <1>1 DEF IInv, TypeOK, StartLeft, StopLeft
  <2> QED BY <2>1, <2>2, OthersStay DEF IInv
<1>7. TypeOK'
  <2>1. \A q \in Providers :
          /\ session'[q] \in Numbers(q)
          /\ handle'[q] \in 0 .. session'[q] /\ reaping'[q] \in 0 .. session'[q]
          /\ (handle'[q] = 0) <=> (port'[q] = NoPort)
    BY <1>5, <1>6 DEF ProviderOK, Numbers
  <2> QED BY <1>1, <1>2, <1>3, <1>4, <2>1 DEF IInv, TypeOK
<1>8. OnePerPort'
  <2>1. \A c \in Children : \A prt : Serves(c, prt)' => Serves(c, prt)
    BY <1>4 DEF Serves
  <2> QED BY <2>1 DEF IInv, OnePerPort
<1> QED BY <1>5, <1>6, <1>7, <1>8 DEF IInv

(* A restored world is the session's own.                                  *)
LEMMA RestoreKeeps ==
  ASSUME ProcessAssumption, IInv, NEW p \in Providers, Restore(p)
  PROVE  IInv'
<1>1. PICK c \in Obeying(p) : child' = [child EXCEPT ![c].seeded = session[p]]
  BY DEF Restore
<1>2. /\ step[p] = "restoring" /\ step' = [step EXCEPT ![p] = "open"]
      /\ UNCHANGED <<session, handle, port, reserved, reaping, abandoned>>
      /\ ProviderOK(p)
  BY DEF Restore, IInv
<1>3. PICK n \in Numbers(p) : c = <<p, n>>
  BY ObeyingIs
<1>4. c \in Children /\ c[1] = p /\ session[p] \in Nat /\ handle[p] # 0
  BY <1>2, <1>3, ChildIs DEF IInv, TypeOK, ProviderOK
<1>5. /\ child' \in [Children -> Child]
      /\ \A d \in Children : child'[d].state = child[d].state /\ child'[d].port = child[d].port
      /\ child'[c].seeded = session[p]
      /\ \A d \in Children \ {c} : child'[d] = child[d]
  BY <1>1, <1>4 DEF Child, IInv, TypeOK
<1>6. \A d \in Children : Alive(d)' = Alive(d)
  BY <1>5 DEF Alive
<1>7. ProviderOK(p)'
  <2>1. step'[p] = "open"
    BY <1>2 DEF IInv, TypeOK
  <2>2. \A k \in Numbers(p) : <<p, k>> \in Children
    BY ChildIs
  <2>3. handle[p] \in Numbers(p)
    BY <1>2, <1>4 DEF ProcessAssumption, ProviderOK, Numbers
  <2>4. ~StopLeft(p) => c = <<p, handle[p]>> /\ child[c].state = "serving"
    BY <1>1, <1>2, ObeyingIsHeld
  <2>5. \A k \in Numbers(p) : Unborn(p, k)' => Unborn(p, k)
    BY <1>2, <2>1 DEF Unborn
  <2>6. \A k \in Numbers(p) : Alive(<<p, k>>)' = Alive(<<p, k>>)
                              /\ child'[<<p, k>>].state = child[<<p, k>>].state
                              /\ child'[<<p, k>>].port = child[<<p, k>>].port
    BY <1>5, <1>6, <2>2
  <2>7. Numbers(p)' = Numbers(p) /\ StopLeft(p)' = StopLeft(p)
    BY <1>2 DEF Numbers, StopLeft
  <2>8. ~StopLeft(p) => /\ child'[<<p, handle[p]>>].seeded = session[p]
                        /\ child'[<<p, handle[p]>>].state = "serving"
    BY <1>4, <1>5, <2>4
  <2>9. child'[<<p, handle[p]>>].port = port[p]
    BY <1>2, <1>4, <2>3, <2>6 DEF ProviderOK
  <2> QED BY <1>2, <1>4, <2>1, <2>5, <2>6, <2>7, <2>8, <2>9 DEF ProviderOK
<1>8. ASSUME NEW q \in Providers \ {p} PROVE ProviderOK(q)'
  <2>1. \A k \in Numbers(q) : child'[<<q, k>>] = child[<<q, k>>]
    BY <1>3, <1>5, ChildIs
  <2>2. step'[q] = step[q] /\ StartLeft(q)' = StartLeft(q) /\ StopLeft(q)' = StopLeft(q)
    BY <1>2 DEF IInv, TypeOK, StartLeft, StopLeft
  <2> QED BY <1>2, <2>1, <2>2, OthersStay DEF IInv
<1>9. TypeOK'
  BY <1>2, <1>5 DEF IInv, TypeOK, Numbers
<1>10. OnePerPort'
  BY <1>5 DEF IInv, OnePerPort, Serves
<1> QED BY <1>7, <1>8, <1>9, <1>10 DEF IInv

(* A child begins to serve, or ends.                                       *)
LEMMA ChildMoves ==
  ASSUME ProcessAssumption, IInv, NEW c \in Children, Alive(c), NEW to \in {"serving", "exited"},
         child' = [child EXCEPT ![c].state = to],
         to = "serving" => \A d \in Children : ~Serves(d, child[c].port),
         UNCHANGED <<step, session, handle, port, reserved, reaping, abandoned>>
  PROVE  IInv'
<1>1. /\ child' \in [Children -> Child]
      /\ \A d \in Children : /\ child'[d].state = IF d = c THEN to ELSE child[d].state
                             /\ child'[d].port = child[d].port
                             /\ child'[d].seeded = child[d].seeded
  BY DEF Child, IInv, TypeOK
<1>2. \A d \in Children : Alive(d)' => Alive(d)
  BY <1>1 DEF Alive
<1>3. ASSUME NEW p \in Providers PROVE ProviderOK(p)'
  <2>1. ProviderOK(p)
    BY DEF IInv
  <2>2. \A n \in Numbers(p) : <<p, n>> \in Children
    BY ChildIs
  <2>3. handle[p] # 0 => handle[p] \in Numbers(p)
    BY <2>1 DEF ProcessAssumption, ProviderOK, Numbers
  <2>4. \A n \in Numbers(p) : Unborn(p, n)' => child'[<<p, n>>].state = "none"
    BY <1>1, <2>1, <2>2 DEF ProviderOK, Unborn, Alive
  <2>5. ~Running(p) => ~Running(p)'
    BY <1>2, <2>2, <2>3 DEF Running
  <2>6. \A n \in Numbers(p) : Alive(<<p, n>>)' => Alive(<<p, n>>)
    BY <1>2, <2>2
  <2>7. handle[p] # 0 =>
          LET h == <<p, handle[p]>>
          IN /\ child'[h].port = child[h].port /\ child'[h].seeded = child[h].seeded
             /\ child[h].state \in {"serving", "exited"} => child'[h].state \in {"serving", "exited"}
    BY <1>1, <2>2, <2>3
  <2>8. Numbers(p)' = Numbers(p) /\ StartLeft(p)' = StartLeft(p) /\ StopLeft(p)' = StopLeft(p)
    BY DEF Numbers, StartLeft, StopLeft
  <2> QED BY <2>1, <2>4, <2>5, <2>6, <2>7, <2>8 DEF ProviderOK
<1>4. TypeOK'
  BY <1>1 DEF IInv, TypeOK, Numbers
<1>5. OnePerPort'
  <2> SUFFICES ASSUME NEW d \in Children, NEW e \in Children, NEW prt \in Ports,
                      Serves(d, prt)', Serves(e, prt)'
               PROVE  d = e
    BY DEF OnePerPort
  <2>1. \A f \in Children : Serves(f, prt)' => Serves(f, prt) \/ (f = c /\ to = "serving" /\ prt = child[c].port)
    BY <1>1 DEF Serves
  <2> QED BY <2>1 DEF IInv, OnePerPort
<1> QED BY <1>3, <1>4, <1>5 DEF IInv

----------------------------------------------------------------------------
(* The theorems.                                                           *)

LEMMA InitKeeps ==
  ASSUME ProcessAssumption, Init
  PROVE  IInv
<1>1. /\ \A p \in Providers : /\ step[p] = "idle" /\ session[p] = 1 /\ handle[p] = 0
                              /\ port[p] = NoPort /\ reaping[p] = 0
      /\ \A c \in Children : child[c] = NoChild
  BY DEF Init
<1>2. \A p \in Providers : 1 \in Numbers(p)
  BY DEF ProcessAssumption, Numbers
<1>3. TypeOK
  <2>1. NoChild \in Child
    BY DEF NoChild, Child
  <2> QED BY <1>1, <1>2, <2>1 DEF Init, TypeOK
<1>4. ASSUME NEW p \in Providers PROVE ProviderOK(p)
  <2>1. \A n \in Numbers(p) : child[<<p, n>>].state = "none" /\ ~Alive(<<p, n>>)
    BY <1>1, ChildIs DEF NoChild, Alive
  <2> QED BY <1>1, <1>2, <2>1 DEF ProviderOK
<1>5. OnePerPort
  BY <1>1 DEF OnePerPort, Serves, NoChild
<1> QED BY <1>3, <1>4, <1>5 DEF IInv

LEMMA NextKeeps ==
  ASSUME ProcessAssumption, IInv, [Next]_vars
  PROVE  IInv'
<1>1. CASE UNCHANGED vars
  <2>1. UNCHANGED <<step, session, handle, port, reserved, reaping, child, abandoned>>
    BY <1>1 DEF vars
  <2>2. TypeOK' /\ OnePerPort'
    BY <2>1 DEF IInv, TypeOK, Numbers, OnePerPort, Serves
  <2>3. ASSUME NEW q \in Providers PROVE ProviderOK(q)'
    <3>1. StartLeft(q)' = StartLeft(q) /\ StopLeft(q)' = StopLeft(q)
      BY <2>1 DEF StartLeft, StopLeft
    <3> QED BY <2>1, <3>1, OthersStay DEF IInv
  <2> QED BY <2>2, <2>3 DEF IInv
<1>2. ASSUME NEW p \in Providers, Proceed(p) \/ Cancel(p) \/ NextSession(p)
      PROVE  IInv'
  <2>1. CASE Moves(p)
    BY <2>1, MovesKeep
  <2>2. CASE Spawned(p)
    BY <2>2, SpawnedKeeps
  <2>3. CASE Restore(p)
    BY <2>3, RestoreKeeps
  <2>4. CASE Kill(p)
    <3>1. reaping[p] \in Numbers(p)
      <4>1. ProviderOK(p) /\ step[p] = "stopping"
        BY <2>4 DEF Kill, IInv
      <4> QED BY <4>1 DEF ProviderOK, Numbers, ProcessAssumption
    <3>2. <<p, reaping[p]>> \in Children
      BY <3>1, ChildIs
    <3> QED BY <2>4, <3>2, ChildMoves DEF Kill
  <2> QED BY <1>2, <2>1, <2>2, <2>3, <2>4 DEF Proceed, Moves
<1>3. ASSUME NEW c \in Children, Boots(c) \/ Exits(c)
      PROVE  IInv'
  <2>1. CASE Boots(c)
    <3>1. PICK to \in {"serving", "exited"} :
            /\ child' = [child EXCEPT ![c].state = to]
            /\ to = "serving" => \A d \in Children : ~Serves(d, child[c].port)
      BY <2>1 DEF Boots
    <3> QED BY <2>1, <3>1, ChildMoves DEF Boots, Alive
  <2>2. CASE Exits(c)
    BY <2>2, ChildMoves DEF Exits
  <2> QED BY <1>3, <2>1, <2>2
<1> QED BY <1>1, <1>2, <1>3 DEF Next

LEMMA Invariance == Spec => []IInv
<1>1. Init => IInv
  BY InitKeeps, ProcessAssumption
<1>2. IInv /\ [Next]_vars => IInv'
  BY NextKeeps, ProcessAssumption
<1> QED BY <1>1, <1>2, PTL DEF Spec

LEMMA StoppedFollows ==
  ASSUME IInv
  PROVE  StoppedUnlessAbandoned
<1> SUFFICES ASSUME NEW p \in Providers, step[p] = "ended", ~StartLeft(p), ~StopLeft(p),
                    NEW n \in Numbers(p), Alive(<<p, n>>)
             PROVE  FALSE
  BY DEF StoppedUnlessAbandoned, StartLeft, StopLeft
<1>1. handle[p] = 0 /\ reaping[p] = 0 /\ n \in {handle[p], reaping[p]}
  BY DEF IInv, ProviderOK
<1> QED BY <1>1 DEF Numbers

LEMMA HeldFollows ==
  ASSUME IInv
  PROVE  ObeyedIsHeld
<1> SUFFICES ASSUME NEW p \in Providers, ~StopLeft(p), NEW c \in Obeying(p)
             PROVE  c = <<p, handle[p]>>
  BY DEF ObeyedIsHeld, StopLeft
<1> QED BY ObeyingIsHeld DEF IInv

LEMMA FreshFollows ==
  ASSUME IInv
  PROVE  FreshWhenOpen
<1> SUFFICES ASSUME NEW p \in Providers, step[p] = "open", ~StopLeft(p), NEW c \in Obeying(p)
             PROVE  child[c].seeded = session[p]
  BY DEF FreshWhenOpen, StopLeft
<1>1. ProviderOK(p)
  BY DEF IInv
<1>2. c = <<p, handle[p]>>
  BY <1>1, ObeyingIsHeld
<1> QED BY <1>1, <1>2 DEF ProviderOK

(* Every variable has its type, for any providers, ports and sessions; a   *)
(* handle is a session that has been, and comes with a URL.                *)
THEOREM TypeCorrect == Spec => []TypeOK
<1>1. IInv => TypeOK
  BY DEF IInv
<1> QED BY <1>1, Invariance, PTL

(* Whoever is alive is held by a session, until a cancellation lands in    *)
(* start() or stop(): whatever fails, each session stops its child.        *)
THEOREM StoppedCorrect == Spec => []StoppedUnlessAbandoned
<1>1. IInv => StoppedUnlessAbandoned
  BY StoppedFollows
<1> QED BY <1>1, Invariance, PTL

(* However many providers compete for the ports, and whatever their        *)
(* earlier sessions have left running, a provider's control requests are   *)
(* obeyed by the child it holds and by no other, unless a stop() was       *)
(* cancelled before.                                                       *)
THEOREM HeldCorrect == Spec => []ObeyedIsHeld
<1>1. IInv => ObeyedIsHeld
  BY HeldFollows
<1> QED BY <1>1, Invariance, PTL

(* An open session works on a world that was restored for it, unless a     *)
(* stop() was cancelled before.                                            *)
THEOREM FreshCorrect == Spec => []FreshWhenOpen
<1>1. IInv => FreshWhenOpen
  BY FreshFollows
<1> QED BY <1>1, Invariance, PTL

----------------------------------------------------------------------------
(* Sessions and children never go back.                                    *)

Age == [none |-> 0, booting |-> 1, serving |-> 2, exited |-> 3]
Place == [idle |-> 0, spawning |-> 1, probing |-> 2, restoring |-> 3, open |-> 4, stopping |-> 5,
          ended |-> 6]

ChildAdvances(c) == child'[c].state = child[c].state \/ Age[child[c].state] < Age[child'[c].state]

SessionAdvances(p) ==
  \/ session'[p] = session[p] /\ (step'[p] = step[p] \/ Place[step[p]] < Place[step'[p]])
  \/ session'[p] = session[p] + 1 /\ step[p] = "ended" /\ step'[p] = "idle"

Advances == (\A c \in Children : ChildAdvances(c)) /\ (\A p \in Providers : SessionAdvances(p))

LEMMA MoverAdvances ==
  ASSUME TypeOK, NEW p \in Providers, Moves(p)
  PROVE  SessionAdvances(p)
<1>1. stop(p) => step'[p] \in {"stopping", "ended"}
  BY DEF stop, TypeOK
<1>2. CASE StartAgain(p) \/ Start(p) \/ StartFails(p) \/ ProbeReady(p) \/ Reaped(p) \/ NextSession(p)
  BY <1>2 DEF StartAgain, Start, StartFails, ProbeReady, Reaped, NextSession, TypeOK,
              SessionAdvances, Place
<1>3. CASE ProbeFails(p) \/ LeaveSession(p)
  BY <1>1, <1>3 DEF ProbeFails, LeaveSession, SessionAdvances, Place
<1>4. CASE Cancel(p)
  BY <1>1, <1>4 DEF Cancel, TypeOK, SessionAdvances, Place
<1> QED BY <1>2, <1>3, <1>4 DEF Moves

(* A number is given to one child, once; its process does not come back.   *)
LEMMA ChildrenAdvance ==
  ASSUME ProcessAssumption, IInv, Next, NEW c \in Children
  PROVE  ChildAdvances(c)
<1>1. child \in [Children -> Child]
  BY DEF IInv, TypeOK
<1>2. ASSUME NEW p \in Providers, Moves(p)
      PROVE  ChildAdvances(c)
  <2>1. child' = child
    BY <1>2, MovesFrame DEF IInv
  <2> QED BY <2>1 DEF ChildAdvances
<1>3. ASSUME NEW p \in Providers, Spawned(p)
      PROVE  ChildAdvances(c)
  <2>1. /\ step[p] = "spawning"
        /\ child' = [child EXCEPT ![<<p, session[p]>>] =
                       [state |-> "booting", port |-> reserved[p], seeded |-> 0]]
    BY <1>3 DEF Spawned
  <2>2. session[p] \in Numbers(p) /\ child[<<p, session[p]>>].state = "none"
    BY <2>1 DEF IInv, ProviderOK, Unborn
  <2>3. CASE c = <<p, session[p]>>
    BY <1>1, <2>1, <2>2, <2>3 DEF ChildAdvances, Age
  <2>4. CASE c # <<p, session[p]>>
    BY <1>1, <2>1, <2>4 DEF ChildAdvances
  <2> QED BY <2>3, <2>4
<1>4. ASSUME NEW p \in Providers, Restore(p)
      PROVE  ChildAdvances(c)
  <2>1. PICK d \in Children : child' = [child EXCEPT ![d].seeded = session[p]]
    BY <1>4 DEF Restore, Obeying
  <2> QED BY <1>1, <2>1 DEF ChildAdvances, Child
<1>5. ASSUME NEW d, NEW to \in {"serving", "exited"}, child' = [child EXCEPT ![d].state = to],
             d \in Children => Age[child[d].state] < Age[to]
      PROVE  ChildAdvances(c)
  <2>1. c # d => child'[c] = child[c]
    BY <1>1, <1>5
  <2>2. c = d => child'[c].state = to
    BY <1>1, <1>5 DEF Child
  <2> QED BY <1>5, <2>1, <2>2 DEF ChildAdvances
<1>6. ASSUME NEW p \in Providers, Kill(p)
      PROVE  ChildAdvances(c)
  <2>1. /\ child' = [child EXCEPT ![<<p, reaping[p]>>].state = "exited"]
        /\ Age[child[<<p, reaping[p]>>].state] < Age["exited"]
    BY <1>6 DEF Kill, Alive, Age
  <2> QED BY <1>5, <2>1
<1>7. ASSUME NEW d \in Children, Boots(d) \/ Exits(d)
      PROVE  ChildAdvances(c)
  <2>1. \E to \in {"serving", "exited"} :
          child' = [child EXCEPT ![d].state = to] /\ Age[child[d].state] < Age[to]
    BY <1>7 DEF Boots, Exits, Alive, Age
  <2> QED BY <1>5, <2>1
<1> QED BY <1>2, <1>3, <1>4, <1>6, <1>7 DEF Next, Proceed, Moves

(* A session goes through its stages in their order, whatever fails and    *)
(* wherever it is cancelled, and the provider's next begins when it has    *)
(* ended; no child is spawned twice, and none that has exited serves again.*)
THEOREM SessionsAdvance == Spec => [][Advances]_vars
<1>1. ASSUME IInv, Next
      PROVE  Advances
  <2>1. TypeOK
    BY <1>1 DEF IInv
  <2>2. ASSUME NEW p \in Providers
        PROVE  SessionAdvances(p)
    <3>1. ASSUME NEW q \in Providers, Moves(q)
          PROVE  SessionAdvances(p)
      <4>1. CASE p = q
        BY <2>1, <3>1, <4>1, MoverAdvances
      <4>2. CASE p # q
        BY <2>1, <3>1, <4>2, MovesFrame DEF SessionAdvances
      <4> QED BY <4>1, <4>2
    <3>2. ASSUME NEW q \in Providers, Spawned(q) \/ Restore(q) \/ Kill(q)
          PROVE  SessionAdvances(p)
      BY <2>1, <3>2 DEF Spawned, Restore, Kill, TypeOK, SessionAdvances, Place
    <3>3. ASSUME NEW c \in Children, Boots(c) \/ Exits(c)
          PROVE  SessionAdvances(p)
      BY <3>3 DEF Boots, Exits, SessionAdvances
    <3> QED BY <1>1, <3>1, <3>2, <3>3 DEF Next, Proceed, Moves
  <2> QED BY <1>1, <2>2, ChildrenAdvance, ProcessAssumption DEF Advances
<1> QED BY <1>1, Invariance, PTL DEF Spec
=============================================================================
