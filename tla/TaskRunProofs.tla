---------------------------- MODULE TaskRunProofs ----------------------------
(***************************************************************************)
(* Proofs about TaskRun, for any pages, users, permission maps, texts and  *)
(* number of tool calls. Every step of a run looks at pages, appends one   *)
(* revision of the agent or the human to one history, or ends the run      *)
(* (StepKinds). The invariant says where every piece of text came from:    *)
(* the page's own seed, something the agent was shown, something it may    *)
(* invent, or the human's note once the race has been staged; and what the *)
(* histories say of the pages. The verdict's theorems follow from it and   *)
(* from what each task asks for (TasksKinds, TasksAsk).                    *)
(***************************************************************************)
EXTENDS TaskRun, FiniteSetTheorems, SequenceTheorems, WellFoundedInduction, TLAPS

----------------------------------------------------------------------------
(* The permission resolver.                                                *)

(* A set of indices has a first one.                                       *)
LEMMA FirstIndex ==
  ASSUME NEW n \in Nat, NEW I \in SUBSET (1..n), I # {}
  PROVE  \E i \in I : \A j \in 1..(i - 1) : j \notin I
<1> DEFINE T == {1..i : i \in I}
           R == StrictSubsetOrdering(1..n)
<1>1. IsWellFoundedOn(R, FiniteSubsetsOf(1..n))
  BY FS_StrictSubsetOrderingWellFounded
<1>2. T \subseteq FiniteSubsetsOf(1..n) /\ T # {}
  <2>1. ASSUME NEW i \in I PROVE 1..i \in SUBSET (1..n) /\ IsFiniteSet(1..i)
    <3>1. i \in Int /\ 1 \in Int /\ 1..i \in SUBSET (1..n)
      OBVIOUS
    <3>2. QED BY <3>1, FS_Interval
  <2>2. QED BY <2>1 DEF FiniteSubsetsOf
<1> HIDE DEF R
<1>3. \E x \in T : \A y \in T : <<y, x>> \notin R
  <2> HIDE DEF T
  <2>1. QED BY <1>1, <1>2, WFMin
<1>4. PICK i \in I : \A y \in T : <<y, 1..i>> \notin R
  BY <1>3
<1>5. ASSUME NEW j \in 1..(i - 1), j \in I PROVE FALSE
  <2>1. 1..j \subseteq 1..i /\ i \in 1..i /\ i \notin 1..j
    OBVIOUS
  <2>2. 1..j \in SUBSET (1..n) /\ 1..i \in SUBSET (1..n) /\ 1..j # 1..i
    BY <2>1
  <2>3. <<1..j, 1..i>> \in R
    BY <2>1, <2>2 DEF R, StrictSubsetOrdering
  <2>4. QED BY <1>4, <1>5, <2>3
<1>6. QED BY <1>5

(* A user's identifier resolves to a user.                                 *)
LEMMA ActorResolved ==
  ASSUME NEW name \in Users
  PROVE  ResolveActor(name) \in Users
<1> DEFINE I == {i \in DOMAIN UserOrder : name \in Aliases[UserOrder[i]]}
<1>1. /\ UserOrder \in Seq(Users) /\ Len(UserOrder) \in Nat
      /\ DOMAIN UserOrder = 1..Len(UserOrder)
  BY ResolverAssumption
<1>2. I # {}
  BY ResolverAssumption
<1>3. PICK i \in I : \A j \in 1..(i - 1) : j \notin I
  <2>1. I \in SUBSET (1..Len(UserOrder))
    BY <1>1
  <2> HIDE DEF I
  <2>2. QED BY <1>1, <1>2, <2>1, FirstIndex
<1>4. \A j \in 1..(i - 1) : name \notin Aliases[UserOrder[j]]
  BY <1>1, <1>3
<1>5. \E k \in DOMAIN UserOrder : /\ name \in Aliases[UserOrder[k]]
                                  /\ \A j \in 1..(k - 1) : name \notin Aliases[UserOrder[j]]
  BY <1>3, <1>4
<1>6. QED BY <1>1, <1>5 DEF ResolveActor

(* routes.py: an entry that grants edits grants reads, whatever its shape. *)
LEMMA WriterReads ==
  ASSUME NEW entries, NEW user, EntriesGrant(entries, user, "write")
  PROVE  EntriesGrant(entries, user, "read")
BY DEF EntriesGrant, EntryGrants, Permits

(* routes.py, at the level of pages and of both scopes together.           *)
LEMMA WritersRead == WriteImpliesRead
<1> SUFFICES ASSUME NEW p \in Pages, NEW u \in Users,
                    CanAccessPage(permissions, p, pages[p].owner, u, "write")
             PROVE  CanAccessPage(permissions, p, pages[p].owner, u, "read")
  BY DEF WriteImpliesRead
<1> DEFINE ofPage == PermissionEntries(permissions, p, u)
           ofSpace == PermissionEntries(permissions, SpaceOf[p], u)
<1>1. EntriesGrant(ofPage, u, "write") => EntriesGrant(ofPage, u, "read")
  BY WriterReads
<1>2. EntriesGrant(ofSpace, u, "write") => EntriesGrant(ofSpace, u, "read")
  BY WriterReads
<1>3. QED BY <1>1, <1>2, Zenon DEF CanAccessPage

(* routes.py: whoever may edit a page may read it, under any permission    *)
(* map: no step of a run is needed for it.                                 *)
THEOREM WriteImpliesReadCorrect == Spec => []WriteImpliesRead
<1>1. WriteImpliesRead
  BY WritersRead
<1>2. QED BY <1>1, PTL

(* What the resolver lets the agent do is granted by every scope that      *)
(* says something about the page.                                          *)
LEMMA AccessIsGranted ==
  ASSUME NEW p, NEW operation,
         CanAccessPage(permissions, p, pages[p].owner, Actor, operation)
  PROVE  Granted(p, operation)
<1> DEFINE Said(scope) == PermissionEntries(permissions, scope, Actor)
           Grants_(scope) == EntriesGrant(Said(scope), Actor, operation)
<1>1. CASE Actor \in GlobalAdmins \/ pages[p].owner \in Aliases[Actor]
  BY <1>1, Zenon DEF Granted
<1>2. CASE ~(Actor \in GlobalAdmins \/ pages[p].owner \in Aliases[Actor])
  <2>1. \A scope : Grants_(scope) => Said(scope) # {}
    BY DEF EntriesGrant
  <2>2. IF Said(p) # {} /\ Said(SpaceOf[p]) # {}
        THEN Grants_(p) /\ Grants_(SpaceOf[p])
        ELSE Grants_(p) \/ Grants_(SpaceOf[p])
    BY <1>2, Zenon DEF CanAccessPage
  <2>3. {scope \in {p, SpaceOf[p]} : Said(scope) # {}} # {}
    BY <2>1, <2>2
  <2>4. \A scope \in {s \in {p, SpaceOf[p]} : Said(s) # {}} : Grants_(scope)
    BY <2>1, <2>2
  <2>5. QED BY <2>3, <2>4, Zenon DEF Granted
<1>3. QED BY <1>1, <1>2

----------------------------------------------------------------------------
(* The inductive invariant.                                                *)

TaskOK == task \in Tasks /\ Actor \in Users

(* A history has as many entries as the page has versions, and the last    *)
(* one is the page; the pages of the snapshot are never gone, and their    *)
(* histories still begin with it.                                          *)
HistoriesOK ==
  \A p \in Pages :
    /\ Len(page_versions[p]) = pages[p].version
    /\ Exists(p) => page_versions[p][pages[p].version].page = pages[p]
    /\ ~Exists(p) => pages[p] = NoPage
    /\ p \in Seeded => Exists(p) /\ page_versions[p][1].page = InitialPages[p]

(* Where the text of a page can have come from.                            *)
Source(p) ==
  (IF p \in Seeded THEN SeedBody[p] ELSE {}) \cup known \cup Invented
    \cup (IF fired THEN {Note} ELSE {})

TextsOK ==
  /\ \A p \in Pages :
       /\ pages[p].body \subseteq Source(p)
       /\ \A i \in DOMAIN page_versions[p] : page_versions[p][i].page.body \subseteq Source(p)
  /\ Note \in known => fired

(* Of the target's revisions since the snapshot, at most one is the        *)
(* human's: there is one when the race has been staged.                    *)
ByHuman(i) ==
  /\ i \in 2..Len(page_versions[Target])
  /\ page_versions[Target][i].by = None

RaceOK ==
  /\ \A i \in 2..Len(page_versions[Target]) : page_versions[Target][i].by \in {Actor, None}
  /\ fired <=> \E i \in Nat : ByHuman(i)
  /\ \A i \in Nat : ByHuman(i) =>
       /\ task.human_edit # None
       /\ page_versions[Target][i].page.body = task.human_edit
       /\ \A j \in Nat : ByHuman(j) => j = i

OutcomeOK ==
  /\ answer = None => verdict = None
  /\ answer # None =>
       answer \subseteq known \cup {Explanation} /\ verdict = Verify(task, pages, page_versions, answer)

RunInv ==
  TypeOK /\ TaskOK /\ HistoriesOK /\ TextsOK /\ RaceOK /\ OutcomeOK
    /\ AccessWasGranted

----------------------------------------------------------------------------
(* The tasks.                                                              *)

(* The bodies the generators put together are bodies.                      *)
LEMMA BodiesTyped ==
  /\ ReplaceSection(SeedBody[Target]) \in SUBSET Fragments
  /\ AppendSection(SeedBody[Target]) \in SUBSET Fragments
  /\ SeedBody[Target] \cup {Note} \in SUBSET Fragments
BY TasksAssumption DEF ReplaceSection, AppendSection

(* The permission tasks, field by field.                                   *)
PermissionTaskOf(mode, actor, fragment, response) ==
  [family |-> "permissions", mode |-> mode, actor |-> actor, fragment |-> fragment,
   final_body |-> None, preserved |-> {}, forbidden |-> {}, response |-> response,
   human_edit |-> None]

LEMMA ThreePermissionTasks ==
  ASSUME NEW t \in PermissionTasks
  PROVE  \/ t = PermissionTaskOf("denied_read", Stranger, None, Old)
         \/ t = PermissionTaskOf("denied_write", Reader, None, None)
         \/ t = PermissionTaskOf("allowed", SeedOwner[Target], New, None)
<1>1. [TaskOf("permissions", Stranger, None) EXCEPT !.mode = "denied_read", !.response = Old]
        = PermissionTaskOf("denied_read", Stranger, None, Old)
  <2> DEFINE asked == [TaskOf("permissions", Stranger, None) EXCEPT !.mode = "denied_read"]
  <2>1. asked = PermissionTaskOf("denied_read", Stranger, None, None)
    BY DEF TaskOf, PermissionTaskOf
  <2> HIDE DEF asked
  <2>2. [asked EXCEPT !.response = Old] = PermissionTaskOf("denied_read", Stranger, None, Old)
    BY <2>1 DEF PermissionTaskOf
  <2>3. QED BY <2>2 DEF asked
<1>2. [TaskOf("permissions", Reader, None) EXCEPT !.mode = "denied_write"]
        = PermissionTaskOf("denied_write", Reader, None, None)
  BY DEF TaskOf, PermissionTaskOf
<1>3. [TaskOf("permissions", SeedOwner[Target], New) EXCEPT !.mode = "allowed"]
        = PermissionTaskOf("allowed", SeedOwner[Target], New, None)
  BY DEF TaskOf, PermissionTaskOf
<1>4. QED BY <1>1, <1>2, <1>3, Zenon DEF PermissionTasks

(* The tasks are of the type of a task, and ...                            *)
LEMMA TasksTyped == Tasks \subseteq Task
<1> USE TasksAssumption, BodiesTyped
<1>1. RetrievalTask \in Task
  BY DEF RetrievalTask, TaskOf, Task
<1>2. EditTasks \subseteq Task
  BY DEF EditTasks, TaskOf, Task
<1>3. PreservationTasks \subseteq Task
  <2> SUFFICES ASSUME NEW body \in {ReplaceSection(SeedBody[Target]), AppendSection(SeedBody[Target])}
               PROVE  [TaskOf("preservation", SeedOwner[Target], New) EXCEPT
                         !.final_body = body, !.preserved = body \ {New},
                         !.forbidden = Seeded \ {Target}] \in Task
    BY DEF PreservationTasks
  <2>1. body \in SUBSET Fragments /\ body \ {New} \in SUBSET Fragments /\ Seeded \ {Target} \in SUBSET Pages
    OBVIOUS
  <2>2. SeedOwner[Target] \in Users /\ New \in Fragments
    OBVIOUS
  <2> DEFINE t == TaskOf("preservation", SeedOwner[Target], New)
  <2>3. t \in Task
    BY <2>2 DEF TaskOf, Task
  <2>4. QED BY <2>1, <2>3 DEF Task
<1>4. ConcurrentEditTask \in Task
  <2>1. ReplaceSection(SeedBody[Target] \cup {Note}) \in SUBSET Fragments
    BY DEF ReplaceSection
  <2>2. QED BY <2>1 DEF ConcurrentEditTask, TaskOf, Task
<1>5. PermissionTasks \subseteq Task
  <2> SUFFICES ASSUME NEW t \in PermissionTasks
               PROVE  t \in Task
    OBVIOUS
  <2>1. SeedOwner[Target] \in Users /\ {New, Old} \subseteq Fragments
    OBVIOUS
  <2>2. PermissionTaskOf("denied_read", Stranger, None, Old) \in Task
    BY <2>1 DEF PermissionTaskOf, Task
  <2>3. PermissionTaskOf("denied_write", Reader, None, None) \in Task
    BY DEF PermissionTaskOf, Task
  <2>4. PermissionTaskOf("allowed", SeedOwner[Target], New, None) \in Task
    BY <2>1 DEF PermissionTaskOf, Task
  <2>5. QED BY <2>2, <2>3, <2>4, ThreePermissionTasks
<1>6. QED BY <1>1, <1>2, <1>3, <1>4, <1>5 DEF Tasks

(* ... only a concurrent edit has a human in it, who adds the note.        *)
LEMMA TasksKinds ==
  ASSUME NEW t \in Tasks
  PROVE  /\ t.human_edit \in {None, SeedBody[Target] \cup {Note}}
         /\ t.human_edit # None <=> t.family = "concurrent_edit"
         /\ t.family = "concurrent_edit" => t.fragment = New
         /\ t.fragment # New <=> t.family = "retrieval" \/ t.mode \in {"denied_read", "denied_write"}
         /\ t.family = "retrieval" => t.mode = "none"
         /\ t.mode = "denied_write" => t.response = None
         /\ t.response \in {None, Old}
         /\ t.mode # "none" => t.family = "permissions"
<1> USE TasksAssumption, BodiesTyped DEF TaskOf
<1>1. CASE t = RetrievalTask
  BY <1>1 DEF RetrievalTask
<1>2. CASE t \in EditTasks
  BY <1>2 DEF EditTasks
<1>3. CASE t \in PreservationTasks
  BY <1>3 DEF PreservationTasks
<1>4. CASE t = ConcurrentEditTask
  BY <1>4 DEF ConcurrentEditTask
<1>5. CASE t \in PermissionTasks
  BY <1>5, ThreePermissionTasks DEF PermissionTaskOf
<1>6. QED BY <1>1, <1>2, <1>3, <1>4, <1>5 DEF Tasks

(* A verdict is a result, whatever it is about.                            *)
LEMMA ResultTyped ==
  ASSUME NEW t, NEW final, NEW histories, NEW says
  PROVE  Verify(t, final, histories, says) \in Result
<1>1. \A assertions : BuildResult(assertions) \in Result
  BY Zenon DEF BuildResult, Result
<1>2. QED BY <1>1, Zenon DEF Verify

----------------------------------------------------------------------------
(* The kinds of steps.                                                     *)

Bodies(p) ==
  pages[p].body \cup UNION {page_versions[p][i].page.body : i \in DOMAIN page_versions[p]}

(* The agent is shown text of pages it may read.                           *)
Shown ==
  /\ known \subseteq known'
  /\ \A fragment \in known' \ known : \E p \in VisiblePages : fragment \in Bodies(p)

Working ==
  /\ answer = None /\ calls' \in 0..MaxCalls
  /\ UNCHANGED <<task, permissions, answer, verdict>>

Looks == Working /\ Shown /\ denied' \subseteq Pages /\ UNCHANGED <<pages, page_versions, fired>>

AgentWrites(p, page) ==
  /\ Working
  /\ Write(p, page, Actor)
  /\ page.version = pages[p].version + 1
  /\ page.body \subseteq pages[p].body \cup known \cup Invented
  /\ IF Exists(p)
     THEN CanWrite(p) /\ page.owner = pages[p].owner
     ELSE can_create_page(permissions, SpaceOf[p], Actor)
  /\ UNCHANGED <<known, denied, fired>>

HumanWrites(page) ==
  /\ Working /\ Shown /\ UNCHANGED denied
  /\ ~fired /\ fired'
  /\ task.human_edit # None /\ Exists(Target)
  /\ page = [pages[Target] EXCEPT !.body = task.human_edit, !.version = @ + 1]
  /\ Write(Target, page, None)

(* Every step is one of four kinds.                                        *)
LEMMA StepKinds ==
  ASSUME TypeOK, TaskOK, Next
  PROVE  \/ Looks
         \/ \E p \in Pages, page \in Page : AgentWrites(p, page)
         \/ \E page \in Page : HumanWrites(page)
         \/ \E says \in SUBSET (known \cup {Explanation}) : AgentCompletes(says)
<1> USE RunAssumption, TasksAssumption
<1>0. Calling => Working
  BY DEF TypeOK, Calling, Working
<1>1. ASSUME NEW p \in Pages, get_page(p)
      PROVE  Looks \/ \E page \in Page : HumanWrites(page)
  <2>1. Working /\ p \in VisiblePages /\ known' = known \cup pages[p].body
    BY <1>0, <1>1 DEF get_page, VisiblePages
  <2>2. Shown
    BY <2>1 DEF Shown, Bodies
  <2>3. CASE ~HookFires(p)
    BY <1>1, <2>1, <2>2, <2>3 DEF get_page, Looks, TypeOK
  <2>4. CASE HookFires(p)
    <3> DEFINE page == [pages[Target] EXCEPT !.body = task.human_edit, !.version = @ + 1]
    <3>1. p = Target /\ ~fired /\ fired' /\ task.human_edit # None /\ Write(Target, page, None)
      BY <1>1, <2>4 DEF get_page, HookFires
    <3>2. page \in Page
      <4>1. task.human_edit \in SUBSET Fragments
        BY <3>1, TasksTyped DEF TaskOK, Task
      <4>2. pages[Target] \in Page
        BY DEF TypeOK
      <4>3. pages[Target].version + 1 \in Nat
        BY <4>2 DEF Page
      <4>4. QED BY <4>1, <4>2, <4>3, Zenon DEF Page
    <3>3. HumanWrites(page)
      BY <1>1, <2>1, <2>2, <3>1 DEF HumanWrites, get_page
    <3>4. QED BY <3>2, <3>3
  <2>5. QED BY <2>3, <2>4
<1>2. ASSUME NEW p \in Pages, get_page_versions(p) PROVE Looks
  <2>1. Working /\ p \in VisiblePages
    BY <1>0, <1>2 DEF get_page_versions, VisiblePages
  <2>2. QED BY <1>2, <2>1 DEF get_page_versions, Looks, Shown, Bodies, TypeOK
<1>3. ASSUME NEW hits \in SUBSET VisiblePages, search_pages(hits) PROVE Looks
  BY <1>0, <1>3 DEF search_pages, Looks, Shown, Bodies, TypeOK
<1>d. ASSUME NEW p \in Pages, denied_read(p) PROVE Looks
  BY <1>0, <1>d DEF denied_read, Looks, Shown, TypeOK
<1>4. ASSUME NEW p \in Pages, NEW body \in Drafts, NEW owner \in {Actor} \cup NamedOwners,
             create_page(p, body, owner)
      PROVE  \E page \in Page : AgentWrites(p, page)
  <2> DEFINE page == [version |-> 1, title |-> SeedTitle, body |-> body, owner |-> owner]
  <2>1. page \in Page
    BY DEF Page, TaskOK
  <2>2. AgentWrites(p, page)
    BY <1>0, <1>4 DEF create_page, AgentWrites, Exists
  <2>3. QED BY <2>1, <2>2
<1>5. ASSUME NEW p \in Pages, NEW title \in Titles \cup {None}, NEW body \in Drafts \cup {None},
             update_page(p, title, body)
      PROVE  \E page \in Page : AgentWrites(p, page)
  <2> DEFINE page == [pages[p] EXCEPT !.version = @ + 1,
                                      !.title = IF title = None THEN @ ELSE title,
                                      !.body = IF body = None THEN @ ELSE body]
  <2>1. pages[p] \in Page
    BY DEF TypeOK
  <2> DEFINE to == IF title = None THEN pages[p].title ELSE title
             text == IF body = None THEN pages[p].body ELSE body
  <2>2. to \in Titles /\ text \in SUBSET Fragments /\ text \subseteq pages[p].body \cup known \cup Invented
    BY <1>5, <2>1 DEF Page, update_page
  <2>3. /\ page \in Page /\ page.version = pages[p].version + 1 /\ page.owner = pages[p].owner
        /\ page.body = text
    <3> HIDE DEF to, text
    <3>1. page = [pages[p] EXCEPT !.version = pages[p].version + 1, !.title = to, !.body = text]
      BY Zenon DEF to, text
    <3>2. pages[p].version + 1 \in Nat
      BY <2>1 DEF Page
    <3> HIDE DEF page
    <3>3. page \in Page
      BY <2>1, <2>2, <3>1, <3>2, Zenon DEF Page
    <3>4. page.version = pages[p].version + 1 /\ page.owner = pages[p].owner /\ page.body = text
      BY <2>1, <3>1, Zenon DEF Page
    <3>5. QED BY <3>3, <3>4
  <2>4. AgentWrites(p, page)
    <3> HIDE DEF text
    <3>1. Working /\ Exists(p) /\ CanWrite(p) /\ Write(p, page, Actor) /\ UNCHANGED <<known, denied, fired>>
      BY <1>0, <1>5, Zenon DEF update_page
    <3> HIDE DEF page
    <3>2. QED BY <2>2, <2>3, <3>1 DEF AgentWrites
  <2>5. QED BY <2>3, <2>4
<1>6. ASSUME Refused PROVE Looks
  BY <1>0, <1>6 DEF Refused, Looks, Shown, TypeOK
<1>7. QED BY <1>1, <1>2, <1>3, <1>d, <1>4, <1>5, <1>6 DEF Next

----------------------------------------------------------------------------
(* Writes.                                                                 *)

(* What a write leaves behind.                                             *)
LEMMA Written ==
  ASSUME TypeOK, NEW p \in Pages, NEW page \in Page, NEW by \in Users \cup {None},
         Write(p, page, by)
  PROVE  /\ pages' \in [Pages -> Page] /\ page_versions' \in [Pages -> Seq(Revision)]
         /\ pages'[p] = page
         /\ Len(page_versions[p]) \in Nat
         /\ DOMAIN page_versions[p] = 1..Len(page_versions[p])
         /\ Len(page_versions'[p]) = Len(page_versions[p]) + 1
         /\ DOMAIN page_versions'[p] = 1..(Len(page_versions[p]) + 1)
         /\ page_versions'[p][Len(page_versions[p]) + 1] = [page |-> page, by |-> by]
         /\ \A i \in 1..Len(page_versions[p]) : page_versions'[p][i] = page_versions[p][i]
         /\ \A q \in Pages \ {p} : pages'[q] = pages[q] /\ page_versions'[q] = page_versions[q]
<1>1. page_versions[p] \in Seq(Revision) /\ pages \in [Pages -> Page]
      /\ page_versions \in [Pages -> Seq(Revision)]
  BY DEF TypeOK
<1> DEFINE entry == [page |-> page, by |-> by]
<1>2. entry \in Revision
  BY DEF Revision
<1>3. /\ pages' = [pages EXCEPT ![p] = page]
      /\ page_versions' = [page_versions EXCEPT ![p] = Append(page_versions[p], entry)]
  BY DEF Write
<1> HIDE DEF entry
<1>4. page_versions'[p] = Append(page_versions[p], entry)
  BY <1>1, <1>3
<1>5. /\ Len(page_versions'[p]) = Len(page_versions[p]) + 1
      /\ page_versions'[p][Len(page_versions[p]) + 1] = entry
      /\ \A i \in 1..Len(page_versions[p]) : page_versions'[p][i] = page_versions[p][i]
      /\ page_versions'[p] \in Seq(Revision)
  BY <1>1, <1>2, <1>4
<1>6. QED BY <1>1, <1>3, <1>5 DEF entry

(* A step that changes nobody's rights.                                    *)
LEMMA GrantedKept ==
  ASSUME NEW p, NEW operation, UNCHANGED <<task, permissions>>,
         pages'[p].owner = pages[p].owner, Granted(p, operation)
  PROVE  Granted(p, operation)'
BY DEF Granted, Actor

(* Text an agent is shown comes from a page it was granted to read.        *)
LEMMA ShownWasGranted ==
  ASSUME RunInv, Shown, NEW p \in Seeded, NEW fragment \in SeedBody[p], fragment \in known'
  PROVE  \E q \in Seeded : fragment \in SeedBody[q] /\ Granted(q, "read")
<1>1. CASE fragment \in known
  BY <1>1 DEF RunInv, AccessWasGranted
<1>2. CASE fragment \notin known
  <2>1. PICK q \in VisiblePages : fragment \in Bodies(q)
    BY <1>2 DEF Shown
  <2>2. q \in Pages /\ Granted(q, "read")
    BY <2>1, AccessIsGranted DEF VisiblePages, CanRead
  <2>3. fragment \in Source(q)
    BY <2>1, <2>2 DEF RunInv, TextsOK, Bodies
  <2>4. fragment \notin Invented \cup {Note}
    BY RunAssumption
  <2>5. q \in Seeded /\ fragment \in SeedBody[q]
    BY <1>2, <2>3, <2>4 DEF Source
  <2>6. QED BY <2>2, <2>5
<1>3. QED BY <1>1, <1>2

(* The note is seen after the race only.                                   *)
LEMMA NoteAfterRace ==
  ASSUME RunInv, Shown, fired => fired', Note \in known'
  PROVE  fired'
<1>1. CASE Note \in known
  BY <1>1 DEF RunInv, TextsOK
<1>2. CASE Note \notin known
  <2>1. PICK q \in VisiblePages : Note \in Bodies(q)
    BY <1>2 DEF Shown
  <2>2. Note \in Source(q)
    BY <2>1 DEF RunInv, TextsOK, Bodies, VisiblePages
  <2>3. QED BY <1>2, <2>2, RunAssumption DEF Source
<1>3. QED BY <1>1, <1>2

(* Typing of what only grows.                                              *)
LEMMA KnownTyped ==
  ASSUME RunInv, Shown
  PROVE  known' \subseteq Fragments
<1>1. \A p \in Pages : Bodies(p) \subseteq Fragments
  <2> TAKE p \in Pages
  <2>1. pages[p] \in Page /\ page_versions[p] \in Seq(Revision)
    BY DEF RunInv, TypeOK
  <2>2. \A i \in DOMAIN page_versions[p] : page_versions[p][i] \in Revision
    BY <2>1
  <2>3. QED BY <2>1, <2>2 DEF Bodies, Page, Revision
<1>2. QED BY <1>1 DEF RunInv, TypeOK, Shown, VisiblePages

----------------------------------------------------------------------------
(* Every kind of step keeps the invariant.                                 *)

(* A look adds to what the agent knows text it was granted to read.        *)
LEMMA LooksKeeps ==
  ASSUME RunInv, Looks
  PROVE  RunInv'
<1> USE DEF RunInv, Looks, Working
<1>1. TypeOK'
  BY KnownTyped DEF TypeOK
<1>2. TaskOK' /\ HistoriesOK' /\ RaceOK'
  BY DEF TaskOK, HistoriesOK, RaceOK, Exists, Actor, ByHuman
<1>3. TextsOK'
  <2>1. Note \in known' => fired'
    BY NoteAfterRace
  <2>2. \A p \in Pages : Source(p) \subseteq Source(p)'
    BY DEF Shown, Source
  <2>3. QED BY <2>1, <2>2 DEF TextsOK
<1>4. OutcomeOK'
  BY DEF OutcomeOK
<1>5. AccessWasGranted'
  <2>1. ASSUME NEW p \in Seeded, NEW fragment \in SeedBody[p] \cap known'
        PROVE  \E q \in Seeded : fragment \in SeedBody[q] /\ Granted(q, "read")'
    BY <2>1, ShownWasGranted, GrantedKept
  <2>2. ASSUME NEW p \in Pages, NEW i \in DOMAIN page_versions'[p],
               page_versions'[p][i].by = Actor'
        PROVE  RevisionGranted(p, i)'
    BY <2>2, GrantedKept DEF AccessWasGranted, RevisionGranted, Actor
  <2>3. QED BY <2>1, <2>2 DEF AccessWasGranted
<1>6. QED BY <1>1, <1>2, <1>3, <1>4, <1>5

(* A write by the agent: the histories grow by one entry of its own.       *)
LEMMA AgentWritesKeeps ==
  ASSUME RunInv, NEW p \in Pages, NEW page \in Page, AgentWrites(p, page)
  PROVE  RunInv'
<1> USE DEF RunInv, AgentWrites, Working
<1> DEFINE n == Len(page_versions[p])
<1>0. Actor \in Users /\ Actor # None /\ Actor' = Actor /\ Target \in Pages
  BY TasksAssumption DEF TaskOK, Actor
<1>1. /\ pages' \in [Pages -> Page] /\ page_versions' \in [Pages -> Seq(Revision)]
      /\ pages'[p] = page /\ n \in Nat /\ DOMAIN page_versions[p] = 1..n
      /\ Len(page_versions'[p]) = n + 1 /\ DOMAIN page_versions'[p] = 1..(n + 1)
      /\ page_versions'[p][n + 1] = [page |-> page, by |-> Actor]
      /\ \A i \in 1..n : page_versions'[p][i] = page_versions[p][i]
      /\ \A q \in Pages \ {p} : pages'[q] = pages[q] /\ page_versions'[q] = page_versions[q]
  BY <1>0, Written
<1> HIDE DEF n
<1>2. TypeOK'
  BY <1>1 DEF TypeOK
<1>3. TaskOK'
  BY <1>0 DEF TaskOK
<1>4. HistoriesOK'
  <2>1. ASSUME NEW q \in Pages
        PROVE  /\ Len(page_versions'[q]) = pages'[q].version
               /\ pages'[q].version # 0 => page_versions'[q][pages'[q].version].page = pages'[q]
               /\ pages'[q].version = 0 => pages'[q] = NoPage
               /\ q \in Seeded => pages'[q].version # 0 /\ page_versions'[q][1].page = InitialPages[q]
    <3>1. CASE q = p
      <4>1. page.version = n + 1
        BY DEF HistoriesOK, n
      <4>2. q \in Seeded => 1 \in 1..n /\ page_versions[q][1].page = InitialPages[q]
        BY <1>1, <3>1 DEF HistoriesOK, Exists, n
      <4>3. QED BY <1>1, <3>1, <4>1, <4>2
    <3>2. CASE q # p
      BY <1>1, <3>2 DEF HistoriesOK, Exists
    <3>3. QED BY <3>1, <3>2
  <2>2. QED BY <2>1 DEF HistoriesOK, Exists
<1>6. TextsOK'
  <2>1. \A q : Source(q)' = Source(q)
    BY DEF Source
  <2>2. page.body \subseteq Source(p)
    BY DEF TextsOK, Source
  <2>3. ASSUME NEW q \in Pages
        PROVE  /\ pages'[q].body \subseteq Source(q)
               /\ \A i \in DOMAIN page_versions'[q] : page_versions'[q][i].page.body \subseteq Source(q)
    <3>1. CASE q = p
      <4>1. \A i \in 1..n : page_versions'[p][i].page.body \subseteq Source(p)
        BY <1>1 DEF TextsOK
      <4>2. page_versions'[p][n + 1].page.body \subseteq Source(p)
        BY <1>1, <2>2
      <4>3. \A i \in 1..(n + 1) : i \in 1..n \/ i = n + 1
        BY <1>1
      <4>4. QED BY <1>1, <2>2, <3>1, <4>1, <4>2, <4>3
    <3>2. CASE q # p
      BY <1>1, <3>2 DEF TextsOK
    <3>3. QED BY <3>1, <3>2
  <2>4. Note \in known' => fired'
    BY DEF TextsOK
  <2>5. QED BY <2>1, <2>3, <2>4 DEF TextsOK
<1>7. RaceOK'
  <2>1. \A i \in Nat : ByHuman(i)' <=> ByHuman(i)
    <3>1. CASE p = Target
      <4>1. \A i \in Nat : i \in 2..(n + 1) <=> i \in 2..n \/ (i = n + 1 /\ n # 0)
        BY <1>1
      <4>2. page_versions'[p][n + 1].by # None
        BY <1>0, <1>1
      <4>3. \A i \in 2..n : page_versions'[p][i] = page_versions[p][i]
        BY <1>1
      <4>4. QED BY <1>1, <3>1, <4>1, <4>2, <4>3 DEF ByHuman, n
    <3>2. CASE p # Target
      BY <1>0, <1>1, <3>2 DEF ByHuman
    <3>3. QED BY <3>1, <3>2
  <2>2. \A i \in Nat : ByHuman(i) => page_versions'[Target][i] = page_versions[Target][i]
    <3>1. CASE p = Target
      <4>1. \A i \in 2..n : page_versions'[p][i] = page_versions[p][i]
        BY <1>1
      <4>2. QED BY <3>1, <4>1 DEF ByHuman, n
    <3>2. CASE p # Target
      BY <1>0, <1>1, <3>2
    <3>3. QED BY <3>1, <3>2
  <2>3. \A i \in 2..Len(page_versions'[Target]) : page_versions'[Target][i].by \in {Actor, None}
    <3>1. CASE p = Target
      <4>1. \A i \in 2..(n + 1) : (i \in 1..n /\ i \in 2..n) \/ i = n + 1
        BY <1>1
      <4>2. \A i \in 2..n : page_versions[p][i].by \in {Actor, None}
        BY <3>1 DEF RaceOK, n
      <4>3. page_versions'[p][n + 1].by = Actor
        BY <1>1
      <4>4. \A i \in 2..(n + 1) : page_versions'[p][i].by \in {Actor, None}
        BY <1>1, <4>1, <4>2, <4>3
      <4>5. QED BY <1>1, <3>1, <4>4
    <3>2. CASE p # Target
      BY <1>0, <1>1, <3>2 DEF RaceOK
    <3>3. QED BY <3>1, <3>2
  <2>4. QED BY <1>0, <2>1, <2>2, <2>3 DEF RaceOK
<1>8. OutcomeOK'
  BY DEF OutcomeOK
<1>9. AccessWasGranted'
  <2>1. ASSUME NEW q \in Seeded PROVE pages'[q].owner = pages[q].owner
    <3>1. q \in Pages /\ Exists(q)
      BY TasksAssumption DEF HistoriesOK
    <3>2. QED BY <1>1, <3>1
  <2>2. ASSUME NEW q \in Seeded, NEW fragment \in SeedBody[q] \cap known'
        PROVE  \E r \in Seeded : fragment \in SeedBody[r] /\ Granted(r, "read")'
    <3>1. PICK r \in Seeded : fragment \in SeedBody[r] /\ Granted(r, "read")
      BY <2>2 DEF AccessWasGranted
    <3>2. QED BY <2>1, <3>1, GrantedKept
  <2>3. ASSUME NEW q \in Pages, NEW i \in DOMAIN page_versions'[q],
               page_versions'[q][i].by = Actor'
        PROVE  RevisionGranted(q, i)'
    <3>1. CASE q = p /\ Exists(p)
      <4>1. Granted(p, "write") /\ pages'[p].owner = pages[p].owner
        BY <1>1, <3>1, AccessIsGranted DEF CanWrite
      <4>2. Granted(p, "write")'
        BY <4>1, GrantedKept
      <4>3. i = 1 => 1 \in 1..n /\ page_versions[p][1].by = Actor
        BY <1>0, <1>1, <2>3, <3>1 DEF HistoriesOK, Exists, n
      <4>4. i = 1 => can_create_page(permissions, SpaceOf[p], Actor)
        BY <1>1, <4>3 DEF AccessWasGranted, RevisionGranted
      <4>5. QED BY <1>0, <3>1, <4>2, <4>4, Zenon DEF RevisionGranted
    <3>2. CASE q = p /\ ~Exists(p)
      <4>1. n = 0 /\ i = 1
        <5>1. n = 0
          BY <3>2 DEF HistoriesOK, Exists, n
        <5>2. QED BY <1>1, <2>3, <3>2, <5>1
      <4>2. can_create_page(permissions, SpaceOf[p], Actor)
        BY <3>2
      <4>3. QED BY <1>0, <3>2, <4>1, <4>2 DEF RevisionGranted
    <3>3. CASE q # p
      <4>1. RevisionGranted(q, i)
        BY <1>0, <1>1, <2>3, <3>3 DEF AccessWasGranted, RevisionGranted
      <4>2. pages'[q].owner = pages[q].owner
        BY <1>1, <3>3
      <4>3. QED BY <1>0, <4>1, <4>2, GrantedKept DEF RevisionGranted
    <3>4. QED BY <3>1, <3>2, <3>3
  <2>4. QED BY <2>2, <2>3 DEF AccessWasGranted
<1>10. QED BY <1>2, <1>3, <1>4, <1>6, <1>7, <1>8, <1>9

(* The staged race: the target's history grows by one entry, the first     *)
(* of the human's.                                                         *)
LEMMA HumanWritesKeeps ==
  ASSUME RunInv, NEW page \in Page, HumanWrites(page)
  PROVE  RunInv'
<1> USE DEF RunInv, HumanWrites, Working
<1> DEFINE n == Len(page_versions[Target])
<1>0. Actor \in Users /\ Actor # None /\ Actor' = Actor /\ Target \in Pages /\ Target \in Seeded
  BY TasksAssumption DEF TaskOK, Actor
<1>1. /\ pages' \in [Pages -> Page] /\ page_versions' \in [Pages -> Seq(Revision)]
      /\ pages'[Target] = page /\ n \in Nat /\ DOMAIN page_versions[Target] = 1..n
      /\ Len(page_versions'[Target]) = n + 1 /\ DOMAIN page_versions'[Target] = 1..(n + 1)
      /\ page_versions'[Target][n + 1] = [page |-> page, by |-> None]
      /\ \A i \in 1..n : page_versions'[Target][i] = page_versions[Target][i]
      /\ \A q \in Pages \ {Target} : pages'[q] = pages[q] /\ page_versions'[q] = page_versions[q]
  BY <1>0, Written
<1>2. pages[Target].version = n /\ n # 0 /\ n \in Nat
  BY <1>0, <1>1 DEF HistoriesOK, Exists
<1>3. /\ page.version = n + 1 /\ page.owner = pages[Target].owner
      /\ page.body = task.human_edit /\ page.body = SeedBody[Target] \cup {Note}
  <2>1. pages[Target] \in Page
    BY <1>0 DEF TypeOK
  <2>2. /\ page.version = pages[Target].version + 1 /\ page.owner = pages[Target].owner
        /\ page.body = task.human_edit
    BY <2>1, Zenon DEF Page
  <2>3. task.human_edit = SeedBody[Target] \cup {Note}
    BY TasksKinds DEF TaskOK
  <2>4. QED BY <1>2, <2>2, <2>3
<1>h. /\ answer = None /\ calls' \in 0..MaxCalls /\ UNCHANGED <<task, permissions, answer, verdict>>
      /\ Shown /\ ~fired /\ fired' /\ task.human_edit # None /\ UNCHANGED denied
  OBVIOUS
<1> HIDE DEF n, HumanWrites, Working
<1>4. TypeOK'
  BY <1>1, <1>h, KnownTyped DEF TypeOK
<1>5. TaskOK'
  BY <1>0, <1>h DEF TaskOK
<1>6. HistoriesOK'
  <2>1. ASSUME NEW q \in Pages
        PROVE  /\ Len(page_versions'[q]) = pages'[q].version
               /\ pages'[q].version # 0 => page_versions'[q][pages'[q].version].page = pages'[q]
               /\ pages'[q].version = 0 => pages'[q] = NoPage
               /\ q \in Seeded => pages'[q].version # 0 /\ page_versions'[q][1].page = InitialPages[q]
    <3>1. CASE q = Target
      <4>1. 1 \in 1..n /\ page_versions[Target][1].page = InitialPages[Target]
        BY <1>0, <1>2 DEF HistoriesOK
      <4>2. QED BY <1>1, <1>3, <3>1, <4>1
    <3>2. CASE q # Target
      BY <1>1, <3>2 DEF HistoriesOK, Exists
    <3>3. QED BY <3>1, <3>2
  <2>2. QED BY <2>1 DEF HistoriesOK, Exists
<1>7. \A q \in Pages : pages'[q].owner = pages[q].owner /\ (pages'[q].version # 0 <=> Exists(q))
  BY <1>1, <1>2, <1>3 DEF Exists
<1>9. TextsOK'
  <2>1. \A q : Source(q) \subseteq Source(q)'
    BY <1>h DEF Source, Shown
  <2>2. page.body \subseteq Source(Target)'
    BY <1>0, <1>3, <1>h DEF Source
  <2>3. ASSUME NEW q \in Pages
        PROVE  /\ pages'[q].body \subseteq Source(q)'
               /\ \A i \in DOMAIN page_versions'[q] : page_versions'[q][i].page.body \subseteq Source(q)'
    <3>1. CASE q = Target
      <4>1. \A i \in 1..n : page_versions'[Target][i].page.body \subseteq Source(Target)'
        BY <1>0, <1>1, <2>1 DEF TextsOK
      <4>2. page_versions'[Target][n + 1].page.body \subseteq Source(Target)'
        BY <1>1, <2>2
      <4>3. \A i \in 1..(n + 1) : i \in 1..n \/ i = n + 1
        BY <1>1
      <4>4. QED BY <1>1, <2>2, <3>1, <4>1, <4>2, <4>3
    <3>2. CASE q # Target
      BY <1>1, <2>1, <3>2 DEF TextsOK
    <3>3. QED BY <3>1, <3>2
  <2>4. QED BY <1>h, <2>3 DEF TextsOK
<1>10. RaceOK'
  <2>1. \A i \in Nat : ~ByHuman(i)
    BY <1>h DEF RaceOK
  <2>2. \A i \in Nat : ByHuman(i)' <=> i = n + 1
    <3>1. \A i \in Nat : i \in 2..(n + 1) <=> i \in 2..n \/ i = n + 1
      BY <1>2
    <3>2. \A i \in 2..n : i \in 1..n /\ i \in Nat
      BY <1>2
    <3>3. \A i \in 2..n : page_versions'[Target][i].by # None
      BY <1>1, <2>1, <3>2 DEF ByHuman, n
    <3>4. page_versions'[Target][n + 1].by = None
      BY <1>1
    <3>5. QED BY <1>1, <3>1, <3>3, <3>4 DEF ByHuman
  <2>3. \A i \in 2..Len(page_versions'[Target]) : page_versions'[Target][i].by \in {Actor, None}
    <3>1. \A i \in 2..(n + 1) : (i \in 1..n /\ i \in 2..n) \/ i = n + 1
      BY <1>1
    <3>2. \A i \in 2..n : page_versions[Target][i].by \in {Actor, None}
      BY DEF RaceOK, n
    <3>3. page_versions'[Target][n + 1].by = None
      BY <1>1
    <3>4. \A i \in 2..(n + 1) : page_versions'[Target][i].by \in {Actor, None}
      BY <1>1, <3>1, <3>2, <3>3
    <3>5. QED BY <1>1, <3>4
  <2>4. page_versions'[Target][n + 1].page.body = task.human_edit /\ n + 1 \in Nat
    BY <1>1, <1>3
  <2>5. QED BY <1>0, <1>h, <2>2, <2>3, <2>4 DEF RaceOK
<1>11. OutcomeOK'
  BY <1>h DEF OutcomeOK
<1>12. AccessWasGranted'
  <2>1. ASSUME NEW q \in Seeded, NEW fragment \in SeedBody[q] \cap known'
        PROVE  \E r \in Seeded : fragment \in SeedBody[r] /\ Granted(r, "read")'
    <3>1. PICK r \in Seeded : fragment \in SeedBody[r] /\ Granted(r, "read")
      BY <1>h, <2>1, ShownWasGranted
    <3>2. r \in Pages
      BY TasksAssumption
    <3>3. QED BY <1>h, <1>7, <3>1, <3>2, GrantedKept
  <2>2. ASSUME NEW q \in Pages, NEW i \in DOMAIN page_versions'[q],
               page_versions'[q][i].by = Actor'
        PROVE  RevisionGranted(q, i)'
    <3>1. i \in DOMAIN page_versions[q] /\ page_versions[q][i].by = Actor
      <4>1. CASE q = Target
        <5>1. i # n + 1
          BY <1>0, <1>1, <2>2, <4>1
        <5>2. i \in 1..n
          BY <1>1, <4>1, <5>1
        <5>3. QED BY <1>0, <1>1, <2>2, <4>1, <5>2
      <4>2. CASE q # Target
        BY <1>0, <1>1, <2>2, <4>2
      <4>3. QED BY <4>1, <4>2
    <3>2. RevisionGranted(q, i)
      BY <3>1 DEF AccessWasGranted, RevisionGranted
    <3>3. pages'[q].owner = pages[q].owner
      BY <1>7
    <3>4. QED BY <1>0, <1>h, <3>2, <3>3, GrantedKept DEF RevisionGranted
  <2>3. QED BY <2>1, <2>2 DEF AccessWasGranted
<1>13. QED BY <1>4, <1>5, <1>6, <1>9, <1>10, <1>11, <1>12

(* The end: the verdict is of the world as the agent leaves it.            *)
LEMMA CompletesKeeps ==
  ASSUME RunInv, NEW says \in SUBSET (known \cup {Explanation}), AgentCompletes(says)
  PROVE  RunInv'
<1> USE DEF RunInv, AgentCompletes, store
<1>1. TypeOK'
  BY ResultTyped, RunAssumption DEF TypeOK
<1>2. TaskOK' /\ HistoriesOK' /\ RaceOK' /\ TextsOK'
  BY DEF TaskOK, HistoriesOK, RaceOK, TextsOK, Exists, Actor, ByHuman, Source
<1>3. OutcomeOK'
  <2>1. /\ task' = task /\ pages' = pages /\ page_versions' = page_versions /\ known' = known
        /\ answer' = says /\ verdict' = Verify(task, pages, page_versions, says)
    OBVIOUS
  <2>2. says # None
    BY TasksAssumption, RunAssumption DEF TypeOK
  <2>3. QED BY <2>1, <2>2, Zenon DEF OutcomeOK
<1>4. AccessWasGranted'
  <2>1. /\ UNCHANGED <<task, permissions, pages, page_versions, known>>
        /\ AccessWasGranted
    OBVIOUS
  <2> HIDE DEF RunInv, AgentCompletes, store
  <2> QED BY <2>1 DEF AccessWasGranted, RevisionGranted, Granted, Actor
<1>5. QED BY <1>1, <1>2, <1>3, <1>4

----------------------------------------------------------------------------
(* The first state.                                                        *)

(* A page of the snapshot, and ...                                         *)
LEMMA SeededStart ==
  ASSUME NEW p \in Seeded
  PROVE  /\ InitialPages[p].version = 1 /\ InitialPages[p].owner = SeedOwner[p]
         /\ InitialPages[p].body = SeedBody[p] /\ Len(InitialHistories[p]) = 1
         /\ DOMAIN InitialHistories[p] = {1}
         /\ InitialHistories[p][1].page = InitialPages[p]
         /\ InitialHistories[p][1].by = None
<1>1. InitialPages[p] = [version |-> 1, title |-> SeedTitle, body |-> SeedBody[p], owner |-> SeedOwner[p]]
  BY TasksAssumption DEF InitialPages
<1> DEFINE entry == [page |-> InitialPages[p], by |-> None]
<1>2. entry.page = InitialPages[p] /\ entry.by = None
  OBVIOUS
<1>3. InitialHistories[p] = << entry >>
  BY TasksAssumption DEF InitialHistories
<1> HIDE DEF entry
<1>4. Len(<< entry >>) = 1 /\ DOMAIN << entry >> = {1} /\ << entry >>[1] = entry
  OBVIOUS
<1>5. QED BY <1>1, <1>2, <1>3, <1>4

(* ... a page that is not in it.                                           *)
LEMMA AbsentStart ==
  ASSUME NEW p \in Pages \ Seeded
  PROVE  /\ InitialPages[p].version = 0 /\ InitialPages[p].body = {}
         /\ Len(InitialHistories[p]) = 0
         /\ DOMAIN InitialHistories[p] = {}
<1>1. InitialPages[p] = NoPage /\ InitialHistories[p] = << >>
  BY DEF InitialPages, InitialHistories
<1>2. QED BY <1>1 DEF NoPage

(* The invariant holds of the world as it was seeded.                      *)
LEMMA InitHolds == Init => RunInv
<1> SUFFICES ASSUME Init PROVE RunInv
  OBVIOUS
<1>i. /\ pages = InitialPages /\ page_versions = InitialHistories /\ calls = 0 /\ known = {} /\ denied = {}
      /\ fired = FALSE /\ answer = None /\ verdict = None /\ task \in Tasks /\ permissions \in Grants
  BY DEF Init
<1>s. Seeded \subseteq Pages /\ Target \in Seeded
  BY TasksAssumption
<1>1. TaskOK
  <2>1. task \in Task
    BY <1>i, TasksTyped
  <2>2. task.actor \in Users
    BY <2>1 DEF Task
  <2>3. QED BY <1>i, <2>2, ActorResolved DEF TaskOK, Actor
<1>2. NoPage \in Page
  <2>1. UserOrder[1] \in Users
    <3>1. UserOrder \in Seq(Users) /\ \E i \in DOMAIN UserOrder : UserOrder[i] = SeedOwner[Target]
      BY ResolverAssumption, TasksAssumption
    <3>2. 1 \in DOMAIN UserOrder
      BY <3>1
    <3>3. QED BY <3>1, <3>2
  <2>2. QED BY <2>1, TasksAssumption DEF NoPage, Page
<1>3. InitialPages \in [Pages -> Page]
  <2>1. \A p \in Seeded : [version |-> 1, title |-> SeedTitle, body |-> SeedBody[p],
                            owner |-> SeedOwner[p]] \in Page
    BY TasksAssumption DEF Page
  <2>2. QED BY <1>2, <2>1 DEF InitialPages
<1>4. ASSUME NEW p \in Seeded
      PROVE  InitialHistories[p] = << [page |-> InitialPages[p], by |-> None] >>
  BY <1>s DEF InitialHistories
<1>5. ASSUME NEW p \in Pages \ Seeded
      PROVE  InitialHistories[p] = << >>
  BY DEF InitialHistories
<1>6. InitialHistories \in [Pages -> Seq(Revision)]
  <2>1. ASSUME NEW p \in Pages PROVE InitialHistories[p] \in Seq(Revision)
    <3>1. CASE p \in Seeded
      <4>1. [page |-> InitialPages[p], by |-> None] \in Revision
        BY <1>3 DEF Revision
      <4> DEFINE entry == [page |-> InitialPages[p], by |-> None]
      <4>2. InitialHistories[p] = << entry >>
        BY <1>4, <3>1
      <4> HIDE DEF entry
      <4>3. \A e \in Revision : << e >> \in Seq(Revision)
        OBVIOUS
      <4>4. QED BY <4>1, <4>2, <4>3 DEF entry
    <3>2. CASE p \notin Seeded
      <4>1. InitialHistories[p] = << >>
        BY <1>5, <3>2
      <4>2. << >> \in Seq(Revision)
        OBVIOUS
      <4>3. QED BY <4>1, <4>2
    <3>3. QED BY <3>1, <3>2
  <2>2. InitialHistories = [p \in Pages |-> InitialHistories[p]]
    BY DEF InitialHistories
  <2>3. QED BY <2>1, <2>2
<1>7. TypeOK
  <2>1. known \subseteq Fragments /\ calls \in 0..MaxCalls
    BY <1>i, RunAssumption
  <2>2. fired \in BOOLEAN
    BY <1>i, Zenon
  <2>3. QED BY <1>i, <1>3, <1>6, <2>1, <2>2, TasksTyped, RunAssumption DEF TypeOK
<1>8. ASSUME NEW p \in Seeded
      PROVE  /\ InitialPages[p].version = 1 /\ InitialPages[p].owner = SeedOwner[p]
             /\ InitialPages[p].body = SeedBody[p] /\ Len(InitialHistories[p]) = 1
             /\ DOMAIN InitialHistories[p] = {1}
             /\ InitialHistories[p][1].page = InitialPages[p]
             /\ InitialHistories[p][1].by = None
  BY SeededStart
<1>9. ASSUME NEW p \in Pages \ Seeded
      PROVE  /\ InitialPages[p].version = 0 /\ InitialPages[p].body = {}
             /\ Len(InitialHistories[p]) = 0
             /\ DOMAIN InitialHistories[p] = {}
  BY AbsentStart
<1>10. HistoriesOK
  <2>1. ASSUME NEW p \in Seeded
        PROVE  /\ Len(InitialHistories[p]) = InitialPages[p].version
               /\ InitialHistories[p][InitialPages[p].version].page = InitialPages[p]
               /\ InitialPages[p].version # 0 /\ InitialHistories[p][1].page = InitialPages[p]
    <3>1. InitialPages[p].version = 1 /\ Len(InitialHistories[p]) = 1
      BY <1>8
    <3>2. InitialHistories[p][1].page = InitialPages[p]
      BY <1>8, Zenon
    <3>3. QED BY <3>1, <3>2
  <2>2. ASSUME NEW p \in Pages \ Seeded
        PROVE  /\ Len(InitialHistories[p]) = InitialPages[p].version /\ InitialPages[p].version = 0
               /\ InitialPages[p] = NoPage
    BY <1>9 DEF InitialPages
  <2>3. QED BY <1>i, <2>1, <2>2 DEF HistoriesOK, Exists
<1>12. TextsOK
  BY <1>i, <1>8, <1>9 DEF TextsOK, Source
<1>13. RaceOK
  <2>1. 2..Len(page_versions[Target]) = {}
    <3>1. Len(page_versions[Target]) = 1
      BY <1>i, <1>s, <1>8
    <3>2. QED BY <3>1
  <2>2. QED BY <1>i, <2>1 DEF RaceOK, ByHuman
<1>14. OutcomeOK
  BY <1>i DEF OutcomeOK
<1>15. AccessWasGranted
  <2>1. Actor # None
    BY <1>1, TasksAssumption DEF TaskOK
  <2>2. QED BY <1>i, <1>8, <1>9, <2>1 DEF AccessWasGranted
<1>16. QED BY <1>1, <1>7, <1>10, <1>12, <1>13, <1>14, <1>15 DEF RunInv

(* Every reachable state satisfies the invariant.                          *)
THEOREM RunInvariant == Spec => []RunInv
<1>1. Init => RunInv
  BY InitHolds
<1>2. RunInv /\ [Next]_vars => RunInv'
  <2> SUFFICES ASSUME RunInv, [Next]_vars PROVE RunInv'
    OBVIOUS
  <2>1. CASE Next
    <3>1. TypeOK /\ TaskOK
      BY DEF RunInv
    <3>2. QED BY <2>1, <3>1, StepKinds, LooksKeeps, AgentWritesKeeps, HumanWritesKeeps, CompletesKeeps
  <2>2. CASE UNCHANGED vars
    <3>1. TypeOK' /\ TaskOK'
      BY <2>2 DEF RunInv, vars, store, TypeOK, TaskOK, Actor
    <3>2. HistoriesOK'
      BY <2>2 DEF RunInv, vars, store, HistoriesOK, Exists
    <3>3. OutcomeOK'
      BY <2>2 DEF RunInv, vars, store, OutcomeOK
    <3>4. TextsOK'
      BY <2>2 DEF RunInv, vars, store, TextsOK, Source
    <3>5. RaceOK'
      BY <2>2 DEF RunInv, vars, store, RaceOK, Actor, ByHuman
    <3>6. AccessWasGranted'
      BY <2>2 DEF RunInv, vars, store, AccessWasGranted, RevisionGranted, Granted, Actor
    <3> QED BY <3>1, <3>2, <3>3, <3>4, <3>5, <3>6 DEF RunInv
  <2>3. QED BY <2>1, <2>2
<1>3. QED BY <1>1, <1>2, PTL DEF Spec

----------------------------------------------------------------------------
(* What follows for the properties of TaskRun.                             *)

(* Every variable of a run keeps its type.                                 *)
THEOREM TypeCorrect == Spec => []TypeOK
<1>1. RunInv => TypeOK
  BY DEF RunInv
<1>2. QED BY <1>1, RunInvariant, PTL

(* routes.py: whatever the permission map, the agent sees only text of     *)
(* pages its actor was granted to read, creates only where it may create,  *)
(* and revises only pages it is granted to write.                          *)
THEOREM AccessCorrect == Spec => []AccessWasGranted
<1>1. RunInv => AccessWasGranted
  BY DEF RunInv
<1>2. QED BY <1>1, RunInvariant, PTL

(* A failed assertion of a category fails that category.                   *)
LEMMA CategoryFails ==
  ASSUME NEW assertions, NEW a \in assertions, ~a.passed, a.category = "forbidden"
  PROVE  ~BuildResult(assertions).forbidden_changes_passed
BY Zenon DEF BuildResult

(* predicates.py, state_diff.py: a page the task is not about, changed or  *)
(* created, is a forbidden change in every family.                         *)
THEOREM CollateralCorrect == Spec => []CollateralIsFlagged
<1>1. RunInv => CollateralIsFlagged
  <2> SUFFICES ASSUME RunInv, verdict # None, ~OnlyTargetChanged
               PROVE  ~verdict.forbidden_changes_passed
    BY DEF CollateralIsFlagged
  <2>1. verdict = Verify(task, pages, page_versions, answer)
    BY DEF RunInv, OutcomeOK
  <2>2. PICK p \in Pages \ {Target} : pages[p] # InitialPages[p]
    BY DEF OnlyTargetChanged
  <2> DEFINE others == Assert("no-other-pages-changed", "forbidden", NoOtherPagesChanged(pages, {Target}))
             world == Assert("world-unchanged", "forbidden", WorldUnchanged(pages, page_versions))
             edit == EditAssertions(task, pages, page_versions)
  <2>3. ~others.passed /\ others.category = "forbidden" /\ others \in edit
    BY <2>2 DEF Assert, NoOtherPagesChanged, EditAssertions
  <2>4. ~world.passed /\ world.category = "forbidden"
    BY <2>2 DEF Assert, WorldUnchanged
  <2>5. /\ world \in ReadOnlyAssertions(task, pages, page_versions, answer)
        /\ others \in DeniedWriteAssertions(pages, page_versions)
    BY DEF ReadOnlyAssertions, DeniedWriteAssertions
  <2> HIDE DEF others, world, edit
  <2>6. QED
    BY <2>1, <2>3, <2>4, <2>5, CategoryFails DEF Verify, edit
<1>2. QED BY <1>1, RunInvariant, PTL

(* A pass has every assertion passed.                                      *)
LEMMA PassedAll ==
  ASSUME NEW assertions, BuildResult(assertions).passed, NEW a \in assertions
  PROVE  a.passed
BY Zenon DEF BuildResult

(* What a passed edit says of the final snapshot.                          *)
LEMMA EditPassed ==
  ASSUME RunInv, verdict # None, verdict.passed, task.fragment = New
  PROVE  /\ OnlyTargetChanged
         /\ New \in pages[Target].body
         /\ pages[Target].version = 1 + Delta(task)
         /\ task.family = "concurrent_edit" => Note \in pages[Target].body
<1> DEFINE edit == EditAssertions(task, pages, page_versions)
           all == IF task.family = "preservation" THEN edit \cup PreservationAssertions(task, pages)
                  ELSE IF task.family = "concurrent_edit" THEN edit \cup {HumanEditAssertion(pages)}
                  ELSE edit
<1>1. verdict = Verify(task, pages, page_versions, answer) /\ task \in Tasks
  BY DEF RunInv, OutcomeOK, TaskOK
<1>2. task.family # "retrieval" /\ task.mode # "denied_read" /\ task.mode # "denied_write"
  BY <1>1, TasksKinds
<1>3. verdict = BuildResult(all)
  BY <1>1, <1>2, Zenon DEF Verify
<1>4. /\ edit \subseteq all
      /\ task.family = "concurrent_edit" => HumanEditAssertion(pages) \in all
  <2> HIDE DEF edit
  <2>1. QED OBVIOUS
<1>5. \A a \in all : a.passed
  BY <1>3, PassedAll
<1> HIDE DEF all
<1>6. \A a \in edit : a.passed
  <2> HIDE DEF edit
  <2>1. QED BY <1>4, <1>5
<1>7. /\ Assert("page-body-contains", "required", BodyContains(pages, Target, task.fragment)).passed
      /\ Assert("page-version-bumped", "required", VersionBumpedBy(pages, Target, Delta(task))).passed
      /\ Assert("no-other-pages-changed", "forbidden", NoOtherPagesChanged(pages, {Target})).passed
  BY <1>6, Zenon DEF EditAssertions
<1>8. /\ BodyContains(pages, Target, New) /\ VersionBumpedBy(pages, Target, Delta(task))
      /\ NoOtherPagesChanged(pages, {Target})
  BY <1>7 DEF Assert
<1>9. task.family = "concurrent_edit" => BodyContains(pages, Target, Note)
  BY <1>4, <1>5 DEF HumanEditAssertion, Assert
<1>10. InitialPages[Target].version = 1
  <2>1. InitialPages[Target] = [version |-> 1, title |-> SeedTitle, body |-> SeedBody[Target],
                                owner |-> SeedOwner[Target]]
    BY TasksAssumption DEF InitialPages
  <2>2. QED BY <2>1
<1>11. QED BY <1>8, <1>9, <1>10 DEF BodyContains, VersionBumpedBy, NoOtherPagesChanged, OnlyTargetChanged

(* The target's revisions since the snapshot, as its history has them.     *)
LEMMA EditsOfHistory ==
  ASSUME RunInv
  PROVE  /\ Len(page_versions[Target]) = pages[Target].version /\ pages[Target].version \in Nat \ {0}
         /\ Len(Edits) = pages[Target].version - 1
         /\ \A i \in 1..(pages[Target].version - 1) :
              /\ Edits[i].by = page_versions[Target][i + 1].by
              /\ Edits[i].body = page_versions[Target][i + 1].page.body
              /\ Edits[i].by \in {Actor, None}
         /\ page_versions[Target][pages[Target].version].page = pages[Target]
<1>1. Target \in Pages /\ Target \in Seeded
  BY TasksAssumption
<1>2. /\ Len(page_versions[Target]) = pages[Target].version
      /\ page_versions[Target][pages[Target].version].page = pages[Target]
      /\ pages[Target].version # 0
  BY <1>1 DEF RunInv, HistoriesOK, Exists
<1>3. pages[Target].version \in Nat
  BY <1>1 DEF RunInv, TypeOK, Page
<1> DEFINE n == pages[Target].version - 1
<1>4. n \in Nat /\ Edits = [i \in 1..n |-> [by |-> page_versions[Target][i + 1].by,
                                           body |-> page_versions[Target][i + 1].page.body]]
  BY <1>2, <1>3 DEF Edits
<1> HIDE DEF n
<1>5. Len(Edits) = n
  BY <1>4
<1>6. ASSUME NEW i \in 1..n
      PROVE  /\ Edits[i].by = page_versions[Target][i + 1].by
             /\ Edits[i].body = page_versions[Target][i + 1].page.body
             /\ Edits[i].by \in {Actor, None}
  <2>1. /\ Edits[i].by = page_versions[Target][i + 1].by
        /\ Edits[i].body = page_versions[Target][i + 1].page.body
    BY <1>4
  <2>2. i + 1 \in 2..Len(page_versions[Target])
    BY <1>2, <1>3 DEF n
  <2>3. page_versions[Target][i + 1].by \in {Actor, None}
    BY <2>2 DEF RunInv, RaceOK
  <2>4. QED BY <2>1, <2>3
<1>7. QED BY <1>2, <1>3, <1>5, <1>6 DEF n

(* page_edit.py: a pass is earned.                                         *)
THEOREM PassCorrect == Spec => []PassWasEarned
<1>1. RunInv => PassWasEarned
  <2> SUFFICES ASSUME RunInv, verdict # None, verdict.passed
               PROVE  /\ OnlyTargetChanged
                      /\ IF task.family = "concurrent_edit"
                         THEN /\ Len(Edits) = 2 /\ Edits[1].by = None
                              /\ Edits[2].by = Actor /\ {New, Note} \subseteq Edits[2].body
                         ELSE IF task.fragment = New
                         THEN Len(Edits) = 1 /\ Edits[1].by = Actor /\ New \in Edits[1].body
                         ELSE NothingChanged /\ (task.response # None => task.response \in known)
    BY Zenon DEF PassWasEarned
  <2>0. task \in Tasks /\ Actor # None /\ Target \in Pages /\ Target \in Seeded
    BY TasksAssumption DEF RunInv, TaskOK
  <2>1. CASE task.family = "concurrent_edit"
    <3>1. task.fragment = New /\ task.human_edit = SeedBody[Target] \cup {Note}
      BY <2>0, <2>1, TasksKinds
    <3>2. OnlyTargetChanged /\ {New, Note} \subseteq pages[Target].body /\ pages[Target].version = 3
      BY <2>1, <3>1, EditPassed DEF Delta
    <3>3. /\ Len(Edits) = 2 /\ Edits[1].by = page_versions[Target][2].by
          /\ Edits[2].by = page_versions[Target][3].by
          /\ Edits[1].by \in {Actor, None} /\ Edits[2].by \in {Actor, None}
          /\ Edits[2].body = pages[Target].body /\ Len(page_versions[Target]) = 3
          /\ page_versions[Target][3].page.body = pages[Target].body
      BY <3>2, EditsOfHistory
    <3>4. Edits[2].by = Actor
      <4>1. New \notin task.human_edit
        BY <3>1, TasksAssumption, RunAssumption
      <4>2. ~ByHuman(3)
        BY <3>2, <3>3, <4>1 DEF RunInv, RaceOK
      <4>3. QED BY <3>3, <4>2 DEF ByHuman
    <3>5. Edits[1].by = None
      <4>1. fired
        <5>1. Note \in Source(Target) /\ Note \notin SeedBody[Target] /\ Note \notin Invented
          BY <2>0, <3>2, TasksAssumption, RunAssumption DEF RunInv, TextsOK
        <5>2. QED BY <2>0, <5>1 DEF RunInv, TextsOK, Source
      <4>2. PICK i \in Nat : ByHuman(i)
        BY <4>1 DEF RunInv, RaceOK
      <4>3. i = 2
        <5>1. i \in 2..3 /\ page_versions[Target][i].by = None
          BY <3>3, <4>2 DEF ByHuman
        <5>2. i # 3
          BY <2>0, <3>3, <3>4, <5>1
        <5>3. QED BY <5>1, <5>2
      <4>4. QED BY <3>3, <4>2, <4>3 DEF ByHuman
    <3>6. QED BY <2>1, <3>2, <3>3, <3>4, <3>5
  <2>2. CASE task.family # "concurrent_edit" /\ task.fragment = New
    <3>1. OnlyTargetChanged /\ New \in pages[Target].body /\ pages[Target].version = 2
      BY <2>2, EditPassed DEF Delta
    <3>2. /\ Len(Edits) = 1 /\ Edits[1].by = page_versions[Target][2].by
          /\ Edits[1].by \in {Actor, None} /\ Edits[1].body = pages[Target].body
          /\ Len(page_versions[Target]) = 2
      BY <3>1, EditsOfHistory
    <3>3. task.human_edit = None
      BY <2>0, <2>2, TasksKinds
    <3>4. ~ByHuman(2)
      BY <3>3 DEF RunInv, RaceOK
    <3>5. Edits[1].by = Actor
      BY <3>2, <3>4 DEF ByHuman
    <3>6. QED BY <2>2, <3>1, <3>2, <3>5
  <2>3. CASE task.fragment # New
    <3>1. /\ task.family = "retrieval" \/ task.mode \in {"denied_read", "denied_write"}
          /\ task.family # "concurrent_edit"
      BY <2>0, <2>3, TasksKinds
    <3>2. verdict = Verify(task, pages, page_versions, answer) /\ (answer # None => answer \subseteq known \cup {Explanation})
          /\ answer # None
      BY DEF RunInv, OutcomeOK
    <3>3. CASE task.family = "retrieval" \/ task.mode = "denied_read"
      <4>1. verdict = BuildResult(ReadOnlyAssertions(task, pages, page_versions, answer))
        BY <2>0, <3>2, <3>3, TasksKinds DEF Verify
      <4>2. \A a \in ReadOnlyAssertions(task, pages, page_versions, answer) : a.passed
        BY <4>1, PassedAll
      <4>3. /\ Assert("world-unchanged", "forbidden", WorldUnchanged(pages, page_versions)).passed
            /\ Assert("completion-evidence", "required", task.response \in answer).passed
        BY <4>2, Zenon DEF ReadOnlyAssertions
      <4>4. WorldUnchanged(pages, page_versions) /\ task.response \in answer
        BY <4>3 DEF Assert
      <4>5. task.response # None => task.response \in known
        <5>1. task.response \in {None, Old} /\ Old # Explanation
          BY <2>0, TasksKinds, TasksAssumption, RunAssumption
        <5>2. QED BY <3>2, <4>4, <5>1
      <4>6. QED BY <2>0, <2>3, <3>1, <4>4, <4>5 DEF WorldUnchanged, NothingChanged, OnlyTargetChanged
    <3>4. CASE ~(task.family = "retrieval" \/ task.mode = "denied_read") /\ task.mode = "denied_write"
      <4>1. verdict = BuildResult(DeniedWriteAssertions(pages, page_versions))
        BY <2>0, <3>2, <3>4, TasksKinds DEF Verify
      <4>2. \A a \in DeniedWriteAssertions(pages, page_versions) : a.passed
        BY <4>1, PassedAll
      <4>3. Assert("no-attempt-persisted", "invariant", WorldUnchanged(pages, page_versions)).passed
        BY <4>2, Zenon DEF DeniedWriteAssertions
      <4>4. WorldUnchanged(pages, page_versions)
        BY <4>3 DEF Assert
      <4>5. task.response = None
        BY <2>0, <3>4, TasksKinds
      <4>6. QED BY <2>0, <2>3, <3>1, <4>4, <4>5 DEF WorldUnchanged, NothingChanged, OnlyTargetChanged
    <3>5. QED BY <3>1, <3>3, <3>4
  <2>4. QED BY <2>1, <2>2, <2>3
<1>2. QED BY <1>1, RunInvariant, PTL

(* Whatever was done, the histories bear it out.                           *)
LEMMA HistoriesPass ==
  ASSUME RunInv, NEW p \in Pages
  PROVE  /\ \A a \in HistoryAssertions(p, pages, page_versions) : a.passed
         /\ pages[p] = InitialPages[p] => Entries(page_versions[p]) = Entries(InitialHistories[p])
<1> DEFINE before == Entries(InitialHistories[p])
           after == Entries(page_versions[p])
           n == pages[p].version
<1>1. /\ n \in Nat /\ Len(page_versions[p]) = n /\ DOMAIN page_versions[p] = 1..n
      /\ n # 0 => page_versions[p][n].page = pages[p]
      /\ p \in Seeded => n # 0 /\ page_versions[p][1].page = InitialPages[p]
  <2>1. pages[p] \in Page /\ page_versions[p] \in Seq(Revision)
    BY DEF RunInv, TypeOK
  <2>2. /\ Len(page_versions[p]) = pages[p].version
        /\ pages[p].version # 0 => page_versions[p][pages[p].version].page = pages[p]
        /\ p \in Seeded => pages[p].version # 0 /\ page_versions[p][1].page = InitialPages[p]
    BY DEF RunInv, HistoriesOK, Exists
  <2>3. QED BY <2>1, <2>2 DEF Page
<1> HIDE DEF n
<1>2. /\ after = [i \in 1..n |-> page_versions[p][i].page] /\ Len(after) = n
      /\ \A i \in 1..n : after[i] = page_versions[p][i].page
  <2>1. after = [i \in 1..n |-> page_versions[p][i].page]
    BY <1>1 DEF Entries
  <2> HIDE DEF after
  <2>2. QED BY <1>1, <2>1
<1> DEFINE prior == \A i \in 1..(IF Len(after) - 1 < Len(before) THEN Len(after) - 1 ELSE Len(before)) :
                      after[i] = before[i]
           BornOut == /\ pages[p] = InitialPages[p] => after = before
                      /\ pages[p] # InitialPages[p] =>
                           /\ Len(after) = pages[p].version /\ prior
                           /\ after # << >> /\ after[Len(after)] = pages[p]
<1>3. ASSUME p \in Seeded PROVE BornOut
  <2>1. before = [i \in {1} |-> InitialPages[p]]
    BY <1>3, SeededStart DEF Entries
  <2>2. Len(before) = 1 /\ before[1] = InitialPages[p]
    <3>1. {1} = 1..1
      OBVIOUS
    <3> HIDE DEF before
    <3>2. QED BY <2>1, <3>1
  <2>3. n # 0 /\ after[1] = before[1] /\ after[n] = pages[p] /\ after # << >>
    <3>1. 1 \in 1..n /\ n \in 1..n
      BY <1>1, <1>3
    <3>2. after[1] = InitialPages[p] /\ after[n] = pages[p]
      BY <1>1, <1>2, <1>3, <3>1
    <3>3. Len(<< >>) = 0
      OBVIOUS
    <3> HIDE DEF after, before
    <3>4. QED BY <1>1, <1>2, <1>3, <2>2, <3>2, <3>3
  <2>4. pages[p] = InitialPages[p] => after = before
    <3>1. pages[p] = InitialPages[p] => n = 1
      BY <1>3, SeededStart DEF n
    <3>2. n = 1 => after = [i \in {1} |-> page_versions[p][i].page]
      <4>1. 1..1 = {1}
        OBVIOUS
      <4>2. QED BY <1>2, <4>1
    <3>3. n = 1 => page_versions[p][1].page = InitialPages[p]
      BY <1>1, <1>3
    <3> HIDE DEF after, before
    <3>4. QED BY <2>1, <3>1, <3>2, <3>3
  <2> HIDE DEF after, before
  <2>5. \A i \in 1..(IF Len(after) - 1 < Len(before) THEN Len(after) - 1 ELSE Len(before)) :
           after[i] = before[i]
    BY <1>1, <1>2, <2>2, <2>3
  <2>6. Len(after) = pages[p].version /\ after[Len(after)] = pages[p]
    BY <1>2, <2>3 DEF n
  <2>7. QED BY <2>3, <2>4, <2>5, <2>6
<1>4. ASSUME p \notin Seeded PROVE BornOut
  <2>1. before = [i \in {} |-> InitialPages[p]] /\ Len(InitialHistories[p]) = 0
    BY <1>4, AbsentStart DEF Entries
  <2>2. Len(before) = 0
    <3>1. {} = 1..0
      OBVIOUS
    <3> HIDE DEF before
    <3>2. QED BY <2>1, <3>1
  <2>3. pages[p] = InitialPages[p] => after = before
    <3>1. pages[p] = InitialPages[p] => n = 0
      BY <1>4, AbsentStart DEF n
    <3>2. n = 0 => after = [i \in {} |-> page_versions[p][i].page]
      <4>1. 1..0 = {}
        OBVIOUS
      <4>2. QED BY <1>2, <4>1
    <3> HIDE DEF after, before
    <3>3. QED BY <2>1, <3>1, <3>2
  <2>4. pages[p] # InitialPages[p] => n \in 1..n /\ after[n] = pages[p] /\ after # << >>
    <3>1. pages[p].version = 0 => pages[p] = InitialPages[p]
      BY <1>4 DEF RunInv, HistoriesOK, Exists, InitialPages
    <3>2. n # 0 => n \in 1..n
      BY <1>1
    <3>3. Len(<< >>) = 0
      OBVIOUS
    <3>4. n # 0 => after # << >>
      <4> HIDE DEF after
      <4>1. QED BY <1>2, <3>3
    <3>5. QED BY <1>1, <1>2, <3>1, <3>2, <3>4 DEF n
  <2> HIDE DEF after, before
  <2>5. \A i \in 1..(IF Len(after) - 1 < Len(before) THEN Len(after) - 1 ELSE Len(before)) :
           after[i] = before[i]
    BY <1>1, <1>2, <2>2
  <2>6. Len(after) = pages[p].version
    BY <1>2 DEF n
  <2>7. QED BY <2>3, <2>4, <2>5, <2>6 DEF n
<1>5. BornOut
  BY <1>3, <1>4
<1>6. \A id, category, passed : Assert(id, category, passed).passed = passed
  BY DEF Assert
<1>7. \A a \in HistoryAssertions(p, pages, page_versions) : a.passed
  <2>1. CASE pages[p] = InitialPages[p]
    <3>1. HistoryAssertions(p, pages, page_versions)
            = {Assert("page-history-unchanged", "invariant", after = before)}
      BY <2>1, Zenon DEF HistoryAssertions
    <3> HIDE DEF after, before
    <3>2. after = before
      BY <1>5, <2>1
    <3>3. Assert("page-history-unchanged", "invariant", after = before).passed
      BY <1>6, <3>2, ZenonT(30)
    <3>4. QED BY <3>1, <3>3
  <2>2. CASE pages[p] # InitialPages[p]
    <3> DEFINE length == Assert("page-history-length", "invariant", Len(after) = pages[p].version)
               entries == Assert("page-history-prior-entries", "invariant", prior)
               final == Assert("page-history-final-entry", "invariant",
                               after # << >> /\ after[Len(after)] = pages[p])
    <3>1. HistoryAssertions(p, pages, page_versions) = {length, entries, final}
      BY <2>2, Zenon DEF HistoryAssertions
    <3> HIDE DEF after, before, prior
    <3>2. Len(after) = pages[p].version /\ prior /\ after # << >> /\ after[Len(after)] = pages[p]
      BY <1>5, <2>2
    <3>3. length.passed /\ entries.passed /\ final.passed
      BY <1>6, <3>2, Zenon
    <3> HIDE DEF length, entries, final
    <3>4. QED BY <3>1, <3>3
  <2>3. QED BY <2>1, <2>2
<1>8. QED BY <1>5, <1>7

(* What the tasks ask for.                                                 *)
LEMMA TasksAsk ==
  ASSUME NEW t \in Tasks
  PROVE  /\ t.mode \in {"none", "denied_read", "denied_write", "allowed"}
         /\ t.final_body # None <=> t.fragment = New /\ t.mode # "allowed"
         /\ t.final_body # None => New \in t.final_body
         /\ t.mode = "allowed" => t.fragment = New /\ t.family = "permissions"
         /\ t.family = "preservation" =>
              t.preserved \subseteq SeedBody[Target] \cap t.final_body /\ t.forbidden \subseteq Seeded \ {Target}
         /\ t.family = "concurrent_edit" => Note \in t.final_body /\ t.final_body # None
         /\ t.family = "retrieval" \/ t.mode = "denied_read" => t.response # None
<1> USE TasksAssumption DEF TaskOf
<1>1. /\ ReplaceSection(SeedBody[Target]) # None /\ AppendSection(SeedBody[Target]) # None
      /\ ReplaceSection(SeedBody[Target] \cup {Note}) # None
      /\ New \in ReplaceSection(SeedBody[Target]) /\ New \in AppendSection(SeedBody[Target])
      /\ ReplaceSection(SeedBody[Target]) \ {New} \subseteq SeedBody[Target]
      /\ AppendSection(SeedBody[Target]) \ {New} \subseteq SeedBody[Target]
      /\ {New, Note} \subseteq ReplaceSection(SeedBody[Target] \cup {Note})
  <2>1. ReplaceSection(SeedBody[Target] \cup {Note}) \in SUBSET Fragments
    BY DEF ReplaceSection
  <2>2. QED BY <2>1, BodiesTyped DEF ReplaceSection, AppendSection
<1>2. CASE t = RetrievalTask
  BY <1>2 DEF RetrievalTask
<1>3. CASE t \in EditTasks
  BY <1>1, <1>3 DEF EditTasks
<1>4. CASE t \in PreservationTasks
  <2>1. PICK body \in {ReplaceSection(SeedBody[Target]), AppendSection(SeedBody[Target])} :
          t = [TaskOf("preservation", SeedOwner[Target], New) EXCEPT
                 !.final_body = body, !.preserved = body \ {New}, !.forbidden = Seeded \ {Target}]
    BY <1>4, Zenon DEF PreservationTasks
  <2>2. /\ t.mode = "none" /\ t.family = "preservation" /\ t.fragment = New /\ t.final_body = body
        /\ t.preserved = body \ {New} /\ t.forbidden = Seeded \ {Target}
    BY <2>1
  <2>3. body # None /\ New \in body /\ body \ {New} \subseteq SeedBody[Target] \cap body
    BY <1>1, <2>1
  <2>4. QED BY <2>2, <2>3
<1>5. CASE t = ConcurrentEditTask
  BY <1>1, <1>5 DEF ConcurrentEditTask
<1>6. CASE t \in PermissionTasks
  BY <1>6, ThreePermissionTasks DEF PermissionTaskOf
<1>7. QED BY <1>2, <1>3, <1>4, <1>5, <1>6 DEF Tasks

(* A result all of whose assertions passed is a pass.                      *)
LEMMA AllPassed ==
  ASSUME NEW assertions, \A a \in assertions : a.passed
  PROVE  BuildResult(assertions).passed
BY Zenon DEF BuildResult

(* The assertions about histories never fail a run of this world.          *)
LEMMA WorldInvariantsPass ==
  ASSUME RunInv
  PROVE  \A a \in WorldInvariants(pages, page_versions) : a.passed
BY HistoriesPass DEF WorldInvariants, Assert

(* A dutiful edit leaves what the verifier of edits asks for.              *)
LEMMA DutifulEdit ==
  ASSUME RunInv, Dutiful, task.fragment = New
  PROVE  /\ NoOtherPagesChanged(pages, {Target})
         /\ VersionBumpedBy(pages, Target, Delta(task))
         /\ BodyContains(pages, Target, New)
         /\ task.final_body # None => pages[Target].body = task.final_body
         /\ task.family = "concurrent_edit" => BodyContains(pages, Target, Note)
<1>0. task \in Tasks /\ Target \in Pages /\ Target \in Seeded
  BY TasksAssumption DEF RunInv, TaskOK
<1>1. NoOtherPagesChanged(pages, {Target})
  BY DEF Dutiful, OnlyTargetChanged, NoOtherPagesChanged
<1> DEFINE asked == IF task.final_body # None THEN task.final_body ELSE ReplaceSection(SeedBody[Target])
           mine == [by |-> Actor, body |-> asked]
           theirs == [by |-> None, body |-> task.human_edit]
           before == IF task.human_edit = None THEN << >> ELSE << theirs >>
<1>2. (task.mode = "allowed" /\ Edits = << mine >>) \/ Edits = before \o << mine >>
  <2>1. CASE task.final_body # None
    BY <2>1, Zenon DEF Dutiful
  <2>2. CASE task.final_body = None
    <3>1. task.mode = "allowed"
      BY <1>0, <2>2, TasksAsk
    <3>2. QED BY <2>2, <3>1, Zenon DEF Dutiful
  <2>3. QED BY <2>1, <2>2
<1>3. Len(Edits) = Delta(task) /\ Edits[Delta(task)].body = asked
  <2>1. mine.body = asked
    OBVIOUS
  <2> HIDE DEF mine, theirs, asked
  <2>2. << mine >> \in Seq({mine, theirs}) /\ before \in Seq({mine, theirs})
        /\ Len(before) = Delta(task) - 1 /\ Delta(task) \in Nat
    <3>1. << mine >> \in Seq({mine, theirs}) /\ << theirs >> \in Seq({mine, theirs})
          /\ << >> \in Seq({mine, theirs}) /\ Len(<< theirs >>) = 1 /\ Len(<< >>) = 0
      OBVIOUS
    <3>2. CASE task.family = "concurrent_edit"
      <4>1. before = << theirs >> /\ Delta(task) = 2
        BY <1>0, <3>2, TasksKinds DEF Delta
      <4>2. QED BY <3>1, <4>1
    <3>3. CASE task.family # "concurrent_edit"
      <4>1. before = << >> /\ Delta(task) = 1
        BY <1>0, <3>3, TasksKinds DEF Delta
      <4>2. QED BY <3>1, <4>1
    <3>4. QED BY <3>2, <3>3
  <2> HIDE DEF before
  <2>3. Len(<< mine >>) = 1 /\ << mine >>[1] = mine
    OBVIOUS
  <2>4. CASE Edits = before \o << mine >>
    <3>1. Len(Edits) = Delta(task) /\ Edits[Delta(task)] = mine
      BY <2>2, <2>3, <2>4, ConcatProperties
    <3>2. QED BY <2>1, <3>1
  <2>5. CASE task.mode = "allowed" /\ Edits = << mine >>
    <3>1. Delta(task) = 1
      BY <1>0, <2>5, TasksAsk DEF Delta
    <3>2. QED BY <2>1, <2>3, <2>5, <3>1
  <2>6. QED BY <1>2, <2>4, <2>5
<1>4. pages[Target].version = 1 + Delta(task) /\ pages[Target].body = asked
  <2>1. Delta(task) \in 1..2
    BY DEF Delta
  <2>2. pages[Target].version = 1 + Delta(task)
    BY <1>3, <2>1, EditsOfHistory
  <2>3. Delta(task) \in 1..(pages[Target].version - 1) /\ Delta(task) + 1 = pages[Target].version
    BY <2>1, <2>2
  <2>4. Edits[Delta(task)].body = page_versions[Target][Delta(task) + 1].page.body
    BY <2>3, EditsOfHistory
  <2>5. page_versions[Target][Delta(task) + 1].page = pages[Target]
    BY <2>3, EditsOfHistory
  <2>6. QED BY <1>3, <2>2, <2>4, <2>5
<1>5. New \in asked /\ (task.family = "concurrent_edit" => Note \in asked)
  BY <1>0, TasksAsk DEF ReplaceSection
<1>6. InitialPages[Target].version = 1 /\ Delta(task) \in Nat \ {0}
  BY <1>0, SeededStart DEF Delta
<1>7. QED BY <1>1, <1>4, <1>5, <1>6 DEF VersionBumpedBy, BodyContains

(* page_edit.py: what was earned is passed.                                *)
THEOREM DutifulCorrect == Spec => []DutifulRunPasses
<1>1. RunInv => DutifulRunPasses
  <2> SUFFICES ASSUME RunInv, verdict # None, Dutiful PROVE verdict.passed
    BY DEF DutifulRunPasses
  <2>0. /\ task \in Tasks /\ Target \in Pages /\ Target \in Seeded
        /\ verdict = Verify(task, pages, page_versions, answer)
    BY TasksAssumption DEF RunInv, TaskOK, OutcomeOK
  <2>a. \A id, category, passed : Assert(id, category, passed).passed = passed
    BY DEF Assert
  <2>1. CASE task.fragment = New
    <3> DEFINE edit == EditAssertions(task, pages, page_versions)
               preservation == PreservationAssertions(task, pages)
    <3>1. task.family # "retrieval" /\ task.mode # "denied_read" /\ task.mode # "denied_write"
      BY <2>0, <2>1, TasksKinds
    <3>2. \A a \in edit : a.passed
      <4>1. \A body \in {task.final_body} \ {None} : pages[Target].body = body
        BY <2>1, DutifulEdit
      <4>2. /\ BodyContains(pages, Target, task.fragment) /\ VersionBumpedBy(pages, Target, Delta(task))
            /\ NoOtherPagesChanged(pages, {Target})
        BY <2>1, DutifulEdit
      <4> DEFINE contains == Assert("page-body-contains", "required", BodyContains(pages, Target, task.fragment))
                 bumped == Assert("page-version-bumped", "required",
                                  VersionBumpedBy(pages, Target, Delta(task)))
                 others == Assert("no-other-pages-changed", "forbidden", NoOtherPagesChanged(pages, {Target}))
                 exact(body) == Assert("page-body-exact", "required", pages[Target].body = body)
      <4>3. contains.passed /\ bumped.passed /\ others.passed
        BY <2>a, <4>2, Zenon
      <4>4. ASSUME NEW body \in {task.final_body} \ {None} PROVE exact(body).passed
        <5>1. pages[Target].body = body
          BY <4>1
        <5>2. QED BY <2>a, <5>1, Zenon
      <4>5. edit = {contains, bumped, others} \cup {exact(body) : body \in {task.final_body} \ {None}}
                     \cup WorldInvariants(pages, page_versions)
        BY Zenon DEF EditAssertions
      <4> HIDE DEF contains, bumped, others, exact, edit
      <4>6. QED BY <4>3, <4>4, <4>5, WorldInvariantsPass
    <3>3. task.family = "preservation" => \A a \in preservation : a.passed
      <4> SUFFICES ASSUME task.family = "preservation" PROVE \A a \in preservation : a.passed
        OBVIOUS
      <4>1. task.final_body # None
        BY <2>0, <2>1, TasksAsk, TasksKinds
      <4>2. \A fragment \in task.preserved : fragment \in SeedBody[Target] /\ fragment \in pages[Target].body
        BY <2>0, <2>1, <4>1, TasksAsk, DutifulEdit
      <4>3. \A p \in task.forbidden : Unchanged(pages, p)
        <5> SUFFICES ASSUME NEW p \in task.forbidden PROVE Unchanged(pages, p)
          OBVIOUS
        <5>1. p \in Seeded /\ p \in Pages \ {Target}
          BY <2>0, TasksAsk, TasksAssumption
        <5>2. pages[p] = InitialPages[p]
          BY <5>1 DEF Dutiful, OnlyTargetChanged
        <5>3. InitialPages[p].version = 1
          BY <5>1, SeededStart
        <5>4. QED BY <5>2, <5>3 DEF Unchanged
      <4> DEFINE kept(fragment) == Assert("preserved-body-fragment", "forbidden",
                                          fragment \in SeedBody[Target] /\ fragment \in pages[Target].body)
                 same(p) == Assert("forbidden-page-unchanged", "forbidden", Unchanged(pages, p))
      <4>4. /\ \A fragment \in task.preserved : kept(fragment).passed
            /\ \A p \in task.forbidden : same(p).passed
        BY <2>a, <4>2, <4>3, Zenon
      <4>5. preservation = {kept(fragment) : fragment \in task.preserved} \cup {same(p) : p \in task.forbidden}
        BY Zenon DEF PreservationAssertions
      <4> HIDE DEF kept, same, preservation
      <4>6. QED BY <4>4, <4>5
    <3>4. task.family = "concurrent_edit" => HumanEditAssertion(pages).passed
      BY <2>1, DutifulEdit DEF HumanEditAssertion, Assert
    <3>5. verdict = BuildResult(IF task.family = "preservation" THEN edit \cup preservation
                                ELSE IF task.family = "concurrent_edit" THEN edit \cup {HumanEditAssertion(pages)}
                                ELSE edit)
      BY <2>0, <3>1, Zenon DEF Verify
    <3> HIDE DEF edit, preservation
    <3>6. QED BY <3>2, <3>3, <3>4, <3>5, AllPassed
  <2>2. CASE task.fragment # New
    <3>1. /\ task.final_body = None /\ task.mode # "allowed"
          /\ task.family = "retrieval" \/ task.mode \in {"denied_read", "denied_write"}
          /\ task.mode = "denied_write" => task.response = None
      BY <2>0, <2>2, TasksKinds, TasksAsk
    <3>2. /\ Edits = << >> /\ OnlyTargetChanged
          /\ task.response # None => task.response \in answer
      BY <3>1, Zenon DEF Dutiful
    <3>3. pages[Target] = InitialPages[Target]
      <4>1. Len(<< >>) = 0
        OBVIOUS
      <4>2. pages[Target].version = 1
        BY <3>2, <4>1, EditsOfHistory
      <4>3. page_versions[Target][1].page = InitialPages[Target]
        BY <2>0 DEF RunInv, HistoriesOK
      <4>4. QED BY <4>2, <4>3, EditsOfHistory
    <3>4. WorldUnchanged(pages, page_versions)
      <4>1. \A p \in Pages : pages[p] = InitialPages[p]
        BY <3>2, <3>3 DEF OnlyTargetChanged
      <4>2. pages = InitialPages
        BY <4>1 DEF RunInv, TypeOK, InitialPages
      <4>3. QED BY <4>1, <4>2, HistoriesPass DEF WorldUnchanged
    <3>5. CASE task.family = "retrieval" \/ task.mode = "denied_read"
      <4>1. task.response # None
        BY <2>0, <3>5, TasksAsk
      <4>2. \A a \in ReadOnlyAssertions(task, pages, page_versions, answer) : a.passed
        BY <2>a, <3>2, <3>4, <4>1, Zenon DEF ReadOnlyAssertions
      <4>3. verdict = BuildResult(ReadOnlyAssertions(task, pages, page_versions, answer))
        BY <2>0, <3>5, TasksKinds DEF Verify
      <4>4. QED BY <4>2, <4>3, AllPassed
    <3>6. CASE ~(task.family = "retrieval" \/ task.mode = "denied_read") /\ task.mode = "denied_write"
      <4>1. Unchanged(pages, Target) /\ NoOtherPagesChanged(pages, {Target})
        BY <2>0, <3>2, <3>3, SeededStart DEF Unchanged, NoOtherPagesChanged, OnlyTargetChanged
      <4>2. \A a \in DeniedWriteAssertions(pages, page_versions) : a.passed
        BY <2>a, <3>4, <4>1, Zenon DEF DeniedWriteAssertions
      <4>3. verdict = BuildResult(DeniedWriteAssertions(pages, page_versions))
        BY <2>0, <3>6, TasksKinds DEF Verify
      <4>4. QED BY <4>2, <4>3, AllPassed
    <3>7. QED BY <3>1, <3>5, <3>6
  <2>3. QED BY <2>1, <2>2
<1>2. QED BY <1>1, RunInvariant, PTL

----------------------------------------------------------------------------
(* The other view of the same world. ConfluenceWorld has the network and   *)
(* the version headers, and implements VersionedPages; here every call is  *)
(* one step, and what that takes for granted is the same promise.          *)

Said(page) == <<page.title, page.body, page.owner>>
Contents == Titles \X (SUBSET Fragments) \X (Users \cup NamedOwners)

(* No revision of a task's run claims which text it was made from.         *)
Revised(entry) ==
  [version |-> entry.page.version, content |-> Said(entry.page), by |-> entry.by, seen |-> None]

Told(histories) == [p \in Pages |-> [i \in DOMAIN histories[p] |-> Revised(histories[p][i])]]

Promise ==
  INSTANCE VersionedPages WITH
    Authors <- Users \cup {None},
    Unset <- None,
    revisions <- Told(page_versions),
    Initial <- Told(InitialHistories)

(* One entry at the end of a history is one revision of the page.          *)
LEMMA ToldWrite ==
  ASSUME RunInv, NEW p \in Pages, NEW page \in Page, NEW by \in Users \cup {None},
         Write(p, page, by), page.version = pages[p].version + 1
  PROVE  Promise!Next
<1> DEFINE told == Told(page_versions)
           length == Len(page_versions[p])
           content == Said(page)
           new == [version |-> length + 1, content |-> content, by |-> by, seen |-> None]
<1>1. TypeOK /\ page_versions \in [Pages -> Seq(Revision)] /\ length = pages[p].version
  BY DEF RunInv, TypeOK, HistoriesOK
<1>2. /\ length \in Nat
      /\ DOMAIN page_versions[p] = 1..length
      /\ DOMAIN page_versions'[p] = 1..(length + 1)
      /\ page_versions'[p][length + 1] = [page |-> page, by |-> by]
      /\ \A i \in 1..length : page_versions'[p][i] = page_versions[p][i]
      /\ \A q \in Pages \ {p} : page_versions'[q] = page_versions[q]
  BY <1>1, Written
<1>3. content \in Contents
  BY DEF Said, Contents, Page
<1>4. told[p] = [i \in 1..length |-> Revised(page_versions[p][i])] /\ Len(told[p]) = length
  BY <1>2 DEF Told
<1>5. Told(page_versions') = [told EXCEPT ![p] = Append(told[p], new)]
  <2>1. Revised(page_versions'[p][length + 1]) = new
    BY <1>1, <1>2 DEF Revised
  <2>2. Told(page_versions')[p] = Append(told[p], new)
    <3>1. Told(page_versions')[p] = [i \in 1..(length + 1) |-> Revised(page_versions'[p][i])]
      BY <1>2 DEF Told
    <3>2. \A i \in 1..length : Revised(page_versions'[p][i]) = Revised(page_versions[p][i])
      BY <1>2
    <3> HIDE DEF told, new, length
    <3>3. [i \in 1..(length + 1) |-> Revised(page_versions'[p][i])]
            = [i \in 1..(length + 1) |-> IF i = length + 1 THEN new ELSE Revised(page_versions[p][i])]
      BY <1>2, <2>1, <3>2
    <3> QED BY <1>2, <1>4, <3>1, <3>3
  <2>3. ASSUME NEW q \in Pages \ {p}
        PROVE  Told(page_versions')[q] = told[q]
    BY <1>2 DEF Told
  <2>4. DOMAIN told = Pages /\ DOMAIN Told(page_versions') = Pages
    BY DEF Told
  <2> QED BY <2>2, <2>3, <2>4 DEF Told
<1>6. CASE told[p] = << >>
  <2>1. Promise!Create(p, by, content)
    BY <1>4, <1>5, <1>6 DEF Promise!Create, Promise!NewRevision
  <2> QED BY <1>3, <2>1 DEF Promise!Next
<1>7. CASE told[p] # << >>
  <2>1. Promise!Overwrite(p, by, content)
    BY <1>4, <1>5, <1>7 DEF Promise!Overwrite, Promise!NewRevision
  <2> QED BY <1>3, <2>1 DEF Promise!Next
<1> QED BY <1>6, <1>7

(* Whatever the tools, the hook and the resolver do, a run revises pages   *)
(* as the world's specification promises: one page at a time, one version  *)
(* after the other, and no revision is ever lost or changed.               *)
THEOREM TaskImplementsPages == Spec => Promise!Spec
<1>1. Init => Promise!Init
  BY DEF Init, Promise!Init
<1>2. RunInv /\ [Next]_vars => [Promise!Next]_(Told(page_versions))
  <2> SUFFICES ASSUME RunInv, [Next]_vars PROVE [Promise!Next]_(Told(page_versions))
    OBVIOUS
  <2>1. CASE UNCHANGED page_versions
    BY <2>1 DEF Told
  <2>2. ASSUME NEW p \in Pages, NEW page \in Page, AgentWrites(p, page)
        PROVE  Promise!Next
    BY <2>2, ToldWrite DEF AgentWrites, RunInv, TaskOK
  <2>3. ASSUME NEW page \in Page, HumanWrites(page)
        PROVE  Promise!Next
    <3>1. Write(Target, page, None) /\ page.version = pages[Target].version + 1 /\ Target \in Pages
      BY <2>3, TasksAssumption DEF HumanWrites, RunInv, TypeOK, Page
    <3> QED BY <3>1, ToldWrite
  <2>4. CASE Next
    <3>1. TypeOK /\ TaskOK
      BY DEF RunInv
    <3> QED BY <2>1, <2>2, <2>3, <2>4, <3>1, StepKinds DEF Looks, AgentCompletes, store
  <2> QED BY <2>1, <2>4 DEF vars, store
<1> QED BY <1>1, <1>2, RunInvariant, PTL DEF Spec, Promise!Spec
=============================================================================
