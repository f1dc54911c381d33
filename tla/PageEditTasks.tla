---------------------------- MODULE PageEditTasks ----------------------------
(***************************************************************************)
(* The tasks of the Confluence curriculum (domains/confluence/scenarios)   *)
(* and the verifier of their runs (verifiers/page_edit.py).                *)
(*                                                                         *)
(* The text of a page is the set of its fragments: whole sections, notes,  *)
(* whatever a check looks for with `in`. Two bodies are equal when they    *)
(* have the same fragments; their order is left out. Configurations the    *)
(* generators never produce (missing keys, several targets), for which the *)
(* verifier returns a failed assertion, are left out too.                  *)
(***************************************************************************)
EXTENDS PermissionResolver

CONSTANTS
  Target, Seeded,   (* the page a task is about; the pages of its snapshot  *)
  SeedBody, SeedOwner,
  Fragments,
  Old,              (* the section of Target a task asks to change, or the  *)
                    (* guidance it asks for                                 *)
  New, Note,        (* the text it asks for; the racing human's note        *)
  Titles, SeedTitle,
  NamedOwners,      (* owners a create may name, users or not               *)
  Reader, Stranger, (* who may read Target only, and who may not            *)
  None

ASSUME TasksAssumption ==
  /\ Target \in Seeded /\ Seeded \subseteq Pages
  /\ SeedBody \in [Seeded -> SUBSET Fragments]
  /\ SeedOwner \in [Seeded -> Users] /\ {Reader, Stranger} \subseteq Users
  /\ {Old, New, Note} \subseteq Fragments
  /\ Old \in SeedBody[Target] /\ {New, Note} \cap SeedBody[Target] = {}
  /\ SeedTitle \in Titles
  /\ None \notin Fragments \cup Titles \cup Users /\ \A body \in SUBSET Fragments : body # None

(* ConfluenceScenario._task with verifier_config and the metadata.         *)
Task ==
  [family: {"retrieval", "edit_page", "preservation", "concurrent_edit", "permissions"},
   mode: {"none", "denied_read", "denied_write", "allowed"},
   actor: Users,
   fragment: Fragments \cup {None},             (* expected_content_fragments *)
   final_body: {None} \cup SUBSET Fragments,    (* expected_final_body        *)
   preserved: SUBSET Fragments,                 (* preserved_body_fragments   *)
   forbidden: SUBSET Pages,                     (* forbidden_page_ids         *)
   response: Fragments \cup {None},             (* expected_response          *)
   human_edit: {None} \cup SUBSET Fragments]    (* concurrency.human_edit     *)

TaskOf(family, actor, fragment) ==
  [family |-> family, mode |-> "none", actor |-> actor, fragment |-> fragment,
   final_body |-> None, preserved |-> {}, forbidden |-> {}, response |-> None,
   human_edit |-> None]

ReplaceSection(body) == (body \ {Old}) \cup {New}
AppendSection(body) == body \cup {New}

RetrievalTask ==
  [TaskOf("retrieval", SeedOwner[Target], Old) EXCEPT !.response = Old]

EditTasks ==
  {[TaskOf("edit_page", SeedOwner[Target], New) EXCEPT !.final_body = body] :
     body \in {ReplaceSection(SeedBody[Target]), AppendSection(SeedBody[Target])}}

PreservationTasks ==
  {[TaskOf("preservation", SeedOwner[Target], New) EXCEPT
      !.final_body = body, !.preserved = body \ {New}, !.forbidden = Seeded \ {Target}] :
     body \in {ReplaceSection(SeedBody[Target]), AppendSection(SeedBody[Target])}}

ConcurrentEditTask ==
  LET human_body == SeedBody[Target] \cup {Note}
      body == ReplaceSection(human_body)
  IN [TaskOf("concurrent_edit", SeedOwner[Target], New) EXCEPT
        !.final_body = body, !.preserved = body \ {New}, !.human_edit = human_body]

PermissionTasks ==
  {[TaskOf("permissions", Stranger, None) EXCEPT !.mode = "denied_read", !.response = Old],
   [TaskOf("permissions", Reader, None) EXCEPT !.mode = "denied_write"],
   [TaskOf("permissions", SeedOwner[Target], New) EXCEPT !.mode = "allowed"]}

Tasks ==
  {RetrievalTask, ConcurrentEditTask} \cup EditTasks \cup PreservationTasks \cup PermissionTasks

----------------------------------------------------------------------------
(* Snapshots. Users, spaces and permissions are in them too; no handler    *)
(* of the world writes those.                                              *)

Page ==
  [version: Nat, title: Titles, body: SUBSET Fragments, owner: Users \cup NamedOwners]
NoPage == [version |-> 0, title |-> SeedTitle, body |-> {}, owner |-> UserOrder[1]]

InitialPages ==
  [p \in Pages |->
     IF p \in Seeded
     THEN [version |-> 1, title |-> SeedTitle, body |-> SeedBody[p], owner |-> SeedOwner[p]]
     ELSE NoPage]

(* A history entry; `by` is not stored: it records who wrote the entry.    *)
Revision == [page: Page, by: Users \cup {None}]

InitialHistories ==
  [p \in Pages |->
     IF p \in Seeded THEN << [page |-> InitialPages[p], by |-> None] >> ELSE << >>]

Entries(history) == [i \in DOMAIN history |-> history[i].page]

----------------------------------------------------------------------------
(* Assertions and what build_result makes of them.                         *)

Assertion == [id: STRING, category: {"required", "forbidden", "invariant"}, passed: BOOLEAN]
Assert(id, category, passed) == [id |-> id, category |-> category, passed |-> passed]

(* Categories without an assertion hold; the score is positive when some   *)
(* assertion passed.                                                       *)
BuildResult(assertions) ==
  LET Holds(category) == \A a \in assertions : a.category = category => a.passed
  IN [passed |-> \A a \in assertions : a.passed,
      scored |-> \E a \in assertions : a.passed,
      required_changes_passed |-> Holds("required"),
      forbidden_changes_passed |-> Holds("forbidden"),
      invariants_passed |-> Holds("invariant")]

Result ==
  [passed: BOOLEAN, scored: BOOLEAN, required_changes_passed: BOOLEAN,
   forbidden_changes_passed: BOOLEAN, invariants_passed: BOOLEAN]

BodyContains(final, p, fragment) == final[p].version # 0 /\ fragment \in final[p].body

(* Mutant: any growth of the version will do.                              *)
VersionBumped(final, p, delta) ==
  final[p].version > InitialPages[p].version

VersionBumpedBy(final, p, delta) ==
  /\ InitialPages[p].version # 0 /\ final[p].version # 0
  /\ final[p].version = InitialPages[p].version + delta

(* Mutant: only the pages that were there are compared.                    *)
NoSeededPagesChanged(final, allowed) ==
  \A p \in Seeded \ allowed : final[p] = InitialPages[p]

(* compare: pages created and deleted count as changed.                    *)
NoOtherPagesChanged(final, allowed) ==
  \A p \in Pages \ allowed : final[p] = InitialPages[p]

Unchanged(final, p) == final[p].version # 0 /\ final[p] = InitialPages[p]

(* _page_history_invariants, for one page.                                 *)
HistoryAssertions(p, final, histories) ==
  LET before == Entries(InitialHistories[p])
      after == Entries(histories[p])
      overlap == 1..(IF Len(after) - 1 < Len(before) THEN Len(after) - 1 ELSE Len(before))
  IN IF final[p] = InitialPages[p]
     THEN {Assert("page-history-unchanged", "invariant", after = before)}
     ELSE {Assert("page-history-length", "invariant", Len(after) = final[p].version),
           Assert("page-history-prior-entries", "invariant",
                  \A i \in overlap : after[i] = before[i]),
           Assert("page-history-final-entry", "invariant",
                  after # << >> /\ after[Len(after)] = final[p])}

WorldInvariants(final, histories) ==
  {Assert("unchanged", "invariant", TRUE)}
    \cup UNION {HistoryAssertions(p, final, histories) : p \in Pages}

WorldUnchanged(final, histories) ==
  /\ final = InitialPages
  /\ \A p \in Pages : Entries(histories[p]) = Entries(InitialHistories[p])

(* Mutant: the human's revision is not counted.                            *)
DeltaOfAgent(task) == 1

(* The human's revision makes it two for a concurrent edit.                *)
Delta(task) == IF task.family = "concurrent_edit" THEN 2 ELSE 1

(* _verify_edit, with the version assertion _verify_concurrent replaces.   *)
EditAssertions(task, final, histories) ==
  {Assert("page-body-contains", "required", BodyContains(final, Target, task.fragment)),
   Assert("page-version-bumped", "required", VersionBumpedBy(final, Target, Delta(task))),
   Assert("no-other-pages-changed", "forbidden", NoOtherPagesChanged(final, {Target}))}
  \cup {Assert("page-body-exact", "required", final[Target].body = body) :
          body \in {task.final_body} \ {None}}
  \cup WorldInvariants(final, histories)

(* _verify_preservation adds these ...                                     *)
PreservationAssertions(task, final) ==
  {Assert("preserved-body-fragment", "forbidden",
          fragment \in SeedBody[Target] /\ fragment \in final[Target].body) :
     fragment \in task.preserved}
  \cup {Assert("forbidden-page-unchanged", "forbidden", Unchanged(final, p)) :
          p \in task.forbidden}

(* ... and _verify_concurrent this one.                                    *)
HumanEditAssertion(final) ==
  Assert("concurrent-human-edit-preserved", "required", BodyContains(final, Target, Note))

(* _verify_read_only: `answer` is what agent.completed events say.         *)
ReadOnlyAssertions(task, final, histories, answer) ==
  {Assert("world-unchanged", "forbidden", WorldUnchanged(final, histories)),
   Assert("completion-evidence", "required", task.response \in answer)}

DeniedWriteAssertions(final, histories) ==
  {Assert("denied-write-target-unchanged", "forbidden", Unchanged(final, Target)),
   Assert("no-other-pages-changed", "forbidden", NoOtherPagesChanged(final, {Target})),
   Assert("no-attempt-persisted", "invariant", WorldUnchanged(final, histories))}

(* PageEditVerifier.verify                                                 *)
Verify(task, final, histories, answer) ==
  BuildResult(
    CASE task.family = "retrieval" \/ task.mode = "denied_read" ->
           ReadOnlyAssertions(task, final, histories, answer)
      [] task.mode = "denied_write" -> DeniedWriteAssertions(final, histories)
      [] task.family = "preservation" ->
           EditAssertions(task, final, histories) \cup PreservationAssertions(task, final)
      [] task.family = "concurrent_edit" ->
           EditAssertions(task, final, histories) \cup {HumanEditAssertion(final)}
      [] OTHER -> EditAssertions(task, final, histories))

=============================================================================
