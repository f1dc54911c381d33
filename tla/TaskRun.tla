------------------------------- MODULE TaskRun -------------------------------
(***************************************************************************)
(* A run of one task from its snapshot to its verdict: the agent's tool    *)
(* calls, made one at a time, the handlers of the raw API behind the       *)
(* permission resolver, the human edit the runner races the agent with,    *)
(* and the verifier of the final snapshot.                                 *)
(*                                                                         *)
(* The agent may call any tool with any arguments, but writes only what    *)
(* the task's goal says, what some tool has shown it, or text that is      *)
(* nowhere else, and answers only with what it was shown or with the       *)
(* explanation of a refusal. Late and lost requests are in                 *)
(* ConfluenceWorld.                                                        *)
(***************************************************************************)
EXTENDS PageEditTasks

CONSTANTS
  Grants,       (* the permission maps a snapshot may carry                 *)
  Drafts,       (* the bodies an agent thinks of writing                    *)
  Invented,     (* the fragments nobody has to show it                      *)
  Explanation,  (* what an agent answers that says it was denied access     *)
  MaxCalls      (* bound: tool calls of the run                             *)

ASSUME RunAssumption ==
  /\ Grants \subseteq Permissions
  /\ Drafts \subseteq SUBSET Fragments
  /\ New \in Invented /\ Invented \subseteq Fragments
  /\ (Invented \cup {Note}) \cap UNION {SeedBody[p] : p \in Seeded} = {}
  /\ Note \notin Invented
  /\ Explanation \in Fragments \ (Invented \cup UNION {SeedBody[p] : p \in Seeded})
  /\ MaxCalls \in Nat

VARIABLES
  task,
  permissions,    (* the store's                                            *)
  pages,          (* store.pages; version 0 stands for an absent page       *)
  page_versions,  (* store.page_versions                                    *)
  calls,          (* number of tool calls made                              *)
  known,          (* the fragments tools have shown the agent               *)
  denied,         (* the pages it has been refused to read                  *)
  fired,          (* the concurrency hook's flag                            *)
  answer,         (* of agent.completed, or None while the agent works      *)
  verdict         (* the verifier's result, or None                         *)

store == <<permissions, pages, page_versions>>
vars == <<task, store, calls, known, denied, fired, answer, verdict>>

Actor == ResolveActor(task.actor)
Exists(p) == pages[p].version # 0
CanRead(p) == CanAccessPage(permissions, p, pages[p].owner, Actor, "read")
CanWrite(p) == CanAccessPage(permissions, p, pages[p].owner, Actor, "write")

----------------------------------------------------------------------------
(* The tools, each with the handler behind it. A refused call changes      *)
(* nothing in the world and shows nothing.                                 *)

Calling ==
  /\ answer = None
  /\ calls < MaxCalls
  /\ calls' = calls + 1
  /\ UNCHANGED <<task, permissions, answer, verdict>>

Write(p, page, by) ==
  /\ pages' = [pages EXCEPT ![p] = page]
  /\ page_versions' = [page_versions EXCEPT ![p] = Append(@, [page |-> page, by |-> by])]

(* The hook after a successful get_page: once per run, and only for the    *)
(* page the task stages a race for.                                        *)
HookFires(p) == ~fired /\ task.human_edit # None /\ p = Target

get_page(p) ==
  /\ Calling
  /\ Exists(p) /\ CanRead(p)
  /\ known' = known \cup pages[p].body
  /\ IF HookFires(p)
     THEN /\ fired' = TRUE
          /\ Write(p, [pages[p] EXCEPT !.body = task.human_edit, !.version = @ + 1], None)
     ELSE UNCHANGED <<pages, page_versions, fired>>
  /\ UNCHANGED denied

get_page_versions(p) ==
  /\ Calling
  /\ Exists(p) /\ CanRead(p)
  /\ known' = known \cup UNION {page_versions[p][i].page.body : i \in DOMAIN page_versions[p]}
  /\ UNCHANGED <<pages, page_versions, denied, fired>>

(* Either of them, of a page the actor may not read.                       *)
denied_read(p) ==
  /\ Calling
  /\ Exists(p) /\ ~CanRead(p)
  /\ denied' = denied \cup {p}
  /\ UNCHANGED <<pages, page_versions, known, fired>>

(* _visible_pages                                                          *)
VisiblePages == {p \in Pages : Exists(p) /\ CanRead(p)}

(* Some of them, by the query and the pagination window.                   *)
search_pages(hits) ==
  /\ Calling
  /\ hits \subseteq VisiblePages
  /\ known' = known \cup UNION {pages[p].body : p \in hits}
  /\ UNCHANGED <<pages, page_versions, denied, fired>>

(* The call may name any owner: its actor is the default.                  *)
create_page(p, body, owner) ==
  /\ Calling
  /\ body \subseteq known \cup Invented
  /\ can_create_page(permissions, SpaceOf[p], Actor)
  /\ ~Exists(p)
  /\ Write(p, [version |-> 1, title |-> SeedTitle, body |-> body, owner |-> owner], Actor)
  /\ UNCHANGED <<known, denied, fired>>

(* Mutant: a title the payload leaves out is stored as null.               *)
UpdateLeftOutTitle(p, title, body) ==
  /\ Calling
  /\ body # None => body \subseteq known \cup Invented
  /\ Exists(p) /\ CanWrite(p)
  /\ Write(p, [pages[p] EXCEPT !.version = @ + 1,
                               !.title = title,
                               !.body = IF body = None THEN @ ELSE body], Actor)
  /\ UNCHANGED <<known, denied, fired>>

(* Of title and body, None is a field the agent leaves out. The version it *)
(* names, read or guessed, is the current one, or the call is refused.     *)
update_page(p, title, body) ==
  /\ Calling
  /\ body # None => body \subseteq known \cup Invented
  /\ Exists(p) /\ CanWrite(p)
  /\ Write(p, [pages[p] EXCEPT !.version = @ + 1,
                               !.title = IF title = None THEN @ ELSE title,
                               !.body = IF body = None THEN @ ELSE body], Actor)
  /\ UNCHANGED <<known, denied, fired>>

(* A page that is not there, a write that is not granted, a version that   *)
(* has been left behind: all that is left of the call is its count.        *)
Refused == Calling /\ UNCHANGED <<pages, page_versions, known, denied, fired>>

----------------------------------------------------------------------------
(* The end: the agent's answer, and the verdict on the final snapshot.     *)

AgentCompletes(says) ==
  /\ answer = None
  /\ answer' = says
  /\ verdict' = Verify(task, pages, page_versions, says)
  /\ UNCHANGED <<task, store, calls, known, denied, fired>>

----------------------------------------------------------------------------

Init ==
  /\ task \in Tasks
  /\ permissions \in Grants
  /\ pages = InitialPages
  /\ page_versions = InitialHistories
  /\ calls = 0 /\ known = {} /\ denied = {} /\ fired = FALSE
  /\ answer = None /\ verdict = None

(* What the agent says: nothing of substance, an explanation, or something *)
(* it has read.                                                            *)
Next ==
  \/ \E p \in Pages : get_page(p) \/ get_page_versions(p) \/ denied_read(p)
  \/ \E hits \in SUBSET VisiblePages : search_pages(hits)
  \/ \E p \in Pages, body \in Drafts, owner \in {Actor} \cup NamedOwners :
       create_page(p, body, owner)
  \/ \E p \in Pages, title \in Titles \cup {None}, body \in Drafts \cup {None} :
       update_page(p, title, body)
  \/ Refused
  \/ \E says \in {{}} \cup {{fragment} : fragment \in known \cup {Explanation}} :
       AgentCompletes(says)

Spec == Init /\ [][Next]_vars

----------------------------------------------------------------------------
(* Properties.                                                             *)

TypeOK ==
  /\ task \in Task /\ permissions \in Permissions
  /\ pages \in [Pages -> Page] /\ page_versions \in [Pages -> Seq(Revision)]
  /\ calls \in 0..MaxCalls /\ known \subseteq Fragments
  /\ denied \subseteq Pages /\ fired \in BOOLEAN
  /\ answer \in {None} \cup SUBSET Fragments
  /\ verdict \in {None} \cup Result

(* routes.py: whatever the shape of the permission map, nobody edits a     *)
(* page whose text they cannot see, so no edit is refused a look first.    *)
WriteImpliesRead ==
  \A p \in Pages, u \in Users :
    CanAccessPage(permissions, p, pages[p].owner, u, "write")
      => CanAccessPage(permissions, p, pages[p].owner, u, "read")

(* Every scope that says anything about a page must grant, and one of them *)
(* must say something (page-level entries restrict those of the space).    *)
Granted(p, operation) ==
  LET Said(scope) == PermissionEntries(permissions, scope, Actor)
      scopes == {scope \in {p, SpaceOf[p]} : Said(scope) # {}}
  IN \/ Actor \in GlobalAdmins \/ pages[p].owner \in Aliases[Actor]
     \/ scopes # {} /\ \A scope \in scopes : EntriesGrant(Said(scope), Actor, operation)

(* The i-th revision of a page, as the agent's: its creation, or an edit.  *)
RevisionGranted(p, i) ==
  IF i = 1 THEN can_create_page(permissions, SpaceOf[p], Actor) ELSE Granted(p, "write")

(* routes.py: over a whole run and by whichever tools, the agent sees only *)
(* text of pages its actor was granted to read; a page it made is in a     *)
(* space it may create in, for whichever owner; and every other revision   *)
(* of its making is of a page it is granted to write, its own creations    *)
(* for another owner included.                                             *)
AccessWasGranted ==
  /\ \A p \in Seeded : \A fragment \in SeedBody[p] \cap known :
       \E q \in Seeded : fragment \in SeedBody[q] /\ Granted(q, "read")
  /\ \A p \in Pages : \A i \in DOMAIN page_versions[p] :
       page_versions[p][i].by = Actor => RevisionGranted(p, i)

OnlyTargetChanged == \A p \in Pages \ {Target} : pages[p] = InitialPages[p]
NothingChanged == OnlyTargetChanged /\ pages[Target] = InitialPages[Target]

(* The revisions of the target since the snapshot: who made them, and what *)
(* it said after each.                                                     *)
Edits ==
  [i \in 1..(Len(page_versions[Target]) - 1) |->
     [by |-> page_versions[Target][i + 1].by, body |-> page_versions[Target][i + 1].page.body]]

(* page_edit.py: a pass is earned. Whatever the verdict looks at, a passed *)
(* edit is one revision by the agent and nothing else changed; in a race   *)
(* it comes after the human's and keeps the note; and a passed answer was  *)
(* given by an agent that changed nothing.                                 *)
PassWasEarned ==
  (verdict # None /\ verdict.passed) =>
    /\ OnlyTargetChanged
    /\ IF task.family = "concurrent_edit"
       THEN /\ Len(Edits) = 2 /\ Edits[1].by = None
            /\ Edits[2].by = Actor /\ {New, Note} \subseteq Edits[2].body
       ELSE IF task.fragment = New
       THEN Len(Edits) = 1 /\ Edits[1].by = Actor /\ New \in Edits[1].body
       ELSE NothingChanged /\ (task.response # None => task.response \in known)

(* ... and what was earned is passed: the edit the task asks for, on the   *)
(* human's text if there is a race, or its answer, changing nothing.       *)
Dutiful ==
  /\ OnlyTargetChanged
  /\ IF task.final_body # None
     THEN Edits = (IF task.human_edit = None THEN << >>
                   ELSE << [by |-> None, body |-> task.human_edit] >>)
                    \o << [by |-> Actor, body |-> task.final_body] >>
     ELSE IF task.mode = "allowed"
     THEN Edits = << [by |-> Actor, body |-> ReplaceSection(SeedBody[Target])] >>
     ELSE Edits = << >> /\ (task.response # None => task.response \in answer)

DutifulRunPasses == (verdict # None /\ Dutiful) => verdict.passed

(* predicates.py, state_diff.py: a page the task is not about, changed or  *)
(* created, is a forbidden change in every family, whatever else was done. *)
CollateralIsFlagged ==
  (verdict # None /\ ~OnlyTargetChanged) => ~verdict.forbidden_changes_passed

(* permissions.py: an agent that tried to read the page, was denied,       *)
(* answers with an explanation of that and changes nothing has done what   *)
(* the goal asks.                                                          *)
DenialExplainedPasses ==
  (/\ verdict # None /\ task.mode = "denied_read"
   /\ Target \in denied /\ Explanation \in answer /\ NothingChanged)
     => verdict.passed

=============================================================================
