-------------------------- MODULE ConfluenceWorld --------------------------
(***************************************************************************)
(* The Confluence simulator of one run: the in-memory store                *)
(* (agentgym/world/store.py), the raw page API in front of it              *)
(* (domains/confluence/world/api/routes.py), the trusted control API       *)
(* (lifecycle.py) and the tools the agent reaches it with                  *)
(* (packages/baseline/mcp/server.py).                                      *)
(*                                                                         *)
(* A tool sends one HTTP request and waits for its answer; when the client *)
(* times out the request is not recalled, so the server may still handle   *)
(* it later. Each handler runs without an await between its first read of  *)
(* the store and its last write, so handling a request is one action. The  *)
(* concurrency hook edits a page over the control API at any moment, and   *)
(* the runner takes the final snapshot once the agent has ended.           *)
(***************************************************************************)
EXTENDS Naturals, Sequences, FiniteSets

CONSTANTS
  Pages,            (* page identifiers                                     *)
  Clients,          (* actors that call the raw API                         *)
  Contents,         (* what a page can say: its title and body together, so *)
                    (* an update of one of them makes a new content too     *)
  Trusted,          (* the author of the snapshot's pages and human edits   *)
  Unset,            (* no content: a payload field left out, a text unread  *)
  NoIfVersion,      (* the If-Version header is missing or blank            *)
  BadIfVersion,     (* ... or is no integer                                 *)
  Seeded,           (* the pages of the run's initial snapshot              *)
  SeedContent,      (* ... what each of them says                           *)
  SeedOwner,        (* ... and who owns it                                  *)
  Readers, Writers, (* <<client, page>>: read and write granted to others   *)
  Creators,         (* clients that may create pages in the space           *)
  Located,          (* pages whose create names a space of the snapshot     *)
  NamedOwners,      (* owners a create may name instead of its actor        *)
  Drafts,           (* the texts each author writes                         *)
  Guesses,          (* <<client, If-Version>> sent without having read      *)
  Tools,            (* the tools granted to each client's session           *)
  MaxRequests,      (* bound: requests each client sends                    *)
  MaxInFlight,      (* bound: requests sent and not yet handled             *)
  MaxVersion        (* bound: no human edit of a page beyond this version   *)

ASSUME WorldAssumption ==
  /\ Pages # {}
  /\ Seeded \subseteq Pages
  /\ SeedContent \in [Seeded -> Contents]
  /\ SeedOwner \in [Seeded -> Clients \cup {Trusted}]
  /\ Trusted \notin Clients
  /\ Unset \notin Contents
  /\ NoIfVersion \notin Nat /\ BadIfVersion \notin Nat
  /\ NamedOwners \subseteq Clients \cup {Trusted}
  /\ Drafts \in [Clients \cup {Trusted} -> SUBSET (Contents \cup {Unset})]
  /\ Guesses \subseteq Clients \X (Nat \cup {NoIfVersion, BadIfVersion})
  /\ Tools \in [Clients -> SUBSET {"get_page", "get_page_versions", "search_pages",
                                   "create_page", "update_page"}]
  /\ MaxRequests \in [Clients -> Nat]
  /\ MaxInFlight \in Nat /\ MaxVersion \in Nat

VARIABLES
  phase,          (* of the session: restoring, open, closing, captured     *)
  pages,          (* store.pages; version 0 stands for an absent page       *)
  page_versions,  (* store.page_versions                                    *)
  net,            (* requests sent and not handled                          *)
  waiting,        (* the request each client waits on                       *)
  reply,          (* the answer on its way to each client                   *)
  view,           (* the last page each client was shown, per page          *)
  issued,         (* number of requests each client has sent                *)
  acked,          (* writes whose success reached the client                *)
  captured        (* the histories in the runner's final snapshot           *)

store == <<pages, page_versions>>
clients == <<net, waiting, reply, view, issued, acked>>
vars == <<phase, pages, page_versions, net, waiting, reply, view, issued, acked, captured>>

Authors == Clients \cup {Trusted}
Texts == Contents \cup {Unset}

Page == [version: Nat, content: Texts, owner: Authors]

(* A history entry. `by` and `seen` are not stored by the code: they record *)
(* who wrote the entry and which text of the page its author was shown and  *)
(* edited; Unset when the author made the text without reading the page.    *)
Revision == [version: Nat, content: Contents, by: Authors, seen: Texts]

View == [version: Nat, content: Texts]

Request ==
  [client: Clients, id: Nat,
   op: {"none", "get_page", "get_page_versions", "search_pages", "create_page", "update_page"},
   page: Pages, expected: Nat \cup {NoIfVersion, BadIfVersion}, content: Texts, seen: Texts]

Reply ==
  [status: {0, 200, 201, 400, 403, 404, 409, 428}, found: [Pages -> View]]

NoPage == [version |-> 0, content |-> Unset, owner |-> Trusted]
NoView == [version |-> 0, content |-> Unset]
NothingFound == [p \in Pages |-> NoView]
NoReply == [status |-> 0, found |-> NothingFound]
AnyPage == CHOOSE p \in Pages : TRUE
NoRequest(c) ==
  [client |-> c, id |-> 0, op |-> "none", page |-> AnyPage,
   expected |-> 0, content |-> Unset, seen |-> Unset]

Idle(c) == waiting[c].op = "none"
Exists(p) == pages[p].version # 0

----------------------------------------------------------------------------
(* The store.                                                               *)

SeedPage(p) ==
  IF p \in Seeded
  THEN [version |-> 1, content |-> SeedContent[p], owner |-> SeedOwner[p]]
  ELSE NoPage

SeedHistory(p) ==
  IF p \in Seeded
  THEN << [version |-> 1, content |-> SeedContent[p], by |-> Trusted, seen |-> Unset] >>
  ELSE << >>

(* append_version: the history gets a detached copy of the page as it is.  *)
RevisionOf(page, by, seen) ==
  [version |-> page.version, content |-> page.content, by |-> by, seen |-> seen]

add_page(p, content, owner, by) ==
  LET page == [version |-> 1, content |-> content, owner |-> owner]
  IN /\ pages' = [pages EXCEPT ![p] = page]
     /\ page_versions' = [page_versions EXCEPT ![p] = << RevisionOf(page, by, Unset) >>]

(* Mutant: the history entry is taken before the version is bumped.        *)
AppendThenBump(p, content, by, seen) ==
  LET text == IF content = Unset THEN pages[p].content ELSE content
      page == [pages[p] EXCEPT !.content = text]
  IN /\ page_versions' = [page_versions EXCEPT ![p] = Append(@, RevisionOf(page, by, seen))]
     /\ pages' = [pages EXCEPT ![p] = [page EXCEPT !.version = @ + 1]]

(* Mutant: a field the payload leaves out is stored as null.               *)
StoreLeftOutFields(p, content, by, seen) ==
  LET page == [version |-> pages[p].version + 1, content |-> content, owner |-> pages[p].owner]
  IN /\ pages' = [pages EXCEPT ![p] = page]
     /\ page_versions' = [page_versions EXCEPT ![p] = Append(@, RevisionOf(page, by, seen))]

(* update_page: a field left out keeps its value, and the version grows    *)
(* even when nothing else changes.                                         *)
update_page(p, content, by, seen) ==
  LET text == IF content = Unset THEN pages[p].content ELSE content
      page == [version |-> pages[p].version + 1, content |-> text, owner |-> pages[p].owner]
  IN /\ pages' = [pages EXCEPT ![p] = page]
     /\ page_versions' = [page_versions EXCEPT ![p] = Append(@, RevisionOf(page, by, seen))]

----------------------------------------------------------------------------
(* Permissions, as the handlers ask for them. PermissionResolver reduces   *)
(* the snapshot's permission maps to who may do what; ownership is live.   *)

can_read_page(c, p) == pages[p].owner = c \/ <<c, p>> \in Readers
can_write_page(c, p) == pages[p].owner = c \/ <<c, p>> \in Writers
can_create_page(c) == c \in Creators

----------------------------------------------------------------------------
(* The tools: one request each, and the wait for its answer.               *)

Send(c, op, p, expected, content, seen) ==
  LET request == [client |-> c, id |-> issued[c] + 1, op |-> op, page |-> p,
                  expected |-> expected, content |-> content, seen |-> seen]
  IN /\ phase = "open"
     /\ Idle(c)
     /\ op \in Tools[c]
     /\ issued[c] < MaxRequests[c] /\ Cardinality(net) < MaxInFlight
     /\ issued' = [issued EXCEPT ![c] = @ + 1]
     /\ net' = net \cup {request}
     /\ waiting' = [waiting EXCEPT ![c] = request]
     /\ UNCHANGED <<phase, store, reply, view, acked, captured>>

SendRead(c, op, p) ==
  /\ op = "search_pages" => p = AnyPage
  /\ Send(c, op, p, 0, Unset, Unset)

SendCreate(c, p, content) ==
  /\ content \in Drafts[c] \cap Contents
  /\ Send(c, "create_page", p, 0, content, Unset)

(* The agent passes the version of the page it was last shown ...          *)
SendUpdate(c, p, content) ==
  /\ content \in Drafts[c]
  /\ view[c][p] # NoView
  /\ Send(c, "update_page", p, view[c][p].version, content, view[c][p].content)

(* ... or a version it made up, or none.                                   *)
SendGuess(c, p, expected, content) ==
  /\ content \in Drafts[c]
  /\ Send(c, "update_page", p, expected, content, Unset)

(* The HTTP client's timeout: the tool fails and the agent goes on. The    *)
(* request, when still unhandled, stays where it is.                       *)
GiveUp(c) ==
  /\ ~Idle(c)
  /\ waiting' = [waiting EXCEPT ![c] = NoRequest(c)]
  /\ reply' = [reply EXCEPT ![c] = NoReply]
  /\ UNCHANGED <<phase, store, net, view, issued, acked, captured>>

Wrote(r) == r.op \in {"create_page", "update_page"}

(* The answer arrives: what it shows replaces the client's view.           *)
Deliver(c) ==
  LET r == waiting[c]
      found == reply[c].found
      ok == reply[c].status \in {200, 201}
  IN /\ reply[c] # NoReply
     /\ view' = [view EXCEPT ![c] =
          [p \in Pages |-> IF found[p] = NoView THEN @[p] ELSE found[p]]]
     /\ acked' = IF ok /\ Wrote(r)
                 THEN acked \cup {[page |-> r.page, by |-> c, version |-> found[r.page].version,
                                   content |-> found[r.page].content]}
                 ELSE acked
     /\ waiting' = [waiting EXCEPT ![c] = NoRequest(c)]
     /\ reply' = [reply EXCEPT ![c] = NoReply]
     /\ UNCHANGED <<phase, store, net, issued, captured>>

----------------------------------------------------------------------------
(* The raw API's handlers.                                                 *)

PageView(page) == [version |-> page.version, content |-> page.content]

(* An answer nobody waits for any more is dropped with the connection.     *)
Answer(r, status, found) ==
  /\ net' = net \ {r}
  /\ reply' = IF waiting[r.client] = r
              THEN [reply EXCEPT ![r.client] = [status |-> status, found |-> found]]
              ELSE reply
  /\ UNCHANGED <<phase, waiting, view, issued, acked, captured>>

AnswerPage(r, status, page) ==
  Answer(r, status, [NothingFound EXCEPT ![r.page] = PageView(page)])

Serving == phase \in {"open", "closing", "captured"}

ReadStatus(r) ==
  IF ~Exists(r.page) THEN 404
  ELSE IF ~can_read_page(r.client, r.page) THEN 403
  ELSE 200

HandleGetPage(r) ==
  /\ Serving /\ r.op = "get_page"
  /\ IF ReadStatus(r) = 200
     THEN AnswerPage(r, 200, pages[r.page])
     ELSE Answer(r, ReadStatus(r), NothingFound)
  /\ UNCHANGED store

(* The history is returned whole; its last entry is what the reader takes  *)
(* for the page's version and text.                                        *)
HandleGetPageVersions(r) ==
  /\ Serving /\ r.op = "get_page_versions"
  /\ IF ReadStatus(r) = 200
     THEN AnswerPage(r, 200, page_versions[r.page][Len(page_versions[r.page])])
     ELSE Answer(r, ReadStatus(r), NothingFound)
  /\ UNCHANGED store

(* Search and listing show some of the pages the actor may read: which,    *)
(* depends on the query and on the pagination window.                      *)
HandleSearchPages(r) ==
  /\ Serving /\ r.op = "search_pages"
  /\ \E hits \in SUBSET {p \in Pages : Exists(p) /\ can_read_page(r.client, p)} :
       Answer(r, 200, [p \in Pages |-> IF p \in hits THEN PageView(pages[p]) ELSE NoView])
  /\ UNCHANGED store

(* Mutant: a page with the same id is replaced.                            *)
CreateStatusUpsert(r) ==
  IF r.page \notin Located THEN 404
  ELSE IF ~can_create_page(r.client) THEN 403
  ELSE 201

CreateStatus(r) ==
  IF r.page \notin Located THEN 404
  ELSE IF ~can_create_page(r.client) THEN 403
  ELSE IF Exists(r.page) THEN 409
  ELSE 201

HandleCreatePage(r) ==
  /\ Serving /\ r.op = "create_page"
  /\ IF CreateStatus(r) = 201
     THEN /\ \E owner \in NamedOwners \cup {r.client} :
               add_page(r.page, r.content, owner, r.client)
          /\ AnswerPage(r, 201, [version |-> 1, content |-> r.content])
     ELSE /\ Answer(r, CreateStatus(r), NothingFound)
          /\ UNCHANGED store

(* Mutant: the If-Version precondition is required and then not compared.  *)
UpdateStatusUncompared(r) ==
  IF ~Exists(r.page) THEN 404
  ELSE IF ~can_write_page(r.client, r.page) THEN 403
  ELSE IF r.expected = NoIfVersion THEN 428
  ELSE IF r.expected = BadIfVersion THEN 400
  ELSE 200

(* Mutant: If-Version is compared with the version the update would make.  *)
UpdateStatusOfNext(r) ==
  IF ~Exists(r.page) THEN 404
  ELSE IF ~can_write_page(r.client, r.page) THEN 403
  ELSE IF r.expected = NoIfVersion THEN 428
  ELSE IF r.expected = BadIfVersion THEN 400
  ELSE IF r.expected # pages[r.page].version + 1 THEN 409
  ELSE 200

UpdateStatus(r) ==
  IF ~Exists(r.page) THEN 404
  ELSE IF ~can_write_page(r.client, r.page) THEN 403
  ELSE IF r.expected = NoIfVersion THEN 428
  ELSE IF r.expected = BadIfVersion THEN 400
  ELSE IF r.expected # pages[r.page].version THEN 409
  ELSE 200

HandleUpdatePage(r) ==
  /\ Serving /\ r.op = "update_page"
  /\ IF UpdateStatus(r) = 200
     THEN /\ update_page(r.page, r.content, r.client, r.seen)
          /\ Answer(r, 200, [NothingFound EXCEPT ![r.page] = PageView(pages'[r.page])])
     ELSE /\ Answer(r, UpdateStatus(r), NothingFound)
          /\ UNCHANGED store

Handle(r) ==
  \/ HandleGetPage(r)
  \/ HandleGetPageVersions(r)
  \/ HandleSearchPages(r)
  \/ HandleCreatePage(r)
  \/ HandleUpdatePage(r)

----------------------------------------------------------------------------
(* The control API, called by the runner alone.                            *)

(* Mutant: the world is restored while the agent works on it.              *)
RestoreAnyTime ==
  /\ phase \in {"restoring", "open"}
  /\ pages' = [p \in Pages |-> SeedPage(p)]
  /\ page_versions' = [p \in Pages |-> SeedHistory(p)]
  /\ phase' = "open"
  /\ UNCHANGED <<clients, captured>>

(* restore: every collection is replaced by the snapshot's. The session    *)
(* does it before anybody is given the world's URL.                        *)
RestoreSnapshot ==
  /\ phase = "restoring"
  /\ pages' = [p \in Pages |-> SeedPage(p)]
  /\ page_versions' = [p \in Pages |-> SeedHistory(p)]
  /\ phase' = "open"
  /\ UNCHANGED <<clients, captured>>

(* human-edit: the handler passes the version it has just read, so it is   *)
(* never refused, whatever the page says by now: the human's text was made *)
(* from the initial snapshot and its author is shown no later one.         *)
HumanEdit(p, content) ==
  /\ phase = "open"
  /\ Exists(p)
  /\ content \in Drafts[Trusted] \cap Contents
  /\ pages[p].version < MaxVersion
  /\ update_page(p, content, Trusted, Unset)
  /\ UNCHANGED <<phase, clients, captured>>

(* The agent has ended: no tool call is pending and no other will be made. *)
AgentEnds ==
  /\ phase = "open"
  /\ \A c \in Clients : Idle(c)
  /\ phase' = "closing"
  /\ UNCHANGED <<store, clients, captured>>

(* snapshot: a deep copy of the collections, taken in one handler.         *)
CaptureSnapshot ==
  /\ phase = "closing"
  /\ captured' = page_versions
  /\ phase' = "captured"
  /\ UNCHANGED <<store, clients>>

----------------------------------------------------------------------------
(* The child process builds its store from the snapshot file.              *)
Init ==
  /\ phase = "restoring"
  /\ pages = [p \in Pages |-> SeedPage(p)]
  /\ page_versions = [p \in Pages |-> SeedHistory(p)]
  /\ net = {}
  /\ waiting = [c \in Clients |-> NoRequest(c)]
  /\ reply = [c \in Clients |-> NoReply]
  /\ view = [c \in Clients |-> NothingFound]
  /\ issued = [c \in Clients |-> 0]
  /\ acked = {}
  /\ captured = [p \in Pages |-> << >>]

Next ==
  \/ RestoreSnapshot
  \/ AgentEnds
  \/ CaptureSnapshot
  \/ \E p \in Pages, content \in Contents : HumanEdit(p, content)
  \/ \E r \in net : Handle(r)
  \/ \E c \in Clients : GiveUp(c) \/ Deliver(c)
  \/ \E c \in Clients, p \in Pages, op \in {"get_page", "get_page_versions", "search_pages"} :
       SendRead(c, op, p)
  \/ \E c \in Clients, p \in Pages, content \in Contents : SendCreate(c, p, content)
  \/ \E c \in Clients, p \in Pages, content \in Texts : SendUpdate(c, p, content)
  \/ \E guess \in Guesses, p \in Pages, content \in Texts :
       SendGuess(guess[1], p, guess[2], content)

Spec == Init /\ [][Next]_vars

----------------------------------------------------------------------------
(* Properties.                                                             *)

TypeOK ==
  /\ phase \in {"restoring", "open", "closing", "captured"}
  /\ pages \in [Pages -> Page]
  /\ page_versions \in [Pages -> Seq(Revision)]
  /\ net \subseteq Request
  /\ waiting \in [Clients -> Request]
  /\ reply \in [Clients -> Reply]
  /\ view \in [Clients -> [Pages -> View]]
  /\ issued \in [Clients -> Nat]
  /\ acked \subseteq [page: Pages, by: Clients, version: Nat, content: Texts]
  /\ captured \in [Pages -> Seq(Revision)]

(* store.py: the version of a page, its text and its history always agree, *)
(* whatever mix of API calls, human edits and late requests produced them. *)
HistoryMatchesPage ==
  \A p \in Pages :
    LET history == page_versions[p]
    IN /\ Len(history) = pages[p].version
       /\ \A i \in DOMAIN history : history[i].version = i
       /\ Exists(p) => history[Len(history)].content = pages[p].content

(* routes.py update_page: what an API client makes from a text it was      *)
(* shown lands on exactly that text, however late the request is handled   *)
(* and however often it was retried, so it overwrites no revision of       *)
(* another client, or of the human, that it had not seen. The human's own  *)
(* edit promises nothing of the kind and may overwrite any of them.        *)
NoLostUpdate ==
  \A p \in Pages : \A i \in DOMAIN page_versions[p] \ {1} :
    LET revision == page_versions[p][i]
    IN (revision.by \in Clients /\ revision.seen # Unset)
         => revision.seen = page_versions[p][i - 1].content

Holds(histories, a) ==
  /\ a.version \in DOMAIN histories[a.page]
  /\ histories[a.page][a.version].content = a.content
  /\ histories[a.page][a.version].by = a.by

(* A write whose success the agent was told of is in the page's history    *)
(* for good, and in the final snapshot the verifier judges.                *)
AckedWritesKept ==
  \A a \in acked :
    /\ Holds(page_versions, a)
    /\ phase = "captured" => Holds(captured, a)

(* A refusal with 409 is never spurious: a client whose update carried the *)
(* version it was shown has been overtaken by a later revision (it may be  *)
(* its own, from a request it gave up on).                                 *)
ConflictHasWinner ==
  \A c \in Clients :
    (reply[c].status = 409 /\ waiting[c].seen # Unset)
      => waiting[c].expected + 1 \in DOMAIN page_versions[waiting[c].page]

(* The asynchronous protocol of reads, If-Version headers, timeouts and    *)
(* late requests implements atomic read-modify-write of growing histories. *)
Promise ==
  INSTANCE VersionedPages WITH
    revisions <- page_versions,
    Initial <- [p \in Pages |-> SeedHistory(p)]

ImplementsVersionedPages == Promise!Spec
=============================================================================
