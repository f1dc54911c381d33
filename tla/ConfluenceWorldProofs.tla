----------------------- MODULE ConfluenceWorldProofs -----------------------
(***************************************************************************)
(* Proofs about ConfluenceWorld, for any number of pages, clients, texts   *)
(* and requests. The argument has two halves. The store's half: every step *)
(* leaves the store alone or appends one revision to one history, and a    *)
(* revision that says which text its author had seen replaces that text    *)
(* (StoreSteps): for a client's update this is not how the step is written *)
(* but follows from the clients' half. The clients' half: what a client    *)
(* was shown, what an answer shows and what a pending update claims to     *)
(* have seen is an entry of the page's history, and stays one because      *)
(* histories only grow (Extends).                                          *)
(***************************************************************************)
EXTENDS ConfluenceWorld, TLAPS

(* A version and a text are an entry of the history of p.                  *)
Entry(histories, p, version, content) ==
  /\ version \in DOMAIN histories[p]
  /\ histories[p][version].content = content

(* An update that claims to have seen a text names the version it has.     *)
Honest(histories, r) == r.seen # Unset => Entry(histories, r.page, r.expected, r.seen)

(* A create carries a text, and claims to have seen none.                  *)
WellFormed(r) == r.op = "create_page" => r.content # Unset /\ r.seen = Unset

RequestsHonest == \A r \in net : Honest(page_versions, r) /\ WellFormed(r) /\ r.op # "none"

(* What a client was shown, or is about to be, is in the history.          *)
Shown(histories, shown) ==
  \A p \in Pages : shown[p] # NoView => Entry(histories, p, shown[p].version, shown[p].content)

(* The revision that an answer to the write r says it made.                *)
WriteOf(r, found) ==
  [page |-> r.page, by |-> r.client,
   version |-> found[r.page].version, content |-> found[r.page].content]

(* The answer to a write that succeeded shows the revision it made, and a  *)
(* refused update was overtaken.                                           *)
Answered(histories, r, a) ==
  /\ Shown(histories, a.found)
  /\ (a.status \in {200, 201} /\ Wrote(r)) => Holds(histories, WriteOf(r, a.found))
  /\ (a.status = 409 /\ r.seen # Unset) => r.expected + 1 \in DOMAIN histories[r.page]

ClientOK(c) ==
  /\ Shown(page_versions, view[c])
  /\ Honest(page_versions, waiting[c]) /\ waiting[c].client = c
  /\ Idle(c) => reply[c] = NoReply
  /\ Answered(page_versions, waiting[c], reply[c])

ClientsOK == \A c \in Clients : ClientOK(c)

AckedInHistory == \A a \in acked : Holds(page_versions, a)

(* The session's phases: nobody acts before the restore, no call is        *)
(* pending once the agent has ended, and the snapshot has what was acked.  *)
Phases ==
  /\ phase = "restoring" =>
       /\ pages = [p \in Pages |-> SeedPage(p)]
       /\ page_versions = [p \in Pages |-> SeedHistory(p)]
  /\ phase \in {"closing", "captured"} => \A c \in Clients : Idle(c)
  /\ phase = "captured" => \A a \in acked : Holds(captured, a)

IInv ==
  /\ TypeOK
  /\ HistoryMatchesPage
  /\ NoLostUpdate
  /\ RequestsHonest
  /\ ClientsOK
  /\ AckedInHistory
  /\ Phases

----------------------------------------------------------------------------
(* The store's half.                                                       *)

(* One history is extended by one revision, made from the current text.    *)
Grows(p, rev) ==
  /\ rev \in Revision
  /\ rev.version = pages[p].version + 1
  /\ rev.seen # Unset => Exists(p) /\ rev.seen = pages[p].content
  /\ pages' \in [Pages -> Page]
  /\ pages'[p].version = rev.version /\ pages'[p].content = rev.content
  /\ \A q \in Pages \ {p} : pages'[q] = pages[q]
  /\ page_versions' = [page_versions EXCEPT ![p] = Append(@, rev)]

StoreStep == UNCHANGED store \/ \E p \in Pages, rev \in Revision : Grows(p, rev)

(* Histories only grow: what is an entry now is one after the step.        *)
Extends ==
  \A p \in Pages : \A i \in DOMAIN page_versions[p] :
    /\ i \in DOMAIN page_versions'[p]
    /\ page_versions'[p][i] = page_versions[p][i]

LEMMA AnyPageIsPage == AnyPage \in Pages
  BY WorldAssumption DEF AnyPage

(* A page that exists has a text that is not Unset.                        *)
LEMMA PageHasText ==
  ASSUME TypeOK, HistoryMatchesPage, NEW p \in Pages, Exists(p)
  PROVE  /\ page_versions[p][Len(page_versions[p])] \in Revision
         /\ pages[p].content \in Contents
         /\ Len(page_versions[p]) \in DOMAIN page_versions[p]
<1>1. /\ pages[p] \in Page /\ page_versions[p] \in Seq(Revision)
      /\ Len(page_versions[p]) = pages[p].version
  BY DEF TypeOK, HistoryMatchesPage
<1>2. Len(page_versions[p]) \in 1 .. Len(page_versions[p])
  BY <1>1 DEF Exists, Page
<1>3. page_versions[p][Len(page_versions[p])] \in Revision
  BY <1>1, <1>2
<1>4. QED
  BY <1>1, <1>2, <1>3 DEF HistoryMatchesPage, Revision

(* update_page of store.py appends one revision.                           *)
LEMMA UpdateGrows ==
  ASSUME TypeOK, HistoryMatchesPage,
         NEW p \in Pages, Exists(p), NEW content \in Texts, NEW by \in Authors,
         NEW seen \in Texts, seen # Unset => seen = pages[p].content,
         update_page(p, content, by, seen)
  PROVE  \E rev \in Revision : Grows(p, rev) /\ rev.by = by
<1> DEFINE text == IF content = Unset THEN pages[p].content ELSE content
           page == [version |-> pages[p].version + 1, content |-> text, owner |-> pages[p].owner]
           rev == RevisionOf(page, by, seen)
<1>1. pages[p] \in Page /\ pages \in [Pages -> Page]
  BY DEF TypeOK
<1>2. text \in Contents
  BY PageHasText DEF Texts
<1>3. /\ page \in Page /\ page.version = pages[p].version + 1 /\ page.content = text
  <2> HIDE DEF text
  <2>1. QED
    BY <1>1, <1>2 DEF Page, Texts
<1>4. rev \in Revision /\ rev.version = page.version /\ rev.content = page.content /\ rev.seen = seen
      /\ rev.by = by
  BY <1>2, <1>3 DEF RevisionOf, Revision, Page
<1>5. /\ pages' = [pages EXCEPT ![p] = page]
      /\ page_versions' = [page_versions EXCEPT ![p] = Append(@, rev)]
  BY DEF update_page
<1>6. Grows(p, rev)
  <2> HIDE DEF page, rev, text
  <2>1. pages' \in [Pages -> Page] /\ pages'[p] = page /\ \A q \in Pages \ {p} : pages'[q] = pages[q]
    BY <1>1, <1>3, <1>5
  <2>2. QED
    BY <2>1, <1>3, <1>4, <1>5 DEF Grows
<1>7. QED
  BY <1>4, <1>6

(* add_page of store.py starts the history of an absent page.              *)
LEMMA CreateGrows ==
  ASSUME TypeOK, HistoryMatchesPage,
         NEW p \in Pages, ~Exists(p), NEW content \in Contents,
         NEW owner \in Authors, NEW by \in Authors, add_page(p, content, owner, by)
  PROVE  \E rev \in Revision : Grows(p, rev) /\ rev.by = by /\ rev.content = content
<1> DEFINE page == [version |-> 1, content |-> content, owner |-> owner]
           rev == RevisionOf(page, by, Unset)
<1>1. /\ pages \in [Pages -> Page] /\ page_versions \in [Pages -> Seq(Revision)]
      /\ pages[p].version = 0 /\ Len(page_versions[p]) = 0
  BY DEF TypeOK, HistoryMatchesPage, Exists
<1>2. page \in Page /\ page.version = 1 /\ page.content = content
  BY DEF Page, Texts
<1>3. rev \in Revision /\ rev.version = 1 /\ rev.content = content /\ rev.seen = Unset
      /\ rev.by = by
  BY DEF RevisionOf, Revision, Texts
<1>4. /\ pages' = [pages EXCEPT ![p] = page]
      /\ page_versions' = [page_versions EXCEPT ![p] = << rev >>]
  BY DEF add_page
<1>5. page_versions[p] = << >>
  BY <1>1
<1>6. << rev >> = Append(page_versions[p], rev)
  BY <1>5
<1>7. Grows(p, rev)
  <2> HIDE DEF page, rev
  <2>1. pages' \in [Pages -> Page] /\ pages'[p] = page /\ \A q \in Pages \ {p} : pages'[q] = pages[q]
    BY <1>1, <1>2, <1>4
  <2>2. page_versions' = [page_versions EXCEPT ![p] = Append(@, rev)]
    BY <1>4, <1>6
  <2>3. QED
    BY <2>1, <2>2, <1>1, <1>2, <1>3 DEF Grows
<1>8. QED
  BY <1>3, <1>7

(* What handling a request does to the store.                              *)
LEMMA HandleStores ==
  ASSUME IInv, NEW r \in net, Handle(r)
  PROVE  StoreStep
<1>1. /\ r \in Request /\ r.page \in Pages /\ r.client \in Authors
      /\ r.content \in Texts /\ r.seen \in Texts
      /\ Honest(page_versions, r) /\ WellFormed(r) /\ TypeOK /\ HistoryMatchesPage
  BY DEF IInv, TypeOK, Request, RequestsHonest, Authors
<1>2. CASE UNCHANGED store
  BY <1>2 DEF StoreStep
<1>3. CASE HandleCreatePage(r) /\ CreateStatus(r) = 201
  <2>1. PICK owner \in NamedOwners \cup {r.client} :
          ~Exists(r.page) /\ add_page(r.page, r.content, owner, r.client)
    BY <1>3 DEF HandleCreatePage, CreateStatus
  <2>4. owner \in Authors
    BY <1>1, WorldAssumption DEF Authors
  <2>2. r.content \in Contents
    BY <1>1, <1>3 DEF HandleCreatePage, WellFormed, Texts
  <2>3. QED
    BY <1>1, <2>1, <2>2, <2>4, CreateGrows DEF StoreStep
<1>4. CASE HandleUpdatePage(r) /\ UpdateStatus(r) = 200
  <2>1. /\ Exists(r.page) /\ update_page(r.page, r.content, r.client, r.seen)
        /\ r.expected = pages[r.page].version
    BY <1>4 DEF HandleUpdatePage, UpdateStatus
  <2>2. r.seen # Unset => r.seen = pages[r.page].content
    BY <1>1, <2>1 DEF Honest, Entry, HistoryMatchesPage
  <2>3. QED
    BY <1>1, <2>1, <2>2, UpdateGrows DEF StoreStep
<1>5. UNCHANGED store \/ (HandleCreatePage(r) /\ CreateStatus(r) = 201)
        \/ (HandleUpdatePage(r) /\ UpdateStatus(r) = 200)
  BY DEF Handle, HandleGetPage, HandleGetPageVersions, HandleSearchPages,
         HandleCreatePage, HandleUpdatePage
<1>6. QED
  BY <1>2, <1>3, <1>4, <1>5

LEMMA StoreSteps == IInv /\ [Next]_vars => StoreStep
<1> SUFFICES ASSUME IInv, [Next]_vars PROVE StoreStep
  OBVIOUS
<1>1. CASE UNCHANGED vars
  BY <1>1 DEF vars, store, StoreStep
<1>2. CASE RestoreSnapshot
  BY <1>2 DEF IInv, Phases, RestoreSnapshot, StoreStep, store
<1>3. ASSUME NEW p \in Pages, NEW content \in Contents, HumanEdit(p, content)
      PROVE  StoreStep
  <2>1. TypeOK /\ HistoryMatchesPage
    BY DEF IInv
  <2>2. /\ Exists(p) /\ update_page(p, content, Trusted, Unset)
        /\ content \in Texts /\ Unset \in Texts /\ Trusted \in Authors
    BY <1>3 DEF HumanEdit, Texts, Authors
  <2>3. QED
    BY <2>1, <2>2, UpdateGrows DEF StoreStep
<1>4. ASSUME NEW r \in net, Handle(r) PROVE StoreStep
  BY <1>4, HandleStores
<1>5. CASE AgentEnds \/ CaptureSnapshot
  BY <1>5 DEF AgentEnds, CaptureSnapshot, StoreStep
<1>6. CASE \E c \in Clients : GiveUp(c) \/ Deliver(c)
  BY <1>6 DEF GiveUp, Deliver, StoreStep
<1>7. ASSUME NEW c, NEW op, NEW p, NEW expected, NEW content, NEW seen,
             Send(c, op, p, expected, content, seen)
      PROVE  StoreStep
  BY <1>7 DEF Send, StoreStep
<1>8. ASSUME NEW c \in Clients, NEW p \in Pages, NEW op, SendRead(c, op, p) PROVE StoreStep
  BY <1>7, <1>8 DEF SendRead
<1>9. ASSUME NEW c \in Clients, NEW p \in Pages, NEW content \in Texts,
             SendCreate(c, p, content) \/ SendUpdate(c, p, content)
      PROVE  StoreStep
  BY <1>7, <1>9 DEF SendCreate, SendUpdate
<1>10. ASSUME NEW guess \in Guesses, NEW p \in Pages, NEW content \in Texts,
              SendGuess(guess[1], p, guess[2], content)
       PROVE  StoreStep
  BY <1>7, <1>10 DEF SendGuess
<1>11. QED
  BY <1>1, <1>2, <1>3, <1>4, <1>5, <1>6, <1>8, <1>9, <1>10 DEF Next, Texts

(* One revision appended: the history is the old one and the revision.     *)
LEMMA GrownHistory ==
  ASSUME TypeOK, HistoryMatchesPage, NEW p \in Pages, NEW rev \in Revision, Grows(p, rev)
  PROVE  /\ page_versions' \in [Pages -> Seq(Revision)]
         /\ \A q \in Pages \ {p} : page_versions'[q] = page_versions[q]
         /\ Len(page_versions'[p]) = Len(page_versions[p]) + 1
         /\ DOMAIN page_versions'[p] = 1 .. Len(page_versions[p]) + 1
         /\ \A i \in 1 .. Len(page_versions[p]) :
               page_versions'[p][i] = page_versions[p][i]
         /\ page_versions'[p][Len(page_versions[p]) + 1] = rev
<1> DEFINE h == page_versions[p]
<1>1. page_versions \in [Pages -> Seq(Revision)] /\ h \in Seq(Revision)
  BY DEF TypeOK
<1>2. page_versions' = [page_versions EXCEPT ![p] = Append(h, rev)]
  BY DEF Grows
<1>3. /\ Append(h, rev) \in Seq(Revision) /\ Len(Append(h, rev)) = Len(h) + 1
      /\ DOMAIN Append(h, rev) = 1 .. Len(h) + 1
      /\ \A i \in 1 .. Len(h) : Append(h, rev)[i] = h[i]
      /\ Append(h, rev)[Len(h) + 1] = rev
  <2> HIDE DEF h
  <2>1. QED
    BY <1>1
<1>4. /\ page_versions'[p] = Append(h, rev)
      /\ page_versions' \in [Pages -> Seq(Revision)]
      /\ \A q \in Pages \ {p} : page_versions'[q] = page_versions[q]
  <2> HIDE DEF h
  <2>1. QED
    BY <1>1, <1>2, <1>3
<1>5. QED
  BY <1>3, <1>4

LEMMA StoreKeepsExtends ==
  ASSUME TypeOK, HistoryMatchesPage, StoreStep
  PROVE  Extends
<1>1. CASE UNCHANGED store
  BY <1>1 DEF store, Extends
<1>2. ASSUME NEW p \in Pages, NEW rev \in Revision, Grows(p, rev)
      PROVE  Extends
  <2>1. page_versions[p] \in Seq(Revision)
    BY DEF TypeOK
  <2>2. DOMAIN page_versions[p] = 1 .. Len(page_versions[p]) /\ Len(page_versions[p]) \in Nat
    BY <2>1
  <2>3. QED
    BY <1>2, <2>2, GrownHistory, SMTT(30) DEF Extends
<1>3. QED
  BY <1>1, <1>2 DEF StoreStep

LEMMA StoreKeepsHistory ==
  ASSUME TypeOK, HistoryMatchesPage, NoLostUpdate, StoreStep
  PROVE  /\ pages' \in [Pages -> Page] /\ page_versions' \in [Pages -> Seq(Revision)]
         /\ HistoryMatchesPage' /\ NoLostUpdate'
<1>1. CASE UNCHANGED store
  BY <1>1 DEF store, TypeOK, HistoryMatchesPage, NoLostUpdate, Exists
<1>2. ASSUME NEW p \in Pages, NEW rev \in Revision, Grows(p, rev)
      PROVE  /\ pages' \in [Pages -> Page] /\ page_versions' \in [Pages -> Seq(Revision)]
             /\ HistoryMatchesPage' /\ NoLostUpdate'
  <2> DEFINE n == Len(page_versions[p])
  <2>1. n \in Nat /\ DOMAIN page_versions[p] = 1 .. n /\ n = pages[p].version
    BY DEF TypeOK, HistoryMatchesPage
  <2>2. /\ page_versions' \in [Pages -> Seq(Revision)]
        /\ \A q \in Pages \ {p} : page_versions'[q] = page_versions[q]
        /\ Len(page_versions'[p]) = n + 1
        /\ DOMAIN page_versions'[p] = 1 .. n + 1
        /\ \A i \in 1 .. n : page_versions'[p][i] = page_versions[p][i]
        /\ page_versions'[p][n + 1] = rev
    BY <1>2, GrownHistory
  <2>3. /\ rev.version = n + 1
        /\ rev.seen # Unset => Exists(p) /\ rev.seen = pages[p].content
        /\ pages' \in [Pages -> Page]
        /\ pages'[p].version = n + 1 /\ pages'[p].content = rev.content
        /\ \A q \in Pages \ {p} : pages'[q] = pages[q]
    BY <1>2, <2>1 DEF Grows
  <2> HIDE DEF n
  <2>4. HistoryMatchesPage'
    <3> SUFFICES ASSUME NEW q \in Pages
                 PROVE  /\ Len(page_versions'[q]) = pages'[q].version
                        /\ \A i \in DOMAIN page_versions'[q] : page_versions'[q][i].version = i
                        /\ pages'[q].version # 0 =>
                              page_versions'[q][Len(page_versions'[q])].content = pages'[q].content
      BY DEF HistoryMatchesPage, Exists
    <3>1. CASE q # p
      BY <3>1, <2>2, <2>3 DEF HistoryMatchesPage, Exists
    <3>2. CASE q = p
      <4>1. \A i \in 1 .. n : page_versions'[p][i].version = i
        BY <2>1, <2>2 DEF HistoryMatchesPage
      <4>2. \A i \in 1 .. n + 1 : i \in 1 .. n \/ i = n + 1
        BY <2>1
      <4>3. QED
        BY <3>2, <4>1, <4>2, <2>2, <2>3
    <3>3. QED
      BY <3>1, <3>2
  <2>5. NoLostUpdate'
    <3> SUFFICES ASSUME NEW q \in Pages, NEW i \in DOMAIN page_versions'[q], i # 1,
                        page_versions'[q][i].by \in Clients,
                        page_versions'[q][i].seen # Unset
                 PROVE  page_versions'[q][i].seen = page_versions'[q][i - 1].content
      BY DEF NoLostUpdate
    <3>1. CASE q # p
      BY <3>1, <2>2 DEF NoLostUpdate
    <3>2. CASE q = p /\ i \in 1 .. n
      <4>1. i - 1 \in 1 .. n
        BY <3>2, <2>1
      <4>2. QED
        BY <3>2, <4>1, <2>1, <2>2, ZenonT(30) DEF NoLostUpdate
    <3>3. CASE q = p /\ i = n + 1
      <4>1. n \in 1 .. n /\ i - 1 = n
        BY <3>3, <2>1
      <4>2. page_versions[p][n].content = pages[p].content
        BY <2>1, <4>1 DEF HistoryMatchesPage, Exists, n
      <4>3. QED
        BY <3>3, <4>1, <4>2, <2>2, <2>3
    <3>4. i \in 1 .. n \/ i = n + 1 \/ q # p
      BY <2>1, <2>2
    <3>5. QED
      BY <3>1, <3>2, <3>3, <3>4
  <2>6. QED
    BY <2>2, <2>3, <2>4, <2>5
<1>3. QED
  BY <1>1, <1>2 DEF StoreStep

----------------------------------------------------------------------------
(* The clients' half.                                                      *)

LEMMA ShownStays ==
  ASSUME Extends, NEW shown, Shown(page_versions, shown)
  PROVE  Shown(page_versions', shown)
  BY DEF Extends, Entry, Shown

LEMMA HoldsStays ==
  ASSUME Extends, NEW a, a.page \in Pages, Holds(page_versions, a)
  PROVE  Holds(page_versions', a)
  BY DEF Extends, Holds

(* An answer that was true stays true.                                     *)
LEMMA AnsweredStays ==
  ASSUME Extends, NEW r \in Request, NEW a \in Reply, Answered(page_versions, r, a)
  PROVE  Answered(page_versions', r, a)
<1>1. r.page \in Pages /\ WriteOf(r, a.found).page = r.page
  BY DEF Request, WriteOf
<1>2. Shown(page_versions', a.found)
  BY ShownStays DEF Answered
<1>3. (a.status \in {200, 201} /\ Wrote(r)) => Holds(page_versions', WriteOf(r, a.found))
  BY <1>1, HoldsStays DEF Answered
<1>4. (a.status = 409 /\ r.seen # Unset) => r.expected + 1 \in DOMAIN page_versions'[r.page]
  BY <1>1 DEF Answered, Extends
<1>5. QED
  BY <1>2, <1>3, <1>4 DEF Answered

LEMMA HonestStays ==
  ASSUME Extends, NEW r \in Request, Honest(page_versions, r)
  PROVE  Honest(page_versions', r)
  BY DEF Extends, Honest, Entry, Request

(* A client whose variables a step leaves alone is as well off after it.   *)
LEMMA ClientStays ==
  ASSUME TypeOK, Extends, NEW c \in Clients, ClientOK(c),
         waiting'[c] = waiting[c], reply'[c] = reply[c], view'[c] = view[c]
  PROVE  ClientOK(c)'
<1>1. waiting[c] \in Request /\ reply[c] \in Reply
  BY DEF TypeOK
<1>2. Answered(page_versions', waiting[c], reply[c]) /\ Honest(page_versions', waiting[c])
  BY <1>1, AnsweredStays, HonestStays DEF ClientOK
<1>3. Shown(page_versions', view[c])
  BY ShownStays DEF ClientOK
<1>4. QED
  BY <1>2, <1>3 DEF ClientOK, Idle

(* What an answer carries, whichever handler gives it.                     *)
Truthful(r, status, found) ==
  /\ status \in {200, 201, 400, 403, 404, 409, 428}
  /\ found \in [Pages -> View]
  /\ Answered(page_versions', r, [status |-> status, found |-> found])

LEMMA NothingFoundType == NoView \in View /\ NothingFound \in [Pages -> View]
  BY DEF NothingFound, NoView, View, Texts

(* An answer that shows the current version and text of one page.          *)
LEMMA OnePageFound ==
  ASSUME NEW p \in Pages, NEW page, page.version \in Nat, page.content \in Texts
  PROVE  LET found == [NothingFound EXCEPT ![p] = PageView(page)]
         IN /\ found \in [Pages -> View]
            /\ found[p].version = page.version /\ found[p].content = page.content
            /\ \A q \in Pages \ {p} : found[q] = NoView
<1>1. /\ PageView(page) \in View
      /\ PageView(page).version = page.version /\ PageView(page).content = page.content
  BY DEF PageView, View
<1>2. NothingFound \in [Pages -> View] /\ \A q \in Pages : NothingFound[q] = NoView
  BY NothingFoundType DEF NothingFound
<1> HIDE DEF NothingFound, PageView
<1>3. QED
  BY <1>1, <1>2

LEMMA NothingFoundTruthful ==
  ASSUME NEW r, NEW status \in {400, 403, 404, 409, 428},
         (status = 409 /\ r.seen # Unset) => r.expected + 1 \in DOMAIN page_versions'[r.page]
  PROVE  Truthful(r, status, NothingFound)
  BY NothingFoundType DEF Truthful, Answered, Shown, NothingFound

(* An answer to a read that shows the page as it is.                       *)
LEMMA PageFoundTruthful ==
  ASSUME IInv, UNCHANGED store, NEW r \in net, ~Wrote(r), Exists(r.page),
         NEW page, page.version = pages[r.page].version, page.content = pages[r.page].content
  PROVE  Truthful(r, 200, [NothingFound EXCEPT ![r.page] = PageView(page)])
<1> DEFINE found == [NothingFound EXCEPT ![r.page] = PageView(page)]
<1>1. /\ r.page \in Pages /\ pages[r.page].version \in Nat /\ pages[r.page].content \in Texts
      /\ TypeOK /\ HistoryMatchesPage
  BY DEF IInv, TypeOK, Request, Page
<1>2. /\ found \in [Pages -> View]
      /\ found[r.page].version = pages[r.page].version
      /\ found[r.page].content = pages[r.page].content
      /\ \A q \in Pages \ {r.page} : found[q] = NoView
  BY <1>1, OnePageFound
<1>3. /\ pages[r.page].version \in DOMAIN page_versions[r.page]
      /\ page_versions[r.page][pages[r.page].version].content = pages[r.page].content
  BY <1>1, PageHasText DEF HistoryMatchesPage
<1> HIDE DEF found
<1>4. \A p \in Pages : found[p] # NoView =>
        /\ found[p].version \in DOMAIN page_versions'[p]
        /\ page_versions'[p][found[p].version].content = found[p].content
  BY <1>1, <1>2, <1>3 DEF store
<1>5. Truthful(r, 200, found)
  BY <1>2, <1>4 DEF Truthful, Answered, Shown, Entry
<1>6. QED
  BY <1>5 DEF found

(* A write that was applied is answered with the revision it made.         *)
LEMMA GrownPageTruthful ==
  ASSUME IInv, NEW r \in net, NEW rev \in Revision, Grows(r.page, rev), rev.by = r.client,
         NEW page, page.version = pages'[r.page].version, page.content = pages'[r.page].content,
         NEW status \in {200, 201}
  PROVE  Truthful(r, status, [NothingFound EXCEPT ![r.page] = PageView(page)])
<1> DEFINE found == [NothingFound EXCEPT ![r.page] = PageView(page)]
           n == Len(page_versions[r.page])
<1>1. r.page \in Pages /\ TypeOK /\ HistoryMatchesPage
  BY DEF IInv, TypeOK, Request
<1>2. n \in Nat /\ pages[r.page].version = n
  BY <1>1 DEF TypeOK, HistoryMatchesPage
<1>3. page.version = n + 1 /\ page.content = rev.content /\ rev.content \in Contents
  BY <1>2 DEF Grows, Revision
<1>4. /\ found \in [Pages -> View]
      /\ found[r.page].version = n + 1 /\ found[r.page].content = rev.content
      /\ \A q \in Pages \ {r.page} : found[q] = NoView
  BY <1>1, <1>2, <1>3, OnePageFound DEF Texts
<1>5. n + 1 \in DOMAIN page_versions'[r.page] /\ page_versions'[r.page][n + 1] = rev
  BY <1>1, <1>2, GrownHistory
<1> HIDE DEF found, n
<1>6. \A p \in Pages : found[p] # NoView =>
        /\ found[p].version \in DOMAIN page_versions'[p]
        /\ page_versions'[p][found[p].version].content = found[p].content
  BY <1>4, <1>5
<1>7. Holds(page_versions', WriteOf(r, found))
  BY <1>4, <1>5 DEF Holds, WriteOf
<1>8. Truthful(r, status, found)
  BY <1>4, <1>6, <1>7 DEF Truthful, Answered, Shown, Entry
<1>9. QED
  BY <1>8 DEF found

LEMMA HandleAnswers ==
  ASSUME IInv, NEW r \in net, Handle(r)
  PROVE  \E status, found : Answer(r, status, found) /\ Truthful(r, status, found)
<1>1. /\ r \in Request /\ r.page \in Pages /\ r.client \in Clients /\ r.client \in Authors
      /\ r.content \in Texts /\ r.seen \in Texts
      /\ Honest(page_versions, r) /\ WellFormed(r) /\ TypeOK /\ HistoryMatchesPage
  BY DEF IInv, TypeOK, Request, RequestsHonest, Authors
<1>2. CASE HandleGetPage(r)
  <2>1. CASE ReadStatus(r) = 200
    <3>1. Exists(r.page) /\ ~Wrote(r) /\ UNCHANGED store
      BY <1>2, <2>1 DEF ReadStatus, HandleGetPage, Wrote
    <3>2. Truthful(r, 200, [NothingFound EXCEPT ![r.page] = PageView(pages[r.page])])
      BY <3>1, PageFoundTruthful
    <3>3. QED
      BY <1>2, <2>1, <3>2 DEF HandleGetPage, AnswerPage
  <2>2. CASE ReadStatus(r) \in {403, 404}
    <3>1. Answer(r, ReadStatus(r), NothingFound)
      BY <1>2, <2>2 DEF HandleGetPage
    <3>2. QED
      BY <2>2, <3>1, NothingFoundTruthful
  <2>3. QED
    BY <2>1, <2>2 DEF ReadStatus
<1>3. CASE HandleGetPageVersions(r)
  <2>1. CASE ReadStatus(r) = 200
    <3> DEFINE last == page_versions[r.page][Len(page_versions[r.page])]
    <3>1. Exists(r.page) /\ ~Wrote(r) /\ UNCHANGED store
      BY <1>3, <2>1 DEF ReadStatus, HandleGetPageVersions, Wrote
    <3>2. last.version = pages[r.page].version /\ last.content = pages[r.page].content
      BY <1>1, <3>1, PageHasText DEF HistoryMatchesPage
    <3>3. Truthful(r, 200, [NothingFound EXCEPT ![r.page] = PageView(last)])
      BY <3>1, <3>2, PageFoundTruthful
    <3>4. QED
      BY <1>3, <2>1, <3>3 DEF HandleGetPageVersions, AnswerPage
  <2>2. CASE ReadStatus(r) \in {403, 404}
    <3>1. Answer(r, ReadStatus(r), NothingFound)
      BY <1>3, <2>2 DEF HandleGetPageVersions
    <3>2. QED
      BY <2>2, <3>1, NothingFoundTruthful
  <2>3. QED
    BY <2>1, <2>2 DEF ReadStatus
<1>4. CASE HandleSearchPages(r)
  <2>1. PICK hits \in SUBSET {p \in Pages : Exists(p) /\ can_read_page(r.client, p)} :
          Answer(r, 200, [p \in Pages |-> IF p \in hits THEN PageView(pages[p]) ELSE NoView])
    BY <1>4 DEF HandleSearchPages
  <2> DEFINE found == [p \in Pages |-> IF p \in hits THEN PageView(pages[p]) ELSE NoView]
  <2>2. \A p \in Pages : pages[p] \in Page /\ PageView(pages[p]) \in View
    BY <1>1 DEF TypeOK, Page, PageView, View
  <2>3. found \in [Pages -> View]
    BY <2>2, NothingFoundType
  <2>4. ASSUME NEW p \in Pages, found[p] # NoView
        PROVE  /\ found[p].version \in DOMAIN page_versions'[p]
               /\ page_versions'[p][found[p].version].content = found[p].content
    <3>1. p \in hits /\ Exists(p) /\ found[p] = PageView(pages[p])
      BY <2>4
    <3>2. found[p].version = pages[p].version /\ found[p].content = pages[p].content
      BY <3>1 DEF PageView
    <3>3. page_versions' = page_versions
      BY <1>4 DEF HandleSearchPages, store
    <3>4. QED
      BY <1>1, <3>1, <3>2, <3>3, PageHasText DEF HistoryMatchesPage
  <2>5. ~Wrote(r)
    BY <1>4 DEF HandleSearchPages, Wrote
  <2> HIDE DEF found
  <2>6. Truthful(r, 200, found)
    BY <2>3, <2>4, <2>5 DEF Truthful, Answered, Shown, Entry
  <2>7. QED
    BY <2>1, <2>6 DEF found
<1>5. CASE HandleCreatePage(r)
  <2>1. CASE CreateStatus(r) = 201
    <3>1. PICK owner \in NamedOwners \cup {r.client} :
            ~Exists(r.page) /\ add_page(r.page, r.content, owner, r.client)
      BY <1>5, <2>1 DEF HandleCreatePage, CreateStatus
    <3>7. owner \in Authors
      BY <1>1, WorldAssumption DEF Authors
    <3>2. r.content \in Contents
      BY <1>1, <1>5 DEF HandleCreatePage, WellFormed, Texts
    <3>3. PICK rev \in Revision : Grows(r.page, rev) /\ rev.by = r.client /\ rev.content = r.content
      BY <1>1, <3>1, <3>2, <3>7, CreateGrows
    <3>4. pages'[r.page].version = 1 /\ pages'[r.page].content = r.content
      BY <3>1, <3>3, <1>1 DEF Grows, Exists, TypeOK
    <3>5. Truthful(r, 201, [NothingFound EXCEPT ![r.page] =
                              PageView([version |-> 1, content |-> r.content])])
      BY <3>3, <3>4, GrownPageTruthful
    <3>6. QED
      BY <1>5, <2>1, <3>5 DEF HandleCreatePage, AnswerPage
  <2>2. CASE CreateStatus(r) \in {403, 404, 409}
    <3>1. Answer(r, CreateStatus(r), NothingFound)
      BY <1>5, <2>2 DEF HandleCreatePage
    <3>2. r.seen = Unset
      BY <1>1, <1>5 DEF HandleCreatePage, WellFormed
    <3>3. QED
      BY <2>2, <3>1, <3>2, NothingFoundTruthful
  <2>3. QED
    BY <2>1, <2>2 DEF CreateStatus
<1>6. CASE HandleUpdatePage(r)
  <2>1. CASE UpdateStatus(r) = 200
    <3>1. /\ Exists(r.page) /\ update_page(r.page, r.content, r.client, r.seen)
          /\ r.expected = pages[r.page].version
      BY <1>6, <2>1 DEF HandleUpdatePage, UpdateStatus
    <3>2. r.seen # Unset => r.seen = pages[r.page].content
      BY <1>1, <3>1 DEF Honest, Entry, HistoryMatchesPage
    <3>3. PICK rev \in Revision : Grows(r.page, rev) /\ rev.by = r.client
      BY <1>1, <3>1, <3>2, UpdateGrows
    <3>4. Truthful(r, 200, [NothingFound EXCEPT ![r.page] = PageView(pages'[r.page])])
      BY <3>3, GrownPageTruthful
    <3>5. QED
      BY <1>6, <2>1, <3>4 DEF HandleUpdatePage
  <2>2. CASE UpdateStatus(r) \in {400, 403, 404, 409, 428}
    <3>1. Answer(r, UpdateStatus(r), NothingFound) /\ UNCHANGED store
      BY <1>6, <2>2 DEF HandleUpdatePage
    <3>2. ASSUME UpdateStatus(r) = 409, r.seen # Unset
          PROVE  r.expected + 1 \in DOMAIN page_versions'[r.page]
      <4>1. r.expected \in DOMAIN page_versions[r.page] /\ r.expected # pages[r.page].version
        BY <1>1, <3>2 DEF Honest, Entry, UpdateStatus
      <4>2. /\ DOMAIN page_versions[r.page] = 1 .. Len(page_versions[r.page])
            /\ Len(page_versions[r.page]) \in Nat
            /\ Len(page_versions[r.page]) = pages[r.page].version
        BY <1>1 DEF TypeOK, HistoryMatchesPage
      <4>3. QED
        BY <3>1, <4>1, <4>2 DEF store
    <3>3. QED
      BY <2>2, <3>1, <3>2, NothingFoundTruthful
  <2>3. QED
    BY <2>1, <2>2 DEF UpdateStatus
<1>7. QED
  BY <1>2, <1>3, <1>4, <1>5, <1>6 DEF Handle

----------------------------------------------------------------------------
(* The whole invariant, step by step.                                      *)

ClientTypes ==
  /\ net \subseteq Request /\ waiting \in [Clients -> Request]
  /\ reply \in [Clients -> Reply] /\ view \in [Clients -> [Pages -> View]]
  /\ issued \in [Clients -> Nat]
  /\ acked \subseteq [page: Pages, by: Clients, version: Nat, content: Texts]

ClientHalf == ClientTypes /\ RequestsHonest /\ ClientsOK /\ AckedInHistory

LEMMA NoRequestType ==
  ASSUME NEW c \in Clients
  PROVE  NoRequest(c) \in Request
  BY AnyPageIsPage DEF NoRequest, Request, Texts

LEMMA NoReplyType == NoReply \in Reply
  BY NothingFoundType DEF NoReply, Reply

(* No answer, for whatever request, is a true one.                         *)
LEMMA NoReplyAnswers ==
  ASSUME NEW histories, NEW r
  PROVE  Answered(histories, r, NoReply)
  BY DEF Answered, Shown, NoReply, NothingFound

LEMMA AckedStays ==
  ASSUME TypeOK, Extends, AckedInHistory, acked' = acked
  PROVE  AckedInHistory'
  BY HoldsStays DEF TypeOK, AckedInHistory

LEMMA RequestsStay ==
  ASSUME TypeOK, Extends, RequestsHonest, net' \subseteq net
  PROVE  RequestsHonest'
  BY HonestStays DEF TypeOK, RequestsHonest

(* Steps that change nothing a client sees.                                *)
LEMMA ClientsUntouched ==
  ASSUME IInv, Extends, UNCHANGED clients
  PROVE  ClientHalf'
<1>1. TypeOK /\ RequestsHonest /\ ClientsOK /\ AckedInHistory
  BY DEF IInv
<1>2. /\ net' = net /\ waiting' = waiting /\ reply' = reply /\ view' = view
      /\ issued' = issued /\ acked' = acked
  BY DEF clients
<1>3. ClientTypes'
  BY <1>1, <1>2 DEF TypeOK, ClientTypes
<1>4. ClientsOK'
  BY <1>1, <1>2, ClientStays DEF ClientsOK
<1>5. QED
  BY <1>1, <1>2, <1>3, <1>4, AckedStays, RequestsStay DEF ClientHalf

(* A client sends a request that says truly what it has seen.              *)
LEMMA SendKeeps ==
  ASSUME IInv, Extends, NEW c \in Clients,
         NEW op \in {"get_page", "get_page_versions", "search_pages", "create_page", "update_page"},
         NEW p \in Pages, NEW expected \in Nat \cup {NoIfVersion, BadIfVersion},
         NEW content \in Texts, NEW seen \in Texts,
         seen # Unset => Entry(page_versions, p, expected, seen),
         op = "create_page" => content # Unset /\ seen = Unset,
         Send(c, op, p, expected, content, seen)
  PROVE  ClientHalf'
<1> DEFINE r == [client |-> c, id |-> issued[c] + 1, op |-> op, page |-> p,
                 expected |-> expected, content |-> content, seen |-> seen]
<1>1. TypeOK /\ RequestsHonest /\ ClientsOK /\ AckedInHistory
  BY DEF IInv
<1>2. /\ Idle(c)
      /\ issued' = [issued EXCEPT ![c] = @ + 1]
      /\ net' = net \cup {r} /\ waiting' = [waiting EXCEPT ![c] = r]
      /\ page_versions' = page_versions /\ reply' = reply /\ view' = view /\ acked' = acked
  BY DEF Send, store
<1>3. /\ r \in Request /\ r.client = c /\ r.op # "none"
      /\ Honest(page_versions, r) /\ WellFormed(r)
  BY <1>1 DEF TypeOK, Request, Honest, WellFormed
<1> HIDE DEF r
<1>4. /\ waiting' \in [Clients -> Request] /\ waiting'[c] = r
      /\ \A d \in Clients \ {c} : waiting'[d] = waiting[d]
  BY <1>1, <1>2, <1>3 DEF TypeOK
<1>5. ClientTypes'
  BY <1>1, <1>2, <1>3, <1>4 DEF TypeOK, ClientTypes
<1>6. RequestsHonest'
  BY <1>1, <1>2, <1>3 DEF RequestsHonest
<1>7. ClientOK(c)'
  <2>1. reply[c] = NoReply /\ Shown(page_versions, view[c])
    BY <1>1, <1>2 DEF ClientsOK, ClientOK
  <2>2. Answered(page_versions', r, reply'[c])
    BY <1>2, <2>1, NoReplyAnswers
  <2>3. QED
    BY <1>2, <1>3, <1>4, <2>1, <2>2 DEF ClientOK
<1>8. ClientsOK'
  BY <1>1, <1>2, <1>4, <1>7, ClientStays DEF ClientsOK
<1>9. QED
  BY <1>1, <1>2, <1>5, <1>6, <1>8, AckedStays DEF ClientHalf

(* The HTTP timeout: the client forgets the request and its answer.        *)
LEMMA GiveUpKeeps ==
  ASSUME IInv, Extends, NEW c \in Clients, GiveUp(c)
  PROVE  ClientHalf'
<1>1. TypeOK /\ RequestsHonest /\ ClientsOK /\ AckedInHistory
  BY DEF IInv
<1>2. /\ waiting' \in [Clients -> Request] /\ waiting'[c] = NoRequest(c)
      /\ \A d \in Clients \ {c} : waiting'[d] = waiting[d]
      /\ reply' \in [Clients -> Reply] /\ reply'[c] = NoReply
      /\ \A d \in Clients \ {c} : reply'[d] = reply[d]
  BY <1>1, NoRequestType, NoReplyType DEF GiveUp, TypeOK
<1>3. /\ page_versions' = page_versions /\ net' = net
      /\ view' = view /\ acked' = acked /\ issued' = issued
  BY DEF GiveUp, store
<1>4. ClientTypes'
  BY <1>1, <1>2, <1>3 DEF TypeOK, ClientTypes
<1>5. ClientOK(c)'
  <2>1. Shown(page_versions', view'[c]) /\ Honest(page_versions', NoRequest(c))
    BY <1>1, <1>3 DEF ClientsOK, ClientOK, Honest, NoRequest
  <2>2. QED
    BY <1>2, <2>1, NoReplyAnswers DEF ClientOK, NoRequest
<1>6. ClientsOK'
  BY <1>1, <1>2, <1>3, <1>5, ClientStays DEF ClientsOK
<1>7. QED
  BY <1>1, <1>3, <1>4, <1>6, AckedStays, RequestsStay DEF ClientHalf

(* An answer arrives: the client sees what it shows, and a success is      *)
(* acknowledged.                                                           *)
LEMMA DeliverKeeps ==
  ASSUME IInv, Extends, NEW c \in Clients, Deliver(c)
  PROVE  ClientHalf'
<1> DEFINE r == waiting[c]
           found == reply[c].found
           shown == [p \in Pages |-> IF found[p] = NoView THEN view[c][p] ELSE found[p]]
<1>1. TypeOK /\ RequestsHonest /\ ClientsOK /\ AckedInHistory
  BY DEF IInv
<1>2. /\ r \in Request /\ r.client = c /\ reply[c] \in Reply /\ found \in [Pages -> View]
      /\ view[c] \in [Pages -> View] /\ Answered(page_versions, r, reply[c])
      /\ Shown(page_versions, view[c])
  BY <1>1 DEF TypeOK, ClientsOK, ClientOK, Reply
<1>3. shown \in [Pages -> View] /\ Shown(page_versions, shown)
  BY <1>2 DEF Answered, Shown
<1>4. /\ waiting' \in [Clients -> Request] /\ waiting'[c] = NoRequest(c)
      /\ \A d \in Clients \ {c} : waiting'[d] = waiting[d]
      /\ reply' \in [Clients -> Reply] /\ reply'[c] = NoReply
      /\ \A d \in Clients \ {c} : reply'[d] = reply[d]
  BY <1>1, NoRequestType, NoReplyType DEF Deliver, TypeOK
<1>5. view' = [view EXCEPT ![c] = shown]
  BY DEF Deliver
<1>6. /\ page_versions' = page_versions /\ net' = net /\ issued' = issued
  BY DEF Deliver, store
<1>7. acked' = acked \/ ( /\ acked' = acked \cup {WriteOf(r, found)}
                         /\ Holds(page_versions, WriteOf(r, found)) )
  BY <1>2 DEF Deliver, WriteOf, Answered
<1>8. WriteOf(r, found) \in [page: Pages, by: Clients, version: Nat, content: Texts]
  <2>1. r.page \in Pages /\ found[r.page] \in View /\ r.client \in Clients
    BY <1>2 DEF Request
  <2>2. QED
    BY <2>1 DEF WriteOf, View
<1> HIDE DEF shown, found, r
<1>9. /\ view' \in [Clients -> [Pages -> View]] /\ view'[c] = shown
      /\ \A d \in Clients \ {c} : view'[d] = view[d]
  BY <1>1, <1>3, <1>5 DEF TypeOK
<1>10. ClientTypes'
  BY <1>1, <1>4, <1>6, <1>7, <1>8, <1>9 DEF TypeOK, ClientTypes
<1>11. ClientOK(c)'
  <2>1. Shown(page_versions', shown) /\ Honest(page_versions', NoRequest(c))
    BY <1>3, <1>6 DEF Honest, NoRequest
  <2>2. QED
    BY <1>4, <1>9, <2>1, NoReplyAnswers DEF ClientOK, NoRequest
<1>12. ClientsOK'
  BY <1>1, <1>4, <1>9, <1>11, ClientStays DEF ClientsOK
<1>13. AckedInHistory'
  BY <1>1, <1>6, <1>7 DEF AckedInHistory
<1>14. QED
  BY <1>1, <1>6, <1>10, <1>12, <1>13, RequestsStay DEF ClientHalf

(* A handler's answer reaches the client that still waits for it.          *)
LEMMA HandleKeeps ==
  ASSUME IInv, Extends, NEW r \in net, Handle(r)
  PROVE  ClientHalf'
<1>1. TypeOK /\ RequestsHonest /\ ClientsOK /\ AckedInHistory
  BY DEF IInv
<1>2. PICK status, found : Answer(r, status, found) /\ Truthful(r, status, found)
  BY HandleAnswers
<1> DEFINE c == r.client
           a == [status |-> status, found |-> found]
<1>3. c \in Clients /\ r \in Request /\ r.op # "none"
  BY <1>1 DEF TypeOK, Request, RequestsHonest
<1>4. a \in Reply /\ Answered(page_versions', r, a)
  BY <1>2 DEF Truthful, Reply
<1>5. /\ net' = net \ {r} /\ waiting' = waiting /\ view' = view
      /\ issued' = issued /\ acked' = acked
      /\ reply' = IF waiting[c] = r THEN [reply EXCEPT ![c] = a] ELSE reply
  BY <1>2 DEF Answer
<1> HIDE DEF a, c
<1>6. /\ reply' \in [Clients -> Reply]
      /\ \A d \in Clients : reply'[d] = reply[d] \/ (waiting[d] = r /\ reply'[d] = a)
  BY <1>1, <1>3, <1>4, <1>5 DEF TypeOK
<1>7. ClientTypes'
  BY <1>1, <1>5, <1>6 DEF TypeOK, ClientTypes
<1>8. ASSUME NEW d \in Clients PROVE ClientOK(d)'
  <2>1. CASE reply'[d] = reply[d]
    BY <1>1, <1>5, <2>1, ClientStays DEF ClientsOK
  <2>2. CASE waiting[d] = r /\ reply'[d] = a
    <3>1. ClientOK(d)
      BY <1>1 DEF ClientsOK
    <3>2. Shown(page_versions', view'[d])
      BY <1>5, <3>1, ShownStays DEF ClientOK
    <3>3. Honest(page_versions', waiting'[d])
      BY <1>3, <1>5, <2>2, <3>1, HonestStays DEF ClientOK
    <3>4. QED
      BY <1>3, <1>4, <1>5, <2>2, <3>1, <3>2, <3>3 DEF ClientOK, Idle
  <2>3. QED
    BY <1>6, <2>1, <2>2
<1>9. ClientsOK'
  BY <1>8 DEF ClientsOK
<1>10. QED
  BY <1>1, <1>5, <1>7, <1>9, AckedStays, RequestsStay DEF ClientHalf

PhaseHalf ==
  /\ phase \in {"restoring", "open", "closing", "captured"}
  /\ captured \in [Pages -> Seq(Revision)]
  /\ Phases

(* Steps that leave the session's phase alone.                             *)
LEMMA PhaseUntouched ==
  ASSUME IInv, UNCHANGED <<phase, captured>>,
         phase = "restoring" => UNCHANGED store,
         phase \in {"closing", "captured"} => UNCHANGED <<waiting, acked>>
  PROVE  PhaseHalf'
<1>1. TypeOK /\ Phases /\ phase' = phase /\ captured' = captured
  BY DEF IInv
<1>2. phase' = "restoring" => /\ pages' = [p \in Pages |-> SeedPage(p)]
                              /\ page_versions' = [p \in Pages |-> SeedHistory(p)]
  BY <1>1 DEF Phases, store
<1>3. phase' \in {"closing", "captured"} => \A c \in Clients : Idle(c)'
  BY <1>1 DEF Phases, Idle
<1>4. phase' = "captured" => \A a \in acked' : Holds(captured', a)
  BY <1>1 DEF Phases
<1>5. QED
  BY <1>1, <1>2, <1>3, <1>4 DEF PhaseHalf, Phases, TypeOK

(* While a client is idle there is no answer for it to give up or take.    *)
LEMMA PendingOnlyWhileOpen ==
  ASSUME IInv, NEW c \in Clients, GiveUp(c) \/ Deliver(c)
  PROVE  phase \notin {"closing", "captured"}
  BY DEF IInv, Phases, ClientsOK, ClientOK, GiveUp, Deliver

LEMMA SendStep ==
  ASSUME IInv, Extends, NEW c \in Clients,
         NEW op \in {"get_page", "get_page_versions", "search_pages", "create_page", "update_page"},
         NEW p \in Pages, NEW expected \in Nat \cup {NoIfVersion, BadIfVersion},
         NEW content \in Texts, NEW seen \in Texts,
         seen # Unset => Entry(page_versions, p, expected, seen),
         op = "create_page" => content # Unset /\ seen = Unset,
         Send(c, op, p, expected, content, seen)
  PROVE  ClientHalf' /\ PhaseHalf'
<1>1. ClientHalf'
  BY SendKeeps
<1>2. phase = "open" /\ UNCHANGED <<phase, captured>>
  BY DEF Send
<1>3. QED
  BY <1>1, <1>2, PhaseUntouched

(* Every step keeps what the clients, the requests and the phases promise. *)
LEMMA OtherHalves ==
  ASSUME IInv, [Next]_vars
  PROVE  ClientHalf' /\ PhaseHalf'
<1>1. TypeOK /\ HistoryMatchesPage /\ NoLostUpdate /\ ClientsOK /\ AckedInHistory /\ Phases
  BY DEF IInv
<1>2. StoreStep /\ Extends
  BY <1>1, StoreSteps, StoreKeepsExtends
<1>3. CASE UNCHANGED vars
  BY <1>2, <1>3, ClientsUntouched, PhaseUntouched DEF vars, clients, store
<1>4. CASE RestoreSnapshot
  <2>1. UNCHANGED clients /\ phase' = "open" /\ captured' = captured
    BY <1>4 DEF RestoreSnapshot
  <2>2. PhaseHalf'
    BY <1>1, <2>1 DEF PhaseHalf, Phases, TypeOK
  <2>3. QED
    BY <1>2, <2>1, <2>2, ClientsUntouched
<1>5. CASE AgentEnds
  <2>1. UNCHANGED clients /\ phase' = "closing" /\ captured' = captured
        /\ waiting' = waiting /\ \A c \in Clients : Idle(c)
    BY <1>5 DEF AgentEnds, clients
  <2>2. PhaseHalf'
    BY <1>1, <2>1 DEF PhaseHalf, Phases, TypeOK, Idle
  <2>3. QED
    BY <1>2, <2>1, <2>2, ClientsUntouched
<1>6. CASE CaptureSnapshot
  <2>1. /\ UNCHANGED clients /\ phase = "closing" /\ phase' = "captured"
        /\ captured' = page_versions /\ waiting' = waiting /\ acked' = acked
    BY <1>6 DEF CaptureSnapshot, clients
  <2>2. \A a \in acked' : Holds(captured', a)
    BY <1>1, <2>1 DEF AckedInHistory
  <2>3. \A c \in Clients : Idle(c)'
    BY <1>1, <2>1 DEF Phases, Idle
  <2>4. PhaseHalf'
    BY <1>1, <2>1, <2>2, <2>3 DEF PhaseHalf, Phases, TypeOK
  <2>5. QED
    BY <1>2, <2>1, <2>4, ClientsUntouched
<1>7. ASSUME NEW p \in Pages, NEW content \in Contents, HumanEdit(p, content)
      PROVE  ClientHalf' /\ PhaseHalf'
  <2>1. UNCHANGED clients /\ UNCHANGED <<phase, captured>> /\ phase = "open"
    BY <1>7 DEF HumanEdit
  <2>2. QED
    BY <1>2, <2>1, ClientsUntouched, PhaseUntouched
<1>8. ASSUME NEW r \in net, Handle(r)
      PROVE  ClientHalf' /\ PhaseHalf'
  <2>1. phase # "restoring"
    BY <1>8 DEF Handle, Serving, HandleGetPage, HandleGetPageVersions, HandleSearchPages,
                HandleCreatePage, HandleUpdatePage
  <2>2. PICK status, found : Answer(r, status, found)
    BY <1>8, HandleAnswers
  <2>3. UNCHANGED <<phase, captured, waiting, acked>>
    BY <2>2 DEF Answer
  <2>4. QED
    BY <1>2, <1>8, <2>1, <2>3, HandleKeeps, PhaseUntouched
<1>9. ASSUME NEW c \in Clients, GiveUp(c) \/ Deliver(c)
      PROVE  ClientHalf' /\ PhaseHalf'
  <2>1. UNCHANGED <<phase, captured>> /\ UNCHANGED store
    BY <1>9 DEF GiveUp, Deliver
  <2>2. PhaseHalf'
    BY <1>9, <2>1, PendingOnlyWhileOpen, PhaseUntouched
  <2>3. QED
    BY <1>2, <1>9, <2>2, GiveUpKeeps, DeliverKeeps
<1>10. Unset \in Texts /\ 0 \in Nat \cup {NoIfVersion, BadIfVersion}
  BY DEF Texts
<1>11. ASSUME NEW c \in Clients, NEW p \in Pages,
              NEW op \in {"get_page", "get_page_versions", "search_pages"}, SendRead(c, op, p)
       PROVE  ClientHalf' /\ PhaseHalf'
  BY <1>2, <1>10, <1>11, SendStep DEF SendRead
<1>12. ASSUME NEW c \in Clients, NEW p \in Pages, NEW content \in Contents,
              SendCreate(c, p, content)
       PROVE  ClientHalf' /\ PhaseHalf'
  <2>1. content \in Texts /\ content # Unset
    BY WorldAssumption DEF Texts
  <2>2. QED
    BY <1>2, <1>10, <1>12, <2>1, SendStep DEF SendCreate
<1>13. ASSUME NEW c \in Clients, NEW p \in Pages, NEW content \in Texts,
              SendUpdate(c, p, content)
       PROVE  ClientHalf' /\ PhaseHalf'
  <2>1. /\ view[c][p] \in View /\ view[c][p] # NoView /\ ClientOK(c)
        /\ Send(c, "update_page", p, view[c][p].version, content, view[c][p].content)
    BY <1>1, <1>13 DEF SendUpdate, TypeOK, ClientsOK
  <2>2. Entry(page_versions, p, view[c][p].version, view[c][p].content)
    BY <2>1 DEF ClientOK, Shown
  <2>3. view[c][p].version \in Nat \cup {NoIfVersion, BadIfVersion} /\ view[c][p].content \in Texts
    BY <2>1 DEF View
  <2>4. QED
    BY <1>2, <2>1, <2>2, <2>3, SendStep
<1>14. ASSUME NEW guess \in Guesses, NEW p \in Pages, NEW content \in Texts,
              SendGuess(guess[1], p, guess[2], content)
       PROVE  ClientHalf' /\ PhaseHalf'
  <2>1. guess[1] \in Clients /\ guess[2] \in Nat \cup {NoIfVersion, BadIfVersion}
    BY WorldAssumption
  <2>2. Send(guess[1], "update_page", p, guess[2], content, Unset)
    BY <1>14 DEF SendGuess
  <2>3. QED
    BY <1>2, <1>10, <2>1, <2>2, SendStep
<1>15. QED
  BY <1>3, <1>4, <1>5, <1>6, <1>7, <1>8, <1>9, <1>11, <1>12, <1>13, <1>14 DEF Next

----------------------------------------------------------------------------
(* The theorems.                                                           *)

LEMMA SeedsAreTyped ==
  ASSUME NEW p \in Pages
  PROVE  SeedPage(p) \in Page /\ SeedHistory(p) \in Seq(Revision)
<1>1. CASE p \in Seeded
  <2>1. SeedContent[p] \in Contents /\ SeedOwner[p] \in Authors
    BY <1>1, WorldAssumption DEF Authors
  <2> DEFINE first == [version |-> 1, content |-> SeedContent[p], by |-> Trusted, seen |-> Unset]
  <2>2. first \in Revision
    BY <2>1 DEF Revision, Authors, Texts
  <2>3. SeedHistory(p) = << first >> /\ << first >> \in Seq(Revision)
    BY <1>1, <2>2 DEF SeedHistory
  <2>4. SeedPage(p) \in Page
    BY <1>1, <2>1 DEF SeedPage, Page, Texts
  <2>5. QED
    BY <2>3, <2>4
<1>2. CASE p \notin Seeded
  BY <1>2 DEF SeedPage, SeedHistory, NoPage, Page, Texts, Authors
<1>3. QED
  BY <1>1, <1>2

LEMMA SeedsAgree ==
  ASSUME NEW p \in Pages
  PROVE  /\ Len(SeedHistory(p)) = SeedPage(p).version
         /\ DOMAIN SeedHistory(p) = 1 .. SeedPage(p).version
         /\ SeedPage(p).version \in {0, 1}
         /\ SeedPage(p).version = 1 => /\ SeedHistory(p)[1].version = 1
                                       /\ SeedHistory(p)[1].content = SeedPage(p).content
<1>1. CASE p \in Seeded
  BY <1>1 DEF SeedPage, SeedHistory
<1>2. CASE p \notin Seeded
  BY <1>2 DEF SeedPage, SeedHistory, NoPage
<1>3. QED
  BY <1>1, <1>2

LEMMA InitHolds == Init => IInv
<1> SUFFICES ASSUME Init PROVE IInv
  OBVIOUS
<1>1. TypeOK
  <2>1. pages \in [Pages -> Page] /\ page_versions \in [Pages -> Seq(Revision)]
    BY SeedsAreTyped DEF Init
  <2>2. waiting \in [Clients -> Request] /\ reply \in [Clients -> Reply]
    BY NoRequestType, NoReplyType DEF Init
  <2>3. view \in [Clients -> [Pages -> View]]
    BY NothingFoundType DEF Init
  <2>4. QED
    BY <2>1, <2>2, <2>3 DEF Init, TypeOK
<1>2. HistoryMatchesPage
  BY SeedsAgree DEF Init, HistoryMatchesPage, Exists
<1>3. NoLostUpdate
  BY SeedsAgree DEF Init, NoLostUpdate
<1>4. ClientsOK
  <2> SUFFICES ASSUME NEW c \in Clients PROVE ClientOK(c)
    BY DEF ClientsOK
  <2>1. waiting[c] = NoRequest(c) /\ reply[c] = NoReply /\ view[c] = NothingFound
    BY DEF Init
  <2>2. QED
    BY <2>1, NoReplyAnswers DEF ClientOK, Shown, Honest, NothingFound, NoRequest
<1>5. QED
  BY <1>1, <1>2, <1>3, <1>4 DEF Init, IInv, RequestsHonest, AckedInHistory, Phases

LEMMA StepHolds == IInv /\ [Next]_vars => IInv'
<1> SUFFICES ASSUME IInv, [Next]_vars PROVE IInv'
  OBVIOUS
<1>1. StoreStep /\ TypeOK /\ HistoryMatchesPage /\ NoLostUpdate
  BY StoreSteps DEF IInv
<1>2. /\ pages' \in [Pages -> Page] /\ page_versions' \in [Pages -> Seq(Revision)]
      /\ HistoryMatchesPage' /\ NoLostUpdate'
  BY <1>1, StoreKeepsHistory
<1>3. ClientHalf' /\ PhaseHalf'
  BY OtherHalves
<1>4. TypeOK'
  BY <1>2, <1>3 DEF TypeOK, ClientHalf, ClientTypes, PhaseHalf
<1>5. QED
  BY <1>2, <1>3, <1>4 DEF IInv, ClientHalf, PhaseHalf

THEOREM InvariantHolds == Spec => []IInv
  BY InitHolds, StepHolds, PTL DEF Spec

(* Every variable has its type in every reachable state.                   *)
THEOREM TypeCorrect == Spec => []TypeOK
<1>1. IInv => TypeOK
  BY DEF IInv
<1>2. QED
  BY <1>1, InvariantHolds, PTL

(* store.py keeps a page, its version and its history in agreement.        *)
THEOREM HistoryCorrect == Spec => []HistoryMatchesPage
<1>1. IInv => HistoryMatchesPage
  BY DEF IInv
<1>2. QED
  BY <1>1, InvariantHolds, PTL

(* With update_page's If-Version precondition no client's edit loses a     *)
(* revision the client had not seen, a human's included, for any number of *)
(* clients, pages, late requests and human edits.                          *)
THEOREM NoLostUpdateCorrect == Spec => []NoLostUpdate
<1>1. IInv => NoLostUpdate
  BY DEF IInv
<1>2. QED
  BY <1>1, InvariantHolds, PTL

(* What an agent was told it wrote is in the history and in the snapshot.  *)
THEOREM AckedWritesCorrect == Spec => []AckedWritesKept
<1>1. IInv => AckedWritesKept
  BY DEF IInv, Phases, AckedInHistory, AckedWritesKept
<1>2. QED
  BY <1>1, InvariantHolds, PTL

(* A 409 always has a later revision behind it.                            *)
THEOREM ConflictCorrect == Spec => []ConflictHasWinner
<1>1. IInv => ConflictHasWinner
  BY DEF IInv, ClientsOK, ClientOK, Answered, ConflictHasWinner
<1>2. QED
  BY <1>1, InvariantHolds, PTL

----------------------------------------------------------------------------
(* The refinement.                                                         *)

(* One appended revision is one operation of the abstract specification.   *)
LEMMA GrowthIsPromised ==
  ASSUME TypeOK, HistoryMatchesPage, NEW p \in Pages, NEW rev \in Revision, Grows(p, rev)
  PROVE  Promise!Next
<1> DEFINE h == page_versions[p]
<1>1. /\ h \in Seq(Revision) /\ Len(h) = pages[p].version /\ Len(h) \in Nat
      /\ page_versions \in [Pages -> Seq(Revision)]
  BY DEF TypeOK, HistoryMatchesPage
<1>2. /\ rev.version = Len(h) + 1
      /\ rev.seen # Unset => Exists(p) /\ rev.seen = pages[p].content
      /\ page_versions' = [page_versions EXCEPT ![p] = Append(h, rev)]
  BY <1>1 DEF Grows
<1>3. rev.content \in Contents /\ rev.by \in Authors
  BY DEF Revision
<1>4. rev = [version |-> Len(h) + 1, content |-> rev.content, by |-> rev.by, seen |-> rev.seen]
  BY <1>2 DEF Revision
<1>5. rev = Promise!NewRevision(p, rev.content, rev.by, rev.seen)
  BY <1>4 DEF Promise!NewRevision
<1>6. h = << >> <=> ~Exists(p)
  BY <1>1 DEF Exists
<1>7. CASE h = << >>
  <2>1. rev.seen = Unset
    BY <1>2, <1>6, <1>7
  <2>2. Promise!Create(p, rev.by, rev.content)
    BY <1>2, <1>5, <1>7, <2>1 DEF Promise!Create
  <2>3. QED
    BY <1>3, <2>2 DEF Promise!Next
<1>8. CASE h # << >> /\ rev.seen = Unset
  <2>1. Promise!Overwrite(p, rev.by, rev.content)
    BY <1>2, <1>5, <1>8 DEF Promise!Overwrite
  <2>2. QED
    BY <1>3, <2>1 DEF Promise!Next
<1>9. CASE h # << >> /\ rev.seen # Unset
  <2>1. rev.seen = Promise!Current(p)
    BY <1>2, <1>9 DEF HistoryMatchesPage, Promise!Current
  <2>2. Promise!Amend(p, rev.by, rev.content)
    BY <1>2, <1>5, <1>9, <2>1 DEF Promise!Amend
  <2>3. QED
    BY <1>3, <2>2 DEF Promise!Next
<1>10. QED
  BY <1>7, <1>8, <1>9

(* The world, with its requests, timeouts and If-Version headers, is an    *)
(* implementation of atomic read-modify-write of growing histories.        *)
THEOREM WorldImplementsPages == Spec => ImplementsVersionedPages
<1>1. Init => Promise!Init
  BY DEF Init, Promise!Init
<1>2. IInv /\ [Next]_vars => [Promise!Next]_page_versions
  <2> SUFFICES ASSUME IInv, [Next]_vars PROVE [Promise!Next]_page_versions
    OBVIOUS
  <2>1. StoreStep /\ TypeOK /\ HistoryMatchesPage
    BY StoreSteps DEF IInv
  <2>2. QED
    BY <2>1, GrowthIsPromised DEF StoreStep, store
<1>3. QED
  BY <1>1, <1>2, InvariantHolds, PTL DEF Spec, Promise!Spec, ImplementsVersionedPages
=============================================================================
