----------------------------- MODULE MCTaskRun -----------------------------
(***************************************************************************)
(* The permissions fixture of the Confluence domain, cut down to the page  *)
(* a task is about, a page of another space and a page that can be made;   *)
(* with its own permission map, and with others the API accepts.           *)
(***************************************************************************)
EXTENDS TaskRun

MCPages == {"page-6", "page-1", "page-7"}
MCSpaces == {"FIN", "ENG"}
MCUsers == {"alice", "bob", "carol"}
MCUserOrder == << "alice", "bob", "carol" >>
MCAliases == [alice |-> {"alice", "Alice Chen"}, bob |-> {"bob"}, carol |-> {"carol"}]
MCSpaceOf == [p \in MCPages |-> IF p = "page-1" THEN "ENG" ELSE "FIN"]
MCSpaceAdmins == {<<"carol", "FIN">>, <<"alice", "ENG">>}

MCSeedBody == [p \in {"page-6", "page-1"} |->
                 IF p = "page-6" THEN {"overview", "old"} ELSE {"deployment"}]
MCSeedOwner == [p \in {"page-6", "page-1"} |-> IF p = "page-6" THEN "carol" ELSE "alice"]

MCDrafts ==
  {{"overview", "new"}, {"overview", "old", "new"}, {"overview", "note", "new"},
   {"new"}}

List(key, who) == [form |-> "list", word |-> key, who |-> who]
Role(word, who) == [form |-> "role", word |-> word, who |-> who]
Bare(who) == [form |-> "bare", word |-> "all", who |-> who]

Nothing == [r \in MCPages \cup MCSpaces |-> {}]
OnlyShared(entries) ==
  [shared |-> [r \in MCPages \cup MCSpaces |->
                 IF r \in DOMAIN entries THEN entries[r] ELSE {}],
   scoped |-> [u \in MCUsers |-> Nothing]]

Fixture ==
  LET finance == {{List("readers", {"alice", "carol"}), List("writers", {"carol"})}}
  IN OnlyShared([r \in {"FIN", "ENG", "page-6"} |->
       IF r = "ENG"
       THEN {{List("readers", {"alice", "bob", "carol"}), List("writers", {"alice"})}}
       ELSE finance])

(* An editor of the space whom the page's own list lets read only.         *)
PageRestricts ==
  OnlyShared([r \in {"FIN", "page-6"} |->
    IF r = "FIN" THEN {{List("editors", {"Alice Chen", "bob"})}}
    ELSE {{List("viewers", {"alice"})}}])

(* Everybody is a member of the space; the page has an empty entry.        *)
EmptyEntry ==
  OnlyShared([r \in {"FIN", "page-6"} |->
    IF r = "FIN" THEN {{List("members", {"*"})}} ELSE {{}}])

(* Words given to actors, some of them under the actor's own name.         *)
ActorScoped ==
  [OnlyShared([r \in {"FIN"} |-> {{Role("reader", {"*"})}, {Role("editor", {"alice"})}}])
     EXCEPT !.scoped["bob"]["page-6"] = {{Role("administrator", {"*"})}}]

BareLists ==
  OnlyShared([r \in {"page-6", "ENG"} |->
    IF r = "ENG" THEN {{Bare({"bob"})}} ELSE {{Bare({"*"})}}])

MCGrants == {Fixture, PageRestricts, EmptyEntry, ActorScoped, BareLists}
FixtureOnly == {Fixture}
=============================================================================
