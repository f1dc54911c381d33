------------------------- MODULE PermissionResolver -------------------------
(***************************************************************************)
(* Who may read, edit and create pages: PermissionResolver of              *)
(* domains/confluence/world/api/routes.py.                                 *)
(*                                                                         *)
(* The permission maps of a snapshot have no fixed shape. Whatever its     *)
(* shape, the resolver finds some entries for a resource, and an entry     *)
(* grants when one of its parts does. Here an entry is the set of those    *)
(* parts, its clauses: a bare list of names, a list of names under a key   *)
(* ("readers"), or a word given to names ("alice: editor").                *)
(***************************************************************************)
EXTENDS Naturals, Sequences

CONSTANTS
  Pages, Spaces,    (* resource identifiers                                 *)
  Users,
  UserOrder,        (* the users in the order of the snapshot's map         *)
  Aliases,          (* the names each user goes by: id, name, e-mail ...    *)
  GlobalAdmins,     (* users that are flagged, or have the role of, admin   *)
  SpaceOf,          (* the space of each page                               *)
  SpaceAdmins       (* <<user, space>>: the space's owner or administrator  *)

ASSUME ResolverAssumption ==
  /\ Pages \cap Spaces = {}
  /\ UserOrder \in Seq(Users) /\ Users = {UserOrder[i] : i \in DOMAIN UserOrder}
  /\ \A u \in Users : u \in Aliases[u]
  /\ GlobalAdmins \subseteq Users
  /\ SpaceOf \in [Pages -> Spaces]
  /\ SpaceAdmins \subseteq Users \X Spaces

ReadKeys == {"read", "view", "reader", "readers", "viewers"}
WriteKeys == {"write", "edit", "editor", "editors", "update", "manage", "admin", "admins"}
FullAccessKeys == {"users", "actors", "members", "allowed", "allow", "access"}
AdminTokens == {"admin", "administrator", "owner", "full", "all"}

(* "writers" is a key of the fixtures that the resolver does not know.     *)
Words == ReadKeys \cup WriteKeys \cup FullAccessKeys \cup AdminTokens \cup {"writers"}
Names == UNION {Aliases[u] : u \in Users} \cup {"*"}

Clause == [form: {"bare", "list", "role"}, word: Words, who: SUBSET Names]
Resources == Pages \cup Spaces

(* The entries everybody is subject to, and those stored under an actor.   *)
Permissions ==
  [shared: [Resources -> SUBSET SUBSET Clause],
   scoped: [Users -> [Resources -> SUBSET SUBSET Clause]]]

----------------------------------------------------------------------------

(* Mutant: a key that lets edit is not looked at for a read.               *)
PermitsApart(clause, operation) ==
  \/ clause.form = "bare"
  \/ /\ clause.form = "list"
     /\ \/ clause.word \in FullAccessKeys
        \/ operation = "read" /\ clause.word \in ReadKeys
        \/ operation = "write" /\ clause.word \in WriteKeys
  \/ clause.form = "role" /\ clause.word \in AdminTokens \cup WriteKeys

(* _entry_grants and _scoped_value_grants: what a clause lets its names    *)
(* do. The two tables of words are not the same.                           *)
Permits(clause, operation) ==
  \/ clause.form = "bare"
  \/ /\ clause.form = "list"
     /\ \/ clause.word \in FullAccessKeys \cup WriteKeys
        \/ operation = "read" /\ clause.word \in ReadKeys
  \/ /\ clause.form = "role"
     /\ \/ clause.word \in AdminTokens \cup WriteKeys
        \/ operation = "read" /\ clause.word \in ReadKeys

(* _actor_in_value                                                         *)
Concerns(clause, user) == clause.who \cap (Aliases[user] \cup {"*"}) # {}

EntryGrants(entry, user, operation) ==
  \E clause \in entry : Concerns(clause, user) /\ Permits(clause, operation)

EntriesGrant(entries, user, operation) ==
  \E entry \in entries : EntryGrants(entry, user, operation)

(* _permission_entries: an entry stored under one actor's name is no entry *)
(* at all for the others.                                                  *)
PermissionEntries(permissions, resource, user) ==
  permissions.shared[resource] \cup permissions.scoped[user][resource]

(* Mutant: the page's entries add to the space's.                          *)
CanAccessEither(permissions, page, owner, user, operation) ==
  \/ user \in GlobalAdmins \/ owner \in Aliases[user]
  \/ EntriesGrant(PermissionEntries(permissions, page, user), user, operation)
  \/ EntriesGrant(PermissionEntries(permissions, SpaceOf[page], user), user, operation)

(* _can_access_page: where both scopes have entries, both must grant.      *)
CanAccessPage(permissions, page, owner, user, operation) ==
  LET ofPage == PermissionEntries(permissions, page, user)
      ofSpace == PermissionEntries(permissions, SpaceOf[page], user)
      pageGrants == EntriesGrant(ofPage, user, operation)
      spaceGrants == EntriesGrant(ofSpace, user, operation)
  IN \/ user \in GlobalAdmins
     \/ owner \in Aliases[user]
     \/ IF ofPage # {} /\ ofSpace # {}
        THEN pageGrants /\ spaceGrants
        ELSE pageGrants \/ spaceGrants

can_create_page(permissions, space, user) ==
  \/ user \in GlobalAdmins
  \/ <<user, space>> \in SpaceAdmins
  \/ EntriesGrant(PermissionEntries(permissions, space, user), user, "write")

(* _resolve_actor: the first user that goes by the name in X-Actor.        *)
ResolveActor(name) ==
  UserOrder[CHOOSE i \in DOMAIN UserOrder :
              /\ name \in Aliases[UserOrder[i]]
              /\ \A j \in 1..(i - 1) : name \notin Aliases[UserOrder[j]]]

=============================================================================
