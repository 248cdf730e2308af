-------------------------------- MODULE Catalog --------------------------------
(***************************************************************************)
(* The catalog: four tables in the storage, and the mirror of them that    *)
(* every search reads (CatalogStore in server/src/catalog.rs).  A handler  *)
(* of the admin API (server/src/handlers/admin.rs) writes one table and    *)
(* then reloads the mirror: it reads the four tables at once, in four      *)
(* queries that nothing orders, and replaces the mirror with what it read. *)
(* Handlers run at the same time, and a reload does not wait for another.  *)
(*                                                                         *)
(* Of a row only what the candidates of a search depend on is kept.  A     *)
(* write of other columns, one that matches no row and POST /admin/reload  *)
(* are then all the same: a reload.  A request that is refused before it   *)
(* writes changes nothing and is no step.  An edit with an SQL client is a *)
(* write whose handler is dropped before it reloads.                       *)
(*                                                                         *)
(* Deleting a group takes two statements.  SQLite runs both under the lock *)
(* of the connection, Postgres does not; the module has Postgres's steps.  *)
(***************************************************************************)
EXTENDS Naturals

CONSTANTS
  Admin,        \* handlers that run at the same time
  Provider, Key, Slug,
  ProviderOf,   \* the provider of each key
  Stored,       \* what an earlier run may have left in the tables
  MaxId,        \* the last id it gave to a group
  MaxWrites     \* bound on the writes

Table == {"providers", "keys", "groups", "members"}

\* Providers and keys are deactivated, never deleted.  Nothing deactivates a
\* group or disables a member; one that is counts as absent.
Row == {"absent", "active", "inactive"}

\* A group has a new id each time it is created; NoGroup is no id.
Id == Nat \ {0}
NoGroup == 0

Tables ==
  [providers : [Provider -> Row], keys : [Key -> Row],
   groups : [Slug -> Id \union {NoGroup}], members : SUBSET (Id \X Key)]

\* foreign_keys and UNIQUE: the groups that members are in exist, with
\* different ids.
Sound(catalog) ==
  /\ \A m \in catalog.members : \E s \in Slug : catalog.groups[s] = m[1]
  /\ \A s, r \in Slug :
       catalog.groups[s] = catalog.groups[r] /\ s # r => catalog.groups[s] = NoGroup

ASSUME CatalogAssumption ==
  /\ ProviderOf \in [Key -> Provider]
  /\ \A catalog \in Stored :
       catalog \in Tables /\ Sound(catalog)
       /\ \A s \in Slug : catalog.groups[s] <= MaxId
  /\ MaxId \in Nat /\ MaxWrites \in Nat

VARIABLES
  db,          \* the tables
  mirror,      \* CatalogStore.inner
  issued,      \* ids given to groups
  pc,
  target,      \* the member operation of a handler: the group it looked up
  seen,        \* the tables a reload has read
  unread,      \* those it has not
  writes,      \* history: the version of the tables, one more for each write
  from,        \* history: the version at which a reload began
  alone,       \* history: no other reload ran beside this one so far
  covered,     \* history: `from' of the reload that is in the mirror
  finished,    \* history: the largest `from' of a reload that was answered
  overlapped,  \* history: the reload in the mirror did not run alone
  absent,      \* history: the last version without each group
  joined       \* history: the last version with each key in each group

handler == <<pc, target, seen, unread, from, alone>>
tables == <<db, issued, writes, absent, joined>>
store == <<mirror, covered, finished, overlapped>>
vars == <<handler, tables, store>>

\* The group_members of a group, by its slug.
Members(catalog, s) ==
  {k \in Key : catalog.groups[s] # NoGroup
               /\ <<catalog.groups[s], k>> \in catalog.members}

\* The candidates of a search in group s: its members, or else every key when
\* there is no such group.  The selector drops those of inactive providers.
Candidates(catalog, s) ==
  IF catalog.groups[s] # NoGroup
  THEN {k \in Members(catalog, s) :
          catalog.keys[k] = "active" /\ catalog.providers[ProviderOf[k]] # "absent"}
  ELSE {k \in Key :
          catalog.keys[k] = "active" /\ catalog.providers[ProviderOf[k]] = "active"}

NoTables ==
  [providers |-> [p \in Provider |-> "absent"], keys |-> [k \in Key |-> "absent"],
   groups |-> [s \in Slug |-> NoGroup], members |-> {}]

\* After the start: CatalogStore::new has loaded the mirror, again after the seed.
Init ==
  /\ db \in Stored
  /\ mirror = db
  /\ issued = MaxId
  /\ pc = [a \in Admin |-> "idle"]
  /\ target = [a \in Admin |-> NoGroup]
  /\ seen = [a \in Admin |-> NoTables] /\ unread = [a \in Admin |-> {}]
  /\ writes = 1 /\ covered = 1 /\ finished = 1
  /\ from = [a \in Admin |-> 1] /\ alone = [a \in Admin |-> TRUE]
  /\ overlapped = FALSE
  /\ absent = [s \in Slug |-> IF db.groups[s] = NoGroup THEN 1 ELSE 0]
  /\ joined = [s \in Slug |-> [k \in Key |-> IF k \in Members(db, s) THEN 1 ELSE 0]]
-----------------------------------------------------------------------------
(* reload *)

Reloading(a) == pc[a] = "reading"

\* The handler begins to reload, with the tables at this version.
BeginReload(a, version) ==
  /\ pc' = [pc EXCEPT ![a] = "reading"]
  /\ target' = [target EXCEPT ![a] = NoGroup]
  /\ unread' = [unread EXCEPT ![a] = Table]
  /\ from' = [from EXCEPT ![a] = version]
  /\ alone' = [b \in Admin |->
                 IF b = a THEN \A c \in Admin : ~Reloading(c)
                 ELSE alone[b] /\ ~Reloading(b)]
  /\ UNCHANGED <<seen, store>>

Reload(a) ==
  /\ pc[a] = "idle"
  /\ BeginReload(a, writes)
  /\ UNCHANGED tables

ReadTable(a, t) ==
  /\ Reloading(a) /\ t \in unread[a]
  /\ seen' = [seen EXCEPT ![a] = [@ EXCEPT ![t] = db[t]]]
  /\ unread' = [unread EXCEPT ![a] = @ \ {t}]
  /\ UNCHANGED <<pc, target, from, alone, tables, store>>

Leave(a) ==
  /\ pc' = [pc EXCEPT ![a] = "idle"]
  /\ target' = [target EXCEPT ![a] = NoGroup]
  /\ seen' = [seen EXCEPT ![a] = NoTables]
  /\ unread' = [unread EXCEPT ![a] = {}]
  /\ from' = [from EXCEPT ![a] = 1] /\ alone' = [alone EXCEPT ![a] = TRUE]

\* Mutant: one of the lists is forgotten.
InstallForgetsGroups(a) ==
  /\ Reloading(a) /\ unread[a] = {}
  /\ mirror' = [seen[a] EXCEPT !.groups = mirror.groups]
  /\ covered' = from[a]
  /\ finished' = IF from[a] > finished THEN from[a] ELSE finished
  /\ overlapped' = ~alone[a]
  /\ Leave(a)
  /\ UNCHANGED tables

\* The mirror is replaced and the request answered.
Install(a) ==
  /\ Reloading(a) /\ unread[a] = {}
  /\ mirror' = seen[a]
  /\ covered' = from[a]
  /\ finished' = IF from[a] > finished THEN from[a] ELSE finished
  /\ overlapped' = ~alone[a]
  /\ Leave(a)
  /\ UNCHANGED tables
-----------------------------------------------------------------------------
(* Writes *)

\* A statement that leaves table t with these rows.
Commit(t, rows) ==
  LET after == [db EXCEPT ![t] = rows] IN
  /\ writes <= MaxWrites
  /\ db' = after
  /\ writes' = writes + 1
  /\ absent' = [s \in Slug |-> IF after.groups[s] = NoGroup THEN writes + 1
                               ELSE absent[s]]
  /\ joined' = [s \in Slug |-> [k \in Key |->
                  IF k \in Members(after, s) THEN writes + 1 ELSE joined[s][k]]]

\* The statements of the storage, those that match a row: create_provider and
\* update_provider_fields ...
InsertProvider(p) ==
  /\ db.providers[p] = "absent"
  /\ Commit("providers", [db.providers EXCEPT ![p] = "active"])

UpdateProvider(p, row) ==
  /\ db.providers[p] # "absent"
  /\ Commit("providers", [db.providers EXCEPT ![p] = row])

\* ... create_api_key, which needs the provider, update_api_key_fields and
\* soft_delete_api_key ...
InsertKey(k) ==
  /\ db.keys[k] = "absent" /\ db.providers[ProviderOf[k]] # "absent"
  /\ Commit("keys", [db.keys EXCEPT ![k] = "active"])

UpdateKey(k, row) ==
  /\ db.keys[k] # "absent"
  /\ Commit("keys", [db.keys EXCEPT ![k] = row])

SoftDeleteKey(k) ==
  /\ db.keys[k] # "absent"
  /\ Commit("keys", [db.keys EXCEPT ![k] = "inactive"])

\* ... create_group, whose slug is UNIQUE, and upsert_group, which leaves the
\* id of a group alone ...
InsertGroup(s) ==
  /\ db.groups[s] = NoGroup
  /\ Commit("groups", [db.groups EXCEPT ![s] = issued + 1])
  /\ issued' = issued + 1

UpsertGroup(s) ==
  \/ InsertGroup(s)
  \/ db.groups[s] # NoGroup /\ Commit("groups", db.groups) /\ UNCHANGED issued

\* Mutant: PRAGMA foreign_keys is off.
InsertMemberUnchecked(id, k) ==
  /\ <<id, k>> \notin db.members
  /\ db.keys[k] # "absent"
  /\ Commit("members", db.members \union {<<id, k>>})

\* ... add_group_member, which fails if there is no such group any more or the
\* key is in it, remove_group_member and clear_group_members.
InsertMember(id, k) ==
  /\ <<id, k>> \notin db.members
  /\ db.keys[k] # "absent"
  /\ \E s \in Slug : db.groups[s] = id
  /\ Commit("members", db.members \union {<<id, k>>})

DeleteMember(id, k) == Commit("members", db.members \ {<<id, k>>})

MembersLeft(id) == {m \in db.members : m[1] # id}

DeleteMembersOf(id) == Commit("members", MembersLeft(id))
-----------------------------------------------------------------------------
(* Handlers that write *)

SaveProvider(a, p, row) ==
  /\ pc[a] = "idle"
  /\ (row = "active" /\ InsertProvider(p)) \/ UpdateProvider(p, row)
  /\ BeginReload(a, writes + 1)
  /\ UNCHANGED issued

SaveKey(a, k, row) ==
  /\ pc[a] = "idle"
  /\ \/ row = "active" /\ InsertKey(k)
     \/ UpdateKey(k, row)
     \/ row = "inactive" /\ SoftDeleteKey(k)
  /\ BeginReload(a, writes + 1)
  /\ UNCHANGED issued

CreateGroup(a, s) ==
  /\ pc[a] = "idle"
  /\ UpsertGroup(s)
  /\ BeginReload(a, writes + 1)

\* The first statement of delete_group.
DeleteMembers(a, s) ==
  /\ pc[a] = "idle"
  /\ DeleteMembersOf(db.groups[s])
  /\ pc' = [pc EXCEPT ![a] = "deleting"]
  /\ target' = [target EXCEPT ![a] = s]
  /\ UNCHANGED <<seen, unread, from, alone, issued, store>>

\* The second one.  It deletes the group that has the slug by now, if any, and
\* fails when that has members.
DeleteGroup(a, s) ==
  /\ pc[a] = "deleting" /\ target[a] = s
  /\ MembersLeft(db.groups[s]) = db.members
  /\ Commit("groups", [db.groups EXCEPT ![s] = NoGroup])
  /\ BeginReload(a, writes + 1)
  /\ UNCHANGED issued

\* Mutant: a group that is not there is looked up as the empty id.
LookUpUnchecked(a, s) ==
  /\ pc[a] = "idle"
  /\ pc' = [pc EXCEPT ![a] = "looked_up"]
  /\ target' = [target EXCEPT ![a] = mirror.groups[s]]
  /\ UNCHANGED <<seen, unread, from, alone, tables, store>>

\* The member operations look the group up in the mirror, or answer 404 ...
LookUp(a, s) ==
  /\ pc[a] = "idle"
  /\ mirror.groups[s] # NoGroup
  /\ pc' = [pc EXCEPT ![a] = "looked_up"]
  /\ target' = [target EXCEPT ![a] = mirror.groups[s]]
  /\ UNCHANGED <<seen, unread, from, alone, tables, store>>

\* ... and then write under the id they found.
AddMember(a, k) ==
  /\ pc[a] = "looked_up"
  /\ InsertMember(target[a], k)
  /\ BeginReload(a, writes + 1)
  /\ UNCHANGED issued

RemoveMember(a, k) ==
  /\ pc[a] = "looked_up"
  /\ DeleteMember(target[a], k)
  /\ BeginReload(a, writes + 1)
  /\ UNCHANGED issued

ClearMembers(a) ==
  /\ pc[a] = "looked_up"
  /\ DeleteMembersOf(target[a])
  /\ BeginReload(a, writes + 1)
  /\ UNCHANGED issued

\* A statement fails, or the client hangs up: the handler is dropped where it
\* is, with what it wrote and without a reload.
Abandon(a) ==
  /\ pc[a] # "idle"
  /\ Leave(a)
  /\ UNCHANGED <<tables, store>>

Handler(a) ==
  \/ Reload(a) \/ Install(a) \/ Abandon(a)
  \/ \E t \in Table : ReadTable(a, t)
  \/ \E p \in Provider, row \in {"active", "inactive"} : SaveProvider(a, p, row)
  \/ \E k \in Key, row \in {"active", "inactive"} : SaveKey(a, k, row)
  \/ \E s \in Slug : CreateGroup(a, s) \/ LookUp(a, s)
                     \/ DeleteMembers(a, s) \/ DeleteGroup(a, s)
  \/ \E k \in Key : AddMember(a, k) \/ RemoveMember(a, k)
  \/ ClearMembers(a)

Next == \E a \in Admin : Handler(a)

Spec == Init /\ [][Next]_vars
-----------------------------------------------------------------------------
(* Properties *)

TypeOK ==
  /\ db \in Tables /\ mirror \in Tables /\ issued \in Nat
  /\ pc \in [Admin -> {"idle", "looked_up", "deleting", "reading"}]
  /\ target \in [Admin -> Id \union {NoGroup} \union Slug]
  /\ \A a \in Admin : pc[a] = "looked_up" => target[a] \in Id
  /\ seen \in [Admin -> Tables] /\ unread \in [Admin -> SUBSET Table]
  /\ writes \in Nat
  /\ from \in [Admin -> Nat] /\ alone \in [Admin -> BOOLEAN]
  /\ covered \in Nat /\ finished \in Nat /\ overlapped \in BOOLEAN
  /\ absent \in [Slug -> Nat] /\ joined \in [Slug -> [Key -> Nat]]

\* "refresh the catalog" (README:93): a reload was answered that began after
\* the last write, so the mirror shows the tables.
ReloadRefreshes == finished = writes => mirror = db

\* What holds of that: a mirror installed by a reload that ran alone and began
\* after the last write shows the tables, whatever happened before.
LoneReloadRefreshes == finished = writes /\ ~overlapped => mirror = db

\* A search in a group falls back to all keys only if the group did not exist
\* at some time since the reload in the mirror began; else each candidate has
\* been a member at some time since.  Groups and members are read at different
\* times, members are written under an id that may be out of date, and a group
\* that is deleted may be created again meanwhile.
SearchStaysInGroup ==
  \A s \in Slug :
    IF mirror.groups[s] = NoGroup
    THEN absent[s] >= covered
    ELSE \A k \in Candidates(mirror, s) : joined[s][k] >= covered
=============================================================================
