---------------------------- MODULE Catalog_proofs ----------------------------
(***************************************************************************)
(* Proofs about Catalog.  What a reload has read so far, and the mirror,   *)
(* are both views of the tables, each since the version the reload began   *)
(* at: the invariant says what a view may show, table by table, and the    *)
(* steps that write preserve it for all views at once.                     *)
(***************************************************************************)
EXTENDS Catalog, TLAPS

USE DEF Id, NoGroup, Table, Row

\* The tables and their history, with everything a state has of them.
Current(d, i, w, ab, jo) ==
  /\ Sound(d)
  /\ \A s \in Slug : /\ d.groups[s] <= i /\ ab[s] <= w
                     /\ d.groups[s] = NoGroup => ab[s] = w
  /\ \A s \in Slug, k \in Key : /\ jo[s][k] <= w
                                /\ k \in Members(d, s) => jo[s][k] = w

\* A catalog c of which these tables were read since version f.
View(c, read, f, d, i, w, ab, jo) ==
  /\ f <= w
  /\ f = w => \A t \in read : c[t] = d[t]
  /\ "groups" \in read =>
       \A s \in Slug : /\ c.groups[s] <= i
                       /\ c.groups[s] = NoGroup => ab[s] >= f
                       /\ c.groups[s] # NoGroup =>
                            \A r \in Slug : d.groups[r] = c.groups[s] => r = s
  /\ "members" \in read =>
       /\ \A m \in c.members : m[1] <= i
       /\ \A s \in Slug, k \in Key :
            <<d.groups[s], k>> \in c.members => jo[s][k] >= f
  /\ "groups" \in read /\ "members" \in read =>
       \A s \in Slug, k \in Key : k \in Members(c, s) => jo[s][k] >= f

\* What a write does to the tables, as far as a view is concerned.
Grows(d, i, w, ab, jo, d2, i2, w2, ab2, jo2) ==
  /\ w2 = w + 1 /\ i <= i2
  /\ \A s \in Slug : ab2[s] >= ab[s]
  /\ \A s \in Slug, k \in Key : jo2[s][k] >= jo[s][k]
  /\ \A s \in Slug : \/ d2.groups[s] = d.groups[s]
                     \/ d2.groups[s] = NoGroup
                     \/ d2.groups[s] > i

Views ==
  /\ Current(db, issued, writes, absent, joined)
  /\ View(mirror, Table, covered, db, issued, writes, absent, joined)
  /\ \A a \in Admin : Reloading(a) =>
       View(seen[a], Table \ unread[a], from[a], db, issued, writes, absent, joined)

\* A reload that ran alone is the last one: none is older, none is answered.
Lone ==
  /\ finished <= writes
  /\ ~overlapped => covered = finished
  /\ \A a \in Admin : Reloading(a) => from[a] <= writes
  /\ \A a \in Admin : Reloading(a) /\ alone[a] =>
       from[a] >= finished /\ \A b \in Admin : Reloading(b) => b = a

CatalogInv == TypeOK /\ Views /\ Lone
-----------------------------------------------------------------------------
(* Views *)

\* A view stays one when the tables are written.
LEMMA ViewGrows ==
  ASSUME NEW c \in Tables, NEW read \in SUBSET Table, NEW f \in Nat,
         NEW d \in Tables, NEW i \in Nat, NEW w \in Nat,
         NEW ab \in [Slug -> Nat], NEW jo \in [Slug -> [Key -> Nat]],
         NEW d2 \in Tables, NEW i2 \in Nat, NEW w2 \in Nat,
         NEW ab2 \in [Slug -> Nat], NEW jo2 \in [Slug -> [Key -> Nat]],
         Grows(d, i, w, ab, jo, d2, i2, w2, ab2, jo2),
         View(c, read, f, d, i, w, ab, jo)
  PROVE  View(c, read, f, d2, i2, w2, ab2, jo2)
<1>1. f <= w2 /\ f # w2
  BY DEF View, Grows
<1>2. ASSUME "groups" \in read, NEW s \in Slug
      PROVE  /\ c.groups[s] <= i2
             /\ c.groups[s] = NoGroup => ab2[s] >= f
             /\ c.groups[s] # NoGroup =>
                  \A r \in Slug : d2.groups[r] = c.groups[s] => r = s
  <2>1. /\ c.groups[s] \in Nat /\ ab[s] \in Nat /\ ab2[s] \in Nat
        /\ \A r \in Slug : d.groups[r] \in Nat /\ d2.groups[r] \in Nat
    BY DEF Tables
  <2>2. QED
    BY <1>2, <2>1 DEF View, Grows
<1>3. ASSUME "members" \in read
      PROVE  \A m \in c.members : m[1] <= i2
  BY <1>3 DEF View, Grows, Tables
<1>4. ASSUME "members" \in read, NEW s \in Slug, NEW k \in Key,
             <<d2.groups[s], k>> \in c.members
      PROVE  jo2[s][k] >= f
  <2>1. /\ d2.groups[s] \in Id /\ d2.groups[s] <= i
        /\ jo[s][k] \in Nat /\ jo2[s][k] \in Nat
    <3>1. d2.groups[s] \in Id
      BY <1>4 DEF Tables
    <3>2. d2.groups[s] <= i
      <4>1. <<d2.groups[s], k>>[1] <= i
        BY <1>4 DEF View
      <4>2. QED
        BY <4>1
    <3>3. QED
      BY <3>1, <3>2
  <2>2. d2.groups[s] = d.groups[s]
    BY <2>1 DEF Grows
  <2>3. jo[s][k] >= f
    BY <1>4, <2>2 DEF View
  <2>4. QED
    BY <2>1, <2>3 DEF Grows
<1>5. ASSUME "groups" \in read, "members" \in read,
             NEW s \in Slug, NEW k \in Key, k \in Members(c, s)
      PROVE  jo2[s][k] >= f
  <2>1. jo[s][k] >= f
    BY <1>5 DEF View
  <2>2. jo[s][k] \in Nat /\ jo2[s][k] \in Nat
    OBVIOUS
  <2>3. QED
    BY <2>1, <2>2 DEF Grows
<1>6. QED
  BY <1>1, <1>2, <1>3, <1>4, <1>5 DEF View

\* A view with one table more.
LEMMA ViewReads ==
  ASSUME NEW c \in Tables, NEW read \in SUBSET Table, NEW f \in Nat,
         NEW d \in Tables, NEW i \in Nat, NEW w \in Nat,
         NEW ab \in [Slug -> Nat], NEW jo \in [Slug -> [Key -> Nat]],
         NEW t \in Table, NEW c2 \in Tables,
         c2 = [c EXCEPT ![t] = d[t]],
         Current(d, i, w, ab, jo), View(c, read, f, d, i, w, ab, jo)
  PROVE  View(c2, read \union {t}, f, d, i, w, ab, jo)
<1> DEFINE more == read \union {t}
<1>0. c2[t] = d[t] /\ \A u \in Table \ {t} : c2[u] = c[u]
  BY DEF Tables
<1>1. f <= w /\ (f = w => \A u \in more : c2[u] = d[u])
  BY <1>0 DEF View
<1>2. ASSUME "groups" \in more, NEW s \in Slug
      PROVE  /\ c2.groups[s] <= i
             /\ c2.groups[s] = NoGroup => ab[s] >= f
             /\ c2.groups[s] # NoGroup =>
                  \A r \in Slug : d.groups[r] = c2.groups[s] => r = s
  <2>1. CASE t = "groups"
    <3>1. c2.groups = d.groups
      BY <1>0, <2>1
    <3>2. d.groups[s] <= i /\ (d.groups[s] = NoGroup => ab[s] = w)
      BY DEF Current
    <3>3. d.groups[s] # NoGroup =>
             \A r \in Slug : d.groups[r] = d.groups[s] => r = s
      BY DEF Current, Sound
    <3>4. QED
      BY <1>1, <3>1, <3>2, <3>3
  <2>2. CASE t # "groups"
    <3>1. c2.groups = c.groups
      BY <1>0, <2>2
    <3>2. QED
      BY <1>2, <2>2, <3>1 DEF View
  <2>3. QED
    BY <2>1, <2>2
<1>3. ASSUME "members" \in more
      PROVE  /\ \A m \in c2.members : m[1] <= i
             /\ \A s \in Slug, k \in Key :
                  <<d.groups[s], k>> \in c2.members => jo[s][k] >= f
  <2>1. CASE t = "members"
    <3>1. c2.members = d.members
      BY <1>0, <2>1
    <3>2. ASSUME NEW m \in d.members
          PROVE  m[1] <= i
      BY DEF Current, Sound
    <3>3. ASSUME NEW s \in Slug, NEW k \in Key, <<d.groups[s], k>> \in d.members
          PROVE  jo[s][k] >= f
      <4>1. d.groups[s] # NoGroup
        BY <3>3 DEF Tables
      <4>2. k \in Members(d, s)
        BY <3>3, <4>1 DEF Members
      <4>3. jo[s][k] = w
        BY <4>2 DEF Current
      <4>4. QED
        BY <1>1, <4>3
    <3>4. QED
      BY <3>1, <3>2, <3>3
  <2>2. CASE t # "members"
    <3>1. c2.members = c.members
      BY <1>0, <2>2
    <3>2. QED
      BY <1>3, <2>2, <3>1 DEF View
  <2>3. QED
    BY <2>1, <2>2
<1>4. ASSUME "groups" \in more, "members" \in more,
             NEW s \in Slug, NEW k \in Key, k \in Members(c2, s)
      PROVE  jo[s][k] >= f
  <2>1. c2.groups[s] # NoGroup /\ <<c2.groups[s], k>> \in c2.members
    BY <1>4 DEF Members
  <2>2. CASE t = "groups"
    <3>1. c2.groups[s] = d.groups[s]
      BY <1>0, <2>2
    <3>2. QED
      BY <1>3, <1>4, <2>1, <3>1
  <2>3. CASE t = "members"
    <3>1. c2.members = d.members
      BY <1>0, <2>3
    <3>2. PICK r \in Slug : d.groups[r] = c2.groups[s]
      <4>1. \E r \in Slug : d.groups[r] = <<c2.groups[s], k>>[1]
        BY <2>1, <3>1 DEF Current, Sound
      <4>2. QED
        BY <4>1
    <3>3. r = s
      BY <1>2, <1>4, <2>1, <3>2
    <3>4. QED
      BY <1>3, <1>4, <2>1, <3>2, <3>3
  <2>4. CASE t \notin {"groups", "members"}
    <3>1. c2.groups = c.groups /\ c2.members = c.members
      BY <1>0, <2>4
    <3>2. k \in Members(c, s)
      BY <1>4, <3>1 DEF Members
    <3>3. QED
      BY <1>4, <2>4, <3>2 DEF View
  <2>5. QED
    BY <2>2, <2>3, <2>4
<1>5. QED
  BY <1>1, <1>2, <1>3, <1>4 DEF View
-----------------------------------------------------------------------------
(* Writes *)

HandlerTypes ==
  /\ pc \in [Admin -> {"idle", "looked_up", "deleting", "reading"}]
  /\ target \in [Admin -> Id \union {NoGroup} \union Slug]
  /\ \A a \in Admin : pc[a] = "looked_up" => target[a] \in Id
  /\ seen \in [Admin -> Tables] /\ unread \in [Admin -> SUBSET Table]
  /\ from \in [Admin -> Nat] /\ alone \in [Admin -> BOOLEAN]

\* A statement was executed that leaves the tables sound, and gave no group an
\* id but a new one.
Written ==
  /\ \E t \in Table : \E rows : Commit(t, rows)
  /\ db' \in Tables /\ Sound(db')
  /\ issued' \in Nat /\ issued <= issued'
  /\ \A s \in Slug : \/ db'.groups[s] = db.groups[s]
                     \/ db'.groups[s] = NoGroup
                     \/ db'.groups[s] = issued + 1 /\ issued' = issued + 1

LEMMA WrittenGrows ==
  ASSUME TypeOK, Current(db, issued, writes, absent, joined), Written
  PROVE  /\ writes' = writes + 1
         /\ absent' \in [Slug -> Nat] /\ joined' \in [Slug -> [Key -> Nat]]
         /\ Current(db, issued, writes, absent, joined)'
         /\ Grows(db, issued, writes, absent, joined,
                  db', issued', writes', absent', joined')
<1>1. writes \in Nat /\ issued \in Nat /\ absent \in [Slug -> Nat]
      /\ joined \in [Slug -> [Key -> Nat]] /\ db \in Tables
  BY DEF TypeOK
<1>2. /\ writes' = writes + 1
      /\ absent' = [s \in Slug |-> IF db'.groups[s] = NoGroup THEN writes + 1
                                   ELSE absent[s]]
      /\ joined' = [s \in Slug |-> [k \in Key |->
                      IF k \in Members(db', s) THEN writes + 1 ELSE joined[s][k]]]
  BY DEF Written, Commit
<1>3. absent' \in [Slug -> Nat] /\ joined' \in [Slug -> [Key -> Nat]]
  BY <1>1, <1>2
<1>4. ASSUME NEW s \in Slug
      PROVE  /\ db'.groups[s] <= issued' /\ absent'[s] <= writes'
             /\ db'.groups[s] = NoGroup => absent'[s] = writes'
             /\ absent'[s] >= absent[s]
             /\ \/ db'.groups[s] = db.groups[s]
                \/ db'.groups[s] = NoGroup
                \/ db'.groups[s] > issued
  <2>1. db.groups[s] <= issued /\ absent[s] <= writes
    BY DEF Current
  <2>2. db.groups[s] \in Nat /\ db'.groups[s] \in Nat /\ absent[s] \in Nat
    BY <1>1 DEF Written, Tables
  <2>3. /\ issued' \in Nat /\ issued <= issued'
        /\ \/ db'.groups[s] = db.groups[s]
           \/ db'.groups[s] = NoGroup
           \/ db'.groups[s] = issued + 1 /\ issued' = issued + 1
    BY DEF Written
  <2>4. absent'[s] = IF db'.groups[s] = NoGroup THEN writes + 1 ELSE absent[s]
    BY <1>2
  <2>5. QED
    BY <1>1, <1>2, <2>1, <2>2, <2>3, <2>4
<1>5. ASSUME NEW s \in Slug, NEW k \in Key
      PROVE  /\ joined'[s][k] <= writes' /\ joined'[s][k] >= joined[s][k]
             /\ k \in Members(db', s) => joined'[s][k] = writes'
  <2>1. joined[s][k] <= writes /\ joined[s][k] \in Nat
    BY <1>1 DEF Current
  <2>2. joined'[s][k] = IF k \in Members(db', s) THEN writes + 1 ELSE joined[s][k]
    BY <1>2
  <2>3. QED
    BY <1>1, <1>2, <2>1, <2>2
<1>6. Current(db, issued, writes, absent, joined)'
  BY <1>4, <1>5 DEF Current, Written
<1>7. Grows(db, issued, writes, absent, joined, db', issued', writes', absent', joined')
  BY <1>2, <1>4, <1>5 DEF Grows, Written
<1>8. QED
  BY <1>2, <1>3, <1>6, <1>7

\* The views survive a write; a reload that begins with it has read nothing.
LEMMA WrittenViews ==
  ASSUME TypeOK, Views, Written, HandlerTypes',
         UNCHANGED <<mirror, covered, seen>>,
         \A a \in Admin : Reloading(a)' =>
           \/ Reloading(a) /\ unread'[a] = unread[a] /\ from'[a] = from[a]
           \/ unread'[a] = Table /\ from'[a] = writes + 1
  PROVE  Views'
<1>1. /\ db \in Tables /\ issued \in Nat /\ writes \in Nat
      /\ absent \in [Slug -> Nat] /\ joined \in [Slug -> [Key -> Nat]]
      /\ mirror \in Tables /\ covered \in Nat
  BY DEF TypeOK
<1>2. /\ writes' = writes + 1
      /\ absent' \in [Slug -> Nat] /\ joined' \in [Slug -> [Key -> Nat]]
      /\ Current(db, issued, writes, absent, joined)'
      /\ Grows(db, issued, writes, absent, joined,
               db', issued', writes', absent', joined')
  BY WrittenGrows DEF Views
<1>3. db' \in Tables /\ issued' \in Nat
  BY DEF Written
<1>4. View(mirror, Table, covered, db', issued', writes', absent', joined')
  BY <1>1, <1>2, <1>3, ViewGrows DEF Views
<1>5. ASSUME NEW a \in Admin, Reloading(a)'
      PROVE  View(seen[a], Table \ unread'[a], from'[a],
                  db', issued', writes', absent', joined')
  <2>1. CASE Reloading(a) /\ unread'[a] = unread[a] /\ from'[a] = from[a]
    <3> DEFINE read == Table \ unread[a]
    <3>1. View(seen[a], read, from[a], db, issued, writes, absent, joined)
      BY <2>1 DEF Views
    <3>2. seen[a] \in Tables /\ from[a] \in Nat /\ read \in SUBSET Table
      BY DEF TypeOK
    <3> HIDE DEF read
    <3>3. View(seen[a], read, from[a], db', issued', writes', absent', joined')
      BY <1>1, <1>2, <1>3, <3>1, <3>2, ViewGrows
    <3>4. QED
      BY <2>1, <3>3 DEF read
  <2>2. CASE unread'[a] = Table /\ from'[a] = writes + 1
    <3>1. Table \ unread'[a] = {}
      BY <2>2
    <3>2. View(seen[a], {}, writes + 1, db', issued', writes + 1, absent', joined')
      BY <1>1 DEF View
    <3>3. QED
      BY <1>2, <2>2, <3>1, <3>2
  <2>3. QED
    BY <1>5, <2>1, <2>2
<1>6. View(mirror, Table, covered, db, issued, writes, absent, joined)'
  BY <1>4
<1>7. QED
  BY <1>2, <1>5, <1>6 DEF Views, Reloading

\* The handler's own variables when it begins to reload.
LEMMA BeginReloadTypes ==
  ASSUME TypeOK, NEW a \in Admin, NEW v \in Nat, BeginReload(a, v)
  PROVE  HandlerTypes'
<1>1. /\ pc' = [pc EXCEPT ![a] = "reading"]
      /\ target' = [target EXCEPT ![a] = NoGroup]
      /\ unread' = [unread EXCEPT ![a] = Table]
      /\ from' = [from EXCEPT ![a] = v] /\ seen' = seen
      /\ alone' = [b \in Admin |->
                     IF b = a THEN \A c \in Admin : ~Reloading(c)
                     ELSE alone[b] /\ ~Reloading(b)]
  BY DEF BeginReload
<1>2. alone' \in [Admin -> BOOLEAN]
  <2>1. \A b \in Admin : (IF b = a THEN \A c \in Admin : ~Reloading(c)
                          ELSE alone[b] /\ ~Reloading(b)) \in BOOLEAN
    OBVIOUS
  <2>2. QED
    BY <1>1, <2>1
<1>3. \A b \in Admin : pc'[b] = "looked_up" => target'[b] \in Id
  BY <1>1 DEF TypeOK
<1>4. QED
  BY <1>1, <1>2, <1>3 DEF TypeOK, HandlerTypes

LEMMA BeginReloadLone ==
  ASSUME TypeOK, Lone, NEW a \in Admin, ~Reloading(a),
         NEW v \in Nat, v >= writes, BeginReload(a, v), writes' \in Nat, writes' >= v
  PROVE  Lone'
<1>1. finished \in Nat /\ writes \in Nat /\ pc \in [Admin -> {"idle", "looked_up", "deleting", "reading"}]
      /\ from \in [Admin -> Nat]
  BY DEF TypeOK
<1>2. UNCHANGED <<finished, overlapped, covered>>
  BY DEF BeginReload, store
<1>3. finished' <= writes' /\ (~overlapped' => covered' = finished')
  BY <1>1, <1>2 DEF Lone
<1>4. \A b \in Admin : Reloading(b)' => from'[b] <= writes'
  BY <1>1 DEF BeginReload, Lone, Reloading
<1>5. ASSUME NEW b \in Admin, Reloading(b)', alone'[b]
      PROVE  from'[b] >= finished' /\ \A c \in Admin : Reloading(c)' => c = b
  <2>1. b = a
    BY <1>1, <1>5 DEF BeginReload, Reloading
  <2>2. \A c \in Admin : ~Reloading(c)
    BY <1>5, <2>1 DEF BeginReload
  <2>3. from'[b] >= finished'
    BY <1>1, <1>2, <2>1 DEF BeginReload, Lone
  <2>4. QED
    BY <1>1, <2>1, <2>2, <2>3 DEF BeginReload, Reloading
<1>6. QED
  BY <1>3, <1>4, <1>5 DEF Lone

\* A write that begins a reload.
LEMMA WrittenThenReload ==
  ASSUME CatalogInv, NEW a \in Admin, ~Reloading(a), Written,
         BeginReload(a, writes + 1)
  PROVE  CatalogInv'
<1>1. writes \in Nat /\ writes + 1 \in Nat /\ TypeOK /\ Views /\ Lone
  BY DEF CatalogInv, TypeOK
<1>2. HandlerTypes'
  BY <1>1, BeginReloadTypes
<1>3. /\ writes' = writes + 1
      /\ absent' \in [Slug -> Nat] /\ joined' \in [Slug -> [Key -> Nat]]
  BY <1>1, WrittenGrows DEF Views
<1>4. UNCHANGED <<mirror, covered, finished, overlapped, seen>>
  BY DEF BeginReload, store
<1>5. TypeOK'
  BY <1>1, <1>2, <1>3, <1>4 DEF TypeOK, HandlerTypes, Written
<1>6. ASSUME NEW b \in Admin, Reloading(b)'
      PROVE  \/ Reloading(b) /\ unread'[b] = unread[b] /\ from'[b] = from[b]
             \/ unread'[b] = Table /\ from'[b] = writes + 1
  BY <1>1, <1>6 DEF BeginReload, Reloading, TypeOK
<1>7. Views'
  BY <1>1, <1>2, <1>4, <1>6, WrittenViews
<1>8. Lone'
  BY <1>1, <1>3, BeginReloadLone
<1>9. QED
  BY <1>5, <1>7, <1>8 DEF CatalogInv
-----------------------------------------------------------------------------
(* The writes of the handlers *)

LEMMA SaveProviderWrites ==
  ASSUME CatalogInv, NEW a \in Admin, NEW p \in Provider,
         NEW row \in {"active", "inactive"}, SaveProvider(a, p, row)
  PROVE  Written
<1>1. db \in Tables /\ issued \in Nat /\ Sound(db)
  BY DEF CatalogInv, TypeOK, Views, Current
<1>2. Commit("providers", [db.providers EXCEPT ![p] = row]) /\ issued' = issued
  BY DEF SaveProvider, InsertProvider, UpdateProvider
<1>3. db' = [db EXCEPT !.providers = [db.providers EXCEPT ![p] = row]]
  BY <1>2 DEF Commit
<1>4. db' \in Tables
  BY <1>1, <1>3 DEF Tables
<1>5. db'.groups = db.groups /\ db'.members = db.members
  BY <1>1, <1>3 DEF Tables
<1>6. QED
  BY <1>1, <1>2, <1>4, <1>5 DEF Written, Sound

LEMMA SaveKeyWrites ==
  ASSUME CatalogInv, NEW a \in Admin, NEW k \in Key,
         NEW row \in {"active", "inactive"}, SaveKey(a, k, row)
  PROVE  Written
<1>1. db \in Tables /\ issued \in Nat /\ Sound(db)
  BY DEF CatalogInv, TypeOK, Views, Current
<1>2. Commit("keys", [db.keys EXCEPT ![k] = row]) /\ issued' = issued
  BY DEF SaveKey, InsertKey, UpdateKey, SoftDeleteKey
<1>3. db' = [db EXCEPT !.keys = [db.keys EXCEPT ![k] = row]]
  BY <1>2 DEF Commit
<1>4. db' \in Tables
  BY <1>1, <1>3 DEF Tables
<1>5. db'.groups = db.groups /\ db'.members = db.members
  BY <1>1, <1>3 DEF Tables
<1>6. QED
  BY <1>1, <1>2, <1>4, <1>5 DEF Written, Sound

LEMMA InsertGroupWrites ==
  ASSUME CatalogInv, NEW s \in Slug, InsertGroup(s)
  PROVE  Written
<1>1. db \in Tables /\ issued \in Nat /\ Sound(db)
      /\ \A r \in Slug : db.groups[r] <= issued
  BY DEF CatalogInv, TypeOK, Views, Current
<1>2. Commit("groups", [db.groups EXCEPT ![s] = issued + 1]) /\ issued' = issued + 1
      /\ db.groups[s] = NoGroup
  BY DEF InsertGroup
<1>3. db' = [db EXCEPT !.groups = [db.groups EXCEPT ![s] = issued + 1]]
  BY <1>2 DEF Commit
<1>4. db' \in Tables
  BY <1>1, <1>3 DEF Tables
<1>5. db'.groups = [db.groups EXCEPT ![s] = issued + 1] /\ db'.members = db.members
  BY <1>1, <1>3 DEF Tables
<1>6. \A r \in Slug : db'.groups[r] = IF r = s THEN issued + 1 ELSE db.groups[r]
  BY <1>1, <1>5 DEF Tables
<1>7. Sound(db')
  <2>1. ASSUME NEW m \in db'.members
        PROVE  \E r \in Slug : db'.groups[r] = m[1]
    <3>1. m[1] \in Id
      BY <1>1, <1>5 DEF Tables
    <3>2. PICK r \in Slug : db.groups[r] = m[1]
      BY <1>1, <1>5 DEF Sound
    <3>3. r # s
      BY <1>2, <3>1, <3>2
    <3>4. QED
      BY <1>6, <3>2, <3>3
  <2>2. ASSUME NEW q \in Slug, NEW r \in Slug, db'.groups[q] = db'.groups[r], q # r
        PROVE  db'.groups[q] = NoGroup
    <3>1. db.groups[q] \in Nat /\ db.groups[r] \in Nat
      BY <1>1 DEF Tables
    <3>2. QED
      BY <1>1, <1>6, <2>2, <3>1 DEF Sound
  <2>3. QED
    BY <2>1, <2>2 DEF Sound
<1>8. QED
  BY <1>1, <1>2, <1>4, <1>6, <1>7 DEF Written

LEMMA CreateGroupWrites ==
  ASSUME CatalogInv, NEW a \in Admin, NEW s \in Slug, CreateGroup(a, s)
  PROVE  Written
<1>1. CASE InsertGroup(s)
  BY <1>1, InsertGroupWrites
<1>2. CASE Commit("groups", db.groups) /\ issued' = issued
  <2>1. db \in Tables /\ issued \in Nat /\ Sound(db)
    BY DEF CatalogInv, TypeOK, Views, Current
  <2>2. db' = [db EXCEPT !.groups = db.groups]
    BY <1>2 DEF Commit
  <2>3. db' = db
    BY <2>1, <2>2 DEF Tables
  <2>4. QED
    BY <1>2, <2>1, <2>3 DEF Written, Sound
<1>3. QED
  BY <1>1, <1>2 DEF CreateGroup, UpsertGroup

LEMMA DeleteGroupWrites ==
  ASSUME CatalogInv, NEW a \in Admin, NEW s \in Slug, DeleteGroup(a, s)
  PROVE  Written
<1>1. db \in Tables /\ issued \in Nat /\ Sound(db)
  BY DEF CatalogInv, TypeOK, Views, Current
<1>2. Commit("groups", [db.groups EXCEPT ![s] = NoGroup]) /\ issued' = issued
      /\ MembersLeft(db.groups[s]) = db.members
  BY DEF DeleteGroup
<1>3. db' = [db EXCEPT !.groups = [db.groups EXCEPT ![s] = NoGroup]]
  BY <1>2 DEF Commit
<1>4. db' \in Tables
  BY <1>1, <1>3 DEF Tables
<1>5. db'.groups = [db.groups EXCEPT ![s] = NoGroup] /\ db'.members = db.members
  BY <1>1, <1>3 DEF Tables
<1>6. \A r \in Slug : db'.groups[r] = IF r = s THEN NoGroup ELSE db.groups[r]
  BY <1>1, <1>5 DEF Tables
<1>7. Sound(db')
  <2>1. ASSUME NEW m \in db'.members
        PROVE  \E r \in Slug : db'.groups[r] = m[1]
    <3>1. PICK r \in Slug : db.groups[r] = m[1]
      BY <1>1, <1>5 DEF Sound
    <3>2. m[1] # db.groups[s]
      BY <1>2, <1>5 DEF MembersLeft
    <3>3. QED
      BY <1>6, <3>1, <3>2
  <2>2. ASSUME NEW q \in Slug, NEW r \in Slug, db'.groups[q] = db'.groups[r], q # r
        PROVE  db'.groups[q] = NoGroup
    BY <1>1, <1>6, <2>2 DEF Sound
  <2>3. QED
    BY <2>1, <2>2 DEF Sound
<1>8. QED
  BY <1>1, <1>2, <1>4, <1>6, <1>7 DEF Written

\* Writes of the members alone keep the groups that the members left are in.
LEMMA MembersWrites ==
  ASSUME CatalogInv, NEW rows \in SUBSET (Id \X Key), Commit("members", rows),
         issued' = issued,
         \A m \in rows : \E s \in Slug : db.groups[s] = m[1]
  PROVE  Written
<1>1. db \in Tables /\ issued \in Nat /\ Sound(db)
  BY DEF CatalogInv, TypeOK, Views, Current
<1>2. db' = [db EXCEPT !.members = rows]
  BY DEF Commit
<1>3. db' \in Tables
  BY <1>1, <1>2 DEF Tables
<1>4. db'.groups = db.groups /\ db'.members = rows
  BY <1>1, <1>2 DEF Tables
<1>5. Sound(db')
  BY <1>1, <1>4 DEF Sound
<1>6. QED
  BY <1>1, <1>3, <1>4, <1>5 DEF Written

LEMMA RemovingWrites ==
  ASSUME CatalogInv, NEW rows \in SUBSET db.members, Commit("members", rows),
         issued' = issued
  PROVE  Written
<1>1. db \in Tables /\ Sound(db)
  BY DEF CatalogInv, TypeOK, Views, Current
<1>2. rows \in SUBSET (Id \X Key)
  BY <1>1 DEF Tables
<1>3. \A m \in rows : \E s \in Slug : db.groups[s] = m[1]
  BY <1>1 DEF Sound
<1>4. QED
  BY <1>2, <1>3, MembersWrites

LEMMA AddMemberWrites ==
  ASSUME CatalogInv, NEW a \in Admin, NEW k \in Key, AddMember(a, k)
  PROVE  Written
<1>1. db \in Tables /\ Sound(db) /\ target[a] \in Id
  BY DEF CatalogInv, TypeOK, Views, Current, AddMember
<1> DEFINE rows == db.members \union {<<target[a], k>>}
<1>2. rows \in SUBSET (Id \X Key)
  BY <1>1 DEF Tables
<1>3. \A m \in rows : \E s \in Slug : db.groups[s] = m[1]
  BY <1>1 DEF Sound, AddMember, InsertMember
<1>4. Commit("members", rows) /\ issued' = issued
  BY DEF AddMember, InsertMember
<1> HIDE DEF rows
<1>5. QED
  BY <1>2, <1>3, <1>4, MembersWrites
-----------------------------------------------------------------------------
(* The invariant *)

LEMMA InvInit == Init => CatalogInv
<1> SUFFICES ASSUME Init PROVE CatalogInv
  OBVIOUS
<1>1. /\ db \in Tables /\ Sound(db) /\ mirror = db /\ issued = MaxId /\ MaxId \in Nat
      /\ \A s \in Slug : db.groups[s] <= MaxId
  BY CatalogAssumption DEF Init
<1>2. NoTables \in Tables
  BY DEF NoTables, Tables
<1>3. /\ absent \in [Slug -> Nat] /\ joined \in [Slug -> [Key -> Nat]]
      /\ writes = 1 /\ covered = 1 /\ finished = 1 /\ overlapped = FALSE
      /\ pc = [a \in Admin |-> "idle"]
  BY DEF Init
<1>4. TypeOK
  <2>1. target = [a \in Admin |-> NoGroup] /\ seen = [a \in Admin |-> NoTables]
        /\ unread = [a \in Admin |-> {}] /\ from = [a \in Admin |-> 1]
        /\ alone = [a \in Admin |-> TRUE]
    BY DEF Init
  <2>2. seen \in [Admin -> Tables]
    BY <1>2, <2>1
  <2>3. /\ pc \in [Admin -> {"idle", "looked_up", "deleting", "reading"}]
        /\ \A a \in Admin : pc[a] # "looked_up"
    BY <1>3
  <2>4. target \in [Admin -> Id \union {NoGroup} \union Slug]
    BY <2>1
  <2>5. /\ unread \in [Admin -> SUBSET Table] /\ from \in [Admin -> Nat]
        /\ alone \in [Admin -> BOOLEAN]
    BY <2>1
  <2>6. QED
    BY <1>1, <1>3, <2>2, <2>3, <2>4, <2>5 DEF TypeOK
<1>5. Current(db, issued, writes, absent, joined)
  <2>1. ASSUME NEW s \in Slug
        PROVE  absent[s] <= writes /\ (db.groups[s] = NoGroup => absent[s] = writes)
    BY DEF Init
  <2>2. ASSUME NEW s \in Slug, NEW k \in Key
        PROVE  /\ joined[s][k] <= writes
               /\ k \in Members(db, s) => joined[s][k] = writes
    BY DEF Init
  <2>3. QED
    BY <1>1, <2>1, <2>2 DEF Current
<1>6. View(mirror, Table, covered, db, issued, writes, absent, joined)
  <2>1. \A m \in db.members : m[1] <= issued
    BY <1>1 DEF Sound
  <2>2. ASSUME NEW s \in Slug, NEW k \in Key, <<db.groups[s], k>> \in db.members
        PROVE  joined[s][k] >= 1
    <3>1. db.groups[s] # NoGroup
      BY <1>1, <2>2 DEF Tables
    <3>2. k \in Members(db, s)
      BY <2>2, <3>1 DEF Members
    <3>3. QED
      BY <1>3, <1>5, <3>2 DEF Current
  <2>3. ASSUME NEW s \in Slug
        PROVE  /\ db.groups[s] <= issued
               /\ db.groups[s] = NoGroup => absent[s] >= 1
               /\ db.groups[s] # NoGroup =>
                    \A r \in Slug : db.groups[r] = db.groups[s] => r = s
    BY <1>1, <1>3, <1>5 DEF Current, Sound
  <2>4. ASSUME NEW s \in Slug, NEW k \in Key, k \in Members(db, s)
        PROVE  joined[s][k] >= 1
    BY <1>3, <1>5, <2>4 DEF Current
  <2>5. QED
    BY <1>1, <1>3, <2>1, <2>2, <2>3, <2>4 DEF View
<1>7. \A a \in Admin : ~Reloading(a)
  BY <1>3 DEF Reloading
<1>8. QED
  BY <1>3, <1>4, <1>5, <1>6, <1>7 DEF CatalogInv, Views, Lone

\* Leaving a handler disturbs no view and no other handler.
LEMMA LeaveInv ==
  ASSUME CatalogInv, NEW a \in Admin, Leave(a), UNCHANGED tables
  PROVE  /\ HandlerTypes'
         /\ Current(db, issued, writes, absent, joined)'
         /\ \A b \in Admin : Reloading(b)' =>
              /\ b # a /\ Reloading(b) /\ from'[b] = from[b] /\ alone'[b] = alone[b]
              /\ View(seen[b], Table \ unread[b], from[b],
                      db, issued, writes, absent, joined)'
<1>1. /\ pc' = [pc EXCEPT ![a] = "idle"] /\ target' = [target EXCEPT ![a] = NoGroup]
      /\ seen' = [seen EXCEPT ![a] = NoTables] /\ unread' = [unread EXCEPT ![a] = {}]
      /\ from' = [from EXCEPT ![a] = 1] /\ alone' = [alone EXCEPT ![a] = TRUE]
      /\ UNCHANGED <<db, issued, writes, absent, joined>>
  BY DEF Leave, tables
<1>2. TypeOK /\ Views
  BY DEF CatalogInv
<1>3. HandlerTypes'
  <2>1. NoTables \in Tables
    BY DEF NoTables, Tables
  <2>2. seen' \in [Admin -> Tables]
    BY <1>1, <1>2, <2>1 DEF TypeOK
  <2>3. /\ pc' \in [Admin -> {"idle", "looked_up", "deleting", "reading"}]
        /\ target' \in [Admin -> Id \union {NoGroup} \union Slug]
        /\ unread' \in [Admin -> SUBSET Table]
        /\ from' \in [Admin -> Nat] /\ alone' \in [Admin -> BOOLEAN]
    BY <1>1, <1>2 DEF TypeOK
  <2>4. \A b \in Admin : pc'[b] = "looked_up" => target'[b] \in Id
    BY <1>1, <1>2 DEF TypeOK
  <2>5. QED
    BY <2>2, <2>3, <2>4 DEF HandlerTypes
<1>4. Current(db, issued, writes, absent, joined)'
  BY <1>1, <1>2 DEF Views
<1>5. ASSUME NEW b \in Admin, Reloading(b)'
      PROVE  /\ b # a /\ Reloading(b) /\ from'[b] = from[b] /\ alone'[b] = alone[b]
             /\ View(seen[b], Table \ unread[b], from[b],
                     db, issued, writes, absent, joined)'
  <2>1. b # a /\ Reloading(b)
    BY <1>1, <1>2, <1>5 DEF Reloading, TypeOK
  <2>2. seen'[b] = seen[b] /\ unread'[b] = unread[b] /\ from'[b] = from[b]
        /\ alone'[b] = alone[b]
    BY <1>1, <1>2, <2>1 DEF TypeOK
  <2>3. View(seen[b], Table \ unread[b], from[b], db, issued, writes, absent, joined)
    BY <1>2, <2>1 DEF Views
  <2>4. View(seen'[b], Table \ unread'[b], from'[b], db', issued', writes', absent', joined')
    BY <1>1, <2>2, <2>3
  <2>5. QED
    BY <2>1, <2>2, <2>4
<1>6. QED
  BY <1>3, <1>4, <1>5

LEMMA ReloadInv ==
  ASSUME CatalogInv, NEW a \in Admin, Reload(a)
  PROVE  CatalogInv'
<1>1. TypeOK /\ Views /\ Lone /\ writes \in Nat
  BY DEF CatalogInv, TypeOK
<1>2. BeginReload(a, writes) /\ ~Reloading(a)
      /\ UNCHANGED <<db, issued, writes, absent, joined>>
      /\ UNCHANGED <<mirror, covered, finished, overlapped, seen>>
  BY DEF Reload, Reloading, tables, BeginReload, store
<1>3. HandlerTypes'
  BY <1>1, <1>2, BeginReloadTypes
<1>4. TypeOK'
  BY <1>1, <1>2, <1>3 DEF TypeOK, HandlerTypes
<1>5. Lone'
  BY <1>1, <1>2, BeginReloadLone
<1>6. ASSUME NEW b \in Admin, Reloading(b)'
      PROVE  View(seen[b], Table \ unread[b], from[b],
                  db, issued, writes, absent, joined)'
  <2>1. CASE b = a
    <3>1. Table \ unread'[a] = {} /\ from'[a] = writes
      BY <1>1, <1>2 DEF BeginReload, TypeOK
    <3>2. View(seen[a], {}, writes, db, issued, writes, absent, joined)
      BY <1>1 DEF View
    <3>3. QED
      BY <1>2, <2>1, <3>1, <3>2
  <2>2. CASE b # a
    <3>1. Reloading(b) /\ unread'[b] = unread[b] /\ from'[b] = from[b]
      BY <1>1, <1>2, <1>6, <2>2 DEF BeginReload, Reloading, TypeOK
    <3>2. View(seen[b], Table \ unread[b], from[b], db, issued, writes, absent, joined)
      BY <1>1, <3>1 DEF Views
    <3>3. QED
      BY <1>2, <3>1, <3>2
  <2>3. QED
    BY <2>1, <2>2
<1>7. Views'
  <2>1. Current(db, issued, writes, absent, joined)'
        /\ View(mirror, Table, covered, db, issued, writes, absent, joined)'
    BY <1>1, <1>2 DEF Views
  <2>2. QED
    BY <1>6, <2>1 DEF Views
<1>8. QED
  BY <1>4, <1>5, <1>7 DEF CatalogInv

LEMMA ReadTableInv ==
  ASSUME CatalogInv, NEW a \in Admin, NEW t \in Table, ReadTable(a, t)
  PROVE  CatalogInv'
<1>1. TypeOK /\ Views /\ Lone
  BY DEF CatalogInv
<1>2. /\ Reloading(a) /\ t \in unread[a]
      /\ seen' = [seen EXCEPT ![a] = [@ EXCEPT ![t] = db[t]]]
      /\ unread' = [unread EXCEPT ![a] = @ \ {t}]
      /\ UNCHANGED <<pc, target, from, alone>>
      /\ UNCHANGED <<db, issued, writes, absent, joined>>
      /\ UNCHANGED <<mirror, covered, finished, overlapped>>
  BY DEF ReadTable, tables, store
<1>3. /\ db \in Tables /\ issued \in Nat /\ writes \in Nat
      /\ absent \in [Slug -> Nat] /\ joined \in [Slug -> [Key -> Nat]]
      /\ seen[a] \in Tables /\ from[a] \in Nat /\ unread[a] \in SUBSET Table
      /\ seen \in [Admin -> Tables] /\ unread \in [Admin -> SUBSET Table]
  BY <1>1 DEF TypeOK
<1>4. seen'[a] \in Tables /\ seen'[a] = [seen[a] EXCEPT ![t] = db[t]]
  <2>1. seen'[a] = [seen[a] EXCEPT ![t] = db[t]]
    BY <1>2, <1>3
  <2>2. CASE t = "providers"
    BY <1>3, <2>1, <2>2 DEF Tables
  <2>3. CASE t = "keys"
    BY <1>3, <2>1, <2>3 DEF Tables
  <2>4. CASE t = "groups"
    BY <1>3, <2>1, <2>4 DEF Tables
  <2>5. CASE t = "members"
    BY <1>3, <2>1, <2>5 DEF Tables
  <2>6. QED
    BY <2>1, <2>2, <2>3, <2>4, <2>5
<1>5. seen' \in [Admin -> Tables] /\ unread' \in [Admin -> SUBSET Table]
      /\ unread'[a] = unread[a] \ {t}
      /\ \A b \in Admin : b # a => seen'[b] = seen[b] /\ unread'[b] = unread[b]
  BY <1>2, <1>3, <1>4
<1>6. TypeOK'
  BY <1>1, <1>2, <1>5 DEF TypeOK
<1>7. Lone'
  BY <1>1, <1>2 DEF Lone, Reloading
<1>8. View(seen'[a], (Table \ unread[a]) \union {t}, from[a],
           db, issued, writes, absent, joined)
  <2> DEFINE read == Table \ unread[a]
  <2>1. View(seen[a], read, from[a], db, issued, writes, absent, joined)
    BY <1>1, <1>2 DEF Views
  <2>2. read \in SUBSET Table /\ Current(db, issued, writes, absent, joined)
    BY <1>1 DEF Views
  <2> HIDE DEF read
  <2>3. View(seen'[a], read \union {t}, from[a], db, issued, writes, absent, joined)
    BY <1>3, <1>4, <2>1, <2>2, ViewReads
  <2>4. QED
    BY <2>3 DEF read
<1>9. ASSUME NEW b \in Admin, Reloading(b)'
      PROVE  View(seen[b], Table \ unread[b], from[b],
                  db, issued, writes, absent, joined)'
  <2>1. CASE b = a
    <3>1. Table \ unread'[a] = (Table \ unread[a]) \union {t}
      BY <1>5
    <3>2. QED
      BY <1>2, <1>8, <2>1, <3>1
  <2>2. CASE b # a
    <3>1. Reloading(b)
      BY <1>2, <1>9 DEF Reloading
    <3>2. View(seen[b], Table \ unread[b], from[b], db, issued, writes, absent, joined)
      BY <1>1, <3>1 DEF Views
    <3>3. QED
      BY <1>2, <1>5, <2>2, <3>2
  <2>3. QED
    BY <2>1, <2>2
<1>10. Views'
  <2>1. Current(db, issued, writes, absent, joined)'
        /\ View(mirror, Table, covered, db, issued, writes, absent, joined)'
    BY <1>1, <1>2 DEF Views
  <2>2. QED
    BY <1>9, <2>1 DEF Views
<1>11. QED
  BY <1>6, <1>7, <1>10 DEF CatalogInv

LEMMA InstallInv ==
  ASSUME CatalogInv, NEW a \in Admin, Install(a)
  PROVE  CatalogInv'
<1>1. TypeOK /\ Views /\ Lone
  BY DEF CatalogInv
<1>2. /\ Reloading(a) /\ unread[a] = {} /\ Leave(a) /\ UNCHANGED tables
      /\ mirror' = seen[a] /\ covered' = from[a] /\ overlapped' = ~alone[a]
      /\ finished' = IF from[a] > finished THEN from[a] ELSE finished
      /\ UNCHANGED <<db, issued, writes, absent, joined>>
  BY DEF Install, tables
<1>3. /\ seen[a] \in Tables /\ from[a] \in Nat /\ alone[a] \in BOOLEAN
      /\ finished \in Nat /\ writes \in Nat
  BY <1>1 DEF TypeOK
<1>4. /\ HandlerTypes'
      /\ Current(db, issued, writes, absent, joined)'
      /\ \A b \in Admin : Reloading(b)' =>
           /\ b # a /\ Reloading(b) /\ from'[b] = from[b] /\ alone'[b] = alone[b]
           /\ View(seen[b], Table \ unread[b], from[b],
                   db, issued, writes, absent, joined)'
  BY <1>2, LeaveInv
<1>5. mirror' \in Tables /\ covered' \in Nat /\ finished' \in Nat
      /\ overlapped' \in BOOLEAN
  BY <1>2, <1>3
<1>6. TypeOK'
  BY <1>1, <1>2, <1>4, <1>5 DEF TypeOK, HandlerTypes
<1>7. View(mirror, Table, covered, db, issued, writes, absent, joined)'
  <2>1. View(seen[a], Table \ {}, from[a], db, issued, writes, absent, joined)
    BY <1>1, <1>2 DEF Views
  <2>2. Table \ {} = Table
    OBVIOUS
  <2>3. View(seen[a], Table, from[a], db, issued, writes, absent, joined)
    BY <2>1, <2>2
  <2>4. QED
    BY <1>2, <2>3
<1>8. Views'
  BY <1>4, <1>7 DEF Views
<1>9. Lone'
  <2>1. finished' <= writes'
    BY <1>1, <1>2, <1>3 DEF Lone
  <2>2. ASSUME ~overlapped'
        PROVE  covered' = finished'
    <3>1. alone[a]
      BY <1>2, <2>2
    <3>2. from[a] >= finished
      BY <1>1, <1>2, <3>1 DEF Lone
    <3>3. (IF from[a] > finished THEN from[a] ELSE finished) = from[a]
      BY <1>3, <3>2
    <3>4. QED
      BY <1>2, <3>3
  <2>3. \A b \in Admin : Reloading(b)' => from'[b] <= writes'
    BY <1>1, <1>2, <1>4 DEF Lone
  <2>4. ASSUME NEW b \in Admin, Reloading(b)', alone'[b]
        PROVE  FALSE
    <3>1. b # a /\ Reloading(b) /\ alone[b]
      BY <1>4, <2>4
    <3>2. QED
      BY <1>1, <1>2, <3>1 DEF Lone
  <2>5. QED
    BY <2>1, <2>2, <2>3, <2>4 DEF Lone
<1>10. QED
  BY <1>6, <1>8, <1>9 DEF CatalogInv

LEMMA AbandonInv ==
  ASSUME CatalogInv, NEW a \in Admin, Abandon(a)
  PROVE  CatalogInv'
<1>1. TypeOK /\ Views /\ Lone
  BY DEF CatalogInv
<1>2. /\ Leave(a) /\ UNCHANGED tables
      /\ UNCHANGED <<db, issued, writes, absent, joined>>
      /\ UNCHANGED <<mirror, covered, finished, overlapped>>
  BY DEF Abandon, tables, store
<1>3. /\ HandlerTypes'
      /\ Current(db, issued, writes, absent, joined)'
      /\ \A b \in Admin : Reloading(b)' =>
           /\ b # a /\ Reloading(b) /\ from'[b] = from[b] /\ alone'[b] = alone[b]
           /\ View(seen[b], Table \ unread[b], from[b],
                   db, issued, writes, absent, joined)'
  BY <1>2, LeaveInv
<1>4. TypeOK'
  BY <1>1, <1>2, <1>3 DEF TypeOK, HandlerTypes
<1>5. View(mirror, Table, covered, db, issued, writes, absent, joined)'
  BY <1>1, <1>2 DEF Views
<1>6. Views'
  BY <1>3, <1>5 DEF Views
<1>7. Lone'
  BY <1>1, <1>2, <1>3 DEF Lone
<1>8. QED
  BY <1>4, <1>6, <1>7 DEF CatalogInv

\* LookUp, and the first statement of delete_group: a handler goes on without
\* reloading.
LEMMA LookUpInv ==
  ASSUME CatalogInv, NEW a \in Admin, NEW s \in Slug, LookUp(a, s)
  PROVE  CatalogInv'
<1>1. TypeOK /\ Views /\ Lone
  BY DEF CatalogInv
<1>2. /\ mirror.groups[s] # NoGroup
      /\ pc' = [pc EXCEPT ![a] = "looked_up"]
      /\ target' = [target EXCEPT ![a] = mirror.groups[s]]
      /\ UNCHANGED <<seen, unread, from, alone>>
      /\ UNCHANGED <<db, issued, writes, absent, joined>>
      /\ UNCHANGED <<mirror, covered, finished, overlapped>>
  BY DEF LookUp, tables, store
<1>3. mirror.groups[s] \in Id
  BY <1>1, <1>2 DEF TypeOK, Tables
<1>4. TypeOK'
  BY <1>1, <1>2, <1>3 DEF TypeOK
<1>5. \A b \in Admin : Reloading(b)' => Reloading(b)
  BY <1>1, <1>2 DEF Reloading, TypeOK
<1>6. Views'
  BY <1>1, <1>2, <1>5 DEF Views
<1>7. Lone'
  BY <1>1, <1>2, <1>5 DEF Lone
<1>8. QED
  BY <1>4, <1>6, <1>7 DEF CatalogInv

LEMMA DeleteMembersInv ==
  ASSUME CatalogInv, NEW a \in Admin, NEW s \in Slug, DeleteMembers(a, s)
  PROVE  CatalogInv'
<1>1. TypeOK /\ Views /\ Lone
  BY DEF CatalogInv
<1>2. /\ Commit("members", MembersLeft(db.groups[s]))
      /\ pc' = [pc EXCEPT ![a] = "deleting"] /\ target' = [target EXCEPT ![a] = s]
      /\ UNCHANGED <<seen, unread, from, alone, issued>>
      /\ UNCHANGED <<mirror, covered, finished, overlapped>>
  BY DEF DeleteMembers, DeleteMembersOf, store
<1>3. Written
  <2> DEFINE rows == MembersLeft(db.groups[s])
  <2>1. rows \in SUBSET db.members
    BY DEF MembersLeft
  <2>2. Commit("members", rows) /\ issued' = issued
    BY <1>2
  <2> HIDE DEF rows
  <2>3. QED
    BY <2>1, <2>2, RemovingWrites
<1>4. /\ writes' = writes + 1 /\ writes \in Nat
      /\ absent' \in [Slug -> Nat] /\ joined' \in [Slug -> [Key -> Nat]]
  BY <1>1, <1>3, WrittenGrows DEF Views, TypeOK
<1>5. HandlerTypes'
  BY <1>1, <1>2 DEF TypeOK, HandlerTypes
<1>6. TypeOK'
  BY <1>1, <1>2, <1>3, <1>4, <1>5 DEF TypeOK, HandlerTypes, Written
<1>7. \A b \in Admin : Reloading(b)' => Reloading(b)
  BY <1>1, <1>2 DEF Reloading, TypeOK
<1>8. Views'
  BY <1>1, <1>2, <1>3, <1>5, <1>7, WrittenViews
<1>9. Lone'
  BY <1>1, <1>2, <1>4, <1>7 DEF Lone, TypeOK
<1>10. QED
  BY <1>6, <1>8, <1>9 DEF CatalogInv

LEMMA InvStep == CatalogInv /\ [Next]_vars => CatalogInv'
<1> SUFFICES ASSUME CatalogInv, [Next]_vars PROVE CatalogInv'
  OBVIOUS
<1>1. CASE UNCHANGED vars
  BY <1>1 DEF vars, handler, tables, store, CatalogInv, TypeOK, Views, Lone, Reloading
<1>2. ASSUME NEW a \in Admin, Handler(a)
      PROVE  CatalogInv'
  <2>1. CASE Reload(a)
    BY <2>1, ReloadInv
  <2>2. CASE Install(a)
    BY <2>2, InstallInv
  <2>3. CASE Abandon(a)
    BY <2>3, AbandonInv
  <2>4. ASSUME NEW t \in Table, ReadTable(a, t) PROVE CatalogInv'
    BY <2>4, ReadTableInv
  <2>5. ASSUME NEW p \in Provider, NEW row \in {"active", "inactive"},
               SaveProvider(a, p, row)
        PROVE  CatalogInv'
    <3>1. ~Reloading(a) /\ BeginReload(a, writes + 1)
      BY <2>5 DEF SaveProvider, Reloading
    <3>2. QED
      BY <2>5, <3>1, SaveProviderWrites, WrittenThenReload
  <2>6. ASSUME NEW k \in Key, NEW row \in {"active", "inactive"}, SaveKey(a, k, row)
        PROVE  CatalogInv'
    <3>1. ~Reloading(a) /\ BeginReload(a, writes + 1)
      BY <2>6 DEF SaveKey, Reloading
    <3>2. QED
      BY <2>6, <3>1, SaveKeyWrites, WrittenThenReload
  <2>7. ASSUME NEW s \in Slug, CreateGroup(a, s) PROVE CatalogInv'
    <3>1. ~Reloading(a) /\ BeginReload(a, writes + 1)
      BY <2>7 DEF CreateGroup, Reloading
    <3>2. QED
      BY <2>7, <3>1, CreateGroupWrites, WrittenThenReload
  <2>8. ASSUME NEW s \in Slug, LookUp(a, s) PROVE CatalogInv'
    BY <2>8, LookUpInv
  <2>9. ASSUME NEW s \in Slug, DeleteMembers(a, s) PROVE CatalogInv'
    BY <2>9, DeleteMembersInv
  <2>10. ASSUME NEW s \in Slug, DeleteGroup(a, s) PROVE CatalogInv'
    <3>1. ~Reloading(a) /\ BeginReload(a, writes + 1)
      BY <2>10 DEF DeleteGroup, Reloading
    <3>2. QED
      BY <2>10, <3>1, DeleteGroupWrites, WrittenThenReload
  <2>11. ASSUME NEW k \in Key, AddMember(a, k) PROVE CatalogInv'
    <3>1. ~Reloading(a) /\ BeginReload(a, writes + 1)
      BY <2>11 DEF AddMember, Reloading
    <3>2. QED
      BY <2>11, <3>1, AddMemberWrites, WrittenThenReload
  <2>12. ASSUME NEW k \in Key, RemoveMember(a, k) PROVE CatalogInv'
    <3>1. /\ ~Reloading(a) /\ BeginReload(a, writes + 1)
          /\ Commit("members", db.members \ {<<target[a], k>>}) /\ issued' = issued
      BY <2>12 DEF RemoveMember, DeleteMember, Reloading
    <3>2. Written
      BY <3>1, RemovingWrites
    <3>3. QED
      BY <3>1, <3>2, WrittenThenReload
  <2>13. CASE ClearMembers(a)
    <3>1. /\ ~Reloading(a) /\ BeginReload(a, writes + 1)
          /\ Commit("members", MembersLeft(target[a])) /\ issued' = issued
      BY <2>13 DEF ClearMembers, DeleteMembersOf, Reloading
    <3>2. Written
      <4> DEFINE rows == MembersLeft(target[a])
      <4>1. rows \in SUBSET db.members
        BY DEF MembersLeft
      <4>2. Commit("members", rows) /\ issued' = issued
        BY <3>1
      <4> HIDE DEF rows
      <4>3. QED
        BY <4>1, <4>2, RemovingWrites
    <3>3. QED
      BY <3>1, <3>2, WrittenThenReload
  <2>14. QED
    BY <1>2, <2>1, <2>2, <2>3, <2>4, <2>5, <2>6, <2>7, <2>8, <2>9, <2>10, <2>11,
       <2>12, <2>13 DEF Handler
<1>3. QED
  BY <1>1, <1>2 DEF Next

LEMMA InvHolds == Spec => []CatalogInv
<1>1. QED
  BY InvInit, InvStep, PTL DEF Spec
-----------------------------------------------------------------------------
(* Theorems *)

\* Every reachable state is well typed; a handler that writes members has the
\* id of a group.
THEOREM TypeCorrect == Spec => []TypeOK
<1>1. CatalogInv => TypeOK
  BY DEF CatalogInv
<1>2. QED
  BY <1>1, InvHolds, PTL

\* However many handlers write, and whatever becomes of their reloads, the
\* mirror of a reload that ran alone after the last write shows the tables.
THEOREM LoneReloadIsFresh == Spec => []LoneReloadRefreshes
<1>1. CatalogInv => LoneReloadRefreshes
  <2> SUFFICES ASSUME CatalogInv, finished = writes, ~overlapped
               PROVE  mirror = db
    BY DEF LoneReloadRefreshes
  <2>1. covered = writes
    BY DEF CatalogInv, Lone
  <2>2. \A t \in Table : mirror[t] = db[t]
    BY <2>1 DEF CatalogInv, Views, View
  <2>3. mirror \in Tables /\ db \in Tables
    BY DEF CatalogInv, TypeOK
  <2>4. QED
    BY <2>2, <2>3 DEF Tables
<1>2. QED
  BY <1>1, InvHolds, PTL

\* A search in a group is offered its members only, or all keys only when there
\* was no such group, whatever the handlers and the reloads do meanwhile.
THEOREM SearchesStayInGroups == Spec => []SearchStaysInGroup
<1>1. CatalogInv => SearchStaysInGroup
  <2> SUFFICES ASSUME CatalogInv, NEW s \in Slug
               PROVE  IF mirror.groups[s] = NoGroup
                      THEN absent[s] >= covered
                      ELSE \A k \in Candidates(mirror, s) : joined[s][k] >= covered
    BY DEF SearchStaysInGroup
  <2>1. CASE mirror.groups[s] = NoGroup
    BY <2>1 DEF CatalogInv, Views, View
  <2>2. CASE mirror.groups[s] # NoGroup
    <3>1. \A k \in Candidates(mirror, s) : k \in Key /\ k \in Members(mirror, s)
      BY <2>2 DEF Candidates, Members
    <3>2. QED
      BY <2>2, <3>1 DEF CatalogInv, Views, View
  <2>3. QED
    BY <2>1, <2>2
<1>2. QED
  BY <1>1, InvHolds, PTL
=============================================================================
