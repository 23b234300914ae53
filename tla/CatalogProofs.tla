--------------------------- MODULE CatalogProofs ---------------------------
(***************************************************************************)
(* Two promises of the catalogs, for any number of writers and readers: a  *)
(* reference a delete is protected against is never deleted, and a cached  *)
(* payload that misses a change is owed its purge.                         *)
(*                                                                         *)
(* Then the catalog whose rows have trees: features and their effects, for *)
(* any number of requests, characters, features and rows.  Its argument is *)
(* at the head of its part.                                                *)
(***************************************************************************)
EXTENDS Catalog, FeatureEngine, TLAPS, FiniteSetTheorems

-----------------------------------------------------------------------------
(* Deletes and references.                                                 *)

\* Who excludes new references: a delete that has been written, and where the
\* repository locks the row before it looks, a delete past that lock.
Holding(w) ==
    /\ writer[w].op = "delete"
    /\ writer[w].step = "written" \/ (link.locked /\ writer[w].step \in {"locked", "checked"})

WriterFunction == writer = [w \in Writers |-> writer[w]]

Excluded == \A w, v \in Writers : w # v /\ Holding(w) => ~At(v, "written", "link")

\* A delete that passed its check, or the foreign key, under that exclusion.
Passed(w) ==
    \/ link.locked /\ At(w, "checked", "delete")
    \/ (link.locked \/ link.onDelete = "restrict") /\ At(w, "written", "delete")

Unlinked == link.guarded => \A w \in Writers : Passed(w) => ~linked

Guarded == WriterFunction /\ Excluded /\ Unlinked

LEMMA GoWrites ==
  ASSUME WriterFunction, NEW w \in Writers, NEW step, NEW op, NEW purges, Go(w, step, op, purges)
  PROVE  /\ WriterFunction'
         /\ writer'[w] = [step |-> step, op |-> op, purges |-> purges]
         /\ \A v \in Writers : v # w => writer'[v] = writer[v]
  BY DEF WriterFunction, Go

LEMMA StopWrites ==
  ASSUME WriterFunction, NEW w \in Writers, Stop(w)
  PROVE  /\ WriterFunction' /\ writer'[w] = Idle
         /\ \A v \in Writers : v # w => writer'[v] = writer[v]
  BY DEF WriterFunction, Stop

\* A writer that stops, or waits to, changes nothing for the others.
LEMMA StopGuarded ==
  ASSUME Guarded, NEW w \in Writers, Stop(w), UNCHANGED link, linked' => linked
  PROVE  Guarded'
  <1>1. /\ WriterFunction' /\ writer'[w] = Idle
        /\ \A v \in Writers : v # w => writer'[v] = writer[v]
    BY StopWrites DEF Guarded
  <1>2. Excluded'
    BY <1>1 DEF Guarded, Excluded, Holding, At, Idle
  <1>3. Unlinked'
    BY <1>1 DEF Guarded, Unlinked, Passed, At, Idle
  <1> QED
    BY <1>1, <1>2, <1>3 DEF Guarded

\* A step of a writer that neither is nor becomes a delete or a new reference.
LEMMA GoGuarded ==
  ASSUME Guarded, NEW w \in Writers, NEW step, NEW op, NEW purges, Go(w, step, op, purges),
         UNCHANGED link, linked' => linked,
         op = "delete" => step = "fetched", op = "link" => step # "written"
  PROVE  Guarded'
  <1>1. /\ WriterFunction' /\ writer'[w] = [step |-> step, op |-> op, purges |-> purges]
        /\ \A v \in Writers : v # w => writer'[v] = writer[v]
    BY GoWrites DEF Guarded
  <1>2. Excluded'
    BY <1>1 DEF Guarded, Excluded, Holding, At
  <1>3. Unlinked'
    BY <1>1 DEF Guarded, Unlinked, Passed, At
  <1> QED
    BY <1>1, <1>2, <1>3 DEF Guarded

LEMMA InitGuarded == Init => Guarded
  BY DEF Init, Guarded, WriterFunction, Excluded, Unlinked, Holding, Passed, At, Idle

\* A new reference waits for the deletes that hold the row.
LEMMA ReferGuarded ==
  ASSUME Guarded, NEW w \in Writers, Refer(w)
  PROVE  Guarded'
  <1>1. /\ WriterFunction' /\ writer'[w] = [step |-> "written", op |-> "link", purges |-> link.purges]
        /\ \A v \in Writers : v # w => writer'[v] = writer[v]
    BY GoWrites DEF Guarded, Refer
  <1>2. \A v \in Writers : v # w => ~Holding(v)
    BY DEF Refer, Deleting, Others, Holding, At
  <1>3. Excluded'
    BY <1>1, <1>2 DEF Guarded, Excluded, Holding, At, Refer
  <1>4. Unlinked'
    BY <1>1 DEF Guarded, Unlinked, Passed, At, Refer
  <1> QED
    BY <1>1, <1>3, <1>4 DEF Guarded

\* The lock of a delete waits for the new references.
LEMMA LockRowGuarded ==
  ASSUME Guarded, NEW w \in Writers, LockRow(w)
  PROVE  Guarded'
  <1>1. /\ WriterFunction' /\ writer'[w] = [step |-> "locked", op |-> "delete", purges |-> writer[w].purges]
        /\ \A v \in Writers : v # w => writer'[v] = writer[v]
    BY GoWrites DEF Guarded, LockRow
  <1>2. \A v \in Writers : v # w => ~At(v, "written", "link")
    BY DEF LockRow, Shared, Others
  <1>3. Excluded'
    BY <1>1, <1>2 DEF Guarded, Excluded, Holding, At, LockRow
  <1>4. Unlinked'
    BY <1>1 DEF Guarded, Unlinked, Passed, At, LockRow
  <1> QED
    BY <1>1, <1>3, <1>4 DEF Guarded

\* The check passes only without a reference; under the lock none comes after.
LEMMA CheckInUseGuarded ==
  ASSUME Guarded, NEW w \in Writers, CheckInUse(w)
  PROVE  Guarded'
  <1>1. CASE Stop(w)
    BY <1>1, StopGuarded DEF CheckInUse
  <1>2. CASE Go(w, "checked", "delete", writer[w].purges) /\ ~(link.guarded /\ linked)
    <2>1. /\ WriterFunction' /\ writer'[w] = [step |-> "checked", op |-> "delete", purges |-> writer[w].purges]
          /\ \A v \in Writers : v # w => writer'[v] = writer[v]
      BY <1>2, GoWrites DEF Guarded
    <2>2. link.locked => Holding(w)
      BY DEF CheckInUse, At, Holding
    <2>3. Excluded'
      BY <2>1, <2>2 DEF Guarded, Excluded, Holding, At, CheckInUse
    <2>4. Unlinked'
      BY <1>2, <2>1 DEF Guarded, Unlinked, Passed, At, CheckInUse
    <2> QED
      BY <2>1, <2>3, <2>4 DEF Guarded
  <1> QED
    BY <1>1, <1>2 DEF CheckInUse

\* The DELETE waits for the references being added, then the key decides.
LEMMA DeleteGuarded ==
  ASSUME Guarded, NEW w \in Writers, Delete(w)
  PROVE  Guarded'
  <1>1. CASE Stop(w)
    BY <1>1, StopGuarded DEF Delete
  <1>2. CASE Go(w, "written", "delete", writer[w].purges) /\ ~(linked /\ link.onDelete = "restrict")
    <2>1. /\ WriterFunction' /\ writer'[w] = [step |-> "written", op |-> "delete", purges |-> writer[w].purges]
          /\ \A v \in Writers : v # w => writer'[v] = writer[v]
      BY <1>2, GoWrites DEF Guarded
    <2>2. \A v \in Writers : v # w => ~At(v, "written", "link")
      BY DEF Delete, Shared, Others
    <2>3. Excluded'
      BY <2>1, <2>2 DEF Guarded, Excluded, Holding, At, Delete
    <2>4. link.guarded /\ link.locked => ~linked
      BY DEF Guarded, Unlinked, Passed, Delete
    <2>5. Unlinked'
      BY <1>2, <2>1, <2>4 DEF Guarded, Unlinked, Passed, At, Delete
    <2> QED
      BY <2>1, <2>3, <2>5 DEF Guarded
  <1> QED
    BY <1>1, <1>2 DEF Delete

\* A reference that commits meets no delete that has passed.
LEMMA CommitGuarded ==
  ASSUME Guarded, NEW w \in Writers, Commit(w)
  PROVE  Guarded'
  <1>1. CASE writer[w].op # "link"
    <2>1. linked' => linked
      BY <1>1 DEF Commit
    <2>2. CASE Stop(w)
      BY <2>1, <2>2, StopGuarded DEF Commit
    <2>3. CASE \E purges : Go(w, "purge", writer[w].op, purges)
      <3>1. PICK purges : Go(w, "purge", writer[w].op, purges)
        BY <2>3
      <3>2. /\ WriterFunction' /\ writer'[w] = [step |-> "purge", op |-> writer[w].op, purges |-> purges]
            /\ \A v \in Writers : v # w => writer'[v] = writer[v]
        BY <3>1, GoWrites DEF Guarded
      <3>3. Excluded'
        BY <3>2 DEF Guarded, Excluded, Holding, At, Commit
      <3>4. Unlinked'
        BY <2>1, <3>2 DEF Guarded, Unlinked, Passed, At, Commit
      <3> QED
        BY <3>2, <3>3, <3>4 DEF Guarded
    <2> QED
      BY <2>2, <2>3 DEF Commit
  <1>2. CASE writer[w].op = "link"
    <2>1. \A v \in Writers : v # w => ~Holding(v)
      BY <1>2 DEF Guarded, Excluded, At, Commit
    <2>2. \A v \in Writers : ~Passed(v)
      BY <1>2, <2>1 DEF Passed, Holding, At, Commit
    <2>3. /\ WriterFunction' /\ writer'[w].step # "written" /\ writer'[w].op # "delete"
          /\ \A v \in Writers : v # w => writer'[v] = writer[v]
      <3>1. CASE Stop(w)
        BY <3>1, StopWrites DEF Guarded, Idle
      <3>2. CASE Go(w, "purge", "link", {ns})
        <4>1. /\ WriterFunction' /\ writer'[w] = [step |-> "purge", op |-> "link", purges |-> {ns}]
              /\ \A v \in Writers : v # w => writer'[v] = writer[v]
          BY <3>2, GoWrites DEF Guarded
        <4> QED
          BY ONLY <4>1
      <3> QED
        BY <1>2, <3>1, <3>2 DEF Commit
    <2>4. Excluded'
      BY <2>3 DEF Guarded, Excluded, Holding, At, Commit
    <2>5. Unlinked'
      BY <2>2, <2>3 DEF Unlinked, Passed, At, Commit
    <2> QED
      BY <2>3, <2>4, <2>5 DEF Guarded
  <1> QED
    BY <1>1, <1>2

LEMMA OthersGuarded ==
  ASSUME Guarded, NEW w \in Writers,
         \/ Create(w) \/ Update(w) \/ Image(w) \/ Unrefer(w) \/ Fetch(w)
         \/ Rollback(w) \/ Gone(w) \/ Purge(w)
  PROVE  Guarded'
  <1>1. UNCHANGED <<link, linked>>
    BY DEF Create, Update, Image, Unrefer, Fetch, Rollback, Gone, Purge
  <1>2. CASE Create(w)
    BY <1>1, <1>2, GoGuarded DEF Create
  <1>3. CASE Update(w)
    <2>1. \E purges : Go(w, "written", "update", purges)
      BY <1>3 DEF Update
    <2> QED
      BY <1>1, <2>1, GoGuarded
  <1>4. CASE Image(w)
    BY <1>1, <1>4, GoGuarded DEF Image
  <1>5. CASE Unrefer(w)
    BY <1>1, <1>5, GoGuarded DEF Unrefer
  <1>6. CASE Fetch(w)
    BY <1>1, <1>6, GoGuarded DEF Fetch
  <1>7. CASE Rollback(w) \/ Gone(w) \/ Purge(w)
    BY <1>1, <1>7, StopGuarded DEF Rollback, Gone, Purge
  <1> QED
    BY <1>2, <1>3, <1>4, <1>5, <1>6, <1>7

LEMMA NextGuarded == Guarded /\ [Next]_vars => Guarded'
  <1> SUFFICES ASSUME Guarded, [Next]_vars PROVE Guarded'
    OBVIOUS
  <1>1. CASE UNCHANGED vars
    BY <1>1 DEF vars, Guarded, WriterFunction, Excluded, Holding, Unlinked, Passed, At
  <1>2. CASE \E r \in Readers : Load(r) \/ Read(r) \/ Store(r) \/ Hit(r)
    <2>1. UNCHANGED <<link, linked, writer>>
      BY <1>2 DEF Load, Read, Store, Hit
    <2> QED
      BY <2>1 DEF Guarded, WriterFunction, Excluded, Holding, Unlinked, Passed, At
  <1> QED
    BY <1>1, <1>2, ReferGuarded, LockRowGuarded, CheckInUseGuarded, DeleteGuarded, CommitGuarded,
       OthersGuarded DEF Next

\* base/repository.py, delete: no row goes from under a reference that is_in_use
\* looks at, where the key is RESTRICT or the repository locks the row first.
THEOREM LinksKept == Spec => ProtectedLinksKept
  <1>1. ASSUME Guarded, [Next]_vars, row, ~row', link.guarded, link.locked \/ link.onDelete = "restrict"
        PROVE  ~linked
    <2>1. PICK w \in Writers : Commit(w)
      BY <1>1 DEF Next, vars, Create, Update, Image, Refer, Unrefer, Fetch, LockRow, CheckInUse, Delete,
         Rollback, Gone, Purge, Load, Read, Store, Hit
    <2>2. At(w, "written", "delete")
      BY <1>1, <2>1 DEF Commit, At
    <2> QED
      BY <1>1, <2>2 DEF Guarded, Unlinked, Passed
  <1> QED
    BY <1>1, InitGuarded, NextGuarded, PTL DEF Spec, ProtectedLinksKept

-----------------------------------------------------------------------------
(* What the purge sets cover, reference by reference.                      *)

Namespaces == FeaturePayloads \cup Details \cup
              {"skills", "items", "tags", "spells", "users", "nested_items",
               "characters", "articles", "article_trees"}

\* What a service's purges name.
Named(purges) == /\ purges.create \subseteq Namespaces /\ purges.update \subseteq Namespaces
                 /\ purges.delete \subseteq Namespaces

\* A new row, a changed row, a reference and a deleted row that the payloads of
\* n show: the write purges n, but for the exceptions of Shows and Tolerated.
Created(l, n) == n \in ReadNamespaces(l.kind) /\ l.kind \notin {"tag", "user"} => n \in Writes(l.kind).create
Updated(l, n) ==
    /\ l.kind # "class"
    /\ \/ n \in ReadNamespaces(l.kind)
       \/ n \in l.shown /\ l.holder \notin {"feature", "equipment", "character"}
    => n \in Writes(l.kind).update
Referred(l, n) == n \in l.shown /\ l.holder # "author" => n \in l.purges
Deleted(l, n) ==
    /\ n \in ReadNamespaces(l.kind) => n \in Writes(l.kind).delete
    /\ n \in l.shown => \/ n \in Writes(l.kind).delete
                        \/ l.guarded /\ (l.locked \/ l.onDelete = "restrict")
                        \/ l.holder = "character" /\ n = "characters"
Declared(l) ==
    /\ \A n \in ReadNamespaces(l.kind) \cup l.shown :
          Created(l, n) /\ Updated(l, n) /\ Referred(l, n) /\ Deleted(l, n)
    /\ l.purges \subseteq Namespaces /\ Named(Writes(l.kind))

LEMMA EffectNamespaces ==
  ASSUME NEW s \in Sources
  PROVE  /\ \A n : n \in ListNamespace(s) \/ n \in ReadNamespaces(s) => n \in FeaturePayloads \cup Details
         /\ FeatureNamespaces(s) \subseteq FeaturePayloads \cup Details
  BY DEF ListNamespace, ReadNamespaces, FeatureNamespaces, Sources, Parents, FeaturePayloads, Details

\* The effects of features name skills, items and spells alike.
LEMMA EffectsDeclared ==
  ASSUME NEW kind \in {"skill", "item", "spell"}, NEW locked \in BOOLEAN,
         NEW l \in EffectLinks(kind, locked)
  PROVE  Declared(l)
  <1>1. PICK s \in Sources :
          l = Link(kind, "effect", "restrict", TRUE, locked,
                   {"features"} \cup ListNamespace(s) \cup (IF s = "other" THEN {} ELSE ReadNamespaces(s)),
                   FeatureNamespaces(s))
    BY DEF EffectLinks
  <1>2. /\ Writes("skill") = SkillWrites /\ ReadNamespaces("skill") = {"skills"}
        /\ Writes("item") = ItemWrites /\ ReadNamespaces("item") = {"items"}
        /\ Writes("spell") = SpellWrites /\ ReadNamespaces("spell") = {"spells"}
    BY DEF Writes, ReadNamespaces
  <1>3. /\ Dependents("skill") = Details \cup FeaturePayloads
        /\ Dependents("item") = Details \cup FeaturePayloads \cup {"nested_items"}
        /\ Dependents("spell") = Details \cup FeaturePayloads \cup {"characters"}
    BY DEF Dependents
  <1>4. /\ \A n : n \in ListNamespace(s) \/ n \in ReadNamespaces(s) => n \in FeaturePayloads \cup Details
        /\ FeatureNamespaces(s) \subseteq FeaturePayloads \cup Details
        /\ "features" \in FeaturePayloads
    BY EffectNamespaces DEF FeaturePayloads
  <1>5. l.purges \subseteq Namespaces
    BY <1>1, <1>4 DEF Link, Namespaces
  <1>6. Named(Writes(kind))
    BY <1>2, <1>3 DEF Named, SkillWrites, ItemWrites, SpellWrites, Purging, Namespaces
  <1>7. ASSUME NEW n \in ReadNamespaces(l.kind) \cup l.shown
        PROVE  Created(l, n) /\ Updated(l, n) /\ Referred(l, n) /\ Deleted(l, n)
    <2>1. CASE kind = "skill"
      BY <1>1, <1>2, <1>3, <1>4, <1>7, <2>1
         DEF Link, Created, Updated, Referred, Deleted, SkillWrites, Purging, FeatureNamespaces
    <2>2. CASE kind = "item"
      BY <1>1, <1>2, <1>3, <1>4, <1>7, <2>2
         DEF Link, Created, Updated, Referred, Deleted, ItemWrites, Purging, FeatureNamespaces
    <2>3. CASE kind = "spell"
      BY <1>1, <1>2, <1>3, <1>4, <1>7, <2>3
         DEF Link, Created, Updated, Referred, Deleted, SpellWrites, Purging, FeatureNamespaces
    <2> QED
      BY <2>1, <2>2, <2>3
  <1>8. l.kind = kind
    BY <1>1 DEF Link
  <1> QED
    BY <1>5, <1>6, <1>7, <1>8 DEF Declared

LEMMA SkillsDeclared ==
  ASSUME NEW l \in SkillLinks
  PROVE  Declared(l)
  <1>1. /\ Writes("skill") = SkillWrites /\ ReadNamespaces("skill") = {"skills"}
        /\ Dependents("skill") = Details \cup FeaturePayloads
    BY DEF Writes, ReadNamespaces, Dependents
  <1>2. Named(Writes("skill"))
    BY <1>1 DEF Named, SkillWrites, Purging, Namespaces
  <1>3. ASSUME NEW h \in {"class", "race", "background"},
               l = Link("skill", h, "restrict", TRUE, TRUE, ReadNamespaces(h), ReadNamespaces(h))
        PROVE  Declared(l)
    <2>1. \A n \in ReadNamespaces(h) : n \in Details
      BY DEF ReadNamespaces, Details
    <2> QED
      BY <1>1, <1>2, <1>3, <2>1
         DEF Link, Declared, Created, Updated, Referred, Deleted, SkillWrites, Purging, Namespaces
  <1>4. CASE l = Link("skill", "proficiency", "cascade", TRUE, TRUE, {}, {})
    BY <1>1, <1>2, <1>4 DEF Link, Declared, Created, Updated, Referred, Deleted, SkillWrites, Purging
  <1> QED
    BY <1>3, <1>4, EffectsDeclared DEF SkillLinks

LEMMA ItemsDeclared ==
  ASSUME NEW l \in ItemLinks
  PROVE  Declared(l)
  <1>1. /\ Writes("item") = ItemWrites /\ ReadNamespaces("item") = {"items"}
        /\ Dependents("item") = Details \cup FeaturePayloads \cup {"nested_items"}
    BY DEF Writes, ReadNamespaces, Dependents
  <1>2. Named(Writes("item"))
    BY <1>1 DEF Named, ItemWrites, Purging, Namespaces
  <1>3. ASSUME NEW h \in {"class", "background"},
               l = Link("item", h, "restrict", TRUE, TRUE, ReadNamespaces(h) \cup {"nested_items"},
                        ReadNamespaces(h) \cup {"nested_items"})
        PROVE  Declared(l)
    <2>1. \A n \in ReadNamespaces(h) : n \in Details
      BY DEF ReadNamespaces, Details
    <2> QED
      BY <1>1, <1>2, <1>3, <2>1
         DEF Link, Declared, Created, Updated, Referred, Deleted, ItemWrites, Purging, Namespaces
  <1>4. CASE \/ l = Link("item", "inventory", "restrict", TRUE, TRUE, {}, {})
             \/ l = Link("item", "proficiency", "cascade", TRUE, TRUE, {}, {})
    BY <1>1, <1>2, <1>4 DEF Link, Declared, Created, Updated, Referred, Deleted, ItemWrites, Purging
  <1> QED
    BY <1>3, <1>4, EffectsDeclared DEF ItemLinks

LEMMA SpellsDeclared ==
  ASSUME NEW l \in SpellLinks
  PROVE  Declared(l)
  <1>1. /\ Writes("spell") = SpellWrites /\ ReadNamespaces("spell") = {"spells"}
        /\ Dependents("spell") = Details \cup FeaturePayloads \cup {"characters"}
    BY DEF Writes, ReadNamespaces, Dependents
  <1>2. Named(Writes("spell"))
    BY <1>1 DEF Named, SpellWrites, Purging, Namespaces
  <1>3. CASE \/ l = Link("spell", "granted", "restrict", TRUE, FALSE, {}, {})
             \/ l = Link("spell", "known", "cascade", TRUE, FALSE, {}, {})
    BY <1>1, <1>2, <1>3 DEF Link, Declared, Created, Updated, Referred, Deleted, SpellWrites, Purging
  <1> QED
    BY <1>3, EffectsDeclared DEF SpellLinks

LEMMA TagsDeclared ==
  ASSUME NEW l \in TagLinks
  PROVE  Declared(l)
  BY DEF TagLinks, Writes, Dependents, Link, Declared, Created, Updated, Referred, Deleted, Named, Namespaces,
         TagWrites, Purging, ReadNamespaces, Details

LEMMA ParentWritesNamed == \A k \in Parents : Named(Writes(k))
  BY DEF Parents, Named, Namespaces, Writes, Dependents, ClassWrites, SubclassWrites, RaceWrites, SubraceWrites,
         BackgroundWrites, Purging, FeaturePayloads, Details

LEMMA AvailabilityDeclared ==
  ASSUME NEW l \in AvailabilityLinks
  PROVE  Declared(l)
  BY ParentWritesNamed
     DEF AvailabilityLinks, Parents, Writes, Dependents, Link, Declared, Created, Updated, Referred, Deleted,
         Namespaces, ClassWrites, SubclassWrites, RaceWrites, SubraceWrites, Purging, ReadNamespaces

LEMMA SourceFeaturesDeclared ==
  ASSUME NEW l \in SourceFeatureLinks
  PROVE  Declared(l)
  <1>1. \A k \in Parents : FeatureNamespaces(k) \subseteq Namespaces
    BY EffectNamespaces DEF Sources, Namespaces
  <1>2. ASSUME NEW k \in Parents,
               l = Link(k, "feature", "cascade", FALSE, FALSE, {"features"} \cup ListNamespace(k),
                        FeatureNamespaces(k))
        PROVE  Declared(l)
    BY <1>1, <1>2, ParentWritesNamed
       DEF Parents, ListNamespace, FeatureNamespaces, Writes, Dependents, Link, Declared, Created, Updated,
           Referred, Deleted, ClassWrites, SubclassWrites, RaceWrites, SubraceWrites, BackgroundWrites,
           Purging, ReadNamespaces
  <1>3. CASE \/ l = Link("class", "feature", "cascade", FALSE, FALSE, {"features", "subclass_features"},
                         FeatureNamespaces("subclass"))
             \/ l = Link("race", "feature", "cascade", FALSE, FALSE, {"features", "subrace_features"},
                         FeatureNamespaces("subrace"))
    BY <1>1, <1>3, ParentWritesNamed
       DEF Parents, ListNamespace, FeatureNamespaces, Writes, Dependents, Link, Declared, Created, Updated,
           Referred, Deleted, ClassWrites, RaceWrites, Purging, ReadNamespaces
  <1> QED
    BY <1>2, <1>3 DEF SourceFeatureLinks

LEMMA EquipmentDeclared ==
  ASSUME NEW l \in EquipmentLinks
  PROVE  Declared(l)
  BY ParentWritesNamed
     DEF EquipmentLinks, Parents, Writes, Dependents, Link, Declared, Created, Updated, Referred, Deleted,
         Namespaces, Details, ClassWrites, BackgroundWrites, Purging, ReadNamespaces

LEMMA CharactersDeclared ==
  ASSUME NEW l \in CharacterLinks
  PROVE  Declared(l)
  BY ParentWritesNamed
     DEF CharacterLinks, Parents, Writes, Dependents, Link, Declared, Created, Updated, Referred, Deleted,
         Namespaces, ClassWrites, SubclassWrites, RaceWrites, SubraceWrites, BackgroundWrites, Purging,
         ReadNamespaces

LEMMA GrantsDeclared ==
  ASSUME NEW l \in GrantLinks \cup AuthorLinks
  PROVE  Declared(l)
  BY DEF GrantLinks, AuthorLinks, Writes, Dependents, Link, Declared, Created, Updated, Referred, Deleted,
         Named, Namespaces, FeaturePayloads, Details, FeatWrites, UserWrites, FeatureWrites, FeatureNamespaces,
         ListNamespace, BackgroundWrites, Purging, ReadNamespaces

LEMMA AllDeclared ==
  ASSUME NEW l \in Links
  PROVE  Declared(l)
  BY SkillsDeclared, ItemsDeclared, TagsDeclared, SpellsDeclared, AvailabilityDeclared,
     SourceFeaturesDeclared, EquipmentDeclared, CharactersDeclared, GrantsDeclared DEF Links

-----------------------------------------------------------------------------
(* Types, and what a write on its way will purge.                          *)

WriterRecords == [step : {"idle", "written", "fetched", "locked", "checked", "purge"},
                  op : Ops, purges : SUBSET Namespaces]
ReaderRecords == [step : {"idle", "loaded", "read"}, missed : SUBSET Causes, raced : BOOLEAN]

LEMMA TypeOKUnfolded ==
  TypeOK <=> /\ link \in Links /\ ns \in ReadNamespaces(link.kind) \cup link.shown
             /\ row \in BOOLEAN /\ linked \in BOOLEAN /\ cache \in Payloads
             /\ writer \in [Writers -> WriterRecords] /\ reader \in [Readers -> ReaderRecords]
  BY DEF TypeOK, WriterRecords, ReaderRecords, Namespaces

\* A create, update or delete purges what its service names, a write of the
\* reference what the reference is declared to.
Promise(x) ==
    /\ x.step = "written" /\ x.op = "create" => x.purges = Writes(link.kind).create
    /\ x.step = "written" /\ x.op = "update" => Writes(link.kind).update \subseteq x.purges
    /\ x.step = "written" /\ x.op \in {"link", "unlink"} => x.purges = link.purges /\ link.holder # "author"
    /\ x.op = "delete" /\ x.step \in {"fetched", "locked", "checked", "written"} =>
          x.purges = Writes(link.kind).delete

Promised == \A w \in Writers : Promise(writer[w])

Typed == TypeOK /\ Promised

LEMMA LinkDeclared ==
  ASSUME TypeOK
  PROVE  Declared(link) /\ link.purges \subseteq Namespaces /\ Named(Writes(link.kind))
  BY AllDeclared DEF TypeOK, Declared

LEMMA GoTyped ==
  ASSUME Typed, NEW w \in Writers, NEW step, NEW op, NEW purges, Go(w, step, op, purges), UNCHANGED link,
         [step |-> step, op |-> op, purges |-> purges] \in WriterRecords,
         Promise([step |-> step, op |-> op, purges |-> purges])
  PROVE  writer' \in [Writers -> WriterRecords] /\ Promised'
  <1>1. writer \in [Writers -> WriterRecords]
    BY TypeOKUnfolded DEF Typed
  <1>2. writer' \in [Writers -> WriterRecords]
    BY <1>1 DEF Go
  <1>3. \A v \in Writers : writer'[v] = IF v = w THEN [step |-> step, op |-> op, purges |-> purges]
                                                 ELSE writer[v]
    BY <1>1 DEF Go
  <1>4. Promised'
    BY <1>3 DEF Typed, Promised, Promise
  <1> QED
    BY <1>2, <1>4

LEMMA StopTyped ==
  ASSUME Typed, NEW w \in Writers, Stop(w), UNCHANGED link
  PROVE  writer' \in [Writers -> WriterRecords] /\ Promised'
  <1>1. Go(w, "idle", "create", {})
    BY DEF Stop, Go, Idle
  <1>2. [step |-> "idle", op |-> "create", purges |-> {}] \in WriterRecords
    BY DEF WriterRecords, Ops
  <1>3. Promise([step |-> "idle", op |-> "create", purges |-> {}])
    BY DEF Promise
  <1> QED
    BY <1>1, <1>2, <1>3, GoTyped

\* A write starts with the purges of its service.
LEMMA StartsTyped ==
  ASSUME Typed, NEW w \in Writers, Create(w) \/ Update(w) \/ Image(w) \/ Refer(w) \/ Unrefer(w) \/ Fetch(w)
  PROVE  writer' \in [Writers -> WriterRecords] /\ Promised'
  <1>1. /\ UNCHANGED link /\ Named(Writes(link.kind)) /\ link.purges \subseteq Namespaces
    BY LinkDeclared DEF Typed, Create, Update, Image, Refer, Unrefer, Fetch
  <1>2. \A op \in Ops, purges \in SUBSET Namespaces, step \in {"written", "fetched"} :
            [step |-> step, op |-> op, purges |-> purges] \in WriterRecords
    BY DEF WriterRecords
  <1>3. /\ "create" \in Ops /\ "update" \in Ops /\ "image" \in Ops /\ "link" \in Ops
        /\ "unlink" \in Ops /\ "delete" \in Ops /\ "characters" \in Namespaces
    BY DEF Ops, Namespaces
  <1>4. CASE Create(w)
    <2>1. [step |-> "written", op |-> "create", purges |-> Writes(link.kind).create] \in WriterRecords
      BY <1>1, <1>2, <1>3 DEF Named
    <2>2. Promise([step |-> "written", op |-> "create", purges |-> Writes(link.kind).create])
      BY DEF Promise
    <2> QED
      BY <1>1, <1>4, <2>1, <2>2, GoTyped DEF Create
  <1>5. CASE Update(w)
    <2>1. PICK more \in SUBSET {"characters"} : Go(w, "written", "update", Writes(link.kind).update \cup more)
      BY <1>5 DEF Update
    <2>2. [step |-> "written", op |-> "update", purges |-> Writes(link.kind).update \cup more] \in WriterRecords
      BY <1>1, <1>2, <1>3 DEF Named
    <2>3. Promise([step |-> "written", op |-> "update", purges |-> Writes(link.kind).update \cup more])
      BY DEF Promise
    <2> QED
      BY <1>1, <2>1, <2>2, <2>3, GoTyped
  <1>6. CASE Image(w)
    <2>1. [step |-> "written", op |-> "image", purges |-> {}] \in WriterRecords
      BY <1>2, <1>3
    <2>2. Promise([step |-> "written", op |-> "image", purges |-> {}])
      BY DEF Promise
    <2> QED
      BY <1>1, <1>6, <2>1, <2>2, GoTyped DEF Image
  <1>7. CASE Refer(w)
    <2>1. [step |-> "written", op |-> "link", purges |-> link.purges] \in WriterRecords
      BY <1>1, <1>2, <1>3
    <2>2. Promise([step |-> "written", op |-> "link", purges |-> link.purges])
      BY <1>7 DEF Promise, Refer
    <2> QED
      BY <1>1, <1>7, <2>1, <2>2, GoTyped DEF Refer
  <1>8. CASE Unrefer(w)
    <2>1. [step |-> "written", op |-> "unlink", purges |-> link.purges] \in WriterRecords
      BY <1>1, <1>2, <1>3
    <2>2. Promise([step |-> "written", op |-> "unlink", purges |-> link.purges])
      BY <1>8 DEF Promise, Unrefer
    <2> QED
      BY <1>1, <1>8, <2>1, <2>2, GoTyped DEF Unrefer
  <1>9. CASE Fetch(w)
    <2>1. [step |-> "fetched", op |-> "delete", purges |-> Writes(link.kind).delete] \in WriterRecords
      BY <1>1, <1>2, <1>3 DEF Named
    <2>2. Promise([step |-> "fetched", op |-> "delete", purges |-> Writes(link.kind).delete])
      BY DEF Promise
    <2> QED
      BY <1>1, <1>9, <2>1, <2>2, GoTyped DEF Fetch
  <1> QED
    BY <1>4, <1>5, <1>6, <1>7, <1>8, <1>9

\* It goes on with them, or stops.
LEMMA ContinuesTyped ==
  ASSUME Typed, NEW w \in Writers,
         \/ LockRow(w) \/ CheckInUse(w) \/ Delete(w) \/ Gone(w) \/ Rollback(w) \/ Commit(w) \/ Purge(w)
  PROVE  writer' \in [Writers -> WriterRecords] /\ Promised'
  <1>1. UNCHANGED link
    BY DEF LockRow, CheckInUse, Delete, Gone, Rollback, Commit, Purge
  <1>2. writer[w] \in WriterRecords /\ Promise(writer[w])
    BY TypeOKUnfolded DEF Typed, Promised
  <1>3. CASE Stop(w)
    BY <1>1, <1>3, StopTyped
  <1>4. ASSUME NEW step \in {"locked", "checked", "written"}, writer[w].op = "delete",
               writer[w].step \in {"fetched", "locked", "checked"}, Go(w, step, "delete", writer[w].purges)
        PROVE  writer' \in [Writers -> WriterRecords] /\ Promised'
    <2>1. [step |-> step, op |-> "delete", purges |-> writer[w].purges] \in WriterRecords
      BY <1>2 DEF WriterRecords, Ops
    <2>2. Promise([step |-> step, op |-> "delete", purges |-> writer[w].purges])
      BY <1>2, <1>4 DEF Promise
    <2> QED
      BY <1>1, <1>4, <2>1, <2>2, GoTyped
  <1>5. CASE Go(w, "purge", writer[w].op, {ns}) /\ ns \in writer[w].purges
    <2>1. [step |-> "purge", op |-> writer[w].op, purges |-> {ns}] \in WriterRecords
      BY <1>2, <1>5 DEF WriterRecords
    <2>2. Promise([step |-> "purge", op |-> writer[w].op, purges |-> {ns}])
      BY DEF Promise
    <2> QED
      BY <1>1, <1>5, <2>1, <2>2, GoTyped
  <1> QED
    BY <1>3, <1>4, <1>5 DEF LockRow, CheckInUse, Delete, Gone, Rollback, Commit, Purge, At

-----------------------------------------------------------------------------
(* Payloads: every change that is not tolerated finds its purge.           *)

Owing == \E w \in Writers : writer[w].step = "purge"

\* Nothing but tolerated changes is missing, or the purge is on its way.
Excused(missed) == missed \subseteq Tolerated \/ Owing

CachedExcused == Excused(cache.missed)
ReadsExcused ==
    \A r \in Readers : /\ reader[r].step = "read" /\ ~reader[r].raced => Excused(reader[r].missed)
                       /\ reader[r].step = "idle" => reader[r].missed = {}
                       /\ reader[r].step = "loaded" => RowFirst

Sound == Guarded /\ Typed /\ CachedExcused /\ ReadsExcused

LEMMA ToleratedConstant == UNCHANGED <<link, ns>> => Tolerated' = Tolerated /\ RowFirst' = RowFirst
  BY DEF Tolerated, RowFirst

\* The write that commits purges ns, or what it changed there is tolerated.
LEMMA CommitOwes ==
  ASSUME Guarded, Typed, NEW w \in Writers, Commit(w), Shows(writer[w].op), ns \notin writer[w].purges
  PROVE  \/ writer[w].op \in Tolerated
         \/ writer[w].op = "update" /\ link.kind = "class"
  <1>1. /\ Created(link, ns) /\ Updated(link, ns) /\ Referred(link, ns) /\ Deleted(link, ns)
    BY LinkDeclared DEF Typed, TypeOK, Declared
  <1>2. Promise(writer[w]) /\ writer[w].op \in Ops /\ writer[w].step = "written"
    BY TypeOKUnfolded DEF Typed, Promised, WriterRecords, Commit
  <1>3. writer[w].op # "create"
    BY <1>1, <1>2 DEF Promise, Created, Shows, Own
  <1>4. CASE writer[w].op = "image"
    BY <1>4 DEF Tolerated
  <1>5. CASE writer[w].op = "update"
    <2>1. link.kind # "class" => ns \in Writes(link.kind).update
      BY <1>1, <1>5 DEF Updated, Shows, Own, Renders
    <2> QED
      BY <1>2, <1>5, <2>1 DEF Promise
  <1>6. writer[w].op \notin {"link", "unlink"}
    BY <1>1, <1>2 DEF Promise, Referred, Shows
  <1>7. CASE writer[w].op = "delete"
    <2>1. ns \notin Writes(link.kind).delete
      BY <1>2, <1>7 DEF Promise
    <2>2. linked /\ ns \in link.shown
      BY <1>1, <1>7, <2>1 DEF Deleted, Shows, Own
    <2>3. ~(link.guarded /\ (link.locked \/ link.onDelete = "restrict"))
      BY <1>2, <1>7, <2>2 DEF Guarded, Unlinked, Passed, At
    <2>4. RowFirst
      BY <1>1, <2>1, <2>2, <2>3 DEF Deleted, RowFirst
    <2> QED
      BY <1>7, <2>4 DEF Tolerated
  <1> QED
    BY <1>2, <1>3, <1>4, <1>5, <1>6, <1>7 DEF Ops

\* What a change adds to a payload.
LEMMA MissingAdds ==
  ASSUME NEW payload, payload \in Payloads \/ payload \in ReaderRecords, NEW cause \in Causes
  PROVE  /\ Missing(payload, cause).missed = payload.missed \cup {cause}
         /\ payload \in Payloads => Missing(payload, cause) \in Payloads
         /\ payload \in ReaderRecords =>
              /\ Missing(payload, cause) \in ReaderRecords
              /\ Missing(payload, cause).step = payload.step /\ Missing(payload, cause).raced = payload.raced
  BY DEF Missing, Payloads, ReaderRecords

LEMMA StalesAdds ==
  ASSUME TypeOK, NEW op, NEW cause \in Causes, Stales(op, cause)
  PROVE  /\ cache' \in Payloads /\ reader' \in [Readers -> ReaderRecords]
         /\ cache'.missed = cache.missed \/ (Shows(op) /\ cache'.missed = cache.missed \cup {cause})
         /\ \A r \in Readers :
               /\ reader'[r].step = reader[r].step /\ reader'[r].raced = reader[r].raced
               /\ \/ reader'[r].missed = reader[r].missed
                  \/ reader[r].step # "idle" /\ Shows(op) /\ reader'[r].missed = reader[r].missed \cup {cause}
  <1>1. cache \in Payloads /\ reader \in [Readers -> ReaderRecords]
    BY TypeOKUnfolded
  <1>2. cache' \in Payloads /\ (cache'.missed = cache.missed
                               \/ (Shows(op) /\ cache'.missed = cache.missed \cup {cause}))
    BY <1>1, MissingAdds DEF Stales
  <1>3. ASSUME NEW r \in Readers
        PROVE  /\ reader'[r] \in ReaderRecords
               /\ reader'[r].step = reader[r].step /\ reader'[r].raced = reader[r].raced
               /\ \/ reader'[r].missed = reader[r].missed
                  \/ reader[r].step # "idle" /\ Shows(op) /\ reader'[r].missed = reader[r].missed \cup {cause}
    <2>1. reader[r] \in ReaderRecords
      BY <1>1
    <2>2. CASE reader[r].step # "idle" /\ Shows(op)
      <3>1. reader'[r] = Missing(reader[r], cause)
        BY <2>2 DEF Stales
      <3> QED
        BY <2>1, <2>2, <3>1, MissingAdds
    <2>3. CASE ~(reader[r].step # "idle" /\ Shows(op))
      <3>1. reader'[r] = reader[r]
        BY <2>3 DEF Stales
      <3> QED
        BY <2>1, <3>1
    <2> QED
      BY <2>2, <2>3
  <1>4. reader' = [r \in Readers |-> reader'[r]]
    BY DEF Stales
  <1>5. reader' \in [Readers -> ReaderRecords]
    BY ONLY <1>3, <1>4
  <1> QED
    BY <1>2, <1>3, <1>5

\* A purge: nothing is cached, and what was read meanwhile will not be.
LEMMA PurgeNowSound ==
  ASSUME TypeOK, ReadsExcused, PurgeNow, UNCHANGED <<link, ns>>
  PROVE  cache' \in Payloads /\ reader' \in [Readers -> ReaderRecords] /\ CachedExcused' /\ ReadsExcused'
  <1>1. reader \in [Readers -> ReaderRecords]
    BY TypeOKUnfolded
  <1>2. cache' \in Payloads /\ cache'.missed = {}
    BY DEF PurgeNow, NoPayload, Payloads
  <1>3. ASSUME NEW r \in Readers
        PROVE  /\ reader'[r] \in ReaderRecords
               /\ reader'[r].step = reader[r].step /\ reader'[r].missed = reader[r].missed
               /\ reader[r].step = "read" => reader'[r].raced
    <2>1. reader'[r] = [reader[r] EXCEPT !.raced = reader[r].step = "read" \/ @]
      BY DEF PurgeNow
    <2>2. reader[r] \in ReaderRecords
      BY <1>1
    <2> QED
      BY <2>1, <2>2 DEF ReaderRecords
  <1>4. reader' = [r \in Readers |-> reader'[r]]
    BY DEF PurgeNow
  <1>5. reader' \in [Readers -> ReaderRecords]
    BY ONLY <1>3, <1>4
  <1>6. CachedExcused'
    BY <1>2 DEF CachedExcused, Excused
  <1>7. ReadsExcused'
    BY <1>3, ToleratedConstant DEF ReadsExcused
  <1> QED
    BY <1>2, <1>5, <1>6, <1>7

\* A step of a writer that owes no purge leaves the payloads as excused as they were.
LEMMA WriterStepsExcused ==
  ASSUME Sound, NEW w \in Writers, writer[w].step # "purge",
         \A v \in Writers : v # w => writer'[v] = writer[v],
         UNCHANGED <<link, ns, cache, reader>>
  PROVE  CachedExcused' /\ ReadsExcused'
  <1>1. Owing => Owing'
    BY DEF Owing
  <1> QED
    BY <1>1, ToleratedConstant DEF Sound, CachedExcused, ReadsExcused, Excused

LEMMA CommitExcused ==
  ASSUME Sound, NEW w \in Writers, Commit(w)
  PROVE  /\ cache' \in Payloads /\ reader' \in [Readers -> ReaderRecords]
         /\ CachedExcused' /\ ReadsExcused'
  <1> DEFINE op == writer[w].op
             late == op = "update" /\ link.kind = "class" /\ ns \notin writer[w].purges
             cause == IF late THEN "joined" ELSE op
  <1>1. Stales(op, cause) /\ UNCHANGED <<link, ns>> /\ writer[w].step = "written"
    BY DEF Commit
  <1>2. cause \in Causes
    BY TypeOKUnfolded DEF Sound, Typed, WriterRecords, Causes
  <1>3. /\ cache' \in Payloads /\ reader' \in [Readers -> ReaderRecords]
        /\ cache'.missed = cache.missed \/ (Shows(op) /\ cache'.missed = cache.missed \cup {cause})
        /\ \A r \in Readers :
               /\ reader'[r].step = reader[r].step /\ reader'[r].raced = reader[r].raced
               /\ \/ reader'[r].missed = reader[r].missed
                  \/ reader[r].step # "idle" /\ Shows(op) /\ reader'[r].missed = reader[r].missed \cup {cause}
    BY <1>1, <1>2, StalesAdds DEF Sound, Typed
  <1>4. CASE ns \in writer[w].purges
    <2>1. Go(w, "purge", op, {ns})
      BY <1>4 DEF Commit
    <2>2. writer'[w].step = "purge"
      <3>1. writer'[w] = [step |-> "purge", op |-> writer[w].op, purges |-> {ns}]
        BY <2>1 DEF Sound, Guarded, WriterFunction, Go
      <3> QED
        BY ONLY <3>1
    <2>3. Owing'
      BY <2>2 DEF Owing
    <2>4. CachedExcused'
      BY <2>3 DEF CachedExcused, Excused
    <2>5. ReadsExcused'
      BY <1>1, <1>3, <2>3, ToleratedConstant DEF Sound, ReadsExcused, Excused
    <2> QED
      BY <1>3, <2>4, <2>5
  <1>5. CASE ns \notin writer[w].purges
    <2>1. Shows(op) => cause \in Tolerated
      BY <1>5, CommitOwes DEF Sound, Tolerated
    <2>2. Owing => Owing'
      BY <1>1, <1>5, StopWrites DEF Sound, Guarded, Commit, Owing
    <2>3. Tolerated' = Tolerated /\ RowFirst' = RowFirst
      BY <1>1, ToleratedConstant
    <2>4. CachedExcused'
      BY <1>3, <2>1, <2>2, <2>3 DEF Sound, CachedExcused, Excused
    <2>5. ReadsExcused'
      BY <1>3, <2>1, <2>2, <2>3 DEF Sound, ReadsExcused, Excused
    <2> QED
      BY <1>3, <2>4, <2>5
  <1> QED
    BY <1>4, <1>5

\* Other writers wait, check or roll back; an image and a purge drop the payload.
LEMMA WriterExcused ==
  ASSUME Sound, NEW w \in Writers,
         \/ Create(w) \/ Update(w) \/ Image(w) \/ Refer(w) \/ Unrefer(w) \/ Fetch(w) \/ LockRow(w)
         \/ CheckInUse(w) \/ Delete(w) \/ Gone(w) \/ Rollback(w) \/ Commit(w) \/ Purge(w)
  PROVE  /\ cache' \in Payloads /\ reader' \in [Readers -> ReaderRecords]
         /\ CachedExcused' /\ ReadsExcused'
  <1>1. CASE Commit(w)
    BY <1>1, CommitExcused
  <1>2. CASE PurgeNow /\ UNCHANGED <<link, ns>>
    BY <1>2, PurgeNowSound DEF Sound, Typed
  <1>3. CASE /\ UNCHANGED <<link, ns, cache, reader>> /\ writer[w].step # "purge"
             /\ Stop(w) \/ \E step, op, purges : Go(w, step, op, purges)
    <2>1. \A v \in Writers : v # w => writer'[v] = writer[v]
      BY <1>3, GoWrites, StopWrites DEF Sound, Guarded
    <2> QED
      BY <1>3, <2>1, WriterStepsExcused, TypeOKUnfolded DEF Sound, Typed
  <1>4. CASE Image(w)
    BY <1>2, <1>3, <1>4 DEF Image
  <1>5. CASE Purge(w)
    BY <1>2, <1>5 DEF Purge
  <1>6. CASE Create(w) \/ Update(w) \/ Refer(w) \/ Unrefer(w) \/ Fetch(w)
    BY <1>3, <1>6 DEF Create, Update, Refer, Unrefer, Fetch
  <1>7. CASE LockRow(w) \/ CheckInUse(w) \/ Delete(w) \/ Gone(w) \/ Rollback(w)
    BY <1>3, <1>7 DEF LockRow, CheckInUse, Delete, Gone, Rollback, At
  <1> QED
    BY <1>1, <1>4, <1>5, <1>6, <1>7

\* What a reader puts together misses only what it loaded before the epoch.
LEMMA ReaderSound ==
  ASSUME Sound, NEW r \in Readers, Load(r) \/ Read(r) \/ Store(r) \/ Hit(r)
  PROVE  /\ cache' \in Payloads /\ reader' \in [Readers -> ReaderRecords]
         /\ CachedExcused' /\ ReadsExcused'
  <1>1. /\ cache \in Payloads /\ reader \in [Readers -> ReaderRecords] /\ reader[r] \in ReaderRecords
        /\ CachedExcused /\ ReadsExcused
    BY TypeOKUnfolded DEF Sound, Typed
  <1>2. /\ UNCHANGED <<link, ns, writer>> /\ Owing' = Owing
        /\ Tolerated' = Tolerated /\ RowFirst' = RowFirst
    BY ToleratedConstant DEF Load, Read, Store, Hit, Owing
  <1>3. ASSUME NEW x \in ReaderRecords, reader' = [reader EXCEPT ![r] = x], UNCHANGED cache,
               x.step = "read" => x.missed \subseteq Tolerated,
               x.step = "idle" => x.missed = {}, x.step = "loaded" => RowFirst
        PROVE  /\ cache' \in Payloads /\ reader' \in [Readers -> ReaderRecords]
               /\ CachedExcused' /\ ReadsExcused'
    <2>1. \A q \in Readers : reader'[q] = IF q = r THEN x ELSE reader[q]
      BY <1>1, <1>3
    <2>2. CachedExcused'
      BY <1>1, <1>2, <1>3 DEF CachedExcused, Excused
    <2>3. ReadsExcused'
      BY <1>1, <1>2, <1>3, <2>1 DEF ReadsExcused, Excused
    <2> QED
      BY <1>1, <1>3, <2>2, <2>3
  <1>4. CASE Load(r)
    <2>1. [step |-> "loaded", missed |-> {}, raced |-> FALSE] \in ReaderRecords
      BY DEF ReaderRecords
    <2> QED
      BY <1>3, <1>4, <2>1 DEF Load
  <1>5. CASE Read(r)
    <2> DEFINE x == [step |-> "read", raced |-> FALSE,
                     missed |-> reader[r].missed \cap {"link", "unlink", "delete"}]
    <2>1. x \in ReaderRecords /\ x.step = "read"
      BY <1>1 DEF ReaderRecords
    <2>2. x.missed \subseteq Tolerated
      <3>1. CASE RowFirst
        BY <3>1 DEF Tolerated
      <3>2. CASE ~RowFirst
        BY <1>1, <1>5, <3>2 DEF Read, ReadsExcused
      <3> QED
        BY <3>1, <3>2
    <2>3. reader' = [reader EXCEPT ![r] = x] /\ UNCHANGED cache
      BY <1>1, <1>5 DEF Read
    <2> HIDE DEF x
    <2> QED
      BY <1>3, <2>1, <2>2, <2>3
  <1>6. CASE Store(r)
    <2>1. Resting \in ReaderRecords /\ Resting.step = "idle" /\ Resting.missed = {}
      BY DEF Resting, ReaderRecords
    <2>2. CASE reader[r].raced
      BY <1>3, <1>6, <2>1, <2>2 DEF Store
    <2>3. CASE ~reader[r].raced
      <3>1. cache' = [there |-> TRUE, missed |-> reader[r].missed] /\ reader' = [reader EXCEPT ![r] = Resting]
        BY <1>6, <2>3 DEF Store
      <3>2. cache' \in Payloads /\ cache'.missed = reader[r].missed
        BY <1>1, <3>1 DEF Payloads, ReaderRecords
      <3>3. CachedExcused'
        BY <1>1, <1>2, <1>6, <2>3, <3>2 DEF CachedExcused, ReadsExcused, Excused, Store
      <3>4. \A q \in Readers : reader'[q] = IF q = r THEN Resting ELSE reader[q]
        BY <1>1, <3>1
      <3>5. ReadsExcused'
        BY <1>1, <1>2, <2>1, <3>4 DEF ReadsExcused, Excused
      <3> QED
        BY <1>1, <2>1, <3>1, <3>2, <3>3, <3>5
    <2> QED
      BY <2>2, <2>3
  <1>7. CASE Hit(r)
    <2>1. Resting \in ReaderRecords /\ Resting.step = "idle" /\ Resting.missed = {}
      BY DEF Resting, ReaderRecords
    <2> QED
      BY <1>3, <1>7, <2>1 DEF Hit
  <1> QED
    BY <1>4, <1>5, <1>6, <1>7

LEMMA InitSound == Init => Sound
  <1> SUFFICES ASSUME Init PROVE Sound
    OBVIOUS
  <1>1. Idle \in WriterRecords /\ Promise(Idle)
    BY DEF Idle, WriterRecords, Ops, Promise
  <1>2. Resting \in ReaderRecords /\ Resting.step = "idle" /\ Resting.missed = {}
    BY DEF Resting, ReaderRecords
  <1>3. NoPayload \in Payloads /\ NoPayload.missed = {}
    BY DEF NoPayload, Payloads
  <1>4. Typed
    <2>1. writer \in [Writers -> WriterRecords] /\ Promised
      BY <1>1 DEF Init, Promised
    <2>2. reader \in [Readers -> ReaderRecords] /\ row \in BOOLEAN
      BY <1>2 DEF Init
    <2> QED
      BY <1>3, <2>1, <2>2, TypeOKUnfolded DEF Init, Typed
  <1> QED
    BY <1>2, <1>3, <1>4, InitGuarded DEF Init, Sound, CachedExcused, ReadsExcused, Excused

LEMMA NextSound == Sound /\ [Next]_vars => Sound'
  <1> SUFFICES ASSUME Sound, [Next]_vars PROVE Sound'
    OBVIOUS
  <1>1. Guarded'
    BY NextGuarded DEF Sound
  <1>2. CASE UNCHANGED vars
    <2>1. Typed'
      BY <1>2, TypeOKUnfolded DEF Sound, Typed, TypeOK, Promised, Promise, vars
    <2>2. CachedExcused' /\ ReadsExcused'
      BY <1>2, ToleratedConstant DEF Sound, CachedExcused, ReadsExcused, Excused, Owing, vars
    <2> QED
      BY <1>1, <2>1, <2>2 DEF Sound
  <1>3. ASSUME NEW w \in Writers,
               \/ Create(w) \/ Update(w) \/ Image(w) \/ Refer(w) \/ Unrefer(w) \/ Fetch(w) \/ LockRow(w)
               \/ CheckInUse(w) \/ Delete(w) \/ Gone(w) \/ Rollback(w) \/ Commit(w) \/ Purge(w)
        PROVE  Sound'
    <2>1. cache' \in Payloads /\ reader' \in [Readers -> ReaderRecords] /\ CachedExcused' /\ ReadsExcused'
      BY <1>3, WriterExcused
    <2>2. writer' \in [Writers -> WriterRecords] /\ Promised'
      BY <1>3, StartsTyped, ContinuesTyped DEF Sound
    <2>3. /\ link' = link /\ ns' = ns /\ row' \in BOOLEAN /\ linked' \in BOOLEAN
      BY <1>3, TypeOKUnfolded DEF Sound, Typed, Create, Update, Image, Refer, Unrefer, Fetch, LockRow,
         CheckInUse, Delete, Gone, Rollback, Commit, Purge
    <2>4. TypeOK'
      BY <2>1, <2>2, <2>3, TypeOKUnfolded DEF Sound, Typed, TypeOK, WriterRecords, ReaderRecords, Namespaces
    <2> QED
      BY <1>1, <2>1, <2>2, <2>4 DEF Sound, Typed
  <1>4. ASSUME NEW r \in Readers, Load(r) \/ Read(r) \/ Store(r) \/ Hit(r)
        PROVE  Sound'
    <2>1. cache' \in Payloads /\ reader' \in [Readers -> ReaderRecords] /\ CachedExcused' /\ ReadsExcused'
      BY <1>4, ReaderSound
    <2>2. UNCHANGED <<link, ns, row, linked, writer>>
      BY <1>4 DEF Load, Read, Store, Hit
    <2>3. TypeOK'
      BY <2>1, <2>2 DEF Sound, Typed, TypeOK, ReaderRecords
    <2>4. Promised'
      BY <2>2 DEF Sound, Typed, Promised, Promise
    <2> QED
      BY <1>1, <2>1, <2>3, <2>4 DEF Sound, Typed
  <1> QED
    BY <1>2, <1>3, <1>4 DEF Next

\* Every variable of the catalogs has its type.
THEOREM CatalogTyped == Spec => []TypeOK
  <1>1. Sound => TypeOK
    BY DEF Sound, Typed
  <1> QED
    BY <1>1, InitSound, NextSound, PTL DEF Spec

\* core/cache/namespaces.py and the cache.py files: a cached payload that misses a
\* change, other than those the code tolerates, is owed its purge, whatever refers
\* to the row and however many write and read it.
THEOREM StaleOwed == Spec => []StaleIsOwed
  <1>1. Sound => StaleIsOwed
    BY DEF Sound, CachedExcused, Excused, Owing, StaleIsOwed
  <1> QED
    BY <1>1, InitSound, NextSound, PTL DEF Spec

(***************************************************************************)
(* The feature engine.                                                     *)
(*                                                                         *)
(* Four invariants, each proved with the help of those before it.          *)
(*                                                                         *)
(* TreeInv: an edit has its feature to itself and changes rows of that     *)
(* feature's tree only (BelongsTo), so that the tree another edit leaves   *)
(* is legal whichever of the two commits first (CommitKeepsEdit).          *)
(*                                                                         *)
(* GrantInv: a stored pick has a grant and finds its group and its option, *)
(* and whoever is about to take one of these away takes the pick with it;  *)
(* a pick about to be stored is safe from all of them.  The row locks are  *)
(* Apart.                                                                  *)
(*                                                                         *)
(* CountInv: what a request is about to store in a group fits the group,   *)
(* and replaces all that is there; no other request is about to do the     *)
(* same (PicksApart).                                                      *)
(*                                                                         *)
(* TotalInv: the totals a request holds are those of the state its commit  *)
(* will make, for every character that no commit since stored totals of;   *)
(* a commit leaves everything the totals of all others count as it was     *)
(* (CommitSpares).                                                         *)
(***************************************************************************)

-----------------------------------------------------------------------------
(* The invariant: trees.                                                   *)

\* Every row that is stored, about to be, or in the hands of a request that
\* loaded it.
AllRows == tree \cup UNION {req[q].put \cup req[q].seen : q \in Requests}

\* Ids are never given twice, and a row keeps what it is about.
Alike(x, y) ==
    x.kind # "effect" /\ y.kind # "effect" /\ x.id = y.id =>
        /\ x.kind = y.kind
        /\ x.kind = "group" => x.feature = y.feature /\ x.type = y.type
        /\ x.kind = "option" => x.group = y.group

Fitting(e, o, g) ==
    /\ e.kind = "effect" /\ o.kind = "option" /\ g.kind = "group"
    /\ e.owner = o.id /\ o.group = g.id
    => e.type = g.type

RowsSound ==
    /\ ids \in Nat /\ AllRows \subseteq Rows(ids)
    /\ \A x, y \in AllRows : Alike(x, y)
    /\ \A e, o, g \in AllRows : Fitting(e, o, g)

\* The owners and the rows of a feature's tree.
OwnerIn(t, w, f) == w = f \/ \E g \in GroupsOf(t, f) : \E o \in OptionsOf(t, g.id) : o.id = w
BelongsTo(t, x, f) ==
    \/ x.kind = "group" /\ x.feature = f
    \/ x.kind = "option" /\ \E g \in GroupsOf(t, f) : g.id = x.group
    \/ x.kind = "effect" /\ OwnerIn(t, x.owner, f)

\* The rules, of one feature's groups and of all effects.
GroupsLegal(t, f) ==
    /\ IsFiniteSet(GroupsOf(t, f)) /\ Cardinality(GroupsOf(t, f)) <= MaxGroups
    /\ Cardinality({g \in GroupsOf(t, f) : g.type = "ability"}) <= 1
Once(t) == \A x, y \in t :
    \/ x.kind = "effect" /\ y.kind = "effect" /\ x.owner = y.owner /\ SameEffect(x, y)
    \/ x.kind # "effect" /\ y.kind # "effect" /\ x.id = y.id
    => x = y

\* A GM's edit changes rows of the feature it has locked, within the rules.
Result(t, me) == (t \ me.cut) \cup me.put
SoundWrite(t, me) ==
    /\ me.op # "edit" => me.put = {} /\ me.cut = {} /\ me.step # "drop"
    /\ me.op = "edit" =>
            /\ me.feature \in Features /\ me.step \in {"drop", "store"} /\ me.cut \subseteq t
            /\ \A x \in me.put \cup me.cut : BelongsTo(t \cup me.put, x, me.feature)
            /\ GroupsLegal(Result(t, me), me.feature) /\ Once(Result(t, me))
            /\ me.step = "drop" => me.put = {}
SoundEdit(r) == SoundWrite(tree, req[r])

\* The tree as the write of r leaves it.
After(r) == Result(tree, req[r])

EditsApart ==
    \A r, q \in Requests :
        req[r].op = "edit" /\ req[q].op = "edit" /\ req[r].feature = req[q].feature => r = q

ReqType == req = [r \in Requests |-> req[r]] /\ \A r \in Requests : DOMAIN req[r] = DOMAIN NoWork

TreeInv ==
    /\ RowsSound /\ EditsApart /\ Once(tree)
    /\ \A f \in Features : GroupsLegal(tree, f)
    /\ \A r \in Requests : SoundEdit(r)
-----------------------------------------------------------------------------
(* The invariant: grants and picks.                                        *)

\* The tables, and what each kind of request carries.
Tables ==
    /\ grants \in [Characters -> [Features -> {"", "AUTO", "GM", "ASI"}]]
    /\ level \in [Characters -> Nat]
    /\ flags = [f \in Features |-> Flags(tree, f)]

GrantOps == {"level", "grant", "revoke"}
PickOps == {"answer", "asi"}

SoundRecord(me, gs) ==
    /\ me.op \in {"", "edit"} \cup PickOps \cup GrantOps
    /\ me.op = "" => me = NoWork
    /\ me.op \in PickOps \cup GrantOps => me.char \in Characters
    /\ me.op \in {"edit"} \cup PickOps => me.grant = <<>> /\ me.revoke = {}
    /\ me.op = "edit" => me.pick = {}
    /\ me.op \in PickOps =>
            /\ me.step \in {"insert", "store"}
            /\ me.feature \in Features /\ gs[me.char][me.feature] # ""
            /\ \A p \in me.pick : p.feature = me.feature
    /\ me.op \in GrantOps =>
            /\ me.step \in {"loaded", "store"}
            /\ me.step = "loaded" => me.feature \in Features /\ me.pick = {} /\ me.grant = <<>> /\ me.revoke = {}
            /\ DOMAIN me.grant \subseteq Features /\ me.revoke \subseteq Features
            /\ \A f \in DOMAIN me.grant :
                    gs[me.char][f] = "" /\ me.grant[f] \in {"AUTO", "GM", "ASI"} /\ f \notin me.revoke
            /\ \A p \in me.pick : p.feature \in DOMAIN me.grant
            /\ me.op = "level" => me.level \in Nat

\* What the row locks exclude.
Apart(me, you) ==
    /\ me.op = "edit" => me.feature \notin DOMAIN you.grant
    /\ ~ /\ me.op \in CharacterOps /\ you.op \in CharacterOps
         /\ me.step # "loaded" /\ you.step # "loaded"
         /\ me.char = you.char
    /\ me.op = "answer" =>
            /\ ~(you.op = "answer" /\ you.char = me.char /\ you.feature = me.feature)
            /\ ~(you.char = me.char /\ me.feature \in you.revoke)
            /\ you.step = "store" => PicksOf(you.pick, me.char, me.feature) = {}

\* A pick is of a group of its feature and an option of its group.
Names(p) == {p.group, p.option}
SoundPick(p, rows, n) ==
    /\ p \in [char : Characters, feature : Features, group : 1..n, option : 1..n]
    /\ \A x \in rows : x.kind # "effect" =>
            /\ x.id = p.group => x.kind = "group" /\ x.feature = p.feature
            /\ x.id = p.option => x.kind = "option" /\ x.group = p.group

\* The rows a write is about to take away, and the grants.
DropsOf(me) == IF me.step = "store" THEN RowIds(me.cut) \ RowIds(me.put) ELSE {}
Drops(me, p) == Names(p) \cap DropsOf(me) # {}
Revokes(me, p) == p.char = me.char /\ p.feature \in me.revoke

\* A stored pick belongs to a grant, and its rows are there; a transaction
\* that is going to take one of these away takes the pick with it.
StoredPick(p) ==
    /\ SoundPick(p, AllRows, ids) /\ Names(p) \subseteq RowIds(tree) /\ grants[p.char][p.feature] # ""
    /\ \A q \in Requests : Drops(req[q], p) \/ Revokes(req[q], p) => p \in req[q].unpick

\* So will a pick about to be stored.
NewPick(me, p) ==
    /\ SoundPick(p, AllRows, ids) /\ p.char = me.char
    /\ me.step = "store" => Names(p) \subseteq RowIds(tree) /\ \A q \in Requests : ~Drops(req[q], p)
    /\ \A q \in Requests : ~Revokes(req[q], p)

\* The flags an edit has computed.
SoundFlags(t, me) ==
    me.step = "store" /\ me.op = "edit" => me.flags = Flags(Result(t, me), me.feature)

GrantInv ==
    /\ Tables
    /\ \A r \in Requests : SoundRecord(req[r], grants)
    /\ \A r, q \in Requests : r # q => Apart(req[r], req[q])
    /\ \A p \in picks : StoredPick(p)
    /\ \A r \in Requests : \A p \in req[r].pick : NewPick(req[r], p)
    /\ \A r \in Requests : SoundFlags(tree, req[r])
-----------------------------------------------------------------------------
(* The invariant: counts.                                                  *)

\* The groups NeverOverPicked is about.
Counts(f, g) == g.id \notin lowered /\ ~(f \in Feats /\ g.type = "ability")

\* UpdateFeat picks in a feat's ability groups.
AsiOnly(me) == me.op = "asi" =>
    /\ me.feature \in Feats
    /\ \A p \in me.pick : \A x \in tree : x.kind = "group" /\ x.id = p.group => x.type = "ability"

\* What a request is about to store fits its group, and replaces what is there.
Fills(me, f, g) ==
    /\ Cardinality(PicksIn(me.pick, me.char, f, g.id)) <= g.count
    /\ PicksIn(me.pick, me.char, f, g.id) # {} => PicksIn(picks, me.char, f, g.id) \subseteq me.unpick
Bounded(me) == \A f \in Features : \A g \in GroupsOf(tree, f) : Counts(f, g) => Fills(me, f, g)

\* A group that somebody has read is changed by an update, never created.
IsGroup(n) == \E x \in tree : x.kind = "group" /\ x.id = n
Published(you, me) ==
    \A y \in you.put : y.kind = "group" =>
        /\ \A p \in me.pick : p.group = y.id => IsGroup(y.id)
        /\ \A x \in me.seen : x.kind = "group" /\ x.id = y.id => IsGroup(y.id)

\* A tree loaded asks for no more picks than the one stored.
SeenCounts(me) ==
    \A x \in me.seen, y \in tree :
        x.kind = "group" /\ y.kind = "group" /\ x.id = y.id => y.id \in lowered \/ x.count <= y.count

\* A level-up leaves nothing pending of what it grants.
Answered(me) ==
    me.step = "store" /\ me.op = "level" =>
        \A f \in DOMAIN me.grant : Pending(tree, me.pick, me.char, f) = {}

CountInv ==
    /\ NeverOverPicked
    /\ \A r \in Requests : AsiOnly(req[r]) /\ Bounded(req[r]) /\ SeenCounts(req[r]) /\ Answered(req[r])
    /\ \A q, r \in Requests : Published(req[q], req[r])
-----------------------------------------------------------------------------
(* The invariant: totals.                                                  *)
\* What a request is about to store: grants, picks, and the totals they make.
With(gs, me) ==
    IF me.op = "edit" THEN gs
    ELSE [gs EXCEPT ![me.char] = [f \in Features |-> IF f \in DOMAIN me.grant THEN me.grant[f]
                                                     ELSE IF f \in me.revoke THEN "" ELSE gs[me.char][f]]]
Picked(ps, me) == (ps \ me.unpick) \cup me.pick
TotalsWith(t, gs, ps, me, c) == Totals(Result(t, me), With(gs, me), Picked(ps, me), c)

\* The totals a request has computed are those of what it is about to store,
\* but for the characters it is late for; it deletes no others' picks.
Computed(me) ==
    me.step = "store" =>
        /\ DOMAIN me.totals \subseteq Characters
        /\ me.op = "edit" => Holders(me.feature) \subseteq DOMAIN me.totals
        /\ me.op # "edit" => DOMAIN me.totals = {me.char}
        /\ \A c \in DOMAIN me.totals \ me.late : me.totals[c] = TotalsWith(tree, grants, picks, me, c)
Unpicks(me) ==
    /\ me.op = "edit" => \A p \in me.unpick : p.feature = me.feature
    /\ me.op # "edit" => \A p \in me.unpick : p.char = me.char

TotalInv == TotalsFollow /\ \A r \in Requests : Computed(req[r]) /\ Unpicks(req[r])
-----------------------------------------------------------------------------
(* Rows.                                                                   *)

LEMMA RowFields ==
  ASSUME NEW n, NEW x \in Rows(n)
  PROVE  /\ x.kind \in {"group", "option", "effect"}
         /\ x.kind = "group" => /\ x.id \in 1..n /\ x.feature \in Features /\ x.type \in EffectTypes
                                /\ x.count \in Nat \ {0}
                                /\ x = Group(x.id, x.feature, x.type, x.count)
         /\ x.kind = "option" => x.id \in 1..n /\ x.group \in 1..n /\ x = Option(x.id, x.group)
         /\ x.kind = "effect" => x.owner \in Features \cup (1..n) /\ x.type \in EffectTypes
  BY DEF Rows, Group, Option

LEMMA MoreRows ==
  ASSUME NEW n \in Nat, NEW m \in Nat, n <= m
  PROVE  Rows(n) \subseteq Rows(m)
  <1>1. 1..n \subseteq 1..m
    OBVIOUS
  <1> QED
    BY <1>1 DEF Rows

LEMMA NewGroup ==
  ASSUME NEW n \in Nat, NEW i \in 1..n, NEW f \in Features, NEW t \in EffectTypes, NEW k \in Nat \ {0}
  PROVE  Group(i, f, t, k) \in Rows(n)
  BY DEF Group, Rows

LEMMA NewOption ==
  ASSUME NEW n \in Nat, NEW i \in 1..n, NEW g \in 1..n
  PROVE  Option(i, g) \in Rows(n)
  BY DEF Option, Rows

LEMMA ItemFields ==
  ASSUME NEW i \in Items
  PROVE  /\ i.type \in EffectTypes /\ i.key \in UNION {Keys[t] : t \in EffectTypes}
         /\ i.amount \in UNION {Amounts[t] : t \in EffectTypes}
  BY DEF Items

LEMMA NewEffect ==
  ASSUME NEW n \in Nat, NEW w \in Features \cup (1..n), NEW i \in Items
  PROVE  Effect(w, i) \in Rows(n)
  BY ItemFields DEF Effect, Rows

LEMMA RowKinds ==
  ASSUME NEW n, NEW f, NEW t, NEW k, NEW g, NEW w, NEW i
  PROVE  /\ Group(n, f, t, k).kind = "group" /\ Group(n, f, t, k).id = n
         /\ Group(n, f, t, k).feature = f /\ Group(n, f, t, k).type = t /\ Group(n, f, t, k).count = k
         /\ Option(n, g).kind = "option" /\ Option(n, g).id = n /\ Option(n, g).group = g
         /\ Effect(w, i).kind = "effect" /\ Effect(w, i).owner = w
         /\ Effect(w, i).type = i.type /\ Effect(w, i).key = i.key
  BY DEF Group, Option, Effect

LEMMA BundleItems ==
  ASSUME NEW b \in Bundles
  PROVE  /\ b \subseteq Items
         /\ \A i, j \in b : SameEffect(i, j) => i = j
  BY DEF Bundles, kSubset

LEMMA AlikeBothWays ==
  ASSUME NEW x, NEW y, Alike(x, y)
  PROVE  Alike(y, x)
  BY DEF Alike
-----------------------------------------------------------------------------
(* Steps of a request.                                                     *)

LEMMA Becomes ==
  ASSUME ReqType, NEW r \in Requests, NEW w, req' = [req EXCEPT ![r] = w], DOMAIN w = DOMAIN NoWork
  PROVE  ReqType' /\ req'[r] = w /\ \A q \in Requests : q # r => req'[q] = req[q]
  BY DEF ReqType

\* What the request of an edit holds afterwards.
Holds(r, f, new, old, away) ==
    /\ req'[r].op = "edit" /\ req'[r].step = "store" /\ req'[r].feature = f
    /\ req'[r].put = new /\ req'[r].cut = old /\ req'[r].unpick = away
    /\ req'[r].pick = {} /\ req'[r].seen = {} /\ req'[r].grant = <<>> /\ req'[r].revoke = {}
    /\ req'[r].char = "" /\ req'[r].late = {}

LEMMA EditShape ==
  ASSUME ReqType, NEW r \in Requests, NEW f, NEW new, NEW old, NEW away, Edit(r, f, new, old, away)
  PROVE  /\ ReqType' /\ \A q \in Requests : q # r => req'[q] = req[q]
         /\ Holds(r, f, new, old, away)
  <1> DEFINE t == (tree \ old) \cup new
             fl == Flags(t, f)
             tot == [c \in Holders(f) |-> Totals(t, grants, picks \ away, c)]
             w == [NoWork EXCEPT !.op = "edit", !.step = "store", !.feature = f, !.put = new, !.cut = old,
                                 !.unpick = away, !.flags = fl, !.totals = tot]
  <1>1. req' = [req EXCEPT ![r] = w]
    BY DEF Edit
  <1> HIDE DEF fl, tot
  <1>2. /\ DOMAIN w = DOMAIN NoWork
        /\ w.op = "edit" /\ w.step = "store" /\ w.feature = f /\ w.put = new /\ w.cut = old /\ w.unpick = away
        /\ w.pick = {} /\ w.seen = {} /\ w.grant = <<>> /\ w.revoke = {} /\ w.char = "" /\ w.late = {}
    BY DEF NoWork
  <1> HIDE DEF w
  <1>3. ReqType' /\ req'[r] = w /\ \A q \in Requests : q # r => req'[q] = req[q]
    BY <1>1, <1>2, Becomes
  <1> QED
    BY <1>2, <1>3 DEF Holds

LEMMA EditComputes ==
  ASSUME ReqType, NEW r \in Requests, NEW f, NEW new, NEW old, NEW away, Edit(r, f, new, old, away)
  PROVE  /\ req'[r].flags = Flags((tree \ old) \cup new, f)
         /\ req'[r].totals = [c \in Holders(f) |-> Totals((tree \ old) \cup new, grants, picks \ away, c)]
  <1> DEFINE t == (tree \ old) \cup new
             fl == Flags(t, f)
             tot == [c \in Holders(f) |-> Totals(t, grants, picks \ away, c)]
             w == [NoWork EXCEPT !.op = "edit", !.step = "store", !.feature = f, !.put = new, !.cut = old,
                                 !.unpick = away, !.flags = fl, !.totals = tot]
  <1>1. req' = [req EXCEPT ![r] = w]
    BY DEF Edit
  <1> HIDE DEF fl, tot
  <1>2. /\ DOMAIN w = DOMAIN NoWork
        /\ w.flags = fl /\ w.totals = tot
    BY DEF NoWork
  <1> HIDE DEF w
  <1>3. ReqType' /\ req'[r] = w /\ \A q \in Requests : q # r => req'[q] = req[q]
    BY <1>1, <1>2, Becomes
  <1> QED
    BY <1>2, <1>3 DEF fl, tot
-----------------------------------------------------------------------------
(* Trees.                                                                  *)

\* A row belongs to one feature.
LEMMA OneOwner ==
  ASSUME RowsSound, NEW t1 \in SUBSET AllRows, NEW t2 \in SUBSET AllRows,
         NEW f1 \in Features, NEW f2 \in Features, NEW w,
         OwnerIn(t1, w, f1), OwnerIn(t2, w, f2)
  PROVE  f1 = f2
  <1>1. ASSUME NEW t \in SUBSET AllRows, NEW f \in Features, OwnerIn(t, w, f), w \notin Features
        PROVE  \E g \in t : \E o \in t :
                  /\ g.kind = "group" /\ g.feature = f /\ o.kind = "option"
                  /\ o.group = g.id /\ o.id = w
    BY <1>1 DEF OwnerIn, GroupsOf, OptionsOf
  <1>2. CASE w \notin Features
    <2>1. PICK g1 \in t1, o1 \in t1 :
              /\ g1.kind = "group" /\ g1.feature = f1 /\ o1.kind = "option"
              /\ o1.group = g1.id /\ o1.id = w
      BY <1>1, <1>2
    <2>2. PICK g2 \in t2, o2 \in t2 :
              /\ g2.kind = "group" /\ g2.feature = f2 /\ o2.kind = "option"
              /\ o2.group = g2.id /\ o2.id = w
      BY <1>1, <1>2
    <2>3. Alike(o1, o2) /\ Alike(g1, g2)
      BY DEF RowsSound
    <2> QED
      BY <2>1, <2>2, <2>3 DEF Alike
  <1>3. ASSUME NEW t \in SUBSET AllRows, NEW f \in Features, OwnerIn(t, w, f), w \in Features
        PROVE  w = f
    <2>1. ASSUME NEW g \in GroupsOf(t, f), NEW o \in OptionsOf(t, g.id), o.id = w
          PROVE  FALSE
      <3>1. o \in Rows(ids) /\ o.kind = "option"
        BY <2>1 DEF RowsSound, OptionsOf
      <3>2. o.id \in Nat
        BY <3>1, RowFields DEF RowsSound
      <3> QED
        BY <1>3, <2>1, <3>2, OwnerAssumption
    <2> QED
      BY <1>3, <2>1 DEF OwnerIn
  <1> QED
    BY <1>2, <1>3

LEMMA OneHome ==
  ASSUME RowsSound, NEW t1 \in SUBSET AllRows, NEW t2 \in SUBSET AllRows,
         NEW f1 \in Features, NEW f2 \in Features, NEW x,
         BelongsTo(t1, x, f1), BelongsTo(t2, x, f2)
  PROVE  f1 = f2
  <1>1. CASE x.kind = "group"
    BY <1>1 DEF BelongsTo
  <1>2. CASE x.kind = "option"
    <2>1. PICK g1 \in t1 : g1.kind = "group" /\ g1.feature = f1 /\ g1.id = x.group
      BY <1>2 DEF BelongsTo, GroupsOf
    <2>2. PICK g2 \in t2 : g2.kind = "group" /\ g2.feature = f2 /\ g2.id = x.group
      BY <1>2 DEF BelongsTo, GroupsOf
    <2>3. Alike(g1, g2)
      BY DEF RowsSound
    <2> QED
      BY <2>1, <2>2, <2>3 DEF Alike
  <1>3. CASE x.kind = "effect"
    BY <1>3, OneOwner DEF BelongsTo
  <1> QED
    BY <1>1, <1>2, <1>3 DEF BelongsTo

\* What belongs to a feature does so in any tree that keeps its rows.
LEMMA StillBelongs ==
  ASSUME NEW t1, NEW t2, NEW f, NEW x, BelongsTo(t1, x, f),
         \A y \in t1 : BelongsTo(t1, y, f) => y \in t2
  PROVE  BelongsTo(t2, x, f)
  <1>1. GroupsOf(t1, f) \subseteq GroupsOf(t2, f)
    BY DEF GroupsOf, BelongsTo
  <1>2. \A g \in GroupsOf(t1, f) : OptionsOf(t1, g.id) \subseteq OptionsOf(t2, g.id)
    BY DEF OptionsOf, BelongsTo
  <1> QED
    BY <1>1, <1>2 DEF BelongsTo, OwnerIn

LEMMA RowsOf ==
  ASSUME NEW q \in Requests
  PROVE  /\ req[q].put \subseteq AllRows /\ req[q].seen \subseteq AllRows
         /\ tree \subseteq AllRows /\ tree \cup req[q].put \subseteq AllRows
         /\ After(q) \subseteq AllRows
  BY DEF AllRows, After, Result, TreeInv, SoundEdit, SoundWrite

\* A step that stores nothing leaves the trees alone, whatever other edits are
\* under way.
\* New rows, of ids up to n, that go with the rows there are.
Fresh(new, n) ==
    /\ new \subseteq Rows(n)
    /\ \A x \in new : \A y \in AllRows \cup new : Alike(x, y)
    /\ \A e, o, g \in AllRows \cup new : e \in new \/ o \in new \/ g \in new => Fitting(e, o, g)
LEMMA SoundRows ==
  ASSUME RowsSound, NEW new, AllRows' \subseteq AllRows \cup new,
         ids' \in Nat, ids <= ids', Fresh(new, ids')
  PROVE  RowsSound'
  <1>1. Rows(ids) \subseteq Rows(ids')
    BY MoreRows DEF RowsSound
  <1>2. AllRows' \subseteq Rows(ids')
    BY <1>1 DEF RowsSound, Fresh
  <1>3. \A x, y \in AllRows \cup new : Alike(x, y)
    BY AlikeBothWays DEF RowsSound, Fresh
  <1>4. \A e, o, g \in AllRows \cup new : Fitting(e, o, g)
    BY DEF RowsSound, Fresh
  <1>5. \A x, y \in AllRows' : Alike(x, y)
    BY <1>3
  <1>6. \A e, o, g \in AllRows' : Fitting(e, o, g)
    BY <1>4
  <1> HIDE DEF AllRows
  <1>7. RowsSound' <=> /\ ids' \in Nat /\ AllRows' \subseteq Rows(ids')
                       /\ \A x, y \in AllRows' : Alike(x, y)
                       /\ \A e, o, g \in AllRows' : Fitting(e, o, g)
    BY DEF RowsSound, Alike, Fitting, Rows
  <1> QED
    BY <1>2, <1>5, <1>6, <1>7

LEMMA EditKeepsTree ==
  ASSUME TreeInv, NEW r \in Requests, tree' = tree, ids' \in Nat, ids <= ids',
         \A q \in Requests : q # r => req'[q] = req[q],
         req'[r].op = "edit", req'[r].seen = {}, Fresh(req'[r].put, ids'),
         \A q \in Requests : req[q].op = "edit" /\ req[q].feature = req'[r].feature => q = r,
         SoundWrite(tree, req'[r])
  PROVE  TreeInv'
  <1>1. AllRows' \subseteq AllRows \cup req'[r].put
    BY DEF AllRows
  <1>2. RowsSound'
    BY <1>1, SoundRows DEF TreeInv
  <1>3. EditsApart'
    BY DEF EditsApart, TreeInv
  <1>4. \A q \in Requests : SoundEdit(q)'
    BY DEF SoundEdit, TreeInv
  <1> QED
    BY <1>2, <1>3, <1>4 DEF TreeInv, Once, GroupsLegal, GroupsOf

\* Neither does a step that only reads, or forgets.
LEMMA PlainKeepsTree ==
  ASSUME TreeInv, NEW r \in Requests, tree' = tree, ids' = ids,
         \A q \in Requests : q # r => req'[q] = req[q],
         req'[r].put = {}, req'[r].cut = {}, req'[r].op # "edit", req'[r].step # "drop",
         req'[r].seen \subseteq AllRows
  PROVE  TreeInv'
  <1>1. AllRows' \subseteq AllRows \cup {}
    BY DEF AllRows
  <1>2. RowsSound'
    BY <1>1, SoundRows DEF RowsSound, TreeInv, Fresh
  <1>3. EditsApart'
    BY DEF EditsApart, TreeInv
  <1>4. \A q \in Requests : SoundEdit(q)'
    BY DEF SoundEdit, SoundWrite, TreeInv
  <1> QED
    BY <1>2, <1>3, <1>4 DEF TreeInv

-----------------------------------------------------------------------------
(* Edits of effects.                                                       *)

\* Effects written on the owner w of a feature's tree.
EffectsFor(new, w, items) == \A x \in new : \E i \in items : x = Effect(w, i)
Suits(items, w, f) ==
    \A i \in items : \A g \in GroupsOf(tree, f) : \A o \in OptionsOf(tree, g.id) : o.id = w => i.type = g.type

LEMMA EffectRows ==
  ASSUME TreeInv, NEW f \in Features, NEW w, OwnerIn(tree, w, f),
         NEW items \in SUBSET Items, NEW new, EffectsFor(new, w, items), Suits(items, w, f)
  PROVE  /\ Fresh(new, ids)
         /\ \A x \in new : x.kind = "effect" /\ x.owner = w /\ BelongsTo(tree \cup new, x, f)
  <1>1. \A x \in new : x.kind = "effect" /\ x.owner = w /\ \E i \in items : x.type = i.type
    BY RowKinds DEF EffectsFor
  <1>2. w \in Features \cup (1..ids)
    <2>1. ASSUME NEW g \in GroupsOf(tree, f), NEW o \in OptionsOf(tree, g.id), o.id = w
          PROVE  w \in 1..ids
      BY <2>1, RowFields DEF TreeInv, RowsSound, AllRows, OptionsOf
    <2> QED
      BY <2>1 DEF OwnerIn
  <1>3. new \subseteq Rows(ids)
    BY <1>2, NewEffect DEF TreeInv, RowsSound, EffectsFor
  <1>4. OwnerIn(tree \cup new, w, f)
    BY DEF OwnerIn, GroupsOf, OptionsOf
  <1>5. \A x \in new : BelongsTo(tree \cup new, x, f)
    BY <1>1, <1>4 DEF BelongsTo
  <1>6. \A x \in new : \A y \in AllRows \cup new : Alike(x, y)
    BY <1>1 DEF Alike
  <1>7. ASSUME NEW e \in AllRows \cup new, NEW o \in AllRows \cup new, NEW g \in AllRows \cup new,
               e \in new \/ o \in new \/ g \in new,
               e.kind = "effect", o.kind = "option", g.kind = "group", e.owner = o.id, o.group = g.id
        PROVE  e.type = g.type
    <2>1. e \in new /\ o \in AllRows /\ g \in AllRows /\ o.id = w
      BY <1>1, <1>7
    <2>2. w \in Nat
      BY <2>1, <1>7, RowFields DEF TreeInv, RowsSound
    <2>3. \E h \in GroupsOf(tree, f) : \E p \in OptionsOf(tree, h.id) : p.id = w
      BY <2>2, OwnerAssumption DEF OwnerIn
    <2>7. PICK h \in GroupsOf(tree, f) : \E p \in OptionsOf(tree, h.id) : p.id = w
      BY <2>3
    <2>8. PICK p \in OptionsOf(tree, h.id) : p.id = w
      BY <2>7
    <2>4. h \in AllRows /\ p \in AllRows /\ h.kind = "group" /\ p.kind = "option" /\ p.group = h.id
      BY DEF AllRows, GroupsOf, OptionsOf
    <2>5. Alike(o, p) /\ Alike(g, h)
      BY <2>1, <2>4 DEF TreeInv, RowsSound
    <2>6. g.type = h.type
      BY <2>1, <2>8, <2>4, <2>5, <1>7 DEF Alike
    <2> QED
      BY <1>1, <2>1, <2>8, <2>6 DEF Suits
  <1> QED
    BY ZenonT(40), <1>1, <1>3, <1>5, <1>6, <1>7 DEF Fitting, Fresh

LEMMA SameGroups ==
  ASSUME NEW t1, NEW t2, NEW f, GroupsLegal(t1, f),
         \A x : x.kind = "group" /\ x.feature = f => (x \in t1 <=> x \in t2)
  PROVE  GroupsLegal(t2, f)
  <1>1. GroupsOf(t1, f) = GroupsOf(t2, f)
    BY DEF GroupsOf
  <1> QED
    BY <1>1 DEF GroupsLegal

LEMMA EffectEdit ==
  ASSUME TreeInv, ReqType, NEW r \in Requests, NEW f \in Features, FeatureShared(r, f),
         NEW w, OwnerIn(tree, w, f), NEW items \in SUBSET Items, NEW new, EffectsFor(new, w, items),
         NEW old \in SUBSET EffectsOn(tree, w), Edit(r, f, new, old, {}), tree' = tree, ids' = ids,
         Suits(items, w, f),
         \A i, j \in items : SameEffect(i, j) => i = j,
         \A i \in items : \A e \in EffectsOn(tree, w) \ old : SameEffect(i, e) => e = Effect(w, i)
  PROVE  TreeInv'
  <1>1. /\ Fresh(new, ids)
        /\ \A x \in new : x.kind = "effect" /\ x.owner = w /\ BelongsTo(tree \cup new, x, f)
    BY EffectRows
  <1>2. \A x \in old : x \in tree /\ x.kind = "effect" /\ x.owner = w
    BY DEF EffectsOn
  <1>3. \A x \in old : BelongsTo(tree \cup new, x, f)
    <2>1. OwnerIn(tree \cup new, w, f)
      BY DEF OwnerIn, GroupsOf, OptionsOf
    <2> QED
      BY <1>2, <2>1 DEF BelongsTo
  <1> DEFINE after == (tree \ old) \cup new
  <1>4. GroupsLegal(after, f)
    BY <1>1, <1>2, SameGroups DEF TreeInv
  <1>5. Once(after)
    <2>1. ASSUME NEW x \in after, NEW y \in new, x.kind = "effect", x.owner = w, SameEffect(x, y)
          PROVE  x = y
      <3>1. PICK i \in items : y = Effect(w, i)
        BY DEF EffectsFor
      <3>2. SameEffect(x, i) /\ SameEffect(i, x)
        BY <2>1, <3>1, RowKinds DEF SameEffect
      <3>3. CASE x \in new
        <4>1. PICK j \in items : x = Effect(w, j)
          BY <3>3 DEF EffectsFor
        <4>2. SameEffect(j, i)
          BY <3>2, <4>1, RowKinds DEF SameEffect
        <4> QED
          BY <4>1, <4>2, <3>1
      <3>4. CASE x \notin new
        <4>1. x \in EffectsOn(tree, w) \ old
          BY <2>1, <3>4 DEF EffectsOn
        <4> QED
          BY <4>1, <3>1, <3>2
      <3> QED
        BY <3>3, <3>4
    <2>2. \A x, y : SameEffect(x, y) => SameEffect(y, x)
      BY DEF SameEffect
    <2>3. Once(tree)
      BY DEF TreeInv
    <2>4. ASSUME NEW x \in after, NEW y \in new,
                 \/ x.kind = "effect" /\ y.kind = "effect" /\ x.owner = y.owner /\ SameEffect(x, y)
                 \/ x.kind # "effect" /\ y.kind # "effect" /\ x.id = y.id
          PROVE  x = y
      BY <1>1, <2>1, <2>4
    <2>5. ASSUME NEW x \in after, NEW y \in after, x \in new \/ y \in new,
                 \/ x.kind = "effect" /\ y.kind = "effect" /\ x.owner = y.owner /\ SameEffect(x, y)
                 \/ x.kind # "effect" /\ y.kind # "effect" /\ x.id = y.id
          PROVE  x = y
      BY <2>2, <2>4, <2>5
    <2>6. \A x \in after : x \in new \/ x \in tree
      OBVIOUS
    <2> HIDE DEF after
    <2> QED
      BY <2>3, <2>5, <2>6 DEF Once
  <1>6. /\ \A q \in Requests : q # r => req'[q] = req[q]
        /\ Holds(r, f, new, old, {})
    BY EditShape
  <1>10. /\ req'[r].op = "edit" /\ req'[r].step = "store" /\ req'[r].feature = f
         /\ req'[r].put = new /\ req'[r].cut = old /\ req'[r].seen = {}
    BY <1>6 DEF Holds
  <1>7. SoundWrite(tree, req'[r])
    BY <1>1, <1>2, <1>3, <1>4, <1>5, <1>10 DEF SoundWrite, Result
  <1>8. ids \in Nat
    BY DEF TreeInv, RowsSound
  <1>9. \A q \in Requests : req[q].op = "edit" /\ req[q].feature = req'[r].feature => q = r
    BY <1>10 DEF FeatureShared, OtherThan
  <1> HIDE DEF after
  <1> QED
    BY <1>1, <1>6, <1>10, <1>7, <1>8, <1>9, EditKeepsTree

LEMMA AddEffectsKeepsTree ==
  ASSUME TreeInv, ReqType, NEW r \in Requests, NEW f \in Features, FeatureShared(r, f),
         NEW w, OwnerIn(tree, w, f), NEW b \in Bundles, Suits(b, w, f), AddEffects(r, f, w, b)
  PROVE  TreeInv' /\ ReqType'
  <1>1. PICK new : new = {Effect(w, i) : i \in b}
    OBVIOUS
  <1>2. /\ Edit(r, f, new, {}, {}) /\ tree' = tree /\ ids' = ids
        /\ \A i \in b, e \in EffectsOn(tree, w) : ~SameEffect(i, e)
    BY <1>1 DEF AddEffects, Committed
  <1>3. EffectsFor(new, w, b)
    BY <1>1 DEF EffectsFor
  <1>4. b \in SUBSET Items /\ \A i, j \in b : SameEffect(i, j) => i = j
    BY BundleItems
  <1>5. ReqType'
    BY <1>2, EditShape
  <1>6. {} \in SUBSET EffectsOn(tree, w)
    OBVIOUS
  <1>7. \A i \in b : \A e \in EffectsOn(tree, w) \ {} : SameEffect(i, e) => e = Effect(w, i)
    BY <1>2
  <1> HIDE <1>1
  <1>8. TreeInv'
    BY <1>2, <1>3, <1>4, <1>6, <1>7, EffectEdit
  <1> QED
    BY <1>5, <1>8

LEMMA UpdateEffectKeepsTree ==
  ASSUME TreeInv, ReqType, NEW r \in Requests, NEW f \in Features, FeatureShared(r, f),
         NEW w, OwnerIn(tree, w, f), NEW e \in EffectsOn(tree, w), NEW i \in Items, UpdateEffect(r, f, w, e, i)
  PROVE  TreeInv' /\ ReqType'
  <1>1. PICK made : made = Effect(w, i)
    OBVIOUS
  <1>2. PICK new, old : new = {made} /\ old = {e} \ {made}
    OBVIOUS
  <1>3. /\ Edit(r, f, new, old, {}) /\ tree' = tree /\ ids' = ids
        /\ i.type = e.type
        /\ \A other \in EffectsOn(tree, w) \ {e} : ~SameEffect(i, other)
    BY <1>1, <1>2 DEF UpdateEffect, Committed
  <1>4. EffectsFor(new, w, {i})
    BY <1>1, <1>2 DEF EffectsFor
  <1>5. Suits({i}, w, f)
    <2> SUFFICES ASSUME NEW g \in GroupsOf(tree, f), NEW o \in OptionsOf(tree, g.id), o.id = w
                 PROVE  e.type = g.type
      BY <1>3 DEF Suits
    <2>1. Fitting(e, o, g)
      BY DEF TreeInv, RowsSound, AllRows, EffectsOn, OptionsOf, GroupsOf
    <2> QED
      BY <2>1 DEF Fitting, EffectsOn, OptionsOf, GroupsOf
  <1>6. old \in SUBSET EffectsOn(tree, w)
    BY <1>2
  <1>7. \A j \in {i} : \A x \in EffectsOn(tree, w) \ old : SameEffect(j, x) => x = Effect(w, j)
    BY <1>1, <1>2, <1>3
  <1>8. {i} \in SUBSET Items /\ \A j, k \in {i} : SameEffect(j, k) => j = k
    OBVIOUS
  <1>9. ReqType'
    BY <1>3, EditShape
  <1> HIDE <1>1, <1>2
  <1>10. TreeInv'
    BY <1>3, <1>4, <1>5, <1>6, <1>7, <1>8, EffectEdit
  <1> QED
    BY <1>9, <1>10

LEMMA RemoveEffectKeepsTree ==
  ASSUME TreeInv, ReqType, NEW r \in Requests, NEW f \in Features, FeatureShared(r, f),
         NEW w, OwnerIn(tree, w, f), NEW e \in EffectsOn(tree, w), RemoveEffect(r, f, e)
  PROVE  TreeInv' /\ ReqType'
  <1>1. Edit(r, f, {}, {e}, {}) /\ tree' = tree /\ ids' = ids
    BY DEF RemoveEffect, Committed
  <1>2. /\ EffectsFor({}, w, {}) /\ Suits({}, w, f) /\ {} \in SUBSET Items
        /\ {e} \in SUBSET EffectsOn(tree, w)
        /\ \A i, j \in {} : SameEffect(i, j) => i = j
        /\ \A i \in {} : \A x \in EffectsOn(tree, w) \ {e} : SameEffect(i, x) => x = Effect(w, i)
    BY DEF EffectsFor, Suits
  <1>3. TreeInv'
    BY <1>1, <1>2, EffectEdit
  <1>4. ReqType'
    BY <1>1, EditShape
  <1> QED
    BY <1>3, <1>4

LEMMA OptionEffectWritesKeepTree ==
  ASSUME TreeInv, ReqType, NEW r \in Requests, NEW f \in Features, FeatureShared(r, f),
         NEW g \in GroupsOf(tree, f), NEW o \in OptionsOf(tree, g.id), OptionEffectWrites(r, f, g, o)
  PROVE  TreeInv' /\ ReqType'
  <1>1. OwnerIn(tree, o.id, f)
    BY DEF OwnerIn
  <1>2. ASSUME NEW b \in Bundles, Fits(g.type, b)
        PROVE  Suits(b, o.id, f)
    <2> SUFFICES ASSUME NEW i \in b, NEW h \in GroupsOf(tree, f), NEW p \in OptionsOf(tree, h.id), p.id = o.id
                 PROVE  i.type = h.type
      BY DEF Suits
    <2>1. Alike(p, o) /\ Alike(h, g)
      BY DEF TreeInv, RowsSound, AllRows, OptionsOf, GroupsOf
    <2>2. h.type = g.type
      BY <2>1 DEF Alike, OptionsOf, GroupsOf
    <2> QED
      BY <1>2, <2>2 DEF Fits
  <1>3. ASSUME NEW b \in Bundles, Fits(g.type, b), AddEffects(r, f, o.id, b)
        PROVE  TreeInv' /\ ReqType'
    BY <1>1, <1>2, <1>3, AddEffectsKeepsTree
  <1>4. ASSUME NEW e \in EffectsOn(tree, o.id), NEW i \in Items, UpdateEffect(r, f, o.id, e, i)
        PROVE  TreeInv' /\ ReqType'
    BY <1>1, <1>4, UpdateEffectKeepsTree
  <1>5. ASSUME NEW e \in EffectsOn(tree, o.id), RemoveEffect(r, f, e)
        PROVE  TreeInv' /\ ReqType'
    BY <1>1, <1>5, RemoveEffectKeepsTree
  <1> QED
    BY <1>3, <1>4, <1>5 DEF OptionEffectWrites

LEMMA FixedEffectWritesKeepTree ==
  ASSUME TreeInv, ReqType, NEW r \in Requests, NEW f \in Features, FixedEffectWrites(r, f)
  PROVE  TreeInv' /\ ReqType'
  <1>1. FeatureShared(r, f)
    BY DEF FixedEffectWrites, LockFeature, FeatureLocked
  <1>2. OwnerIn(tree, f, f)
    BY DEF OwnerIn
  <1>3. ASSUME NEW b \in Bundles
        PROVE  Suits(b, f, f)
    <2>1. ASSUME NEW g \in GroupsOf(tree, f), NEW o \in OptionsOf(tree, g.id)
          PROVE  o.id \in Nat
      BY RowFields DEF TreeInv, RowsSound, AllRows, OptionsOf
    <2> QED
      BY <2>1, OwnerAssumption DEF Suits
  <1>4. ASSUME NEW b \in Bundles, AddEffects(r, f, f, b)
        PROVE  TreeInv' /\ ReqType'
    BY <1>1, <1>2, <1>3, <1>4, AddEffectsKeepsTree
  <1>5. ASSUME NEW e \in EffectsOn(tree, f), NEW i \in Items, UpdateEffect(r, f, f, e, i)
        PROVE  TreeInv' /\ ReqType'
    BY <1>1, <1>2, <1>5, UpdateEffectKeepsTree
  <1>6. ASSUME NEW e \in EffectsOn(tree, f), RemoveEffect(r, f, e)
        PROVE  TreeInv' /\ ReqType'
    BY <1>1, <1>2, <1>6, RemoveEffectKeepsTree
  <1> QED
    BY <1>4, <1>5, <1>6 DEF FixedEffectWrites
-----------------------------------------------------------------------------
(* Edits of groups and options.                                            *)

LEMMA Numbering ==
  ASSUME NEW S, IsFiniteSet(S)
  PROVE  Cardinality(S) \in Nat /\ SetToSeq(S) \in [1..Cardinality(S) -> S]
  <1>1. Cardinality(S) \in Nat /\ ExistsBijection(1..Cardinality(S), S)
    BY FS_CardinalityType
  <1>2. \E f \in [1..Cardinality(S) -> S] : IsInjective(f)
    BY <1>1 DEF ExistsBijection, Bijection, Injection, IsInjective
  <1> QED
    BY <1>1, <1>2 DEF SetToSeq

LEMMA FiniteBundles ==
  ASSUME NEW bs \in OptionBundles
  PROVE  IsFiniteSet(bs) /\ bs \subseteq Bundles
  <1>1. Bundles \subseteq SUBSET Items
    BY BundleItems
  <1>2. IsFiniteSet(SUBSET Items)
    BY ItemsAssumption, FS_SUBSET
  <1>3. bs \subseteq Bundles
    BY DEF OptionBundles, kSubset
  <1>4. bs \subseteq SUBSET Items
    BY <1>1, <1>3
  <1> QED
    BY <1>2, <1>3, <1>4, FS_Subset

\* Options of the group g, numbered from first on, with the effects of the bundles b.
Numbered(rows, g, first, n, b) ==
    /\ \A x \in rows : \E k \in 1..n :
           x = Option(first + k, g) \/ \E i \in b[k] : x = Effect(first + k, i)
    /\ \A k \in 1..n : Option(first + k, g) \in rows

LEMMA NewOptionRows ==
  ASSUME NEW bs, IsFiniteSet(bs), NEW g, NEW first
  PROVE  \E b \in [1..Cardinality(bs) -> bs] : Numbered(NewOptions(g, first, bs), g, first, Cardinality(bs), b)
  <1> DEFINE b == SetToSeq(bs)
  <1>1. b \in [1..Cardinality(bs) -> bs]
    BY Numbering
  <1>2. DOMAIN b = 1..Cardinality(bs)
    BY <1>1
  <1>3. NewOptions(g, first, bs) =
            UNION {{Option(first + n, g)} \cup {Effect(first + n, i) : i \in b[n]} : n \in 1..Cardinality(bs)}
    BY <1>2 DEF NewOptions
  <1> HIDE DEF b
  <1>4. Numbered(NewOptions(g, first, bs), g, first, Cardinality(bs), b)
    BY <1>3 DEF Numbered
  <1> QED
    BY <1>1, <1>4

LEMMA OldIds ==
  ASSUME TreeInv, NEW x \in AllRows
  PROVE  /\ ids \in Nat
         /\ x.kind \in {"group", "option", "effect"}
         /\ x.kind # "effect" => x.id \in 1..ids
         /\ x.kind = "option" => x.group \in 1..ids
         /\ x.kind = "effect" => x.owner \in Features \cup (1..ids)
  BY RowFields DEF TreeInv, RowsSound

\* A group of the feature f, stored or new, and the options new on it.
Grows(f, grp, tops, opts, first, n, b) ==
    /\ grp.kind = "group" /\ grp.feature = f
    /\ first \in Nat /\ ids <= first /\ n \in Nat
    /\ Numbered(opts, grp.id, first, n, b)
    /\ \A k \in 1..n : b[k] \in Bundles /\ Fits(grp.type, b[k])
    /\ \/ grp \in tree /\ tops = {}
       \/ /\ tops = {grp} /\ grp.id = ids + 1 /\ first = ids + 1
          /\ \E count \in Nat \ {0} : \E type \in EffectTypes : grp = Group(ids + 1, f, type, count)

LEMMA OptionRows ==
  ASSUME NEW f, NEW grp, NEW tops, NEW opts, NEW first, NEW n, NEW b,
         Grows(f, grp, tops, opts, first, n, b), NEW x \in opts
  PROVE  \E k \in 1..n :
            \/ /\ x = Option(first + k, grp.id) /\ x.kind = "option" /\ x.id = first + k /\ x.group = grp.id
            \/ \E i \in b[k] :
                  /\ x = Effect(first + k, i) /\ x.kind = "effect" /\ x.owner = first + k
                  /\ x.type = i.type /\ x.key = i.key /\ x.type = grp.type
  <1>1. PICK k \in 1..n : x = Option(first + k, grp.id) \/ \E i \in b[k] : x = Effect(first + k, i)
    BY DEF Grows, Numbered
  <1>2. CASE x = Option(first + k, grp.id)
    BY <1>1, <1>2, RowKinds
  <1>3. ASSUME NEW i \in b[k], x = Effect(first + k, i)
        PROVE  /\ x.kind = "effect" /\ x.owner = first + k
               /\ x.type = i.type /\ x.key = i.key /\ x.type = grp.type
    BY <1>1, <1>3, RowKinds DEF Grows, Fits
  <1> QED
    BY <1>1, <1>2, <1>3

LEMMA GrowsFresh ==
  ASSUME TreeInv, NEW f \in Features, NEW grp, NEW tops, NEW opts, NEW first, NEW n, NEW b,
         Grows(f, grp, tops, opts, first, n, b)
  PROVE  Fresh(tops \cup opts, first + n)
  <1> DEFINE new == tops \cup opts
  <1>0. /\ ids \in Nat /\ first \in Nat /\ n \in Nat /\ ids <= first
        /\ grp.kind = "group" /\ grp.feature = f
    BY DEF TreeInv, RowsSound, Grows
  <1>1. \/ grp \in AllRows /\ grp.id \in 1..ids /\ tops = {}
        \/ tops = {grp} /\ grp.id = ids + 1 /\ first = ids + 1 /\ grp.id = first
    BY OldIds DEF Grows, AllRows
  <1>2. tops \subseteq Rows(first + n)
    <2> SUFFICES ASSUME NEW x \in tops PROVE x \in Rows(first + n)
      OBVIOUS
    <2>1. PICK count \in Nat \ {0}, type \in EffectTypes : x = Group(ids + 1, f, type, count)
      BY <1>1 DEF Grows
    <2>2. first + n \in Nat /\ ids + 1 \in 1..(first + n)
      BY <1>0, <1>1
    <2> QED
      BY <2>1, <2>2, NewGroup
  <1>3. opts \subseteq Rows(first + n)
    <2> SUFFICES ASSUME NEW x \in opts PROVE x \in Rows(first + n)
      OBVIOUS
    <2>1. PICK k \in 1..n : x = Option(first + k, grp.id) \/ \E i \in b[k] : x = Effect(first + k, i)
      BY OptionRows
    <2>2. first + n \in Nat /\ first + k \in 1..(first + n) /\ grp.id \in 1..(first + n)
      BY <1>0, <1>1
    <2>3. CASE x = Option(first + k, grp.id)
      BY <2>2, <2>3, NewOption
    <2>4. ASSUME NEW i \in b[k], x = Effect(first + k, i)
          PROVE  x \in Rows(first + n)
      <3>1. i \in Items
        BY BundleItems DEF Grows
      <3> QED
        BY <2>2, <2>4, <3>1, NewEffect
    <2> QED
      BY <2>1, <2>3, <2>4
  <1>4. ASSUME NEW x \in opts
        PROVE  \E k \in 1..n :
                  \/ x.kind = "option" /\ x.id = first + k /\ x.group = grp.id
                  \/ x.kind = "effect" /\ x.owner = first + k /\ x.type = grp.type
    BY OptionRows
  <1>5. ASSUME NEW x \in new, NEW y \in AllRows \cup new
        PROVE  Alike(x, y)
    <2> SUFFICES ASSUME x.kind # "effect", y.kind # "effect", x.id = y.id
                 PROVE  /\ x.kind = y.kind
                        /\ x.kind = "group" => x.feature = y.feature /\ x.type = y.type
                        /\ x.kind = "option" => x.group = y.group
      BY DEF Alike
    <2>1. y \in AllRows => y.id \in 1..ids
      BY OldIds
    <2>2. CASE x \in tops
      <3>1. x = grp /\ x.id = ids + 1 /\ first = ids + 1
        BY <1>1, <2>2
      <3>2. y \in new
        BY <1>0, <2>1, <3>1
      <3>3. y \notin opts
        BY <1>0, <1>4, <3>1
      <3> QED
        BY <1>1, <3>1, <3>2, <3>3
    <2>3. CASE x \in opts
      <3>1. PICK k \in 1..n : x.kind = "option" /\ x.id = first + k /\ x.group = grp.id
        BY <1>4, <2>3
      <3>4. first + k \notin 1..ids /\ first + k # first
        BY <1>0
      <3>5. y \notin AllRows
        BY <2>1, <3>1, <3>4
      <3>6. y \notin tops
        <4>1. tops = {} \/ (tops = {grp} /\ grp.id = first)
          BY <1>1
        <4> QED
          BY <3>1, <3>4, <4>1
      <3>2. y \in opts
        BY <3>5, <3>6
      <3>3. y.kind = "option" /\ y.group = grp.id
        BY <1>4, <3>2
      <3> QED
        BY <3>1, <3>3
    <2> QED
      BY <2>2, <2>3
  <1>6. ASSUME NEW e \in AllRows \cup new, NEW o \in AllRows \cup new, NEW g \in AllRows \cup new,
               e \in new \/ o \in new \/ g \in new,
               e.kind = "effect", o.kind = "option", g.kind = "group", e.owner = o.id, o.group = g.id
        PROVE  e.type = g.type
    <2>1. /\ e \in AllRows => e.owner \in Features \cup (1..ids)
          /\ o \in AllRows => o.id \in 1..ids /\ o.group \in 1..ids
          /\ g \in AllRows => g.id \in 1..ids
      BY OldIds, <1>6
    <2>2. e \notin tops /\ o \notin tops /\ g \notin opts
      BY <1>0, <1>1, <1>4, <1>6
    <2>3. CASE e \in opts
      <3>1. PICK k \in 1..n : e.owner = first + k /\ e.type = grp.type
        BY <1>4, <1>6, <2>3
      <3>2. o \in opts
        BY <1>0, <1>6, <2>1, <2>2, <3>1
      <3>3. o.group = grp.id
        BY <1>4, <1>6, <3>2
      <3>4. CASE grp \in AllRows /\ tops = {}
        <4>1. g \in AllRows
          BY <2>2, <3>4
        <4>2. Alike(g, grp)
          BY <3>4, <4>1 DEF TreeInv, RowsSound
        <4> QED
          BY <3>1, <3>3, <4>2, <1>0, <1>6 DEF Alike
      <3>5. CASE tops = {grp} /\ grp.id = ids + 1
        BY <1>0, <1>6, <2>1, <2>2, <3>1, <3>3, <3>5
      <3> QED
        BY <1>1, <3>4, <3>5
    <2>4. CASE e \notin opts
      <3>1. e \in AllRows
        BY <2>2, <2>4
      <3>2. o \in AllRows /\ o \notin opts
        <4> SUFFICES ASSUME o \in opts PROVE FALSE
          BY <2>2
        <4>1. PICK k \in 1..n : o.id = first + k
          BY <1>4, <1>6
        <4>2. first + k \in Nat /\ first + k \notin 1..ids
          BY <1>0
        <4> QED
          BY <1>6, <2>1, <3>1, <4>1, <4>2, OwnerAssumption
      <3>3. g \notin tops
        BY <1>0, <1>1, <1>6, <2>1, <3>2
      <3>4. FALSE
        BY <1>6, <2>2, <2>4, <3>2, <3>3
      <3> QED
        BY <3>4
    <2> QED
      BY <2>3, <2>4
  <1> QED
    BY <1>2, <1>3, <1>5, <1>6 DEF Fresh, Fitting

LEMMA GrowsBelong ==
  ASSUME NEW f \in Features, NEW grp, NEW tops, NEW opts, NEW first, NEW n, NEW b,
         Grows(f, grp, tops, opts, first, n, b), NEW x \in tops \cup opts
  PROVE  BelongsTo(tree \cup (tops \cup opts), x, f)
  <1> DEFINE t == tree \cup (tops \cup opts)
  <1> SUFFICES BelongsTo(t, x, f)
    OBVIOUS
  <1>1. grp.kind = "group" /\ grp.feature = f /\ grp \in t /\ (x \in tops => x = grp)
    BY DEF Grows
  <1>2. grp \in GroupsOf(t, f)
    BY <1>1 DEF GroupsOf
  <1>3. \A k \in 1..n : Option(first + k, grp.id) \in opts
    BY DEF Grows, Numbered
  <1>4. ASSUME NEW k \in 1..n
        PROVE  OwnerIn(t, first + k, f)
    <2>1. Option(first + k, grp.id) \in OptionsOf(t, grp.id)
      BY <1>3, RowKinds DEF OptionsOf
    <2>2. Option(first + k, grp.id).id = first + k
      BY RowKinds
    <2> HIDE DEF t
    <2> QED
      BY <1>2, <2>1, <2>2 DEF OwnerIn
  <1>5. CASE x \in opts
    <2>1. PICK k \in 1..n : \/ x.kind = "option" /\ x.group = grp.id
                            \/ x.kind = "effect" /\ x.owner = first + k
      BY <1>5, OptionRows
    <2> HIDE DEF t
    <2> QED
      BY <1>2, <1>4, <2>1 DEF BelongsTo
  <1>6. CASE x \in tops
    BY <1>1, <1>6 DEF BelongsTo
  <1> QED
    BY <1>5, <1>6

LEMMA GrowsOnce ==
  ASSUME TreeInv, NEW f \in Features, NEW grp, NEW tops, NEW opts, NEW first, NEW n, NEW b,
         Grows(f, grp, tops, opts, first, n, b)
  PROVE  Once(tree \cup (tops \cup opts))
  <1>0. /\ ids \in Nat /\ first \in Nat /\ n \in Nat /\ ids <= first /\ Once(tree)
        /\ grp.kind = "group"
    BY DEF TreeInv, RowsSound, Grows
  <1>1. \/ tops = {}
        \/ tops = {grp} /\ grp.id = ids + 1 /\ first = ids + 1
    BY DEF Grows
  <1>2. \A x \in tree : /\ x.kind # "effect" => x.id \in 1..ids
                        /\ x.kind = "effect" => x.owner \in Features \cup (1..ids)
    BY OldIds DEF AllRows
  <1>3. \A k \in 1..n : first + k \in Nat /\ first + k \notin 1..ids /\ first + k # first /\ first + k \notin Features
    BY <1>0, OwnerAssumption
  <1>4. ASSUME NEW x \in opts
        PROVE  \E k \in 1..n :
                  \/ x = Option(first + k, grp.id) /\ x.kind = "option" /\ x.id = first + k
                  \/ \E i \in b[k] :
                        /\ x = Effect(first + k, i) /\ x.kind = "effect" /\ x.owner = first + k
                        /\ x.type = i.type /\ x.key = i.key
    BY OptionRows
  <1>5. ASSUME NEW x \in opts, NEW y \in opts, x.kind = "effect", y.kind = "effect",
               x.owner = y.owner, SameEffect(x, y)
        PROVE  x = y
    <2>1. PICK k \in 1..n : \E i \in b[k] : /\ x = Effect(first + k, i) /\ x.owner = first + k
                                            /\ x.type = i.type /\ x.key = i.key
      BY <1>4, <1>5
    <2>2. PICK m \in 1..n : \E i \in b[m] : /\ y = Effect(first + m, i) /\ y.owner = first + m
                                            /\ y.type = i.type /\ y.key = i.key
      BY <1>4, <1>5
    <2>3. first + k = first + m
      BY <1>5, <2>1, <2>2
    <2>4. k = m
      BY <1>0, <2>3
    <2>5. \A i, j \in b[k] : SameEffect(i, j) => i = j
      BY BundleItems DEF Grows
    <2> QED
      BY <1>5, <2>1, <2>2, <2>4, <2>5 DEF SameEffect
  <1>6. ASSUME NEW x \in opts, NEW y \in opts, x.kind # "effect", y.kind # "effect", x.id = y.id
        PROVE  x = y
    <2>1. PICK k \in 1..n : x = Option(first + k, grp.id) /\ x.id = first + k
      BY <1>4, <1>6
    <2>2. PICK m \in 1..n : y = Option(first + m, grp.id) /\ y.id = first + m
      BY <1>4, <1>6
    <2> QED
      BY <1>6, <2>1, <2>2
  <1>7. ASSUME NEW x \in opts, NEW y \in tree \cup tops
        PROVE  /\ ~(x.kind = "effect" /\ y.kind = "effect" /\ x.owner = y.owner)
               /\ ~(x.kind # "effect" /\ y.kind # "effect" /\ x.id = y.id)
    <2>1. PICK k \in 1..n : \/ x.kind = "option" /\ x.id = first + k
                            \/ x.kind = "effect" /\ x.owner = first + k
      BY <1>4
    <2>2. first + k \notin 1..ids /\ first + k # first /\ first + k \notin Features
      BY <1>3
    <2>3. CASE y \in tree
      BY <1>2, <2>1, <2>2, <2>3
    <2>4. CASE y \in tops
      <3>1. y.kind = "group" /\ y.id = first
        BY <1>0, <1>1, <2>4
      <3> QED
        BY <2>1, <2>2, <3>1
    <2> QED
      BY <2>3, <2>4
  <1>8. ASSUME NEW x \in tops, NEW y \in tree \cup tops
        PROVE  /\ ~(x.kind = "effect" /\ y.kind = "effect")
               /\ x.kind # "effect" /\ y.kind # "effect" /\ x.id = y.id => x = y
    BY <1>0, <1>1, <1>2
  <1>9. \A x, y : SameEffect(x, y) => SameEffect(y, x)
    BY DEF SameEffect
  <1> QED
    BY <1>0, <1>5, <1>6, <1>7, <1>8, <1>9 DEF Once

\* What MAX_CHOICE_GROUPS and the one ability group ask of a new group.
Room(f, type) ==
    /\ Cardinality(GroupsOf(tree, f)) < MaxGroups
    /\ type = "ability" => \A g \in GroupsOf(tree, f) : g.type # "ability"

LEMMA LegalWithGroup ==
  ASSUME NEW f \in Features, GroupsLegal(tree, f), NEW grp, grp.kind = "group", grp.feature = f,
         Room(f, grp.type), NEW t, GroupsOf(t, f) = GroupsOf(tree, f) \cup {grp}
  PROVE  GroupsLegal(t, f)
  <1> DEFINE old == GroupsOf(tree, f)
             able == {g \in old : g.type = "ability"}
             now == {g \in GroupsOf(t, f) : g.type = "ability"}
  <1>1. IsFiniteSet(old) /\ Cardinality(old) < MaxGroups /\ Cardinality(able) <= 1
    BY DEF GroupsLegal, Room
  <1>2. IsFiniteSet(able)
    BY <1>1, FS_Subset
  <1>3. Cardinality(old) \in Nat /\ Cardinality(able) \in Nat
    BY <1>1, <1>2, FS_CardinalityType
  <1>4. /\ IsFiniteSet(old \cup {grp})
        /\ Cardinality(old \cup {grp}) = Cardinality(old) \/ Cardinality(old \cup {grp}) = Cardinality(old) + 1
    BY <1>1, FS_AddElement
  <1>5. Cardinality(now) <= 1
    <2>1. CASE grp.type = "ability"
      <3>1. now = {grp}
        BY <2>1 DEF Room
      <3>2. Cardinality({grp}) = 1
        BY FS_Singleton
      <3> HIDE DEF now
      <3> QED
        BY <3>1, <3>2
    <2>2. CASE grp.type # "ability"
      <3>1. now = able
        BY <2>2
      <3> QED
        BY <1>1, <3>1
    <2> QED
      BY <2>1, <2>2
  <1>6. MaxGroups \in Nat
    BY EngineAssumption
  <1> QED
    BY <1>1, <1>3, <1>4, <1>5, <1>6 DEF GroupsLegal

LEMMA GrowsKeepsTree ==
  ASSUME TreeInv, ReqType, NEW r \in Requests, NEW f \in Features, FeatureShared(r, f),
         NEW grp, NEW tops, NEW opts, NEW first, NEW n, NEW b, Grows(f, grp, tops, opts, first, n, b),
         tops = {} \/ Room(f, grp.type),
         NEW new, new = tops \cup opts, Edit(r, f, new, {}, {}), tree' = tree, ids' = first + n
  PROVE  TreeInv' /\ ReqType'
  <1>1. Fresh(new, ids')
    BY GrowsFresh
  <1>2. \A x \in new : BelongsTo(tree \cup new, x, f)
    BY GrowsBelong
  <1>3. Once(tree \cup new)
    BY GrowsOnce
  <1>4. GroupsLegal(tree \cup new, f)
    <2>1. \A x \in opts : x.kind # "group"
      BY OptionRows
    <2>2. CASE tops = {}
      <3>1. GroupsOf(tree, f) = GroupsOf(tree \cup new, f)
        BY <2>1, <2>2 DEF GroupsOf
      <3> QED
        BY <3>1 DEF GroupsLegal, TreeInv
    <2>3. CASE tops = {grp} /\ Room(f, grp.type)
      <3>1. grp.kind = "group" /\ grp.feature = f
        BY DEF Grows
      <3>2. GroupsOf(tree \cup new, f) = GroupsOf(tree, f) \cup {grp}
        BY <2>1, <2>3, <3>1 DEF GroupsOf
      <3> QED
        BY <2>3, <3>1, <3>2, LegalWithGroup DEF TreeInv
    <2> QED
      BY <2>2, <2>3 DEF Grows
  <1>5. /\ ReqType' /\ \A q \in Requests : q # r => req'[q] = req[q]
        /\ Holds(r, f, new, {}, {})
    BY EditShape
  <1>6. /\ req'[r].op = "edit" /\ req'[r].step = "store" /\ req'[r].feature = f
        /\ req'[r].put = new /\ req'[r].cut = {} /\ req'[r].seen = {}
    BY <1>5 DEF Holds
  <1>7. (tree \ {}) \cup new = tree \cup new
    OBVIOUS
  <1>8. SoundWrite(tree, req'[r])
    BY <1>2, <1>3, <1>4, <1>6, <1>7 DEF SoundWrite, Result
  <1>9. ids' \in Nat /\ ids <= ids'
    BY DEF TreeInv, RowsSound, Grows
  <1>10. \A q \in Requests : req[q].op = "edit" /\ req[q].feature = req'[r].feature => q = r
    BY <1>6 DEF FeatureShared, OtherThan
  <1>11. Fresh(req'[r].put, ids')
    BY <1>1, <1>6
  <1>12. TreeInv'
    BY <1>5, <1>6, <1>8, <1>9, <1>10, <1>11, EditKeepsTree
  <1> QED
    BY <1>5, <1>12

LEMMA AddChoiceGroupKeepsTree ==
  ASSUME TreeInv, ReqType, NEW r \in Requests, NEW f \in Features, FeatureShared(r, f),
         NEW t \in EffectTypes, NEW k \in PickCounts, NEW bs \in OptionBundles,
         AddChoiceGroup(r, f, t, k, bs)
  PROVE  TreeInv' /\ ReqType'
  <1>1. IsFiniteSet(bs) /\ bs \subseteq Bundles /\ Cardinality(bs) \in Nat
    BY FiniteBundles, FS_CardinalityType
  <1>2. PICK n : n = Cardinality(bs)
    OBVIOUS
  <1>3. PICK first : first = ids + 1
    OBVIOUS
  <1>4. PICK grp : grp = Group(first, f, t, k)
    OBVIOUS
  <1>5. grp.kind = "group" /\ grp.id = first /\ grp.feature = f /\ grp.type = t
    BY <1>4, RowKinds
  <1>6. PICK opts : opts = NewOptions(first, first, bs)
    OBVIOUS
  <1>7. PICK b \in [1..n -> bs] : Numbered(opts, first, first, n, b)
    BY <1>1, <1>2, <1>6, NewOptionRows
  <1>8. /\ \A x \in bs : Fits(t, x)
        /\ Room(f, grp.type) /\ tree' = tree /\ ids' = first + n
        /\ Edit(r, f, {grp} \cup opts, {}, {})
    BY <1>2, <1>3, <1>4, <1>5, <1>6 DEF AddChoiceGroup, Committed, Room
  <1>9. ids \in Nat /\ first \in Nat /\ ids <= first
    BY <1>3 DEF TreeInv, RowsSound
  <1>10. k \in Nat \ {0}
    BY EngineAssumption
  <1>11. Grows(f, grp, {grp}, opts, first, n, b)
    BY <1>1, <1>2, <1>3, <1>4, <1>5, <1>7, <1>8, <1>9, <1>10 DEF Grows
  <1>12. PICK new : new = {grp} \cup opts
    OBVIOUS
  <1> QED
    BY <1>8, <1>11, <1>12, GrowsKeepsTree

LEMMA AddChoiceOptionKeepsTree ==
  ASSUME TreeInv, ReqType, NEW r \in Requests, NEW f \in Features, FeatureShared(r, f),
         NEW g \in GroupsOf(tree, f), NEW a \in Bundles, AddChoiceOption(r, f, g, a)
  PROVE  TreeInv' /\ ReqType'
  <1>1. IsFiniteSet({a}) /\ Cardinality({a}) = 1
    BY FS_Singleton
  <1>2. PICK first : first = ids
    OBVIOUS
  <1>3. PICK opts : opts = NewOptions(g.id, first, {a})
    OBVIOUS
  <1>9. \E b \in [1..Cardinality({a}) -> {a}] : Numbered(opts, g.id, first, Cardinality({a}), b)
    BY <1>1, <1>3, NewOptionRows
  <1>4. PICK b \in [1..1 -> {a}] : Numbered(opts, g.id, first, 1, b)
    BY <1>1, <1>9
  <1>5. /\ Fits(g.type, a) /\ tree' = tree /\ ids' = first + 1
        /\ Edit(r, f, opts, {}, {})
    BY <1>2, <1>3 DEF AddChoiceOption, Committed
  <1>6. ids \in Nat
    BY DEF TreeInv, RowsSound
  <1>7. Grows(f, g, {}, opts, first, 1, b)
    BY <1>2, <1>4, <1>5, <1>6 DEF Grows, GroupsOf
  <1>8. opts = {} \cup opts
    OBVIOUS
  <1> QED
    BY <1>5, <1>7, <1>8, GrowsKeepsTree

LEMMA Fewer ==
  ASSUME NEW t, NEW rows, NEW f, GroupsLegal(t, f), Once(t)
  PROVE  GroupsLegal(t \ rows, f) /\ Once(t \ rows)
  <1> DEFINE able(s) == {g \in GroupsOf(s, f) : g.type = "ability"}
  <1>1. GroupsOf(t \ rows, f) \subseteq GroupsOf(t, f) /\ able(t \ rows) \subseteq able(t)
    BY DEF GroupsOf
  <1>2. IsFiniteSet(GroupsOf(t, f)) /\ IsFiniteSet(able(t))
    <2>1. IsFiniteSet(GroupsOf(t, f))
      BY DEF GroupsLegal
    <2> QED
      BY <2>1, FS_Subset
  <1>3. /\ IsFiniteSet(GroupsOf(t \ rows, f)) /\ IsFiniteSet(able(t \ rows))
        /\ Cardinality(GroupsOf(t \ rows, f)) <= Cardinality(GroupsOf(t, f))
        /\ Cardinality(able(t \ rows)) <= Cardinality(able(t))
    <2> HIDE DEF able
    <2> QED
      BY <1>1, <1>2, FS_Subset
  <1>4. /\ Cardinality(GroupsOf(t \ rows, f)) \in Nat /\ Cardinality(GroupsOf(t, f)) \in Nat
        /\ Cardinality(able(t \ rows)) \in Nat /\ Cardinality(able(t)) \in Nat
    <2> HIDE DEF able
    <2> QED
      BY <1>2, <1>3, FS_CardinalityType
  <1>5. MaxGroups \in Nat
    BY EngineAssumption
  <1>6. Once(t \ rows)
    BY DEF Once
  <1> QED
    BY <1>3, <1>4, <1>5, <1>6 DEF GroupsLegal

LEMMA Replacing ==
  ASSUME NEW S, IsFiniteSet(S), NEW x \in S, NEW y
  PROVE  /\ IsFiniteSet((S \ {x}) \cup {y})
         /\ Cardinality((S \ {x}) \cup {y}) <= Cardinality(S)
  <1>1. Cardinality(S) \in Nat /\ IsFiniteSet(S \ {x}) /\ Cardinality(S \ {x}) = Cardinality(S) - 1
    BY FS_RemoveElement, FS_CardinalityType
  <1>2. /\ IsFiniteSet((S \ {x}) \cup {y})
        /\ \/ Cardinality((S \ {x}) \cup {y}) = Cardinality(S \ {x})
           \/ Cardinality((S \ {x}) \cup {y}) = Cardinality(S \ {x}) + 1
    BY <1>1, FS_AddElement
  <1> QED
    BY <1>1, <1>2

LEMMA UpdateChoiceGroupKeepsTree ==
  ASSUME TreeInv, ReqType, NEW r \in Requests, NEW f \in Features, FeatureShared(r, f),
         NEW g \in GroupsOf(tree, f), NEW n \in PickCounts, UpdateChoiceGroup(r, f, g, n)
  PROVE  TreeInv' /\ ReqType'
  <1>1. /\ g \in tree /\ g \in AllRows /\ g.kind = "group" /\ g.feature = f
        /\ g.id \in 1..ids /\ ids \in Nat /\ g.type \in EffectTypes
        /\ g = Group(g.id, f, g.type, g.count)
    BY RowFields DEF GroupsOf, AllRows, TreeInv, RowsSound
  <1>2. PICK made : made = Group(g.id, f, g.type, n)
    OBVIOUS
  <1>3. [g EXCEPT !.count = n] = made
    BY <1>1, <1>2 DEF Group
  <1>4. PICK old : old = {g} \ {made}
    OBVIOUS
  <1>5. Edit(r, f, {made}, old, {}) /\ tree' = tree /\ ids' = ids
    BY <1>3, <1>4 DEF UpdateChoiceGroup, Committed
  <1>6. made.kind = "group" /\ made.feature = f /\ made.id = g.id /\ made.type = g.type
    BY <1>2, RowKinds
  <1>7. Fresh({made}, ids)
    <2>1. made \in Rows(ids)
      BY <1>1, <1>2, NewGroup, EngineAssumption
    <2>2. \A y \in AllRows \cup {made} : Alike(made, y)
      <3>1. \A y \in AllRows : Alike(g, y)
        BY <1>1 DEF TreeInv, RowsSound
      <3> QED
        BY <3>1, <1>1, <1>6 DEF Alike
    <2>3. ASSUME NEW e \in AllRows \cup {made}, NEW o \in AllRows \cup {made}, NEW h \in AllRows \cup {made},
                 e = made \/ o = made \/ h = made
          PROVE  Fitting(e, o, h)
      <3>1. \A x, y \in AllRows : Fitting(x, y, g)
        BY <1>1 DEF TreeInv, RowsSound
      <3> QED
        BY <2>3, <3>1, <1>1, <1>6 DEF Fitting
    <2> QED
      BY <2>1, <2>2, <2>3 DEF Fresh
  <1>8. BelongsTo(tree \cup {made}, made, f) /\ \A x \in old : BelongsTo(tree \cup {made}, x, f)
    BY <1>1, <1>4, <1>6 DEF BelongsTo
  <1> DEFINE after == (tree \ old) \cup {made}
  <1>9. after = (tree \ {g}) \cup {made}
    BY <1>4
  <1>10. GroupsLegal(after, f)
    <2> DEFINE S == GroupsOf(tree, f)
               A == {x \in S : x.type = "ability"}
               B == {x \in GroupsOf(after, f) : x.type = "ability"}
    <2>1. GroupsOf(after, f) = (S \ {g}) \cup {made}
      BY <1>1, <1>6, <1>9 DEF GroupsOf
    <2>2. IsFiniteSet(S) /\ Cardinality(S) <= MaxGroups /\ Cardinality(A) <= 1
      BY DEF TreeInv, GroupsLegal
    <2>3. IsFiniteSet(A) /\ Cardinality(A) \in Nat /\ Cardinality(S) \in Nat
      BY <2>2, FS_Subset, FS_CardinalityType
    <2>4. /\ IsFiniteSet(GroupsOf(after, f))
          /\ Cardinality(GroupsOf(after, f)) <= Cardinality(S) /\ Cardinality(GroupsOf(after, f)) \in Nat
      <3>1. g \in S
        OBVIOUS
      <3> HIDE DEF S
      <3>2. /\ IsFiniteSet((S \ {g}) \cup {made})
            /\ Cardinality((S \ {g}) \cup {made}) <= Cardinality(S)
        BY <2>2, <3>1, Replacing
      <3>3. Cardinality((S \ {g}) \cup {made}) \in Nat
        BY <3>2, FS_CardinalityType
      <3> HIDE DEF after
      <3> QED
        BY <2>1, <3>2, <3>3
    <2>5. Cardinality(B) <= 1
      <3>1. CASE g.type = "ability"
        <4>1. B = (A \ {g}) \cup {made} /\ g \in A
          BY <2>1, <3>1, <1>6
        <4> HIDE DEF A, B
        <4>2. IsFiniteSet(B) /\ Cardinality(B) <= Cardinality(A)
          BY <2>3, <4>1, Replacing
        <4>3. Cardinality(B) \in Nat
          BY <4>2, FS_CardinalityType
        <4> QED
          BY <2>2, <2>3, <4>2, <4>3
      <3>2. CASE g.type # "ability"
        <4>1. B = A
          BY <2>1, <3>2, <1>6
        <4> QED
          BY <2>2, <4>1
      <3> QED
        BY <3>1, <3>2
    <2>6. MaxGroups \in Nat
      BY EngineAssumption
    <2> HIDE DEF after
    <2> QED
      BY <2>2, <2>3, <2>4, <2>5, <2>6 DEF GroupsLegal
  <1>11. Once(after)
    <2>1. \A y \in tree : y.kind # "effect" /\ y.id = g.id => y = g
      BY <1>1 DEF TreeInv, Once
    <2>2. \A y \in after : y.kind # "effect" /\ y.id = made.id => y = made
      BY <2>1, <1>6, <1>9
    <2>3. \A y \in after : y = made \/ y \in tree
      BY <1>9
    <2>4. Once(tree)
      BY DEF TreeInv
    <2> HIDE DEF after
    <2> QED
      BY <2>2, <2>3, <2>4, <1>6 DEF Once
  <1>12. /\ ReqType' /\ \A q \in Requests : q # r => req'[q] = req[q]
         /\ Holds(r, f, {made}, old, {})
    BY <1>5, EditShape
  <1>13. /\ req'[r].op = "edit" /\ req'[r].step = "store" /\ req'[r].feature = f
         /\ req'[r].put = {made} /\ req'[r].cut = old /\ req'[r].seen = {}
    BY <1>12 DEF Holds
  <1>14. SoundWrite(tree, req'[r])
    BY <1>1, <1>4, <1>8, <1>10, <1>11, <1>13 DEF SoundWrite, Result
  <1>15. \A q \in Requests : req[q].op = "edit" /\ req[q].feature = req'[r].feature => q = r
    BY <1>13 DEF FeatureShared, OtherThan
  <1>16. Fresh(req'[r].put, ids')
    BY <1>5, <1>7, <1>13
  <1>18. ids' \in Nat /\ ids <= ids' /\ tree' = tree
    BY <1>1, <1>5
  <1>17. TreeInv'
    BY <1>12, <1>13, <1>14, <1>15, <1>16, <1>18, EditKeepsTree
  <1> QED
    BY <1>12, <1>17

LEMMA ClearPicksKeepsTree ==
  ASSUME TreeInv, ReqType, NEW r \in Requests, NEW f \in Features, FeatureShared(r, f),
         NEW rows \in SUBSET tree, \A x \in rows : BelongsTo(tree, x, f), ClearPicks(r, f, rows)
  PROVE  TreeInv' /\ ReqType'
  <1>1. PICK gone : req' = [req EXCEPT ![r] = [NoWork EXCEPT !.op = "edit", !.step = "drop", !.feature = f,
                                                             !.cut = rows, !.unpick = gone]]
    BY DEF ClearPicks
  <1>2. tree' = tree /\ ids' = ids
    BY DEF ClearPicks, Committed
  <1> DEFINE w == [NoWork EXCEPT !.op = "edit", !.step = "drop", !.feature = f, !.cut = rows, !.unpick = gone]
  <1>3. /\ w.op = "edit" /\ w.step = "drop" /\ w.feature = f /\ w.put = {} /\ w.cut = rows /\ w.seen = {}
        /\ DOMAIN w = DOMAIN NoWork
    BY DEF NoWork
  <1>4. req' = [req EXCEPT ![r] = w]
    BY <1>1
  <1> HIDE DEF w
  <1>5. ReqType' /\ req'[r] = w /\ \A q \in Requests : q # r => req'[q] = req[q]
    BY <1>3, <1>4, Becomes
  <1>6. SoundWrite(tree, w)
    <2>1. GroupsLegal(tree \ rows, f) /\ Once(tree \ rows)
      BY Fewer DEF TreeInv
    <2>2. (tree \ rows) \cup {} = tree \ rows /\ tree \cup {} = tree
      OBVIOUS
    <2> QED
      BY <1>3, <2>1, <2>2 DEF SoundWrite, Result
  <1>7. Fresh(w.put, ids)
    BY <1>3 DEF Fresh
  <1>8. \A q \in Requests : req[q].op = "edit" /\ req[q].feature = w.feature => q = r
    BY <1>3 DEF FeatureShared, OtherThan
  <1>9. ids \in Nat
    BY DEF TreeInv, RowsSound
  <1>10. ids' \in Nat /\ ids <= ids' /\ Fresh(w.put, ids')
    BY <1>2, <1>7, <1>9
  <1>11. /\ req'[r].op = "edit" /\ req'[r].seen = {} /\ Fresh(req'[r].put, ids')
         /\ SoundWrite(tree, req'[r])
         /\ \A q \in Requests : req[q].op = "edit" /\ req[q].feature = req'[r].feature => q = r
    <2>1. req'[r] = w
      BY <1>5
    <2> QED
      BY <1>3, <1>6, <1>8, <1>10, <2>1
  <1>12. TreeInv'
    BY <1>2, <1>5, <1>10, <1>11, EditKeepsTree
  <1> QED
    BY <1>5, <1>12

LEMMA WithOptionBelongs ==
  ASSUME NEW f, NEW g \in GroupsOf(tree, f), NEW o \in OptionsOf(tree, g.id), NEW x \in WithOption(tree, o)
  PROVE  x \in tree /\ BelongsTo(tree, x, f)
  <1>1. OwnerIn(tree, o.id, f)
    BY DEF OwnerIn
  <1> QED
    BY <1>1 DEF WithOption, OptionsOf, EffectsOn, BelongsTo

LEMMA WithGroupBelongs ==
  ASSUME NEW f, NEW g \in GroupsOf(tree, f), NEW x \in WithGroup(tree, g)
  PROVE  x \in tree /\ BelongsTo(tree, x, f)
  <1>1. CASE x = g
    BY <1>1 DEF GroupsOf, BelongsTo
  <1>2. ASSUME NEW o \in OptionsOf(tree, g.id), x \in WithOption(tree, o)
        PROVE  x \in tree /\ BelongsTo(tree, x, f)
    BY <1>2, WithOptionBelongs
  <1> QED
    BY <1>1, <1>2 DEF WithGroup

LEMMA DropRowsKeepsTree ==
  ASSUME TreeInv, ReqType, NEW r \in Requests, DropRows(r)
  PROVE  TreeInv' /\ ReqType'
  <1>1. PICK f, old, away : f = req[r].feature /\ old = req[r].cut /\ away = req[r].unpick
    OBVIOUS
  <1>2. /\ req[r].step = "drop" /\ Edit(r, f, {}, old, away) /\ tree' = tree /\ ids' = ids
    BY <1>1 DEF DropRows, Committed
  <1>3. /\ SoundWrite(tree, req[r]) /\ req[r].op = "edit" /\ req[r].put = {}
    BY <1>2 DEF TreeInv, SoundEdit, SoundWrite
  <1>4. /\ ReqType' /\ \A q \in Requests : q # r => req'[q] = req[q]
        /\ Holds(r, f, {}, old, away)
    BY <1>2, EditShape
  <1>5. /\ req'[r].op = "edit" /\ req'[r].step = "store" /\ req'[r].feature = req[r].feature
        /\ req'[r].put = {} /\ req'[r].cut = req[r].cut /\ req'[r].seen = {}
    BY <1>1, <1>4 DEF Holds
  <1>6. SoundWrite(tree, req'[r])
    BY <1>3, <1>5 DEF SoundWrite, Result
  <1>7. Fresh(req'[r].put, ids')
    BY <1>5 DEF Fresh
  <1>8. \A q \in Requests : req[q].op = "edit" /\ req[q].feature = req'[r].feature => q = r
    BY <1>3, <1>5 DEF TreeInv, EditsApart
  <1>9. ids' \in Nat /\ ids <= ids'
    BY <1>2 DEF TreeInv, RowsSound
  <1>10. TreeInv'
    BY <1>2, <1>4, <1>5, <1>6, <1>7, <1>8, <1>9, EditKeepsTree
  <1> QED
    BY <1>4, <1>10

LEMMA GmEditsKeepTree ==
  ASSUME TreeInv, ReqType, NEW r \in Requests, GmEdits(r)
  PROVE  TreeInv' /\ ReqType'
  <1>1. CASE FixedEffectRoutes(r)
    BY <1>1, FixedEffectWritesKeepTree DEF FixedEffectRoutes
  <1>2. CASE GroupRoutes(r)
    <2>1. PICK f \in Features :
              /\ FeatureShared(r, f)
              /\ \/ \E type \in EffectTypes, count \in PickCounts, bs \in OptionBundles :
                        AddChoiceGroup(r, f, type, count, bs)
                 \/ \E g \in GroupsOf(tree, f) :
                        \/ \E count \in PickCounts : UpdateChoiceGroup(r, f, g, count)
                        \/ ClearPicks(r, f, WithGroup(tree, g))
      BY <1>2 DEF GroupRoutes, LockFeature, FeatureLocked
    <2>2. ASSUME NEW type \in EffectTypes, NEW count \in PickCounts, NEW bs \in OptionBundles,
                 AddChoiceGroup(r, f, type, count, bs)
          PROVE  TreeInv' /\ ReqType'
      BY <2>1, <2>2, AddChoiceGroupKeepsTree
    <2>3. ASSUME NEW g \in GroupsOf(tree, f), NEW count \in PickCounts, UpdateChoiceGroup(r, f, g, count)
          PROVE  TreeInv' /\ ReqType'
      BY <2>1, <2>3, UpdateChoiceGroupKeepsTree
    <2>4. ASSUME NEW g \in GroupsOf(tree, f), ClearPicks(r, f, WithGroup(tree, g))
          PROVE  TreeInv' /\ ReqType'
      <3>1. PICK rows : rows = WithGroup(tree, g)
        OBVIOUS
      <3>2. ClearPicks(r, f, rows)
        BY <2>4, <3>1
      <3>3. rows \in SUBSET tree /\ \A x \in rows : BelongsTo(tree, x, f)
        BY <3>1, WithGroupBelongs
      <3> QED
        BY <2>1, <3>2, <3>3, ClearPicksKeepsTree
    <2> QED
      BY <2>1, <2>2, <2>3, <2>4
  <1>3. CASE OptionRoutes(r)
    <2>1. PICK f \in Features :
              /\ FeatureShared(r, f)
              /\ \E g \in GroupsOf(tree, f) :
                     \/ \E b \in Bundles : AddChoiceOption(r, f, g, b)
                     \/ \E o \in OptionsOf(tree, g.id) :
                            \/ ClearPicks(r, f, WithOption(tree, o))
                            \/ OptionEffectWrites(r, f, g, o)
      BY <1>3 DEF OptionRoutes, LockFeature, FeatureLocked
    <2>2. ASSUME NEW g \in GroupsOf(tree, f), NEW b \in Bundles, AddChoiceOption(r, f, g, b)
          PROVE  TreeInv' /\ ReqType'
      BY <2>1, <2>2, AddChoiceOptionKeepsTree
    <2>3. ASSUME NEW g \in GroupsOf(tree, f), NEW o \in OptionsOf(tree, g.id), OptionEffectWrites(r, f, g, o)
          PROVE  TreeInv' /\ ReqType'
      BY <2>1, <2>3, OptionEffectWritesKeepTree
    <2>4. ASSUME NEW g \in GroupsOf(tree, f), NEW o \in OptionsOf(tree, g.id), ClearPicks(r, f, WithOption(tree, o))
          PROVE  TreeInv' /\ ReqType'
      <3>1. PICK rows : rows = WithOption(tree, o)
        OBVIOUS
      <3>2. ClearPicks(r, f, rows)
        BY <2>4, <3>1
      <3>3. rows \in SUBSET tree /\ \A x \in rows : BelongsTo(tree, x, f)
        BY <3>1, WithOptionBelongs
      <3> QED
        BY <2>1, <3>2, <3>3, ClearPicksKeepsTree
    <2> QED
      BY <2>1, <2>2, <2>3, <2>4
  <1> QED
    BY <1>1, <1>2, <1>3, DropRowsKeepsTree DEF GmEdits
-----------------------------------------------------------------------------
(* The other steps of a request.                                           *)

\* The records requests leave.
PickRecord(op, c, f, away, new) ==
    [NoWork EXCEPT !.op = op, !.step = "insert", !.char = c, !.feature = f, !.unpick = away, !.pick = new]
LoadRecord(c, f, rows) ==
    [NoWork EXCEPT !.op = "grant", !.step = "loaded", !.char = c, !.feature = f, !.seen = rows]
GrantRecord(op, c, f, given, gone, new, away, lvl, tot) ==
    [NoWork EXCEPT !.op = op, !.step = "store", !.char = c, !.feature = f, !.grant = given, !.revoke = gone,
                   !.pick = new, !.unpick = away, !.level = lvl, !.totals = tot]
InsertRecord(me, tot) == [me EXCEPT !.step = "store", !.totals = tot]

LEMMA PickFields ==
  ASSUME NEW op, NEW c, NEW f, NEW away, NEW new, NEW w, w = PickRecord(op, c, f, away, new)
  PROVE  /\ DOMAIN w = DOMAIN NoWork
         /\ w.op = op /\ w.step = "insert" /\ w.char = c /\ w.feature = f
         /\ w.unpick = away /\ w.pick = new
         /\ w.put = {} /\ w.cut = {} /\ w.seen = {} /\ w.grant = <<>> /\ w.revoke = {} /\ w.late = {}
  BY DEF PickRecord, NoWork

LEMMA LoadFields ==
  ASSUME NEW c, NEW f, NEW rows, NEW w, w = LoadRecord(c, f, rows)
  PROVE  /\ DOMAIN w = DOMAIN NoWork
         /\ w.op = "grant" /\ w.step = "loaded" /\ w.char = c /\ w.feature = f /\ w.seen = rows
         /\ w.put = {} /\ w.cut = {} /\ w.pick = {} /\ w.unpick = {}
         /\ w.grant = <<>> /\ w.revoke = {} /\ w.late = {}
  BY DEF LoadRecord, NoWork

LEMMA GrantFields ==
  ASSUME NEW op, NEW c, NEW f, NEW given, NEW gone, NEW new, NEW away, NEW lvl, NEW tot,
         NEW w, w = GrantRecord(op, c, f, given, gone, new, away, lvl, tot)
  PROVE  /\ DOMAIN w = DOMAIN NoWork
         /\ w.op = op /\ w.step = "store" /\ w.char = c /\ w.feature = f
         /\ w.grant = given /\ w.revoke = gone /\ w.pick = new /\ w.unpick = away
         /\ w.level = lvl /\ w.totals = tot
         /\ w.put = {} /\ w.cut = {} /\ w.seen = {} /\ w.late = {}
  BY DEF GrantRecord, NoWork

LEMMA InsertFields ==
  ASSUME NEW me, DOMAIN me = DOMAIN NoWork, NEW tot, NEW w, w = InsertRecord(me, tot)
  PROVE  /\ DOMAIN w = DOMAIN NoWork
         /\ w.op = me.op /\ w.step = "store" /\ w.char = me.char /\ w.feature = me.feature
         /\ w.grant = me.grant /\ w.revoke = me.revoke /\ w.pick = me.pick /\ w.unpick = me.unpick
         /\ w.totals = tot /\ w.put = me.put /\ w.cut = me.cut /\ w.seen = me.seen /\ w.late = me.late
  BY DEF InsertRecord, NoWork

LEMMA NoWorkFields ==
  /\ NoWork.op = "" /\ NoWork.step = "idle" /\ NoWork.char = "" /\ NoWork.feature = ""
  /\ NoWork.put = {} /\ NoWork.cut = {} /\ NoWork.seen = {} /\ NoWork.pick = {} /\ NoWork.unpick = {}
  /\ NoWork.grant = <<>> /\ NoWork.revoke = {} /\ NoWork.late = {}
  BY DEF NoWork

\* A step of r that touches its own record only.
Turns(r, w) ==
    /\ req' = [req EXCEPT ![r] = w]
    /\ tree' = tree /\ flags' = flags /\ level' = level /\ grants' = grants /\ picks' = picks
    /\ totals' = totals /\ lowered' = lowered /\ raced' = raced /\ ids' = ids

LEMMA Turned ==
  ASSUME ReqType, NEW r \in Requests, NEW w, Turns(r, w), DOMAIN w = DOMAIN NoWork
  PROVE  ReqType' /\ req'[r] = w /\ \A q \in Requests : q # r => req'[q] = req[q]
  BY Becomes DEF Turns

LEMMA AnswerTurns ==
  ASSUME NEW r \in Requests, Answer(r)
  PROVE  \E c \in Characters : \E f \in Granted(grants, c) : \E answers \in Answers(tree, f) :
            /\ req[r] = NoWork /\ GrantLocked(r, c, f) /\ PicksFree(r, Replaced(c, f, answers))
            /\ Turns(r, PickRecord("answer", c, f, Replaced(c, f, answers), {Pick(c, f, a) : a \in answers}))
  BY Zenon DEF Answer, Starts, Turns, Committed, PickRecord

LEMMA InsertTurns ==
  ASSUME ReqType, NEW r \in Requests, InsertPicks(r)
  PROVE  /\ req[r].step = "insert"
         /\ req[r].pick # {} => GrantShared(r, req[r].char, req[r].feature)
         /\ PicksLand(r, req[r].pick) /\ req[r].pick \cap (picks \ req[r].unpick) = {}
         /\ Turns(r, InsertRecord(req[r], [c \in {req[r].char} |->
                         Totals(tree, grants, (picks \ req[r].unpick) \cup req[r].pick, c)]))
  <1> DEFINE tot == [c \in {req[r].char} |-> Totals(tree, grants, (picks \ req[r].unpick) \cup req[r].pick, c)]
  <1>1. /\ req[r].step = "insert"
        /\ req[r].pick # {} => GrantShared(r, req[r].char, req[r].feature)
        /\ PicksLand(r, req[r].pick) /\ req[r].pick \cap (picks \ req[r].unpick) = {}
        /\ UNCHANGED <<Committed, ids>>
    BY DEF InsertPicks
  <1>2. req' = [req EXCEPT ![r].step = "store", ![r].totals = tot]
    BY DEF InsertPicks
  <1> HIDE DEF tot
  <1>3. req' = [req EXCEPT ![r] = InsertRecord(req[r], tot)]
    BY <1>2 DEF InsertRecord, ReqType
  <1>4. Turns(r, InsertRecord(req[r], tot))
    BY <1>1, <1>3 DEF Turns, Committed
  <1> QED
    BY <1>1, <1>4 DEF tot

\* The picks that go with grants revoked, and the totals of a character.
Lost(c, gone) == UNION {PicksOf(picks, c, x) : x \in gone}
GrantTotals(c, given, gone, new) ==
    [x \in {c} |-> Totals(tree, GrantsWith(c, given, gone), (picks \ Lost(c, gone)) \cup new, x)]

LEMMA WriteTurns ==
  ASSUME NEW r \in Requests, NEW op, NEW c, NEW f, NEW given, NEW gone, NEW new, NEW lvl,
         WriteGrants(r, op, c, f, given, gone, new, lvl)
  PROVE  /\ CharacterLocked(r, c) /\ \A x \in DOMAIN given : FeatureShared(r, x)
         /\ \A x \in gone : GrantLocked(r, c, x)
         /\ PicksFree(r, Lost(c, gone)) /\ PicksLand(r, new)
         /\ Turns(r, GrantRecord(op, c, f, given, gone, new, Lost(c, gone), lvl, GrantTotals(c, given, gone, new)))
  BY Zenon DEF WriteGrants, Turns, Committed, GrantRecord, Lost, GrantTotals

LEMMA LoadTurns ==
  ASSUME NEW r \in Requests, LoadFeature(r)
  PROVE  \E c \in Characters, f \in Features \ Feats :
            req[r] = NoWork /\ Turns(r, LoadRecord(c, f, Subtree(tree, f)))
  BY Zenon DEF LoadFeature, Starts, Turns, Committed, LoadRecord

LEMMA UpdateFeatTurns ==
  ASSUME NEW r \in Requests, UpdateFeat(r)
  PROVE  \E c \in Characters : \E f \in Feats \cap Granted(grants, c) : \E asi \in OneOrNone(AsiOptions(tree, f)) :
            /\ req[r] = NoWork /\ CharacterLocked(r, c) /\ PicksFree(r, Replaced(c, f, asi))
            /\ Turns(r, PickRecord("asi", c, f, Replaced(c, f, asi), {Pick(c, f, a) : a \in asi}))
  BY Zenon DEF UpdateFeat, Starts, Turns, Committed, PickRecord

LEMMA AbortTurns ==
  ASSUME NEW r \in Requests, Abort(r)
  PROVE  Turns(r, NoWork)
  BY Zenon DEF Abort, Turns, Committed

LEMMA RemoveFeatureWrites ==
  ASSUME NEW r \in Requests, RemoveFeature(r)
  PROVE  \E c \in Characters : \E f \in Granted(grants, c) :
            req[r] = NoWork /\ WriteGrants(r, "revoke", c, f, <<>>, {f}, {}, 0)
  BY Zenon DEF RemoveFeature, Starts

LEMMA RemoveFeatWrites ==
  ASSUME NEW r \in Requests, RemoveFeat(r)
  PROVE  \E c \in Characters : \E f \in Feats \cap Granted(grants, c) :
            /\ req[r] = NoWork
            /\ WriteGrants(r, "revoke", c, f, Synced(c, level[c], <<>>).given,
                            {f} \cup Synced(c, level[c], <<>>).gone, {}, 0)
  BY Zenon DEF RemoveFeat, Starts

LEMMA AddFeatWrites ==
  ASSUME NEW r \in Requests, AddFeat(r)
  PROVE  \E c \in Characters : \E f \in Feats \ Granted(grants, c) :
         \E asi \in OneOrNone(AsiOptions(tree, f)) :
         \E answers \in IF flags[f].choices THEN Answers(tree, f) ELSE {{}} :
            /\ req[r] = NoWork
            /\ WriteGrants(r, "grant", c, f, Synced(c, level[c], [x \in {f} |-> "GM"]).given,
                            Synced(c, level[c], [x \in {f} |-> "GM"]).gone, FeatPicks(c, f, asi, answers), 0)
  BY Zenon DEF AddFeat, Starts

LEMMA AddFeatureWrites ==
  ASSUME NEW r \in Requests, AddFeature(r)
  PROVE  /\ req[r].step = "loaded" /\ req[r].feature \notin Granted(grants, req[r].char)
         /\ \E answers \in IF flags[req[r].feature].choices THEN Answers(req[r].seen, req[r].feature) ELSE {{}} :
               WriteGrants(r, "grant", req[r].char, req[r].feature, [x \in {req[r].feature} |-> "GM"], {},
                           {Pick(req[r].char, req[r].feature, a) : a \in answers}, 0)
  BY Zenon DEF AddFeature

\* A level-up: the grants synced, the feat chosen with them, and the answers.
Leveled(r, c, feat, asi, answers, new) ==
    LET synced == Synced(c, level[c] + 1, [f \in feat |-> "ASI"])
    IN  /\ feat \in OneOrNone(Feats \ Granted(grants, c))
        /\ asi \in OneOrNone(UNION {AsiOptions(tree, f) : f \in feat})
        /\ \A f \in DOMAIN synced.given : answers[f] \in Answers(tree, f)
        /\ new = UNION ({FeatPicks(c, f, asi, answers[f]) : f \in feat}
                        \cup {{Pick(c, f, a) : a \in answers[f]} : f \in DOMAIN synced.given \ feat})
        /\ Resolved(c, synced.given, new)
        /\ WriteGrants(r, "level", c, "", synced.given, synced.gone, new, level[c] + 1)

LEMMA LevelUpWrites ==
  ASSUME NEW r \in Requests, LevelUp(r)
  PROVE  req[r] = NoWork /\ \E c \in Characters : \E feat, asi, answers, new : Leveled(r, c, feat, asi, answers, new)
  <1>1. PICK c \in Characters :
          LET lvl == level[c] + 1
              feats == IF lvl \in AsiLevels THEN Feats \ Granted(grants, c) ELSE {}
          IN  /\ req[r] = NoWork
              /\ \E feat \in OneOrNone(feats) :
                     LET synced == Synced(c, lvl, [f \in feat |-> "ASI"])
                         plain == DOMAIN synced.given \ feat
                     IN  \E asi \in OneOrNone(UNION {AsiOptions(tree, f) : f \in feat}) :
                         \E answers \in [DOMAIN synced.given -> UNION {Answers(tree, f) : f \in DOMAIN synced.given}] :
                             LET new == UNION ({FeatPicks(c, f, asi, answers[f]) : f \in feat}
                                               \cup {{Pick(c, f, a) : a \in answers[f]} : f \in plain})
                             IN  /\ \A f \in DOMAIN answers : answers[f] \in Answers(tree, f)
                                 /\ Resolved(c, synced.given, new)
                                 /\ WriteGrants(r, "level", c, "", synced.given, synced.gone, new, lvl)
    BY Zenon DEF LevelUp, Starts
  <1> QED
    BY <1>1 DEF Leveled, OneOrNone

LEMMA TurnKeepsTree ==
  ASSUME TreeInv, ReqType, NEW r \in Requests, NEW w, Turns(r, w), DOMAIN w = DOMAIN NoWork,
         w.put = {}, w.cut = {}, w.op # "edit", w.step # "drop", w.seen \subseteq AllRows
  PROVE  TreeInv' /\ ReqType'
  <1>1. ReqType' /\ req'[r] = w /\ \A q \in Requests : q # r => req'[q] = req[q]
    BY Turned
  <1>2. tree' = tree /\ ids' = ids
    BY DEF Turns
  <1>3. TreeInv'
    BY <1>1, <1>2, PlainKeepsTree
  <1> QED
    BY <1>1, <1>3

LEMMA SubtreeRows ==
  ASSUME NEW f
  PROVE  Subtree(tree, f) \subseteq tree
  BY WithGroupBelongs DEF Subtree

LEMMA WriteKeepsTree ==
  ASSUME TreeInv, ReqType, NEW r \in Requests, NEW op \in GrantOps, NEW c, NEW f, NEW given, NEW gone, NEW new,
         NEW lvl, WriteGrants(r, op, c, f, given, gone, new, lvl)
  PROVE  TreeInv' /\ ReqType'
  <1>1. PICK w : w = GrantRecord(op, c, f, given, gone, new, Lost(c, gone), lvl, GrantTotals(c, given, gone, new))
    OBVIOUS
  <1>2. Turns(r, w)
    BY <1>1, WriteTurns
  <1>3. DOMAIN w = DOMAIN NoWork /\ w.op = op /\ w.step = "store" /\ w.put = {} /\ w.cut = {} /\ w.seen = {}
    BY <1>1, GrantFields
  <1> QED
    BY <1>2, <1>3, TurnKeepsTree DEF GrantOps

LEMMA AnswersKeepTree ==
  ASSUME TreeInv, ReqType, NEW r \in Requests, PlayerAnswers(r) \/ UpdateFeat(r)
  PROVE  TreeInv' /\ ReqType'
  <1>1. CASE Answer(r)
    <2>1. PICK c, f, away, new : Turns(r, PickRecord("answer", c, f, away, new))
      BY <1>1, AnswerTurns
    <2>2. PICK w : w = PickRecord("answer", c, f, away, new)
      OBVIOUS
    <2> QED
      BY <2>1, <2>2, PickFields, TurnKeepsTree
  <1>2. CASE UpdateFeat(r)
    <2>1. PICK c, f, away, new : Turns(r, PickRecord("asi", c, f, away, new))
      BY <1>2, UpdateFeatTurns
    <2>2. PICK w : w = PickRecord("asi", c, f, away, new)
      OBVIOUS
    <2> QED
      BY <2>1, <2>2, PickFields, TurnKeepsTree
  <1>3. CASE InsertPicks(r)
    <2>1. PICK me, tot : me = req[r] /\ Turns(r, InsertRecord(me, tot)) /\ me.step = "insert"
      BY <1>3, InsertTurns
    <2>2. PICK w : w = InsertRecord(me, tot)
      OBVIOUS
    <2>3. DOMAIN me = DOMAIN NoWork /\ me.op # "edit" /\ me.put = {} /\ me.cut = {} /\ me.seen \subseteq AllRows
      BY <2>1, RowsOf DEF ReqType, TreeInv, SoundEdit, SoundWrite
    <2>4. /\ DOMAIN w = DOMAIN NoWork /\ w.op = me.op /\ w.step = "store"
          /\ w.put = {} /\ w.cut = {} /\ w.seen \subseteq AllRows
      BY <2>2, <2>3, InsertFields
    <2> QED
      BY <2>1, <2>2, <2>3, <2>4, TurnKeepsTree
  <1> QED
    BY <1>1, <1>2, <1>3 DEF PlayerAnswers

LEMMA GrantsKeepTree ==
  ASSUME TreeInv, ReqType, NEW r \in Requests,
         LevelUp(r) \/ FeatureGrants(r) \/ AddFeat(r) \/ RemoveFeat(r) \/ Abort(r)
  PROVE  TreeInv' /\ ReqType'
  <1>1. CASE LevelUp(r)
    BY ZenonT(40), <1>1, LevelUpWrites, WriteKeepsTree DEF Leveled, GrantOps
  <1>2. CASE LoadFeature(r)
    <2>1. PICK c, f : Turns(r, LoadRecord(c, f, Subtree(tree, f)))
      BY <1>2, LoadTurns
    <2>2. PICK w : w = LoadRecord(c, f, Subtree(tree, f))
      OBVIOUS
    <2>3. Subtree(tree, f) \subseteq AllRows
      BY SubtreeRows DEF AllRows
    <2> QED
      BY <2>1, <2>2, <2>3, LoadFields, TurnKeepsTree
  <1>3. CASE AddFeature(r)
    BY <1>3, AddFeatureWrites, WriteKeepsTree DEF GrantOps
  <1>4. CASE RemoveFeature(r)
    BY <1>4, RemoveFeatureWrites, WriteKeepsTree DEF GrantOps
  <1>5. CASE AddFeat(r)
    BY <1>5, AddFeatWrites, WriteKeepsTree DEF GrantOps
  <1>6. CASE RemoveFeat(r)
    BY <1>6, RemoveFeatWrites, WriteKeepsTree DEF GrantOps
  <1>7. CASE Abort(r)
    BY <1>7, AbortTurns, NoWorkFields, TurnKeepsTree
  <1> QED
    BY <1>1, <1>2, <1>3, <1>4, <1>5, <1>6, <1>7 DEF FeatureGrants
-----------------------------------------------------------------------------
(* The commit.                                                             *)

LEMMA StoreShape ==
  ASSUME ReqType, NEW r \in Requests, StoreTotals(r)
  PROVE  /\ ReqType' /\ req[r].step = "store" /\ req'[r] = NoWork /\ tree' = After(r) /\ ids' = ids
         /\ \A q \in Requests : q # r =>
                \/ req'[q] = req[q]
                \/ \E late : Writing(q) /\ req'[q] = [req[q] EXCEPT !.late = late]
  <1>1. /\ req[r].step = "store" /\ tree' = After(r) /\ ids' = ids
        /\ req' = [q \in Requests |-> IF q = r THEN NoWork
                                      ELSE IF Writing(q) THEN [req[q] EXCEPT !.late = @ \cup DOMAIN req[r].totals]
                                      ELSE req[q]]
    BY DEF StoreTotals, After, Result
  <1>2. /\ req' = [q \in Requests |-> req'[q]] /\ req'[r] = NoWork
        /\ \A q \in Requests : q # r =>
                \/ req'[q] = req[q]
                \/ \E late : Writing(q) /\ req'[q] = [req[q] EXCEPT !.late = late]
    BY <1>1
  <1>3. \A q \in Requests : DOMAIN req'[q] = DOMAIN NoWork
    BY <1>2 DEF ReqType
  <1> QED
    BY <1>1, <1>2, <1>3 DEF ReqType

\* What a commit leaves of the other requests.
Untouched(q) ==
    /\ req'[q].op = req[q].op /\ req'[q].step = req[q].step /\ req'[q].char = req[q].char
    /\ req'[q].feature = req[q].feature /\ req'[q].seen = req[q].seen
    /\ req'[q].put = req[q].put /\ req'[q].cut = req[q].cut
    /\ req'[q].pick = req[q].pick /\ req'[q].unpick = req[q].unpick
    /\ req'[q].grant = req[q].grant /\ req'[q].revoke = req[q].revoke
    /\ req'[q].level = req[q].level /\ req'[q].flags = req[q].flags /\ req'[q].totals = req[q].totals

LEMMA OthersUntouched ==
  ASSUME ReqType, NEW r \in Requests, StoreTotals(r), NEW q \in Requests, q # r
  PROVE  Untouched(q)
  <1>1. CASE req'[q] = req[q]
    BY <1>1 DEF Untouched
  <1>2. ASSUME NEW late, req'[q] = [req[q] EXCEPT !.late = late]
        PROVE  Untouched(q)
    <2>1. PICK me : me = req[q] /\ DOMAIN me = DOMAIN NoWork
      BY DEF ReqType
    <2>2. PICK w : w = [me EXCEPT !.late = late]
      OBVIOUS
    <2>3. /\ w.op = me.op /\ w.step = me.step /\ w.char = me.char
          /\ w.feature = me.feature /\ w.seen = me.seen /\ w.put = me.put /\ w.cut = me.cut
          /\ w.pick = me.pick /\ w.unpick = me.unpick /\ w.grant = me.grant /\ w.revoke = me.revoke
          /\ w.level = me.level /\ w.flags = me.flags /\ w.totals = me.totals
      BY <2>1, <2>2 DEF NoWork
    <2> QED
      BY <1>2, <2>1, <2>2, <2>3 DEF Untouched
  <1> QED
    BY <1>1, <1>2, StoreShape

\* A commit of one feature's edit touches no row of another feature.
LEMMA Elsewhere ==
  ASSUME TreeInv, NEW r \in Requests, NEW g \in Features, req[r].op = "edit" => req[r].feature # g,
         NEW t \in SUBSET AllRows, NEW x, BelongsTo(t, x, g)
  PROVE  x \notin req[r].put /\ x \notin req[r].cut /\ (x \in tree <=> x \in After(r))
  <1>1. SoundWrite(tree, req[r])
    BY DEF TreeInv, SoundEdit
  <1>2. CASE req[r].op = "edit"
    <2>1. req[r].feature \in Features /\ \A y \in req[r].put \cup req[r].cut : BelongsTo(tree \cup req[r].put, y, req[r].feature)
      BY <1>1, <1>2 DEF SoundWrite
    <2>2. tree \cup req[r].put \in SUBSET AllRows /\ RowsSound
      BY RowsOf DEF TreeInv
    <2>3. x \notin req[r].put \cup req[r].cut
      <3> SUFFICES ASSUME x \in req[r].put \cup req[r].cut PROVE FALSE
        OBVIOUS
      <3>1. BelongsTo(tree \cup req[r].put, x, req[r].feature)
        BY <2>1
      <3>2. req[r].feature = g
        BY <2>1, <2>2, <3>1, OneHome
      <3> QED
        BY <1>2, <3>2
    <2> QED
      BY <2>3 DEF After, Result
  <1>3. CASE req[r].op # "edit"
    BY <1>1, <1>3 DEF SoundWrite, After, Result
  <1> QED
    BY <1>2, <1>3

LEMMA GroupBelongs ==
  ASSUME NEW x, NEW f, x.kind = "group", x.feature = f, NEW t
  PROVE  BelongsTo(t, x, f)
  BY DEF BelongsTo

LEMMA CommitKeepsEdit ==
  ASSUME TreeInv, NEW r \in Requests, NEW q \in Requests, q # r
  PROVE  SoundWrite(After(r), req[q])
  <1> DEFINE me == req[q]
             f == req[q].feature
             t == tree \cup me.put
  <1>0. SoundWrite(tree, me)
    BY DEF TreeInv, SoundEdit
  <1>1. CASE req[q].op # "edit"
    BY <1>0, <1>1 DEF SoundWrite
  <1>2. CASE req[q].op = "edit"
    <2>1. /\ f \in Features /\ me.step \in {"drop", "store"} /\ me.cut \subseteq tree
          /\ \A x \in me.put \cup me.cut : BelongsTo(t, x, f)
          /\ GroupsLegal(Result(tree, me), f) /\ Once(Result(tree, me))
          /\ me.step = "drop" => me.put = {}
      BY <1>0, <1>2 DEF SoundWrite
    <2>2. req[r].op = "edit" => req[r].feature # f
      BY <1>2 DEF TreeInv, EditsApart
    <2>3. t \in SUBSET AllRows /\ AllRows \in SUBSET AllRows
      BY RowsOf
    <2>4. ASSUME NEW s \in SUBSET AllRows, NEW x, BelongsTo(s, x, f)
          PROVE  x \notin req[r].put /\ x \notin req[r].cut /\ (x \in tree <=> x \in After(r))
      BY <2>1, <2>2, <2>4, Elsewhere
    <2>5. me.cut \subseteq After(r)
      BY <2>1, <2>3, <2>4
    <2>6. \A x \in me.put \cup me.cut : BelongsTo(After(r) \cup me.put, x, f)
      <3>1. \A y \in t : BelongsTo(t, y, f) => y \in After(r) \cup me.put
        BY <2>3, <2>4
      <3> QED
        BY <2>1, <3>1, StillBelongs
    <2>7. GroupsLegal(Result(After(r), me), f)
      <3>1. \A x : x.kind = "group" /\ x.feature = f => (x \in Result(tree, me) <=> x \in Result(After(r), me))
        <4> SUFFICES ASSUME NEW x, x.kind = "group", x.feature = f
                     PROVE  x \in Result(tree, me) <=> x \in Result(After(r), me)
          OBVIOUS
        <4>1. x \in tree <=> x \in After(r)
          BY <2>3, <2>4, GroupBelongs
        <4> QED
          BY <4>1 DEF Result
      <3> QED
        BY <2>1, <3>1, SameGroups
    <2>8. Once(Result(After(r), me))
      <3>1. Once(After(r))
        <4>1. SoundWrite(tree, req[r]) /\ Once(tree)
          BY DEF TreeInv, SoundEdit
        <4>2. CASE req[r].op = "edit"
          BY <4>1, <4>2 DEF SoundWrite, After
        <4>3. CASE req[r].op # "edit"
          <5>1. After(r) = tree
            BY <4>1, <4>3 DEF SoundWrite, After, Result
          <5> QED
            BY <4>1, <5>1
        <4> QED
          BY <4>2, <4>3
      <3>2. ASSUME NEW x \in req[r].put, NEW y \in me.put
            PROVE  /\ ~(x.kind = "effect" /\ y.kind = "effect" /\ x.owner = y.owner)
                   /\ ~(x.kind # "effect" /\ y.kind # "effect" /\ x.id = y.id)
        <4>1. /\ req[r].op = "edit" /\ req[r].feature \in Features /\ req[r].feature # f
              /\ BelongsTo(tree \cup req[r].put, x, req[r].feature)
          BY <2>2 DEF TreeInv, SoundEdit, SoundWrite
        <4>2. BelongsTo(t, y, f)
          BY <2>1
        <4>3. tree \cup req[r].put \in SUBSET AllRows /\ RowsSound
          BY RowsOf DEF TreeInv
        <4>4. ASSUME x.kind = "effect", y.kind = "effect", x.owner = y.owner
              PROVE  FALSE
          <5>1. OwnerIn(tree \cup req[r].put, x.owner, req[r].feature) /\ OwnerIn(t, x.owner, f)
            BY <4>1, <4>2, <4>4 DEF BelongsTo
          <5> HIDE DEF t, f
          <5> QED
            BY <2>1, <2>3, <4>1, <4>3, <5>1, OneOwner
        <4>5. ASSUME x.kind # "effect", y.kind # "effect", x.id = y.id
              PROVE  FALSE
          <5>1. Alike(x, y)
            BY <4>3 DEF TreeInv, RowsSound, AllRows
          <5>2. CASE x.kind = "group"
            BY <4>1, <4>2, <4>5, <5>1, <5>2 DEF Alike, BelongsTo
          <5>3. CASE x.kind = "option"
            <6>1. BelongsTo(t, x, f)
              BY <4>2, <4>5, <5>1, <5>3 DEF Alike, BelongsTo
            <6> HIDE DEF t, f
            <6> QED
              BY <2>1, <2>3, <4>1, <4>3, <6>1, OneHome
          <5> QED
            BY <4>1, <4>5, <5>2, <5>3 DEF BelongsTo
        <4> QED
          BY <4>4, <4>5
      <3>3. \A x \in Result(After(r), me) : \/ x \in me.put \/ x \in After(r)
        BY DEF Result
      <3>4. \A x \in Result(After(r), me) : x \in Result(tree, me) \/ x \in req[r].put
        BY DEF Result, After
      <3>5. \A x, y : SameEffect(x, y) => SameEffect(y, x)
        BY DEF SameEffect
      <3> HIDE DEF me, f, t
      <3> QED
        BY <2>1, <3>1, <3>2, <3>3, <3>4, <3>5 DEF Once
    <2> QED
      BY <1>2, <2>1, <2>5, <2>6, <2>7, <2>8 DEF SoundWrite
  <1> QED
    BY <1>1, <1>2

LEMMA StoreKeepsTree ==
  ASSUME TreeInv, ReqType, NEW r \in Requests, StoreTotals(r)
  PROVE  TreeInv' /\ ReqType'
  <1>1. ReqType' /\ req[r].step = "store" /\ req'[r] = NoWork /\ tree' = After(r) /\ ids' = ids
    BY StoreShape
  <1>2. \A q \in Requests : q # r => Untouched(q)
    BY OthersUntouched
  <1>3. /\ req'[r].op = "" /\ req'[r].step = "idle" /\ req'[r].put = {} /\ req'[r].cut = {} /\ req'[r].seen = {}
    BY <1>1, NoWorkFields
  <1>4. AllRows' \subseteq AllRows \cup {}
    <2>1. After(r) \subseteq AllRows
      BY RowsOf
    <2>2. \A q \in Requests : req'[q].put \subseteq AllRows /\ req'[q].seen \subseteq AllRows
      BY <1>2, <1>3, RowsOf DEF Untouched
    <2>3. tree' \subseteq AllRows
      BY <1>1, <2>1
    <2>4. AllRows' = tree' \cup UNION {req'[q].put \cup req'[q].seen : q \in Requests}
      BY DEF AllRows
    <2> HIDE DEF AllRows
    <2> QED
      BY <2>2, <2>3, <2>4
  <1>5. RowsSound'
    <2>1. Fresh({}, ids')
      BY DEF Fresh
    <2> QED
      BY <1>1, <1>4, <2>1, SoundRows DEF TreeInv, RowsSound
  <1>6. EditsApart'
    <2>1. \A q \in Requests : req'[q].op = "edit" => req[q].op = "edit" /\ req'[q].feature = req[q].feature
      BY <1>2, <1>3 DEF Untouched
    <2> QED
      BY <2>1 DEF EditsApart, TreeInv
  <1>7. \A q \in Requests : SoundEdit(q)'
    <2>1. SoundWrite(tree', req'[r])
      BY <1>3 DEF SoundWrite
    <2>2. ASSUME NEW q \in Requests, q # r
          PROVE  SoundWrite(tree', req'[q])
      <3>1. SoundWrite(After(r), req[q])
        BY <2>2, CommitKeepsEdit
      <3> QED
        BY <1>1, <1>2, <2>2, <3>1 DEF Untouched, SoundWrite, Result
    <2> QED
      BY <2>1, <2>2 DEF SoundEdit
  <1>8. Once(After(r)) /\ \A f \in Features : GroupsLegal(After(r), f)
    <2>1. SoundWrite(tree, req[r]) /\ Once(tree) /\ \A f \in Features : GroupsLegal(tree, f)
      BY DEF TreeInv, SoundEdit
    <2>2. CASE req[r].op = "edit"
      <3>1. Once(After(r)) /\ GroupsLegal(After(r), req[r].feature)
        BY <2>1, <2>2 DEF SoundWrite, After
      <3>2. ASSUME NEW f \in Features, f # req[r].feature
            PROVE  GroupsLegal(After(r), f)
        <4>1. AllRows \in SUBSET AllRows
          OBVIOUS
        <4>2. ASSUME NEW x, x.kind = "group", x.feature = f
              PROVE  x \in tree <=> x \in After(r)
          BY <3>2, <4>1, <4>2, Elsewhere, GroupBelongs
        <4> QED
          BY <2>1, <4>2, SameGroups
      <3> QED
        BY <3>1, <3>2
    <2>3. CASE req[r].op # "edit"
      <3>1. After(r) = tree
        BY <2>1, <2>3 DEF SoundWrite, After, Result
      <3> QED
        BY <2>1, <3>1
    <2> QED
      BY <2>2, <2>3
  <1>9. Once(tree') /\ \A f \in Features : GroupsLegal(tree', f)
    BY <1>1, <1>8
  <1>10. Once(tree)' /\ \A f \in Features : GroupsLegal(tree, f)'
    BY <1>9 DEF Once, GroupsLegal, GroupsOf
  <1> QED
    BY <1>1, <1>5, <1>6, <1>7, <1>10 DEF TreeInv
-----------------------------------------------------------------------------
(* The theorem of the trees.                                               *)

LEMMA TreeRulesFollow ==
  ASSUME TreeInv
  PROVE  TreeRules
  <1>1. ASSUME NEW f \in Features
        PROVE  /\ Cardinality(GroupsOf(tree, f)) <= MaxGroups
               /\ Cardinality({g \in GroupsOf(tree, f) : g.type = "ability"}) <= 1
    BY DEF TreeInv, GroupsLegal
  <1>2. \A x, y \in {x \in tree : x.kind = "effect"} : x.owner = y.owner /\ SameEffect(x, y) => x = y
    BY DEF TreeInv, Once
  <1>3. ASSUME NEW g \in {x \in tree : x.kind = "group"}, NEW o \in OptionsOf(tree, g.id)
        PROVE  Fits(g.type, EffectsOn(tree, o.id))
    <2> SUFFICES ASSUME NEW e \in EffectsOn(tree, o.id) PROVE e.type = g.type
      BY DEF Fits
    <2>1. Fitting(e, o, g)
      BY DEF TreeInv, RowsSound, AllRows, OptionsOf, EffectsOn
    <2> QED
      BY <2>1 DEF Fitting, OptionsOf, EffectsOn
  <1> QED
    BY <1>1, <1>2, <1>3 DEF TreeRules, Legal

LEMMA InitTreeInv ==
  ASSUME EngineInit
  PROVE  TreeInv /\ ReqType
  <1>1. tree = InitTree /\ ids = Cardinality(RowIds(InitTree)) /\ req = [r \in Requests |-> NoWork]
    BY DEF EngineInit
  <1>2. ReqType /\ \A r \in Requests : req[r] = NoWork
    BY <1>1 DEF ReqType
  <1>3. AllRows = InitTree
    BY <1>1, <1>2, NoWorkFields DEF AllRows
  <1>4. RowsSound
    <2>1. ids \in Nat
      <3>1. PICK numbers : numbers = RowIds(InitTree)
        OBVIOUS
      <3>2. PICK rows : rows = {x \in InitTree : x.kind # "effect"}
        OBVIOUS
      <3>3. IsFiniteSet(rows)
        BY <3>2, TreeAssumption, FS_Subset
      <3>4. numbers = {x.id : x \in rows}
        BY <3>1, <3>2 DEF RowIds
      <3>5. [x \in rows |-> x.id] \in Surjection(rows, numbers)
        BY <3>4 DEF Surjection
      <3>6. IsFiniteSet(numbers)
        BY <3>3, <3>5, FS_Surjection DEF ExistsSurjection
      <3> QED
        BY <1>1, <3>1, <3>6, FS_CardinalityType
    <2>2. \A x, y \in InitTree : Alike(x, y)
      BY TreeAssumption DEF Alike
    <2>3. ASSUME NEW e \in InitTree, NEW o \in InitTree, NEW g \in InitTree
          PROVE  Fitting(e, o, g)
      BY TreeAssumption DEF Legal, Fitting, Fits, OptionsOf, EffectsOn
    <2> QED
      BY <1>1, <1>3, <2>1, <2>2, <2>3, TreeAssumption DEF RowsSound
  <1>5. \A f \in Features : GroupsLegal(tree, f)
    <2> TAKE f \in Features
    <2>1. GroupsOf(InitTree, f) \subseteq InitTree
      BY DEF GroupsOf
    <2> QED
      BY <1>1, <2>1, TreeAssumption, FS_Subset DEF GroupsLegal, Legal
  <1>6. Once(tree)
    BY <1>1, TreeAssumption DEF Once, Legal
  <1>7. EditsApart /\ \A r \in Requests : SoundEdit(r)
    BY <1>2, NoWorkFields DEF EditsApart, SoundEdit, SoundWrite
  <1> QED
    BY <1>2, <1>4, <1>5, <1>6, <1>7 DEF TreeInv

LEMMA NextKeepsTree ==
  ASSUME TreeInv, ReqType, [EngineNext]_engineVars
  PROVE  TreeInv' /\ ReqType'
  <1>1. ASSUME NEW r \in Requests, GmEdits(r)
        PROVE  TreeInv' /\ ReqType'
    BY <1>1, GmEditsKeepTree
  <1>2. ASSUME NEW r \in Requests, PlayerAnswers(r) \/ UpdateFeat(r)
        PROVE  TreeInv' /\ ReqType'
    BY <1>2, AnswersKeepTree
  <1>3. ASSUME NEW r \in Requests, LevelUp(r) \/ FeatureGrants(r) \/ AddFeat(r) \/ RemoveFeat(r) \/ Abort(r)
        PROVE  TreeInv' /\ ReqType'
    BY <1>3, GrantsKeepTree
  <1>4. ASSUME NEW r \in Requests, StoreTotals(r)
        PROVE  TreeInv' /\ ReqType'
    BY <1>4, StoreKeepsTree
  <1>5. CASE UNCHANGED engineVars
    <2>1. tree' = tree /\ ids' = ids /\ req' = req
      BY <1>5 DEF engineVars
    <2>2. ReqType'
      BY <2>1 DEF ReqType
    <2>3. AllRows' = AllRows
      BY <2>1 DEF AllRows
    <2>4. RowsSound'
      <3>1. Fresh({}, ids)
        BY DEF Fresh
      <3> QED
        BY <2>1, <2>3, <3>1, SoundRows DEF TreeInv, RowsSound
    <2>5. EditsApart'
      BY <2>1 DEF EditsApart, TreeInv
    <2>6. \A r \in Requests : SoundEdit(r)'
      BY <2>1 DEF SoundEdit, TreeInv
    <2>7. Once(tree)' /\ \A f \in Features : GroupsLegal(tree, f)'
      BY <2>1 DEF TreeInv, Once, GroupsLegal, GroupsOf
    <2> QED
      BY <2>2, <2>4, <2>5, <2>6, <2>7 DEF TreeInv
  <1> QED
    BY <1>1, <1>2, <1>3, <1>4, <1>5 DEF EngineNext, FeatGrants

\* features/effects/service.py, whose rules no constraint holds: whatever GMs edit at once,
\* no feature has more groups than it may or two of abilities, no owner the same effect
\* twice, no option an effect its group's type does not allow.
THEOREM TreesStayLegal == EngineSpec => []TreeRules
  <1>1. EngineInit => TreeInv /\ ReqType
    BY InitTreeInv
  <1>2. TreeInv /\ ReqType /\ [EngineNext]_engineVars => (TreeInv /\ ReqType)'
    BY NextKeepsTree
  <1>3. TreeInv /\ ReqType => TreeRules
    BY TreeRulesFollow
  <1> QED
    BY <1>1, <1>2, <1>3, PTL DEF EngineSpec
-----------------------------------------------------------------------------
(* Grants and picks: what a step of a request has to keep.                 *)

\* Rows new to the program never take the id of another.
OldIdsKept(rows) ==
    \A x \in rows : x.kind # "effect" /\ x.id \in 1..ids =>
        \E y \in AllRows : y.kind # "effect" /\ y.id = x.id /\ Alike(y, x)

LEMMA SoundPickKept ==
  ASSUME NEW p, SoundPick(p, AllRows, ids), NEW rows, OldIdsKept(rows),
         ids \in Nat, NEW n \in Nat, ids <= n
  PROVE  SoundPick(p, rows, n)
  <1>1. 1..ids \subseteq 1..n
    OBVIOUS
  <1>2. p \in [char : Characters, feature : Features, group : 1..n, option : 1..n]
    BY <1>1 DEF SoundPick
  <1>3. p.group \in 1..ids /\ p.option \in 1..ids
    BY DEF SoundPick
  <1>4. ASSUME NEW x \in rows, x.kind # "effect"
        PROVE  /\ x.id = p.group => x.kind = "group" /\ x.feature = p.feature
               /\ x.id = p.option => x.kind = "option" /\ x.group = p.group
    <2>1. ASSUME x.id = p.group \/ x.id = p.option
          PROVE  \E y \in AllRows : y.kind # "effect" /\ y.id = x.id /\ Alike(y, x)
      BY <1>3, <1>4, <2>1 DEF OldIdsKept
    <2>2. ASSUME x.id = p.group
          PROVE  x.kind = "group" /\ x.feature = p.feature
      <3>1. PICK y \in AllRows : y.kind # "effect" /\ y.id = x.id /\ Alike(y, x)
        BY <2>1, <2>2
      <3>2. y.kind = "group" /\ y.feature = p.feature
        BY <2>2, <3>1 DEF SoundPick
      <3> QED
        BY <1>4, <3>1, <3>2 DEF Alike
    <2>3. ASSUME x.id = p.option
          PROVE  x.kind = "option" /\ x.group = p.group
      <3>1. PICK y \in AllRows : y.kind # "effect" /\ y.id = x.id /\ Alike(y, x)
        BY <2>1, <2>3
      <3>2. y.kind = "option" /\ y.group = p.group
        BY <2>3, <3>1 DEF SoundPick
      <3> QED
        BY <1>4, <3>1, <3>2 DEF Alike
    <2> QED
      BY <2>2, <2>3
  <1> QED
    BY <1>2, <1>4 DEF SoundPick

\* What w, the record r is going to have, does to the picks of others ...
Spares(r, w) ==
    /\ \A p \in picks : Drops(w, p) \/ Revokes(w, p) => p \in w.unpick
    /\ \A q \in Requests : \A p \in req[q].pick : q # r =>
           /\ req[q].step = "store" => ~Drops(w, p)
           /\ ~Revokes(w, p)

\* ... and others to its own.
Lands(r, w) ==
    \A p \in w.pick :
        /\ SoundPick(p, AllRows, ids) /\ p.char = w.char /\ ~Revokes(w, p)
        /\ w.step = "store" => Names(p) \subseteq RowIds(tree) /\ ~Drops(w, p)
        /\ \A q \in Requests : q # r => /\ w.step = "store" => ~Drops(req[q], p)
                                        /\ ~Revokes(req[q], p)

LEMMA TurnKeepsGrants ==
  ASSUME GrantInv, NEW r \in Requests, NEW w, req'[r] = w, \A q \in Requests : q # r => req'[q] = req[q],
         tree' = tree, flags' = flags, level' = level, grants' = grants, picks' = picks,
         ids \in Nat, ids' \in Nat, ids <= ids', OldIdsKept(AllRows'),
         SoundRecord(w, grants), \A q \in Requests : q # r => Apart(w, req[q]) /\ Apart(req[q], w),
         Spares(r, w), Lands(r, w), SoundFlags(tree, w)
  PROVE  GrantInv'
  <1>1. Tables'
    <2>1. Tables
      BY DEF GrantInv
    <2>2. \A f \in Features : Flags(tree', f) = Flags(tree, f)
      OBVIOUS
    <2> QED
      BY <2>1, <2>2 DEF Tables, Flags, EffectsOn, GroupsOf
  <1>2. \A q \in Requests : SoundRecord(req'[q], grants')
    BY DEF GrantInv
  <1>3. \A q, s \in Requests : q # s => Apart(req'[q], req'[s])
    BY DEF GrantInv
  <1>4. ASSUME NEW p, SoundPick(p, AllRows, ids)
        PROVE  SoundPick(p, AllRows', ids')
    BY <1>4, SoundPickKept
  <1>5. ASSUME NEW p \in picks'
        PROVE  /\ SoundPick(p, AllRows', ids') /\ Names(p) \subseteq RowIds(tree') /\ grants'[p.char][p.feature] # ""
               /\ \A q \in Requests : Drops(req'[q], p) \/ Revokes(req'[q], p) => p \in req'[q].unpick
    <2>1. StoredPick(p)
      BY DEF GrantInv
    <2>2. SoundPick(p, AllRows', ids')
      BY <1>4, <2>1 DEF StoredPick
    <2>3. \A q \in Requests : Drops(req'[q], p) \/ Revokes(req'[q], p) => p \in req'[q].unpick
      BY <2>1 DEF StoredPick, Spares
    <2> QED
      BY <2>1, <2>2, <2>3 DEF StoredPick
  <1>6. ASSUME NEW q \in Requests, NEW p \in req'[q].pick
        PROVE  /\ SoundPick(p, AllRows', ids') /\ p.char = req'[q].char
               /\ req'[q].step = "store" => Names(p) \subseteq RowIds(tree') /\ \A s \in Requests : ~Drops(req'[s], p)
               /\ \A s \in Requests : ~Revokes(req'[s], p)
    <2>1. CASE q = r
      <3>1. p \in w.pick
        BY <2>1
      <3>2. SoundPick(p, AllRows', ids')
        BY <1>4, <3>1 DEF Lands
      <3> QED
        BY <2>1, <3>1, <3>2 DEF Lands
    <2>2. CASE q # r
      <3>1. NewPick(req[q], p)
        BY <2>2 DEF GrantInv
      <3>2. SoundPick(p, AllRows', ids')
        BY <1>4, <3>1 DEF NewPick
      <3> QED
        BY <2>2, <3>1, <3>2 DEF NewPick, Spares
    <2> QED
      BY <2>1, <2>2
  <1>7. \A q \in Requests : SoundFlags(tree', req'[q])
    BY DEF GrantInv
  <1> QED
    BY <1>1, <1>2, <1>3, <1>5, <1>6, <1>7 DEF GrantInv, SoundRecord, Apart, StoredPick, NewPick, SoundFlags,
       SoundPick, Names, Drops, DropsOf, Revokes, RowIds, PicksOf, Result, Flags, EffectsOn, GroupsOf

\* The ids a write takes out of the tree, and those it brings.
Spared(r, gone, away) ==
    /\ \A p \in picks : Names(p) \cap gone # {} => p \in away
    /\ \A q \in Requests : \A p \in req[q].pick : q # r /\ req[q].step = "store" => Names(p) \cap gone = {}
Known(new) == \A x \in new : x.kind # "effect" /\ x.id \in 1..ids => x.id \in RowIds(tree)

LEMMA KeptIds ==
  ASSUME TreeInv, TreeInv', tree' = tree, NEW new, Known(new), AllRows' \subseteq AllRows \cup new
  PROVE  OldIdsKept(AllRows')
  <1> SUFFICES ASSUME NEW x \in AllRows', x.kind # "effect", x.id \in 1..ids
               PROVE  \E y \in AllRows : y.kind # "effect" /\ y.id = x.id /\ Alike(y, x)
    BY DEF OldIdsKept
  <1>1. CASE x \in AllRows
    BY <1>1 DEF Alike
  <1>2. CASE x \in new
    <2>1. PICK y \in tree : y.kind # "effect" /\ y.id = x.id
      BY <1>2 DEF Known, RowIds
    <2>2. y \in AllRows' /\ y \in AllRows
      BY DEF AllRows
    <2>3. \A a, b \in AllRows' : Alike(a, b)
      BY DEF TreeInv, RowsSound, Alike
    <2> QED
      BY <2>1, <2>2, <2>3
  <1> QED
    BY <1>1, <1>2

\* The picks an edit deletes are of its feature.
Deletes(me, f, away) ==
    \A p \in away : \/ p.feature = f
                    \/ me.op = "edit" /\ me.feature = f /\ p \in me.unpick

\* A step of an edit, for what it is worth to others.
EditStep(r) ==
    /\ \A q \in Requests : q # r => req'[q] = req[q]
    /\ tree' = tree /\ level' = level /\ grants' = grants /\ picks' = picks
    /\ totals' = totals /\ lowered' = lowered /\ raced' = raced
    /\ req'[r].op = "edit" /\ req'[r].pick = {} /\ req'[r].seen = {} /\ req'[r].late = {}
    /\ Known(req'[r].put) /\ Deletes(req[r], req'[r].feature, req'[r].unpick)
    /\ req'[r].step = "store" =>
           req'[r].totals = [c \in Holders(req'[r].feature) |->
               Totals((tree \ req'[r].cut) \cup req'[r].put, grants, picks \ req'[r].unpick, c)]

LEMMA NoGrant ==
  DOMAIN NoWork.grant = {} /\ DOMAIN <<>> = {}
  <1>1. DOMAIN <<>> = {}
    OBVIOUS
  <1> QED
    BY <1>1, NoWorkFields

LEMMA EditKeepsGrants ==
  ASSUME TreeInv, TreeInv', GrantInv, ReqType, NEW r \in Requests, NEW f \in Features,
         NEW new, NEW old, NEW away, Edit(r, f, new, old, away), UNCHANGED Committed,
         ids' \in Nat, ids <= ids',
         \A q \in Requests : q # r => f \notin DOMAIN req[q].grant,
         Known(new), Spared(r, RowIds(old) \ RowIds(new), away), Deletes(req[r], f, away)
  PROVE  GrantInv' /\ EditStep(r)
  <1>1. /\ \A q \in Requests : q # r => req'[q] = req[q]
        /\ Holds(r, f, new, old, away)
    BY EditShape
  <1>2. req'[r].flags = Flags((tree \ old) \cup new, f)
    BY EditComputes
  <1>3. PICK w : w = req'[r]
    OBVIOUS
  <1>4. /\ w.op = "edit" /\ w.step = "store" /\ w.feature = f
        /\ w.put = new /\ w.cut = old /\ w.unpick = away
        /\ w.pick = {} /\ w.seen = {} /\ w.grant = <<>> /\ w.revoke = {}
        /\ w.flags = Flags((tree \ old) \cup new, f)
    BY <1>1, <1>2, <1>3 DEF Holds
  <1>5. OldIdsKept(AllRows')
    <2>1. AllRows' \subseteq AllRows \cup new
      <3>1. AllRows' = tree' \cup UNION {req'[q].put \cup req'[q].seen : q \in Requests}
        BY DEF AllRows
      <3>2. \A q \in Requests : req'[q].put \cup req'[q].seen \subseteq AllRows \cup new
        BY <1>1, <1>3, <1>4, RowsOf
      <3>3. tree' \subseteq AllRows
        BY DEF Committed, AllRows
      <3> QED
        BY <3>1, <3>2, <3>3
    <2> QED
      BY <2>1, KeptIds DEF Committed
  <1>6. SoundRecord(w, grants)
    BY <1>4 DEF SoundRecord, PickOps, GrantOps
  <1>7. \A q \in Requests : q # r => Apart(w, req[q]) /\ Apart(req[q], w)
    BY <1>4, NoGrant DEF Apart, CharacterOps, PicksOf
  <1>8. DropsOf(w) = RowIds(old) \ RowIds(new)
    BY <1>4 DEF DropsOf
  <1>9. Spares(r, w)
    BY <1>4, <1>8 DEF Spares, Spared, Drops, Revokes
  <1>10. Lands(r, w)
    BY <1>4 DEF Lands
  <1>11. SoundFlags(tree, w)
    BY <1>4 DEF SoundFlags, Result
  <1>12. ids \in Nat
    BY DEF TreeInv, RowsSound
  <1>14. EditStep(r)
    BY ZenonT(40), <1>1, EditComputes DEF EditStep, Holds, Committed
  <1> HIDE <1>3
  <1>13. req'[r] = w
    BY <1>3
  <1> QED
    BY <1>1, <1>5, <1>6, <1>7, <1>9, <1>10, <1>11, <1>12, <1>13, <1>14, TurnKeepsGrants DEF Committed

LEMMA NoIds ==
  ASSUME NEW rows, \A x \in rows : x.kind = "effect"
  PROVE  RowIds(rows) = {}
  BY DEF RowIds

LEMMA NothingGone ==
  ASSUME NEW r, NEW gone, gone = {}, NEW away, NEW f
  PROVE  Spared(r, gone, away) /\ Deletes(req[r], f, {})
  BY DEF Spared, Deletes

LEMMA LockedFeature ==
  ASSUME NEW r \in Requests, NEW f, FeatureLocked(r, f)
  PROVE  \A q \in Requests : q # r => f \notin DOMAIN req[q].grant
  BY DEF FeatureLocked, OtherThan

LEMMA EffectWritesKeepGrants ==
  ASSUME TreeInv, TreeInv', GrantInv, ReqType, NEW r \in Requests, NEW f \in Features, FeatureLocked(r, f),
         NEW w, \/ \E b \in Bundles : AddEffects(r, f, w, b)
                \/ \E e \in EffectsOn(tree, w) :
                       \/ \E i \in Items : UpdateEffect(r, f, w, e, i)
                       \/ RemoveEffect(r, f, e)
  PROVE  GrantInv' /\ EditStep(r)
  <1>0. ids \in Nat
    BY DEF TreeInv, RowsSound
  <1>1. PICK new, old :
            /\ Edit(r, f, new, old, {}) /\ UNCHANGED <<Committed, ids>>
            /\ \A x \in new : \E i : x = Effect(w, i)
            /\ old \subseteq EffectsOn(tree, w)
    <2>1. ASSUME NEW b \in Bundles, AddEffects(r, f, w, b)
          PROVE  \E new, old : /\ Edit(r, f, new, old, {}) /\ UNCHANGED <<Committed, ids>>
                               /\ \A x \in new : \E i : x = Effect(w, i)
                               /\ old \subseteq EffectsOn(tree, w)
      <3>1. PICK new : new = {Effect(w, i) : i \in b}
        OBVIOUS
      <3>2. Edit(r, f, new, {}, {}) /\ UNCHANGED <<Committed, ids>>
        BY <2>1, <3>1 DEF AddEffects
      <3>3. \A x \in new : \E i : x = Effect(w, i)
        BY <3>1
      <3> HIDE <3>1
      <3> QED
        BY <3>2, <3>3
    <2>2. ASSUME NEW e \in EffectsOn(tree, w), NEW i \in Items, UpdateEffect(r, f, w, e, i)
          PROVE  \E new, old : /\ Edit(r, f, new, old, {}) /\ UNCHANGED <<Committed, ids>>
                               /\ \A x \in new : \E j : x = Effect(w, j)
                               /\ old \subseteq EffectsOn(tree, w)
      <3>1. PICK made : made = Effect(w, i)
        OBVIOUS
      <3>2. Edit(r, f, {made}, {e} \ {made}, {}) /\ UNCHANGED <<Committed, ids>>
        BY <2>2, <3>1 DEF UpdateEffect
      <3>3. \A x \in {made} : \E j : x = Effect(w, j)
        BY <3>1
      <3>4. {e} \ {made} \subseteq EffectsOn(tree, w)
        OBVIOUS
      <3> HIDE <3>1
      <3> QED
        BY <3>2, <3>3, <3>4
    <2>3. ASSUME NEW e \in EffectsOn(tree, w), RemoveEffect(r, f, e)
          PROVE  \E new, old : /\ Edit(r, f, new, old, {}) /\ UNCHANGED <<Committed, ids>>
                               /\ \A x \in new : \E j : x = Effect(w, j)
                               /\ old \subseteq EffectsOn(tree, w)
      <3>1. Edit(r, f, {}, {e}, {}) /\ UNCHANGED <<Committed, ids>>
        BY <2>3 DEF RemoveEffect
      <3>2. {e} \subseteq EffectsOn(tree, w) /\ \A x \in {} : \E j : x = Effect(w, j)
        OBVIOUS
      <3> QED
        BY <3>1, <3>2
    <2> QED
      BY <2>1, <2>2, <2>3
  <1>2. (\A x \in new : x.kind = "effect") /\ \A x \in old : x.kind = "effect"
    BY <1>1, RowKinds DEF EffectsOn
  <1>3. Known(new) /\ RowIds(old) \ RowIds(new) = {}
    BY <1>2, NoIds DEF Known
  <1>4. Spared(r, RowIds(old) \ RowIds(new), {}) /\ Deletes(req[r], f, {})
    BY <1>3, NothingGone
  <1>5. \A q \in Requests : q # r => f \notin DOMAIN req[q].grant
    BY LockedFeature
  <1> QED
    BY <1>0, <1>1, <1>3, <1>4, <1>5, EditKeepsGrants

LEMMA GroupWritesKeepGrants ==
  ASSUME TreeInv, TreeInv', GrantInv, ReqType, NEW r \in Requests, NEW f \in Features, FeatureLocked(r, f),
         \/ \E type \in EffectTypes, count \in PickCounts, bs \in OptionBundles :
                AddChoiceGroup(r, f, type, count, bs)
         \/ \E g \in GroupsOf(tree, f) :
                \/ \E count \in PickCounts : UpdateChoiceGroup(r, f, g, count)
                \/ \E b \in Bundles : AddChoiceOption(r, f, g, b)
  PROVE  GrantInv' /\ EditStep(r)
  <1>0. ids \in Nat /\ ids' \in Nat
    BY DEF TreeInv, RowsSound
  <1>1. \A q \in Requests : q # r => f \notin DOMAIN req[q].grant
    BY LockedFeature
  <1>2. ASSUME NEW opts, NEW g, NEW first, first \in Nat, ids <= first, NEW n, NEW b, Numbered(opts, g, first, n, b)
        PROVE  \A x \in opts : x.kind # "effect" => x.id \notin 1..ids
    <2> SUFFICES ASSUME NEW x \in opts, x.kind # "effect" PROVE x.id \notin 1..ids
      OBVIOUS
    <2>1. PICK k \in 1..n : x = Option(first + k, g) \/ \E i \in b[k] : x = Effect(first + k, i)
      BY <1>2 DEF Numbered
    <2>2. x.id = first + k
      BY <2>1, RowKinds
    <2> QED
      BY <1>0, <1>2, <2>2
  <1>3. ASSUME NEW type \in EffectTypes, NEW count \in PickCounts, NEW bs \in OptionBundles,
               AddChoiceGroup(r, f, type, count, bs)
        PROVE  GrantInv' /\ EditStep(r)
    <2>1. IsFiniteSet(bs) /\ Cardinality(bs) \in Nat
      BY FiniteBundles, FS_CardinalityType
    <2>2. PICK first, grp, opts :
              first = ids + 1 /\ grp = Group(first, f, type, count) /\ opts = NewOptions(first, first, bs)
      OBVIOUS
    <2>3. PICK b : Numbered(opts, first, first, Cardinality(bs), b)
      BY <2>1, <2>2, NewOptionRows
    <2>4. /\ Edit(r, f, {grp} \cup opts, {}, {}) /\ UNCHANGED Committed
          /\ ids' = ids + 1 + Cardinality(bs)
      BY <1>3, <2>2 DEF AddChoiceGroup
    <2>5. grp.id \notin 1..ids
      BY <1>0, <2>2, RowKinds
    <2>6. Known({grp} \cup opts)
      BY <1>0, <1>2, <2>2, <2>3, <2>5 DEF Known
    <2>7. RowIds({}) \ RowIds({grp} \cup opts) = {}
      BY DEF RowIds
    <2>8. Spared(r, RowIds({}) \ RowIds({grp} \cup opts), {}) /\ Deletes(req[r], f, {})
      BY <2>7, NothingGone
    <2>9. ids <= ids'
      BY <1>0, <2>1, <2>4
    <2> QED
      BY <1>0, <1>1, <2>4, <2>6, <2>8, <2>9, EditKeepsGrants
  <1>4. ASSUME NEW g \in GroupsOf(tree, f), NEW a \in Bundles, AddChoiceOption(r, f, g, a)
        PROVE  GrantInv' /\ EditStep(r)
    <2>1. IsFiniteSet({a})
      BY FS_Singleton
    <2>2. PICK first, opts : first = ids /\ opts = NewOptions(g.id, first, {a})
      OBVIOUS
    <2>3. PICK b : Numbered(opts, g.id, first, Cardinality({a}), b)
      BY <2>1, <2>2, NewOptionRows
    <2>4. /\ Edit(r, f, opts, {}, {}) /\ UNCHANGED Committed /\ ids' = ids + 1
      BY <1>4, <2>2 DEF AddChoiceOption
    <2>6. Known(opts)
      BY <1>0, <1>2, <2>2, <2>3 DEF Known
    <2>7. RowIds({}) \ RowIds(opts) = {}
      BY DEF RowIds
    <2>8. Spared(r, RowIds({}) \ RowIds(opts), {}) /\ Deletes(req[r], f, {})
      BY <2>7, NothingGone
    <2>9. ids <= ids'
      BY <1>0, <2>4
    <2> QED
      BY <1>0, <1>1, <2>4, <2>6, <2>8, <2>9, EditKeepsGrants
  <1>5. ASSUME NEW g \in GroupsOf(tree, f), NEW n \in PickCounts, UpdateChoiceGroup(r, f, g, n)
        PROVE  GrantInv' /\ EditStep(r)
    <2>1. PICK made, old : made = [g EXCEPT !.count = n] /\ old = {g} \ {made}
      OBVIOUS
    <2>2. Edit(r, f, {made}, old, {}) /\ UNCHANGED <<Committed, ids>>
      BY <1>5, <2>1 DEF UpdateChoiceGroup
    <2>3. g \in tree /\ g.kind = "group" /\ g = Group(g.id, g.feature, g.type, g.count)
      BY RowFields DEF GroupsOf, TreeInv, RowsSound, AllRows
    <2>4. made.kind = "group" /\ made.id = g.id
      BY <2>1, <2>3 DEF Group
    <2>5. RowIds({made}) = {g.id} /\ RowIds(old) \subseteq {g.id} /\ g.id \in RowIds(tree)
      BY <2>1, <2>3, <2>4 DEF RowIds
    <2>6. Known({made})
      BY <2>4, <2>5 DEF Known
    <2>7. RowIds(old) \ RowIds({made}) = {}
      BY <2>5
    <2>8. Spared(r, RowIds(old) \ RowIds({made}), {}) /\ Deletes(req[r], f, {})
      BY <2>7, NothingGone
    <2>9. UNCHANGED Committed /\ ids <= ids'
      BY <1>0, <2>2
    <2>10. Edit(r, f, {made}, old, {})
      BY <2>2
    <2> HIDE <2>1
    <2> QED
      BY <1>0, <1>1, <2>6, <2>8, <2>9, <2>10, EditKeepsGrants
  <1> QED
    BY <1>3, <1>4, <1>5

LEMMA QuietKeepsGrants ==
  ASSUME TreeInv, TreeInv', GrantInv, ReqType, NEW r \in Requests, NEW w, Turns(r, w), DOMAIN w = DOMAIN NoWork,
         w.put \subseteq AllRows, w.seen \subseteq AllRows,
         SoundRecord(w, grants), \A q \in Requests : q # r => Apart(w, req[q]) /\ Apart(req[q], w),
         Spares(r, w), Lands(r, w), SoundFlags(tree, w)
  PROVE  GrantInv'
  <1>1. req'[r] = w /\ \A q \in Requests : q # r => req'[q] = req[q]
    BY Turned
  <1>2. /\ tree' = tree /\ flags' = flags /\ level' = level /\ grants' = grants /\ picks' = picks /\ ids' = ids
    BY DEF Turns
  <1>3. AllRows' \subseteq AllRows \cup {}
    <2>1. AllRows' = tree' \cup UNION {req'[q].put \cup req'[q].seen : q \in Requests}
      BY DEF AllRows
    <2>2. \A q \in Requests : req'[q].put \cup req'[q].seen \subseteq AllRows
      BY <1>1, RowsOf
    <2>3. tree' \subseteq AllRows
      BY <1>2 DEF AllRows
    <2> QED
      BY <2>1, <2>2, <2>3
  <1>4. OldIdsKept(AllRows')
    <2>1. Known({})
      BY DEF Known
    <2> QED
      BY <1>2, <1>3, <2>1, KeptIds
  <1>5. ids \in Nat
    BY DEF TreeInv, RowsSound
  <1>6. ids' \in Nat /\ ids <= ids'
    BY <1>2, <1>5
  <1> QED
    BY <1>1, <1>2, <1>4, <1>5, <1>6, TurnKeepsGrants

\* A record that holds no pick, no grant and no write.
LEMMA IdleKeepsGrants ==
  ASSUME TreeInv, TreeInv', GrantInv, ReqType, NEW r \in Requests, NEW w, Turns(r, w), DOMAIN w = DOMAIN NoWork,
         w.put = {}, w.seen \subseteq AllRows, w.step # "store", w.op \notin {"answer", "asi"},
         w.op \in CharacterOps => w.step = "loaded",
         w.pick = {}, w.grant = <<>>, w.revoke = {}, SoundRecord(w, grants),
         w.op = "edit" => \A q \in Requests : q # r => w.feature \notin DOMAIN req[q].grant
  PROVE  GrantInv'
  <1>1. \A q \in Requests : q # r => Apart(w, req[q]) /\ Apart(req[q], w)
    BY NoGrant DEF Apart, PicksOf
  <1>2. Spares(r, w)
    BY DEF Spares, Drops, DropsOf, Revokes
  <1>3. Lands(r, w) /\ SoundFlags(tree, w)
    BY DEF Lands, SoundFlags
  <1> QED
    BY <1>1, <1>2, <1>3, QuietKeepsGrants

LEMMA AbortKeepsGrants ==
  ASSUME TreeInv, TreeInv', GrantInv, ReqType, NEW r \in Requests, Abort(r)
  PROVE  GrantInv'
  <1>1. Turns(r, NoWork)
    BY AbortTurns
  <1>2. SoundRecord(NoWork, grants)
    BY NoWorkFields, NoGrant DEF SoundRecord, PickOps, GrantOps
  <1> QED
    BY <1>1, <1>2, NoWorkFields, IdleKeepsGrants DEF CharacterOps

LEMMA LoadKeepsGrants ==
  ASSUME TreeInv, TreeInv', GrantInv, ReqType, NEW r \in Requests, LoadFeature(r)
  PROVE  GrantInv'
  <1>1. PICK c \in Characters, f \in Features : Turns(r, LoadRecord(c, f, Subtree(tree, f)))
    BY LoadTurns
  <1>2. PICK w : w = LoadRecord(c, f, Subtree(tree, f))
    OBVIOUS
  <1>3. Subtree(tree, f) \subseteq AllRows
    BY SubtreeRows DEF AllRows
  <1>4. /\ DOMAIN w = DOMAIN NoWork
        /\ w.op = "grant" /\ w.step = "loaded" /\ w.char = c /\ w.feature = f /\ w.seen = Subtree(tree, f)
        /\ w.put = {} /\ w.cut = {} /\ w.pick = {} /\ w.unpick = {} /\ w.grant = <<>> /\ w.revoke = {}
    BY <1>2, LoadFields
  <1>5. SoundRecord(w, grants)
    BY <1>4, NoGrant DEF SoundRecord, PickOps, GrantOps
  <1>6. Turns(r, w)
    BY <1>1, <1>2
  <1> QED
    BY <1>3, <1>4, <1>5, <1>6, IdleKeepsGrants

LEMMA ClearPicksKeepsGrants ==
  ASSUME TreeInv, TreeInv', GrantInv, ReqType, NEW r \in Requests, NEW f \in Features, FeatureLocked(r, f),
         NEW rows, \A x \in rows : x \in tree /\ BelongsTo(tree, x, f), ClearPicks(r, f, rows)
  PROVE  GrantInv' /\ EditStep(r)
  <1>1. PICK gone : gone = {p \in picks : p.group \in RowIds(rows) \/ p.option \in RowIds(rows)}
    OBVIOUS
  <1>2. PICK w : w = [NoWork EXCEPT !.op = "edit", !.step = "drop", !.feature = f, !.cut = rows, !.unpick = gone]
    OBVIOUS
  <1>3. Turns(r, w)
    BY <1>1, <1>2 DEF ClearPicks, Turns, Committed
  <1>4. /\ w.op = "edit" /\ w.step = "drop" /\ w.feature = f /\ w.put = {} /\ w.seen = {} /\ w.late = {}
        /\ w.pick = {} /\ w.grant = <<>> /\ w.revoke = {} /\ w.unpick = gone /\ DOMAIN w = DOMAIN NoWork
    BY <1>2 DEF NoWork
  <1>5. SoundRecord(w, grants)
    BY <1>4 DEF SoundRecord, PickOps, GrantOps
  <1>6. \A q \in Requests : q # r => f \notin DOMAIN req[q].grant
    BY LockedFeature
  <1>7. ASSUME NEW p \in gone
        PROVE  p.feature = f
    <2>1. SoundPick(p, AllRows, ids)
      BY <1>1 DEF GrantInv, StoredPick
    <2>2. PICK x \in rows : x.kind # "effect" /\ (x.id = p.group \/ x.id = p.option)
      BY <1>1 DEF RowIds
    <2>3. x \in AllRows /\ BelongsTo(tree, x, f)
      BY <2>2 DEF AllRows
    <2>4. CASE x.id = p.group
      BY <2>1, <2>2, <2>3, <2>4 DEF SoundPick, BelongsTo
    <2>5. CASE x.id = p.option
      <3>1. x.kind = "option" /\ x.group = p.group
        BY <2>1, <2>2, <2>3, <2>5 DEF SoundPick
      <3>2. PICK g \in GroupsOf(tree, f) : g.id = x.group
        BY <2>3, <3>1 DEF BelongsTo
      <3>3. g \in AllRows /\ g.kind = "group" /\ g.feature = f
        BY DEF GroupsOf, AllRows
      <3> QED
        BY <2>1, <3>1, <3>2, <3>3 DEF SoundPick
    <2> QED
      BY <2>2, <2>4, <2>5
  <1> HIDE <1>1, <1>2
  <1>8. /\ req'[r] = w /\ \A q \in Requests : q # r => req'[q] = req[q]
        /\ Known(w.put) /\ Deletes(req[r], f, w.unpick)
    BY <1>3, <1>4, <1>7, Turned DEF Known, Deletes
  <1>9. EditStep(r)
    BY <1>3, <1>4, <1>8 DEF EditStep, Turns
  <1> QED
    BY <1>3, <1>4, <1>5, <1>6, <1>9, IdleKeepsGrants DEF CharacterOps

LEMMA DropRowsKeepsGrants ==
  ASSUME TreeInv, TreeInv', GrantInv, ReqType, NEW r \in Requests, DropRows(r)
  PROVE  GrantInv' /\ EditStep(r)
  <1>1. PICK f, old, away : f = req[r].feature /\ old = req[r].cut /\ away = req[r].unpick
    OBVIOUS
  <1>2. /\ req[r].step = "drop" /\ Edit(r, f, {}, old, away) /\ UNCHANGED <<Committed, ids>>
        /\ \A q \in Requests : q # r /\ req[q].step = "store" =>
               \A p \in req[q].pick : ~(p.group \in RowIds(old) \/ p.option \in RowIds(old))
        /\ \A p \in picks \ away : ~(p.group \in RowIds(old) \/ p.option \in RowIds(old))
    BY <1>1 DEF DropRows, OtherThan, Writing
  <1>3. req[r].op = "edit" /\ f \in Features
    BY <1>1, <1>2 DEF TreeInv, SoundEdit, SoundWrite
  <1>4. \A q \in Requests : q # r => f \notin DOMAIN req[q].grant
    BY <1>1, <1>3 DEF GrantInv, Apart
  <1>5. Known({})
    BY DEF Known
  <1>6. Spared(r, RowIds(old) \ RowIds({}), away)
    BY <1>2 DEF Spared, Names
  <1>8. Deletes(req[r], f, away)
    BY <1>1, <1>3 DEF Deletes
  <1>7. ids' \in Nat /\ ids <= ids'
    BY <1>2 DEF TreeInv, RowsSound
  <1> HIDE <1>1
  <1> QED
    BY <1>2, <1>3, <1>4, <1>5, <1>6, <1>7, <1>8, EditKeepsGrants

LEMMA GmEditsKeepGrants ==
  ASSUME TreeInv, TreeInv', GrantInv, ReqType, NEW r \in Requests, GmEdits(r)
  PROVE  GrantInv' /\ EditStep(r)
  <1>1. CASE FixedEffectRoutes(r)
    BY <1>1, EffectWritesKeepGrants DEF FixedEffectRoutes, FixedEffectWrites, LockFeature
  <1>2. CASE GroupRoutes(r)
    <2>1. PICK f \in Features :
              /\ FeatureLocked(r, f)
              /\ \/ \E type \in EffectTypes, count \in PickCounts, bs \in OptionBundles :
                        AddChoiceGroup(r, f, type, count, bs)
                 \/ \E g \in GroupsOf(tree, f) :
                        \/ \E count \in PickCounts : UpdateChoiceGroup(r, f, g, count)
                        \/ ClearPicks(r, f, WithGroup(tree, g))
      BY <1>2 DEF GroupRoutes, LockFeature
    <2>2. CASE \E g \in GroupsOf(tree, f) : ClearPicks(r, f, WithGroup(tree, g))
      <3>1. PICK g \in GroupsOf(tree, f) : ClearPicks(r, f, WithGroup(tree, g))
        BY <2>2
      <3>2. PICK rows : rows = WithGroup(tree, g)
        OBVIOUS
      <3>3. ClearPicks(r, f, rows) /\ \A x \in rows : x \in tree /\ BelongsTo(tree, x, f)
        BY <3>1, <3>2, WithGroupBelongs
      <3> QED
        BY <2>1, <3>3, ClearPicksKeepsGrants
    <2> QED
      BY <2>1, <2>2, GroupWritesKeepGrants
  <1>3. CASE OptionRoutes(r)
    <2>1. PICK f \in Features :
              /\ FeatureLocked(r, f)
              /\ \E g \in GroupsOf(tree, f) :
                     \/ \E b \in Bundles : AddChoiceOption(r, f, g, b)
                     \/ \E o \in OptionsOf(tree, g.id) :
                            \/ ClearPicks(r, f, WithOption(tree, o))
                            \/ OptionEffectWrites(r, f, g, o)
      BY <1>3 DEF OptionRoutes, LockFeature
    <2>2. ASSUME NEW g \in GroupsOf(tree, f), NEW b \in Bundles, AddChoiceOption(r, f, g, b)
          PROVE  GrantInv' /\ EditStep(r)
      BY <2>1, <2>2, GroupWritesKeepGrants
    <2>3. ASSUME NEW g \in GroupsOf(tree, f), NEW o \in OptionsOf(tree, g.id), ClearPicks(r, f, WithOption(tree, o))
          PROVE  GrantInv' /\ EditStep(r)
      <3>1. PICK rows : rows = WithOption(tree, o)
        OBVIOUS
      <3>2. ClearPicks(r, f, rows) /\ \A x \in rows : x \in tree /\ BelongsTo(tree, x, f)
        BY <2>3, <3>1, WithOptionBelongs
      <3> QED
        BY <2>1, <3>2, ClearPicksKeepsGrants
    <2>4. ASSUME NEW g, NEW o, OptionEffectWrites(r, f, g, o)
          PROVE  GrantInv' /\ EditStep(r)
      <3>1. \/ \E b \in Bundles : AddEffects(r, f, o.id, b)
            \/ \E e \in EffectsOn(tree, o.id) :
                   \/ \E i \in Items : UpdateEffect(r, f, o.id, e, i)
                   \/ RemoveEffect(r, f, e)
        BY <2>4 DEF OptionEffectWrites
      <3> QED
        BY <2>1, <3>1, EffectWritesKeepGrants
    <2> QED
      BY <2>1, <2>2, <2>3, <2>4
  <1> QED
    BY <1>1, <1>2, <1>3, DropRowsKeepsGrants DEF GmEdits
-----------------------------------------------------------------------------
(* Grants and picks: answers.                                              *)

LEMMA PickedFields ==
  ASSUME NEW c, NEW f, NEW a
  PROVE  /\ Pick(c, f, a).char = c /\ Pick(c, f, a).feature = f
         /\ Pick(c, f, a).group = a[1] /\ Pick(c, f, a).option = a[2]
         /\ Pick(c, f, a) = [char |-> c, feature |-> f, group |-> a[1], option |-> a[2]]
  BY DEF Pick

\* A pick of a group and an option that are rows of the feature is sound.
LEMMA PickIsSound ==
  ASSUME TreeInv, NEW c \in Characters, NEW f \in Features, NEW t \in SUBSET AllRows, NEW a,
         NEW g \in GroupsOf(t, f), NEW o \in OptionsOf(t, g.id), g.id = a[1], o.id = a[2]
  PROVE  SoundPick(Pick(c, f, a), AllRows, ids)
  <1>1. /\ g \in AllRows /\ o \in AllRows /\ g.kind = "group" /\ g.feature = f
        /\ o.kind = "option" /\ o.group = g.id
    BY DEF GroupsOf, OptionsOf
  <1>2. g.id \in 1..ids /\ o.id \in 1..ids
    BY <1>1, OldIds
  <1>3. \A x \in AllRows : Alike(g, x) /\ Alike(o, x)
    BY <1>1 DEF TreeInv, RowsSound
  <1>4. \A x \in AllRows : x.kind # "effect" =>
            /\ x.id = a[1] => x.kind = "group" /\ x.feature = f
            /\ x.id = a[2] => x.kind = "option" /\ x.group = a[1]
    BY <1>1, <1>3 DEF Alike
  <1>5. Pick(c, f, a) \in [char : Characters, feature : Features, group : 1..ids, option : 1..ids]
    BY <1>2, PickedFields
  <1> QED
    BY <1>4, <1>5, PickedFields DEF SoundPick

LEMMA AnswersSound ==
  ASSUME TreeInv, NEW c \in Characters, NEW f \in Features, NEW t \in SUBSET AllRows,
         NEW answers \in Answers(t, f), NEW a \in answers
  PROVE  SoundPick(Pick(c, f, a), AllRows, ids)
  <1>1. \E g \in GroupsOf(t, f) : \E o \in OptionsOf(t, g.id) : g.id = a[1] /\ o.id = a[2]
    BY DEF Answers, ValidAnswers
  <1> QED
    BY <1>1, PickIsSound

LEMMA AsiSound ==
  ASSUME TreeInv, NEW c \in Characters, NEW f \in Features, NEW a \in AsiOptions(tree, f)
  PROVE  SoundPick(Pick(c, f, a), AllRows, ids)
  <1>1. PICK g \in GroupsOf(tree, f) : \E o \in OptionsOf(tree, g.id) : a = <<g.id, o.id>>
    BY DEF AsiOptions
  <1>2. PICK o \in OptionsOf(tree, g.id) : a = <<g.id, o.id>>
    BY <1>1
  <1>3. g.id = a[1] /\ o.id = a[2]
    BY <1>2
  <1>4. tree \in SUBSET AllRows
    BY DEF AllRows
  <1> HIDE <1>2
  <1> QED
    BY <1>3, <1>4, PickIsSound

\* What a write revokes it does with its character locked.
LEMMA RevokersAre ==
  ASSUME GrantInv, NEW q \in Requests, req[q].revoke # {}
  PROVE  req[q].op \in GrantOps /\ req[q].op \in CharacterOps /\ req[q].step = "store"
  BY NoWorkFields DEF GrantInv, SoundRecord, GrantOps, PickOps, CharacterOps

LEMMA AnswerKeepsGrants ==
  ASSUME TreeInv, TreeInv', GrantInv, ReqType, NEW r \in Requests, Answer(r)
  PROVE  GrantInv'
  <1>1. PICK c \in Characters : \E f \in Granted(grants, c) : \E answers \in Answers(tree, f) :
            /\ GrantLocked(r, c, f)
            /\ Turns(r, PickRecord("answer", c, f, Replaced(c, f, answers), {Pick(c, f, a) : a \in answers}))
    BY AnswerTurns
  <1>2. PICK f \in Granted(grants, c) : \E answers \in Answers(tree, f) :
            /\ GrantLocked(r, c, f)
            /\ Turns(r, PickRecord("answer", c, f, Replaced(c, f, answers), {Pick(c, f, a) : a \in answers}))
    BY <1>1
  <1>3. PICK answers \in Answers(tree, f) :
            /\ GrantLocked(r, c, f)
            /\ Turns(r, PickRecord("answer", c, f, Replaced(c, f, answers), {Pick(c, f, a) : a \in answers}))
    BY <1>2
  <1>4. PICK new : new = {Pick(c, f, a) : a \in answers}
    OBVIOUS
  <1>5. PICK w : w = PickRecord("answer", c, f, Replaced(c, f, answers), new)
    OBVIOUS
  <1>6. /\ DOMAIN w = DOMAIN NoWork
        /\ w.op = "answer" /\ w.step = "insert" /\ w.char = c /\ w.feature = f /\ w.pick = new
        /\ w.put = {} /\ w.cut = {} /\ w.seen = {} /\ w.grant = <<>> /\ w.revoke = {}
    BY <1>5, PickFields
  <1>7. Turns(r, w)
    BY <1>3, <1>4, <1>5
  <1>8. f \in Features /\ grants[c][f] # ""
    BY DEF Granted
  <1>9. \A p \in new : SoundPick(p, AllRows, ids) /\ p.char = c /\ p.feature = f
    <2>1. tree \in SUBSET AllRows
      BY DEF AllRows
    <2>2. \A a \in answers : SoundPick(Pick(c, f, a), AllRows, ids)
      BY <1>8, <2>1, AnswersSound
    <2>3. \A a \in answers : Pick(c, f, a).char = c /\ Pick(c, f, a).feature = f
      BY PickedFields
    <2> QED
      BY <1>4, <2>2, <2>3
  <1>10. SoundRecord(w, grants)
    BY <1>6, <1>8, <1>9 DEF SoundRecord, PickOps, GrantOps
  <1>11. ASSUME NEW q \in Requests, q # r
         PROVE  /\ ~(req[q].op = "answer" /\ req[q].char = c /\ req[q].feature = f)
                /\ ~(req[q].char = c /\ f \in req[q].revoke)
                /\ req[q].step = "store" => PicksOf(req[q].pick, c, f) = {}
    BY <1>3, <1>11 DEF GrantLocked, GrantShared, OtherThan, Writing
  <1>12. \A q \in Requests : q # r => Apart(w, req[q]) /\ Apart(req[q], w)
    BY <1>6, <1>11, NoGrant DEF Apart, CharacterOps
  <1>13. Spares(r, w)
    BY <1>6 DEF Spares, Drops, DropsOf, Revokes
  <1>14. Lands(r, w)
    BY <1>6, <1>9, <1>11 DEF Lands, Revokes
  <1>15. SoundFlags(tree, w)
    BY <1>6 DEF SoundFlags
  <1>16. w.put \subseteq AllRows /\ w.seen \subseteq AllRows
    BY <1>6
  <1> HIDE <1>3, <1>4, <1>5
  <1> QED
    BY <1>6, <1>7, <1>10, <1>12, <1>13, <1>14, <1>15, <1>16, QuietKeepsGrants

LEMMA UpdateFeatKeepsGrants ==
  ASSUME TreeInv, TreeInv', GrantInv, ReqType, NEW r \in Requests, UpdateFeat(r)
  PROVE  GrantInv'
  <1>1. PICK c \in Characters : \E f \in Feats \cap Granted(grants, c) : \E asi \in OneOrNone(AsiOptions(tree, f)) :
            /\ CharacterLocked(r, c)
            /\ Turns(r, PickRecord("asi", c, f, Replaced(c, f, asi), {Pick(c, f, a) : a \in asi}))
    BY UpdateFeatTurns
  <1>2. PICK f \in Feats \cap Granted(grants, c) : \E asi \in OneOrNone(AsiOptions(tree, f)) :
            /\ CharacterLocked(r, c)
            /\ Turns(r, PickRecord("asi", c, f, Replaced(c, f, asi), {Pick(c, f, a) : a \in asi}))
    BY <1>1
  <1>3. PICK asi \in OneOrNone(AsiOptions(tree, f)) :
            /\ CharacterLocked(r, c)
            /\ Turns(r, PickRecord("asi", c, f, Replaced(c, f, asi), {Pick(c, f, a) : a \in asi}))
    BY <1>2
  <1>4. PICK new : new = {Pick(c, f, a) : a \in asi}
    OBVIOUS
  <1>5. PICK w : w = PickRecord("asi", c, f, Replaced(c, f, asi), new)
    OBVIOUS
  <1>6. /\ DOMAIN w = DOMAIN NoWork
        /\ w.op = "asi" /\ w.step = "insert" /\ w.char = c /\ w.feature = f /\ w.pick = new
        /\ w.put = {} /\ w.cut = {} /\ w.seen = {} /\ w.grant = <<>> /\ w.revoke = {}
    BY <1>5, PickFields
  <1>7. Turns(r, w)
    BY <1>3, <1>4, <1>5
  <1>8. f \in Features /\ grants[c][f] # ""
    BY DEF Granted
  <1>9. \A p \in new : SoundPick(p, AllRows, ids) /\ p.char = c /\ p.feature = f
    <2>1. asi \subseteq AsiOptions(tree, f)
      BY DEF OneOrNone
    <2>2. \A a \in asi : SoundPick(Pick(c, f, a), AllRows, ids)
      BY <1>8, <2>1, AsiSound
    <2>3. \A a \in asi : Pick(c, f, a).char = c /\ Pick(c, f, a).feature = f
      BY PickedFields
    <2> QED
      BY <1>4, <2>2, <2>3
  <1>10. SoundRecord(w, grants)
    BY <1>6, <1>8, <1>9 DEF SoundRecord, PickOps, GrantOps
  <1>11. ASSUME NEW q \in Requests, q # r
         PROVE  ~(req[q].op \in CharacterOps /\ req[q].step # "loaded" /\ req[q].char = c)
    BY <1>3, <1>11 DEF CharacterLocked, OtherThan
  <1>12. \A q \in Requests : q # r => Apart(w, req[q]) /\ Apart(req[q], w)
    BY <1>6, <1>11, NoGrant DEF Apart
  <1>13. Spares(r, w)
    BY <1>6 DEF Spares, Drops, DropsOf, Revokes
  <1>14. \A q \in Requests : q # r => ~(req[q].char = c /\ f \in req[q].revoke)
    BY <1>11, RevokersAre
  <1>15. Lands(r, w)
    BY <1>6, <1>9, <1>14 DEF Lands, Revokes
  <1>16. SoundFlags(tree, w)
    BY <1>6 DEF SoundFlags
  <1>17. w.put \subseteq AllRows /\ w.seen \subseteq AllRows
    BY <1>6
  <1> HIDE <1>3, <1>4, <1>5
  <1> QED
    BY <1>6, <1>7, <1>10, <1>12, <1>13, <1>15, <1>16, <1>17, QuietKeepsGrants

LEMMA InsertKeepsGrants ==
  ASSUME TreeInv, TreeInv', GrantInv, ReqType, NEW r \in Requests, InsertPicks(r)
  PROVE  GrantInv'
  <1>1. PICK me, tot : me = req[r] /\ Turns(r, InsertRecord(me, tot)) /\ me.step = "insert"
    BY InsertTurns
  <1>2. PICK w : w = InsertRecord(me, tot)
    OBVIOUS
  <1>3. /\ DOMAIN me = DOMAIN NoWork /\ me.op # "edit" /\ me.put = {} /\ me.cut = {} /\ me.seen \subseteq AllRows
        /\ SoundRecord(me, grants)
    BY <1>1, RowsOf DEF ReqType, TreeInv, SoundEdit, SoundWrite, GrantInv
  <1>4. me.op \in PickOps /\ me.char \in Characters /\ me.grant = <<>> /\ me.revoke = {}
    BY <1>1, <1>3, NoWorkFields DEF SoundRecord, GrantOps
  <1>5. /\ DOMAIN w = DOMAIN NoWork
        /\ w.op = me.op /\ w.step = "store" /\ w.char = me.char /\ w.feature = me.feature
        /\ w.grant = <<>> /\ w.revoke = {} /\ w.pick = me.pick /\ w.unpick = me.unpick
        /\ w.put = {} /\ w.cut = {} /\ w.seen = me.seen
    BY <1>2, <1>3, <1>4, InsertFields
  <1>6. SoundRecord(w, grants)
    BY <1>3, <1>4, <1>5 DEF SoundRecord, PickOps, GrantOps
  <1>7. \A p \in me.pick : NewPick(me, p) /\ p.char = me.char /\ p.feature = me.feature
    <2>1. \A p \in req[r].pick : NewPick(req[r], p)
      BY DEF GrantInv
    <2>2. \A p \in me.pick : p.char = me.char
      BY <1>1, <2>1 DEF NewPick
    <2>3. \A p \in me.pick : p.feature = me.feature
      BY <1>3, <1>4 DEF SoundRecord
    <2> QED
      BY <1>1, <2>1, <2>2, <2>3
  <1>8. ASSUME NEW q \in Requests, q # r
        PROVE  Apart(w, req[q]) /\ Apart(req[q], w)
    <2>1. Apart(me, req[q]) /\ Apart(req[q], me)
      BY <1>1, <1>8 DEF GrantInv
    <2>2. Apart(w, req[q])
      BY <2>1, <1>1, <1>3, <1>5 DEF Apart
    <2>3. ASSUME req[q].op = "answer"
          PROVE  PicksOf(me.pick, req[q].char, req[q].feature) = {}
      <3>1. me.pick # {} => ~(req[q].char = me.char /\ req[q].feature = me.feature)
        BY <1>1, <1>8, <2>3, InsertTurns DEF GrantShared, OtherThan
      <3> QED
        BY <1>7, <3>1 DEF PicksOf
    <2>4. Apart(req[q], w)
      BY <2>1, <2>3, <1>1, <1>3, <1>4, <1>5, NoGrant DEF Apart
    <2> QED
      BY <2>2, <2>4
  <1>9. DropsOf(w) = {}
    BY <1>5 DEF DropsOf, RowIds
  <1>10. Spares(r, w)
    BY <1>5, <1>9 DEF Spares, Drops, Revokes
  <1>11. ASSUME NEW p \in w.pick
         PROVE  /\ SoundPick(p, AllRows, ids) /\ p.char = w.char /\ ~Revokes(w, p)
                /\ Names(p) \subseteq RowIds(tree) /\ ~Drops(w, p)
                /\ \A q \in Requests : q # r => ~Drops(req[q], p) /\ ~Revokes(req[q], p)
    <2>1. NewPick(me, p) /\ p \in req[r].pick
      BY <1>1, <1>5, <1>7
    <2>2. PicksLand(r, req[r].pick)
      BY InsertTurns
    <2>3. /\ {p.group, p.option} \subseteq RowIds(tree)
          /\ \A q \in Requests : q # r => {p.group, p.option} \cap Dropped(q) = {}
      BY <2>1, <2>2 DEF PicksLand, OtherThan
    <2>4. \A q \in Requests : q # r => ~Drops(req[q], p)
      BY <2>3 DEF Drops, DropsOf, Names, Dropped, Writing
    <2> QED
      BY <1>5, <1>9, <2>1, <2>3, <2>4 DEF NewPick, Names, Drops, Revokes
  <1>12. Lands(r, w)
    BY <1>5, <1>11 DEF Lands
  <1>13. SoundFlags(tree, w)
    BY <1>3, <1>5 DEF SoundFlags
  <1>14. w.put \subseteq AllRows /\ w.seen \subseteq AllRows /\ Turns(r, w)
    BY <1>1, <1>2, <1>3, <1>5
  <1> HIDE <1>1, <1>2
  <1> QED
    BY <1>5, <1>6, <1>8, <1>10, <1>12, <1>13, <1>14, QuietKeepsGrants
-----------------------------------------------------------------------------
(* Grants and picks: grants given and revoked.                             *)

\* What is given to a character and what is taken from it.
Gives(c, given) ==
    /\ DOMAIN given \subseteq Features
    /\ \A f \in DOMAIN given : grants[c][f] = "" /\ given[f] \in {"AUTO", "GM", "ASI"}
Takes(c, gone) == gone \subseteq Features /\ \A f \in gone : grants[c][f] # ""

\* The picks that come with it.
Comes(c, given, new) ==
    \A p \in new : SoundPick(p, AllRows, ids) /\ p.char = c /\ p.feature \in DOMAIN given

LEMMA WriteKeepsGrants ==
  ASSUME TreeInv, TreeInv', GrantInv, ReqType, NEW r \in Requests, NEW op \in GrantOps, NEW c \in Characters,
         NEW f, NEW given, NEW gone, NEW new, NEW lvl \in Nat, WriteGrants(r, op, c, f, given, gone, new, lvl),
         Gives(c, given), Takes(c, gone), Comes(c, given, new)
  PROVE  GrantInv'
  <1>1. /\ CharacterLocked(r, c) /\ \A x \in DOMAIN given : FeatureShared(r, x)
        /\ \A x \in gone : GrantLocked(r, c, x)
        /\ PicksLand(r, new)
        /\ Turns(r, GrantRecord(op, c, f, given, gone, new, Lost(c, gone), lvl, GrantTotals(c, given, gone, new)))
    BY WriteTurns
  <1>2. PICK w : w = GrantRecord(op, c, f, given, gone, new, Lost(c, gone), lvl, GrantTotals(c, given, gone, new))
    OBVIOUS
  <1>3. /\ DOMAIN w = DOMAIN NoWork /\ w.op = op /\ w.step = "store" /\ w.char = c
        /\ w.grant = given /\ w.revoke = gone /\ w.pick = new /\ w.unpick = Lost(c, gone)
        /\ w.level = lvl /\ w.put = {} /\ w.cut = {} /\ w.seen = {}
    BY <1>2, GrantFields
  <1>4. Turns(r, w)
    BY <1>1, <1>2
  <1> HIDE <1>2
  <1>5. \A x \in DOMAIN given : x \notin gone
    BY DEF Gives, Takes
  <1>6. op \notin {"", "edit"} \cup PickOps /\ op \in CharacterOps
    BY DEF GrantOps, PickOps, CharacterOps
  <1>7. SoundRecord(w, grants)
    BY <1>3, <1>5, <1>6 DEF SoundRecord, Gives, Takes, Comes
  <1>8. ASSUME NEW q \in Requests, q # r
        PROVE  /\ ~(req[q].op \in CharacterOps /\ req[q].step # "loaded" /\ req[q].char = c)
               /\ req[q].op = "edit" => req[q].feature \notin DOMAIN given
               /\ \A x \in gone : /\ ~(req[q].op = "answer" /\ req[q].char = c /\ req[q].feature = x)
                                  /\ req[q].step = "store" => PicksOf(req[q].pick, c, x) = {}
    BY <1>1, <1>8 DEF CharacterLocked, FeatureShared, GrantLocked, GrantShared, OtherThan, Writing
  <1>9. ASSUME NEW q \in Requests, q # r
        PROVE  Apart(w, req[q]) /\ Apart(req[q], w)
    <2>1. Apart(w, req[q])
      BY <1>3, <1>6, <1>8, <1>9 DEF Apart, PickOps
    <2>2. ASSUME req[q].op = "answer"
          PROVE  /\ ~(c = req[q].char /\ req[q].feature \in gone)
                 /\ PicksOf(new, req[q].char, req[q].feature) = {}
      <3>1. SoundRecord(req[q], grants)
        BY DEF GrantInv
      <3>2. grants[req[q].char][req[q].feature] # ""
        BY <2>2, <3>1 DEF SoundRecord, PickOps
      <3>3. \A p \in new : p.char = c /\ grants[c][p.feature] = ""
        BY DEF Comes, Gives
      <3>4. PicksOf(new, req[q].char, req[q].feature) = {}
        BY <3>2, <3>3 DEF PicksOf
      <3>5. \A x \in gone : ~(req[q].char = c /\ req[q].feature = x)
        BY <1>8, <1>9, <2>2
      <3> QED
        BY <3>4, <3>5
    <2>3. Apart(req[q], w)
      BY <1>3, <1>6, <1>8, <1>9, <2>2 DEF Apart, PickOps
    <2> QED
      BY <2>1, <2>3
  <1>10. DropsOf(w) = {}
    BY <1>3 DEF DropsOf, RowIds
  <1>11. Spares(r, w)
    <2>1. \A p \in picks : Revokes(w, p) => p \in Lost(c, gone)
      BY <1>3 DEF Revokes, Lost, PicksOf
    <2>2. ASSUME NEW q \in Requests, q # r, NEW p \in req[q].pick
          PROVE  ~Revokes(w, p)
      <3>1. SUFFICES ASSUME p.char = c, p.feature \in gone
                     PROVE  FALSE
        BY <1>3 DEF Revokes
      <3>2. NewPick(req[q], p) /\ SoundRecord(req[q], grants)
        BY DEF GrantInv
      <3>3. req[q].char = c
        BY <3>1, <3>2 DEF NewPick
      <3>4. CASE req[q].step = "store"
        BY <1>8, <2>2, <3>1, <3>4 DEF PicksOf
      <3>5. CASE req[q].step # "store"
        <4>1. req[q].op \in PickOps
          BY <2>2, <3>2, <3>5, NoWorkFields DEF SoundRecord, PickOps, GrantOps
        <4>2. p.feature = req[q].feature
          BY <2>2, <3>2, <4>1 DEF SoundRecord
        <4>3. req[q].op # "asi"
          BY <1>8, <2>2, <3>2, <3>3, <4>1 DEF SoundRecord, CharacterOps
        <4> QED
          BY <1>8, <2>2, <3>1, <3>3, <4>1, <4>2, <4>3 DEF PickOps
      <3> QED
        BY <3>4, <3>5
    <2> QED
      BY <1>3, <1>10, <2>1, <2>2 DEF Spares, Drops
  <1>12. ASSUME NEW p \in new
         PROVE  /\ SoundPick(p, AllRows, ids) /\ p.char = c /\ ~Revokes(w, p)
                /\ Names(p) \subseteq RowIds(tree) /\ ~Drops(w, p)
                /\ \A q \in Requests : q # r => ~Drops(req[q], p) /\ ~Revokes(req[q], p)
    <2>1. SoundPick(p, AllRows, ids) /\ p.char = c /\ p.feature \in DOMAIN given
      BY DEF Comes
    <2>2. ~Revokes(w, p)
      BY <1>3, <1>5, <2>1 DEF Revokes
    <2>3. /\ {p.group, p.option} \subseteq RowIds(tree)
          /\ \A q \in Requests : q # r => {p.group, p.option} \cap Dropped(q) = {}
      BY <1>1 DEF PicksLand, OtherThan
    <2>4. \A q \in Requests : q # r => ~Drops(req[q], p)
      BY <2>3 DEF Drops, DropsOf, Names, Dropped, Writing
    <2>5. \A q \in Requests : q # r => ~Revokes(req[q], p)
      BY <1>8, <2>1, RevokersAre DEF Revokes
    <2> QED
      BY <1>10, <2>1, <2>2, <2>3, <2>4, <2>5 DEF Names, Drops
  <1>13. Lands(r, w)
    BY <1>3, <1>12 DEF Lands
  <1>14. SoundFlags(tree, w)
    BY <1>3, <1>6 DEF SoundFlags
  <1>15. w.put \subseteq AllRows /\ w.seen \subseteq AllRows
    BY <1>3
  <1> QED
    BY <1>3, <1>4, <1>7, <1>9, <1>11, <1>13, <1>14, <1>15, QuietKeepsGrants

LEMMA SyncedIs ==
  ASSUME GrantInv, NEW c \in Characters, NEW lvl, NEW given, Gives(c, given)
  PROVE  /\ Gives(c, Synced(c, lvl, given).given) /\ Takes(c, Synced(c, lvl, given).gone)
         /\ DOMAIN given \subseteq DOMAIN Synced(c, lvl, given).given
  <1>1. /\ DOMAIN Synced(c, lvl, given).given = DOMAIN given \cup (Desired(lvl) \ Granted(grants, c))
        /\ \A f \in DOMAIN Synced(c, lvl, given).given :
               Synced(c, lvl, given).given[f] = IF f \in DOMAIN given THEN given[f] ELSE "AUTO"
        /\ Synced(c, lvl, given).gone = {f \in Granted(grants, c) : grants[c][f] = "AUTO" /\ f \notin Desired(lvl)}
    BY DEF Synced
  <1>2. Desired(lvl) \subseteq Features
    BY DEF Desired
  <1>3. \A f \in Desired(lvl) \ Granted(grants, c) : grants[c][f] = ""
    BY <1>2 DEF Granted
  <1>4. Gives(c, Synced(c, lvl, given).given)
    BY <1>1, <1>2, <1>3 DEF Gives
  <1>5. Takes(c, Synced(c, lvl, given).gone)
    BY <1>1 DEF Takes, Granted
  <1> QED
    BY <1>1, <1>4, <1>5

LEMMA GivesOne ==
  ASSUME GrantInv, NEW c \in Characters, NEW f \in Features, grants[c][f] = "", NEW how \in {"GM", "ASI"}
  PROVE  Gives(c, [x \in {f} |-> how])
  BY DEF Gives

LEMMA GivesNone ==
  ASSUME NEW c
  PROVE  Gives(c, <<>>)
  BY NoGrant DEF Gives

LEMMA AnswersCome ==
  ASSUME TreeInv, NEW c \in Characters, NEW f \in Features, NEW t \in SUBSET AllRows,
         NEW answers \in {{}} \cup Answers(t, f), NEW given, f \in DOMAIN given
  PROVE  Comes(c, given, {Pick(c, f, a) : a \in answers})
  <1>1. \A a \in answers : SoundPick(Pick(c, f, a), AllRows, ids)
    BY AnswersSound
  <1>2. \A a \in answers : Pick(c, f, a).char = c /\ Pick(c, f, a).feature = f
    BY PickedFields
  <1>3. PICK new : new = {Pick(c, f, a) : a \in answers}
    OBVIOUS
  <1>4. \A p \in new : SoundPick(p, AllRows, ids) /\ p.char = c /\ p.feature \in DOMAIN given
    BY <1>1, <1>2, <1>3
  <1> QED
    BY <1>3, <1>4 DEF Comes

LEMMA FeatPicksCome ==
  ASSUME TreeInv, NEW c \in Characters, NEW f \in Features, NEW asi \in SUBSET AsiOptions(tree, f),
         NEW answers \in {{}} \cup Answers(tree, f), NEW given, f \in DOMAIN given
  PROVE  Comes(c, given, FeatPicks(c, f, asi, answers))
  <1>1. tree \in SUBSET AllRows
    BY DEF AllRows
  <1>2. \A a \in answers \cup asi : SoundPick(Pick(c, f, a), AllRows, ids)
    BY <1>1, AnswersSound, AsiSound
  <1>3. \A a \in answers \cup asi : Pick(c, f, a).char = c /\ Pick(c, f, a).feature = f
    BY PickedFields
  <1>4. PICK new : new = FeatPicks(c, f, asi, answers)
    OBVIOUS
  <1>5. \A p \in new : \E a \in answers \cup asi : p = Pick(c, f, a)
    BY <1>4 DEF FeatPicks
  <1>6. \A p \in new : SoundPick(p, AllRows, ids) /\ p.char = c /\ p.feature \in DOMAIN given
    BY <1>2, <1>3, <1>5
  <1> QED
    BY <1>4, <1>6 DEF Comes

LEMMA AddFeatureKeepsGrants ==
  ASSUME TreeInv, TreeInv', GrantInv, ReqType, NEW r \in Requests, AddFeature(r)
  PROVE  GrantInv'
  <1>1. PICK c, f : c = req[r].char /\ f = req[r].feature
    OBVIOUS
  <1>2. /\ req[r].step = "loaded" /\ f \notin Granted(grants, c)
        /\ \E answers \in IF flags[f].choices THEN Answers(req[r].seen, f) ELSE {{}} :
               WriteGrants(r, "grant", c, f, [x \in {f} |-> "GM"], {}, {Pick(c, f, a) : a \in answers}, 0)
    BY <1>1, AddFeatureWrites
  <1>3. PICK answers \in {{}} \cup Answers(req[r].seen, f) :
            WriteGrants(r, "grant", c, f, [x \in {f} |-> "GM"], {}, {Pick(c, f, a) : a \in answers}, 0)
    BY <1>2
  <1>4. c \in Characters /\ f \in Features
    <2>1. SoundRecord(req[r], grants)
      BY DEF GrantInv
    <2>2. req[r].op \in GrantOps
      BY <1>2, <2>1, NoWorkFields DEF SoundRecord, PickOps, GrantOps, TreeInv, SoundEdit, SoundWrite
    <2> QED
      BY <1>1, <1>2, <2>1, <2>2 DEF SoundRecord
  <1>5. req[r].seen \in SUBSET AllRows
    BY DEF AllRows
  <1>6. PICK given, new : given = [x \in {f} |-> "GM"] /\ new = {Pick(c, f, a) : a \in answers}
    OBVIOUS
  <1>7. Gives(c, given) /\ f \in DOMAIN given
    BY <1>2, <1>4, <1>6, GivesOne DEF Granted
  <1>8. Comes(c, given, new)
    BY <1>4, <1>5, <1>6, <1>7, AnswersCome
  <1>9. Takes(c, {})
    BY DEF Takes
  <1>10. WriteGrants(r, "grant", c, f, given, {}, new, 0)
    BY <1>3, <1>6
  <1> HIDE <1>1, <1>2, <1>3, <1>6
  <1> QED
    BY <1>4, <1>7, <1>8, <1>9, <1>10, WriteKeepsGrants DEF GrantOps

LEMMA AddFeatKeepsGrants ==
  ASSUME TreeInv, TreeInv', GrantInv, ReqType, NEW r \in Requests, AddFeat(r)
  PROVE  GrantInv'
  <1>1. PICK c \in Characters : \E f \in Feats \ Granted(grants, c) :
         \E asi \in OneOrNone(AsiOptions(tree, f)) :
         \E answers \in IF flags[f].choices THEN Answers(tree, f) ELSE {{}} :
            WriteGrants(r, "grant", c, f, Synced(c, level[c], [x \in {f} |-> "GM"]).given,
                            Synced(c, level[c], [x \in {f} |-> "GM"]).gone, FeatPicks(c, f, asi, answers), 0)
    BY AddFeatWrites
  <1>2. PICK f \in Feats \ Granted(grants, c) :
         \E asi \in OneOrNone(AsiOptions(tree, f)) :
         \E answers \in IF flags[f].choices THEN Answers(tree, f) ELSE {{}} :
            WriteGrants(r, "grant", c, f, Synced(c, level[c], [x \in {f} |-> "GM"]).given,
                            Synced(c, level[c], [x \in {f} |-> "GM"]).gone, FeatPicks(c, f, asi, answers), 0)
    BY <1>1
  <1>3. PICK asi \in OneOrNone(AsiOptions(tree, f)), answers \in IF flags[f].choices THEN Answers(tree, f) ELSE {{}} :
            WriteGrants(r, "grant", c, f, Synced(c, level[c], [x \in {f} |-> "GM"]).given,
                            Synced(c, level[c], [x \in {f} |-> "GM"]).gone, FeatPicks(c, f, asi, answers), 0)
    BY <1>2
  <1>4. PICK one, synced, new : /\ one = [x \in {f} |-> "GM"] /\ synced = Synced(c, level[c], one)
                                /\ new = FeatPicks(c, f, asi, answers)
    OBVIOUS
  <1>5. f \in Features /\ grants[c][f] = ""
    BY EngineAssumption DEF Granted
  <1>6. Gives(c, one) /\ f \in DOMAIN one
    BY <1>4, <1>5, GivesOne
  <1>7. Gives(c, synced.given) /\ Takes(c, synced.gone) /\ f \in DOMAIN synced.given
    BY <1>4, <1>6, SyncedIs
  <1>8. asi \in SUBSET AsiOptions(tree, f) /\ answers \in {{}} \cup Answers(tree, f)
    BY DEF OneOrNone
  <1>9. Comes(c, synced.given, new)
    BY <1>4, <1>5, <1>7, <1>8, FeatPicksCome
  <1>10. WriteGrants(r, "grant", c, f, synced.given, synced.gone, new, 0)
    BY <1>3, <1>4
  <1> HIDE <1>3, <1>4
  <1> QED
    BY <1>7, <1>9, <1>10, WriteKeepsGrants DEF GrantOps

LEMMA RemoveFeatureKeepsGrants ==
  ASSUME TreeInv, TreeInv', GrantInv, ReqType, NEW r \in Requests, RemoveFeature(r)
  PROVE  GrantInv'
  <1>1. PICK c \in Characters : \E f \in Granted(grants, c) : WriteGrants(r, "revoke", c, f, <<>>, {f}, {}, 0)
    BY RemoveFeatureWrites
  <1>2. PICK f \in Granted(grants, c) : WriteGrants(r, "revoke", c, f, <<>>, {f}, {}, 0)
    BY <1>1
  <1>3. Gives(c, <<>>) /\ Takes(c, {f}) /\ Comes(c, <<>>, {})
    BY GivesNone DEF Takes, Granted, Comes
  <1> QED
    BY <1>2, <1>3, WriteKeepsGrants DEF GrantOps

LEMMA RemoveFeatKeepsGrants ==
  ASSUME TreeInv, TreeInv', GrantInv, ReqType, NEW r \in Requests, RemoveFeat(r)
  PROVE  GrantInv'
  <1>1. PICK c \in Characters : \E f \in Feats \cap Granted(grants, c) :
            WriteGrants(r, "revoke", c, f, Synced(c, level[c], <<>>).given,
                            {f} \cup Synced(c, level[c], <<>>).gone, {}, 0)
    BY RemoveFeatWrites
  <1>2. PICK f \in Granted(grants, c) :
            WriteGrants(r, "revoke", c, f, Synced(c, level[c], <<>>).given,
                            {f} \cup Synced(c, level[c], <<>>).gone, {}, 0)
    BY <1>1
  <1>3. PICK synced, gone : synced = Synced(c, level[c], <<>>) /\ gone = {f} \cup synced.gone
    OBVIOUS
  <1>4. Gives(c, synced.given) /\ Takes(c, synced.gone)
    BY <1>3, GivesNone, SyncedIs
  <1>5. Takes(c, gone) /\ Comes(c, synced.given, {})
    BY <1>3, <1>4 DEF Takes, Granted, Comes
  <1>6. WriteGrants(r, "revoke", c, f, synced.given, gone, {}, 0)
    BY <1>2, <1>3
  <1> HIDE <1>2, <1>3
  <1> QED
    BY <1>4, <1>5, <1>6, WriteKeepsGrants DEF GrantOps

LEMMA LevelUpKeepsGrants ==
  ASSUME TreeInv, TreeInv', GrantInv, ReqType, NEW r \in Requests, LevelUp(r)
  PROVE  GrantInv'
  <1>1. PICK c \in Characters : \E feat, asi, answers, new : Leveled(r, c, feat, asi, answers, new)
    BY LevelUpWrites
  <1>2. PICK feat, asi, answers, new : Leveled(r, c, feat, asi, answers, new)
    BY <1>1
  <1>3. PICK one, synced : one = [f \in feat |-> "ASI"] /\ synced = Synced(c, level[c] + 1, one)
    OBVIOUS
  <1>4. /\ feat \in OneOrNone(Feats \ Granted(grants, c))
        /\ asi \in OneOrNone(UNION {AsiOptions(tree, f) : f \in feat})
        /\ \A f \in DOMAIN synced.given : answers[f] \in Answers(tree, f)
        /\ new = UNION ({FeatPicks(c, f, asi, answers[f]) : f \in feat}
                        \cup {{Pick(c, f, a) : a \in answers[f]} : f \in DOMAIN synced.given \ feat})
        /\ WriteGrants(r, "level", c, "", synced.given, synced.gone, new, level[c] + 1)
    BY <1>2, <1>3 DEF Leveled
  <1>5. Gives(c, one) /\ DOMAIN one = feat
    BY <1>3, <1>4, EngineAssumption DEF Gives, OneOrNone, Granted
  <1>6. Gives(c, synced.given) /\ Takes(c, synced.gone) /\ feat \subseteq DOMAIN synced.given
    BY <1>3, <1>5, SyncedIs
  <1>7. DOMAIN synced.given \subseteq Features
    BY <1>6 DEF Gives
  <1>8. ASSUME NEW f \in feat
        PROVE  asi \in SUBSET AsiOptions(tree, f)
    <2>1. feat = {f}
      BY <1>4 DEF OneOrNone
    <2>2. UNION {AsiOptions(tree, x) : x \in feat} = AsiOptions(tree, f)
      BY <2>1
    <2>3. asi \in OneOrNone(AsiOptions(tree, f))
      BY <1>4, <2>2
    <2> QED
      BY <2>3 DEF OneOrNone
  <1>9. ASSUME NEW f \in feat
        PROVE  Comes(c, synced.given, FeatPicks(c, f, asi, answers[f]))
    BY <1>4, <1>6, <1>7, <1>8, FeatPicksCome
  <1>10. tree \in SUBSET AllRows
    BY DEF AllRows
  <1>11. ASSUME NEW f \in DOMAIN synced.given
        PROVE  Comes(c, synced.given, {Pick(c, f, a) : a \in answers[f]})
    BY <1>4, <1>7, <1>10, AnswersCome
  <1>12. Comes(c, synced.given, new)
    BY <1>4, <1>9, <1>11 DEF Comes
  <1>13. level[c] + 1 \in Nat
    <2>1. level \in [Characters -> Nat]
      BY DEF GrantInv, Tables
    <2> QED
      BY <2>1
  <1> HIDE <1>2, <1>3
  <1> QED
    BY <1>4, <1>6, <1>12, <1>13, WriteKeepsGrants DEF GrantOps
-----------------------------------------------------------------------------
(* Grants and picks: the commit.                                           *)

\* The rows a feature's flags are about.
Flagged(x, f) ==
    \/ x.kind = "group" /\ x.feature = f
    \/ x.kind = "effect" /\ x.owner = f

LEMMA SameFlags ==
  ASSUME NEW s, NEW t, NEW f, \A x : Flagged(x, f) => (x \in s <=> x \in t)
  PROVE  Flags(s, f) = Flags(t, f)
  <1>1. \A x : x \in GroupsOf(s, f) <=> x \in GroupsOf(t, f)
    BY DEF Flagged, GroupsOf
  <1>2. \A x : x \in EffectsOn(s, f) <=> x \in EffectsOn(t, f)
    BY DEF Flagged, EffectsOn
  <1>3. GroupsOf(s, f) = GroupsOf(t, f) /\ EffectsOn(s, f) = EffectsOn(t, f)
    BY <1>1, <1>2
  <1> QED
    BY <1>3 DEF Flags

LEMMA FlagsElsewhere ==
  ASSUME TreeInv, NEW r \in Requests, NEW g \in Features, req[r].op = "edit" => req[r].feature # g, NEW w
  PROVE  Flags(After(r), g) = Flags(tree, g) /\ Flags(Result(After(r), w), g) = Flags(Result(tree, w), g)
  <1>1. ASSUME NEW x, Flagged(x, g)
        PROVE  x \in tree <=> x \in After(r)
    <2>1. BelongsTo(AllRows, x, g)
      BY <1>1 DEF Flagged, BelongsTo, OwnerIn
    <2>2. AllRows \in SUBSET AllRows
      OBVIOUS
    <2> QED
      BY <2>1, <2>2, Elsewhere
  <1>2. \A x : Flagged(x, g) => (x \in Result(After(r), w) <=> x \in Result(tree, w))
    BY <1>1 DEF Result
  <1> QED
    BY <1>1, <1>2, SameFlags

\* How a grant is, once w has committed.
Became(w, c, f) ==
    IF w.op # "edit" /\ c = w.char
    THEN IF f \in DOMAIN w.grant THEN w.grant[f] ELSE IF f \in w.revoke THEN "" ELSE grants[c][f]
    ELSE grants[c][f]

LEMMA GrantsBecome ==
  ASSUME GrantInv, NEW r \in Requests, StoreTotals(r), NEW me, me = req[r]
  PROVE  /\ grants' \in [Characters -> [Features -> {"", "AUTO", "GM", "ASI"}]]
         /\ \A c \in Characters, f \in Features : grants'[c][f] = Became(me, c, f)
  <1>1. grants \in [Characters -> [Features -> {"", "AUTO", "GM", "ASI"}]]
    BY DEF GrantInv, Tables
  <1>2. SoundRecord(me, grants) /\ me.step = "store"
    BY DEF GrantInv, StoreTotals
  <1>3. CASE me.op = "edit"
    <2>1. grants' = grants
      BY <1>3 DEF StoreTotals
    <2> QED
      BY <1>1, <1>3, <2>1 DEF Became
  <1>4. CASE me.op # "edit"
    <2>1. me.op \in PickOps \cup GrantOps
      BY <1>2, <1>4, NoWorkFields DEF SoundRecord
    <2>2. me.char \in Characters
      BY <1>2, <2>1 DEF SoundRecord
    <2>3. grants' = GrantsWith(me.char, me.grant, me.revoke)
      BY <1>4 DEF StoreTotals
    <2>4. PICK c, given, gone : c = me.char /\ given = me.grant /\ gone = me.revoke
      OBVIOUS
    <2>5. PICK made : made = [f \in Features |-> IF f \in DOMAIN given THEN given[f]
                                               ELSE IF f \in gone THEN "" ELSE grants[c][f]]
      OBVIOUS
    <2>6. grants' = [grants EXCEPT ![c] = made]
      BY <2>3, <2>4, <2>5 DEF GrantsWith
    <2>7. \A f \in DOMAIN given : given[f] \in {"", "AUTO", "GM", "ASI"}
      <3>1. CASE me.op \in PickOps
        BY <1>2, <2>4, <3>1, NoGrant DEF SoundRecord
      <3>2. CASE me.op \in GrantOps
        BY <1>2, <2>4, <3>2 DEF SoundRecord
      <3> QED
        BY <2>1, <3>1, <3>2
    <2>8. made \in [Features -> {"", "AUTO", "GM", "ASI"}]
      BY <1>1, <2>2, <2>4, <2>5, <2>7
    <2>9. \A f \in Features : made[f] = Became(me, c, f)
      BY <1>4, <2>4, <2>5 DEF Became
    <2>10. \A x \in Characters, f \in Features : x # c => Became(me, x, f) = grants[x][f]
      BY <2>4 DEF Became
    <2>11. c \in Characters
      BY <2>2, <2>4
    <2> HIDE <2>4, <2>5
    <2>12. \A x \in Characters : grants'[x] = IF x = c THEN made ELSE grants[x]
      BY <1>1, <2>6, <2>11
    <2>13. grants' \in [Characters -> [Features -> {"", "AUTO", "GM", "ASI"}]]
      BY <1>1, <2>6, <2>8
    <2> QED
      BY <2>9, <2>10, <2>12, <2>13
  <1> QED
    BY <1>3, <1>4

\* A commit that changes a grant another request relies on is locked out.
LEMMA GrantsHold ==
  ASSUME GrantInv, NEW r \in Requests, StoreTotals(r), NEW q \in Requests, q # r
  PROVE  SoundRecord(req[q], grants')
  <1>1. PICK me, you : me = req[r] /\ you = req[q]
    OBVIOUS
  <1>2. /\ SoundRecord(me, grants) /\ me.step = "store" /\ SoundRecord(you, grants)
        /\ Apart(me, you) /\ Apart(you, me)
    BY <1>1 DEF GrantInv, StoreTotals
  <1>3. \A c \in Characters, f \in Features : grants'[c][f] = Became(me, c, f)
    BY <1>1, GrantsBecome
  <1>4. me.op \notin GrantOps => me.revoke = {} /\ DOMAIN me.grant = {}
    BY <1>2, NoGrant, NoWorkFields DEF SoundRecord
  <1>5. ASSUME you.op \in PickOps
        PROVE  grants'[you.char][you.feature] # ""
    <2>1. you.char \in Characters /\ you.feature \in Features /\ grants[you.char][you.feature] # "" /\ you.step # "loaded"
      BY <1>2, <1>5 DEF SoundRecord
    <2>2. SUFFICES Became(me, you.char, you.feature) # ""
      BY <1>3, <2>1
    <2>3. CASE me.op \in GrantOps /\ you.char = me.char
      <3>1. you.op = "answer"
        BY <1>2, <1>5, <2>1, <2>3 DEF Apart, PickOps, GrantOps, CharacterOps
      <3>2. you.feature \notin me.revoke
        BY <1>2, <2>3, <3>1 DEF Apart
      <3>3. \A f \in DOMAIN me.grant : me.grant[f] # ""
        BY <1>2, <2>3 DEF SoundRecord
      <3> QED
        BY <2>1, <3>2, <3>3 DEF Became
    <2>4. CASE ~(me.op \in GrantOps /\ you.char = me.char)
      BY <1>4, <2>1, <2>4 DEF Became
    <2> QED
      BY <2>3, <2>4
  <1>6. ASSUME you.op \in GrantOps, NEW f \in DOMAIN you.grant
        PROVE  grants'[you.char][f] = ""
    <2>1. you.char \in Characters /\ f \in Features /\ grants[you.char][f] = "" /\ you.step # "loaded"
      BY <1>2, <1>6, NoGrant DEF SoundRecord
    <2>2. ~(me.op \in GrantOps /\ you.char = me.char)
      BY <1>2, <1>6, <2>1 DEF Apart, GrantOps, CharacterOps
    <2>3. Became(me, you.char, f) = ""
      BY <1>4, <2>1, <2>2 DEF Became
    <2> QED
      BY <1>3, <2>1, <2>3
  <1> HIDE <1>1
  <1>7. SoundRecord(you, grants')
    BY <1>2, <1>5, <1>6 DEF SoundRecord
  <1> QED
    BY <1>1, <1>7

LEMMA StoreKeepsGrants ==
  ASSUME TreeInv, GrantInv, ReqType, NEW r \in Requests, StoreTotals(r)
  PROVE  GrantInv'
  <1>1. PICK me : me = req[r]
    OBVIOUS
  <1>2. /\ me.step = "store" /\ req'[r] = NoWork /\ tree' = After(r) /\ ids' = ids
        /\ SoundRecord(me, grants) /\ SoundWrite(tree, me)
    BY <1>1, StoreShape DEF GrantInv, TreeInv, SoundEdit
  <1>3. \A q \in Requests : q # r => Untouched(q)
    BY OthersUntouched
  <1>4. /\ grants' \in [Characters -> [Features -> {"", "AUTO", "GM", "ASI"}]]
        /\ \A c \in Characters, f \in Features : grants'[c][f] = Became(me, c, f)
    BY <1>1, GrantsBecome
  <1>5. picks' = (picks \ me.unpick) \cup me.pick
    BY <1>1 DEF StoreTotals
  <1>6. AllRows' \subseteq AllRows
    <2>1. After(r) \subseteq AllRows
      BY RowsOf
    <2>2. \A q \in Requests : req'[q].put \subseteq AllRows /\ req'[q].seen \subseteq AllRows
      BY <1>2, <1>3, RowsOf, NoWorkFields DEF Untouched
    <2>3. AllRows' = tree' \cup UNION {req'[q].put \cup req'[q].seen : q \in Requests}
      BY DEF AllRows
    <2> HIDE DEF AllRows
    <2> QED
      BY <1>2, <2>1, <2>2, <2>3
  <1>7. \A p : SoundPick(p, AllRows, ids) => SoundPick(p, AllRows', ids')
    BY <1>2, <1>6 DEF SoundPick
  <1>8. RowIds(tree) \ DropsOf(me) \subseteq RowIds(tree')
    BY <1>1, <1>2 DEF RowIds, DropsOf, After, Result
  <1>9. Tables'
    <2>1. level' \in [Characters -> Nat]
      <3>1. level \in [Characters -> Nat]
        BY DEF GrantInv, Tables
      <3>2. CASE me.op = "level"
        <4>1. level' = [level EXCEPT ![me.char] = me.level] /\ me.level \in Nat
          BY <1>1, <1>2, <3>2 DEF StoreTotals, SoundRecord, GrantOps
        <4> QED
          BY <3>1, <4>1
      <3>3. CASE me.op # "level"
        <4>1. level' = level
          BY <1>1, <3>3 DEF StoreTotals
        <4> QED
          BY <3>1, <4>1
      <3> QED
        BY <3>2, <3>3
    <2>2. \A f \in Features : flags'[f] = Flags(tree', f)
      <3> TAKE f \in Features
      <3>1. CASE me.op = "edit" /\ f = me.feature
        <4>1. SoundFlags(tree, me)
          BY <1>1 DEF GrantInv
        <4>2. me.flags = Flags(Result(tree, me), f)
          BY <1>2, <3>1, <4>1 DEF SoundFlags
        <4>3. flags'[f] = me.flags
          BY <1>1, <3>1 DEF StoreTotals
        <4> QED
          BY <1>1, <1>2, <4>2, <4>3 DEF After
      <3>2. CASE ~(me.op = "edit" /\ f = me.feature)
        <4>1. flags'[f] = flags[f]
          BY <1>1, <3>2 DEF StoreTotals
        <4>2. flags[f] = Flags(tree, f)
          BY DEF GrantInv, Tables
        <4>3. Flags(After(r), f) = Flags(tree, f)
          BY <1>1, <3>2, FlagsElsewhere
        <4> QED
          BY <1>2, <4>1, <4>2, <4>3
      <3> QED
        BY <3>1, <3>2
    <2>3. flags' = [f \in Features |-> flags'[f]]
      BY DEF StoreTotals
    <2>4. flags' = [f \in Features |-> Flags(tree', f)]
      BY <2>2, <2>3
    <2> QED
      BY <1>4, <2>1, <2>4 DEF Tables, Flags, GroupsOf, EffectsOn
  <1>10. ASSUME NEW q \in Requests
         PROVE  SoundRecord(req'[q], grants')
    <2>1. CASE q = r
      BY <1>2, <2>1, NoWorkFields, NoGrant DEF SoundRecord, PickOps, GrantOps
    <2>2. CASE q # r
      <3>1. SoundRecord(req[q], grants')
        BY <2>2, GrantsHold
      <3>2. req'[q].op = "" => req'[q] = NoWork
        <4>1. CASE req'[q] = req[q]
          BY <3>1, <4>1 DEF SoundRecord
        <4>2. CASE Writing(q)
          <5>1. req[q].op # ""
            BY <3>1, <4>2, NoWorkFields DEF SoundRecord, Writing
          <5> QED
            BY <1>3, <2>2, <5>1 DEF Untouched
        <4> QED
          BY <2>2, <4>1, <4>2, StoreShape
      <3>3. Untouched(q)
        BY <1>3, <2>2
      <3> QED
        BY <3>1, <3>2, <3>3 DEF SoundRecord, Untouched
    <2> QED
      BY <2>1, <2>2
  <1>11. ASSUME NEW q \in Requests, NEW s \in Requests, q # s
         PROVE  Apart(req'[q], req'[s])
    <2>1. CASE q = r
      BY <1>2, <2>1, NoWorkFields DEF Apart, CharacterOps
    <2>2. CASE s = r
      BY <1>2, <2>2, NoWorkFields, NoGrant DEF Apart, CharacterOps, PicksOf
    <2>3. CASE q # r /\ s # r
      <3>1. Apart(req[q], req[s]) /\ Untouched(q) /\ Untouched(s)
        BY <1>3, <1>11, <2>3 DEF GrantInv
      <3> QED
        BY <3>1 DEF Apart, Untouched
    <2> QED
      BY <2>1, <2>2, <2>3
  <1>12. \A p : ~Drops(NoWork, p) /\ ~Revokes(NoWork, p)
    BY NoWorkFields DEF Drops, DropsOf, Revokes
  <1>13. \A q \in Requests : q # r =>
             \A p : (Drops(req'[q], p) <=> Drops(req[q], p)) /\ (Revokes(req'[q], p) <=> Revokes(req[q], p))
    BY <1>3 DEF Untouched, Drops, DropsOf, Revokes
  <1>14. ASSUME NEW p \in picks'
         PROVE  /\ SoundPick(p, AllRows', ids') /\ Names(p) \subseteq RowIds(tree') /\ grants'[p.char][p.feature] # ""
                /\ \A q \in Requests : Drops(req'[q], p) \/ Revokes(req'[q], p) => p \in req'[q].unpick
    <2>1. CASE p \in picks \ me.unpick
      <3>1. /\ SoundPick(p, AllRows, ids) /\ Names(p) \subseteq RowIds(tree) /\ grants[p.char][p.feature] # ""
            /\ \A q \in Requests : Drops(req[q], p) \/ Revokes(req[q], p) => p \in req[q].unpick
        BY <2>1 DEF GrantInv, StoredPick
      <3>2. ~Drops(me, p) /\ ~Revokes(me, p)
        BY <1>1, <2>1, <3>1
      <3>3. Names(p) \subseteq RowIds(tree')
        BY <1>8, <3>1, <3>2 DEF Drops
      <3>4. p.char \in Characters /\ p.feature \in Features
        BY <3>1 DEF SoundPick
      <3>5. me.op # "edit" => \A f \in DOMAIN me.grant : me.grant[f] # ""
        BY <1>2, NoGrant, NoWorkFields DEF SoundRecord
      <3>6. grants'[p.char][p.feature] # ""
        BY <1>4, <3>1, <3>2, <3>4, <3>5 DEF Became, Revokes
      <3>7. \A q \in Requests : Drops(req'[q], p) \/ Revokes(req'[q], p) => p \in req'[q].unpick
        BY <1>2, <1>3, <1>12, <1>13, <3>1 DEF Untouched
      <3> QED
        BY <1>7, <3>1, <3>3, <3>6, <3>7
    <2>2. CASE p \in me.pick
      <3>1. NewPick(me, p)
        BY <1>1, <2>2 DEF GrantInv
      <3>2. /\ SoundPick(p, AllRows, ids) /\ Names(p) \subseteq RowIds(tree) /\ p.char = me.char
            /\ \A q \in Requests : ~Drops(req[q], p) /\ ~Revokes(req[q], p)
        BY <1>2, <3>1 DEF NewPick
      <3>3. Names(p) \subseteq RowIds(tree')
        BY <1>1, <1>8, <3>2 DEF Drops
      <3>4. p.char \in Characters /\ p.feature \in Features
        BY <3>2 DEF SoundPick
      <3>5. Became(me, p.char, p.feature) # ""
        <4>1. CASE me.op \in PickOps
          BY <1>2, <2>2, <3>2, <4>1, NoGrant DEF SoundRecord, Became
        <4>2. CASE me.op \in GrantOps
          BY <1>2, <2>2, <3>2, <4>2 DEF SoundRecord, Became, GrantOps
        <4> QED
          BY <1>2, <2>2, <4>1, <4>2, NoWorkFields DEF SoundRecord
      <3>6. grants'[p.char][p.feature] # ""
        BY <1>4, <3>4, <3>5
      <3>7. \A q \in Requests : ~Drops(req'[q], p) /\ ~Revokes(req'[q], p)
        BY <1>2, <1>12, <1>13, <3>2
      <3> QED
        BY <1>7, <3>2, <3>3, <3>6, <3>7
    <2> QED
      BY <1>5, <2>1, <2>2
  <1>15. ASSUME NEW q \in Requests, NEW p \in req'[q].pick
         PROVE  /\ SoundPick(p, AllRows', ids') /\ p.char = req'[q].char
                /\ req'[q].step = "store" => Names(p) \subseteq RowIds(tree') /\ \A s \in Requests : ~Drops(req'[s], p)
                /\ \A s \in Requests : ~Revokes(req'[s], p)
    <2>1. q # r
      BY <1>2, NoWorkFields
    <2>2. NewPick(req[q], p) /\ Untouched(q)
      BY <1>3, <2>1 DEF GrantInv, Untouched
    <2>3. /\ SoundPick(p, AllRows, ids) /\ p.char = req'[q].char
          /\ req'[q].step = "store" => Names(p) \subseteq RowIds(tree) /\ \A s \in Requests : ~Drops(req[s], p)
          /\ \A s \in Requests : ~Revokes(req[s], p)
      BY <2>2 DEF NewPick, Untouched
    <2>4. req'[q].step = "store" => Names(p) \subseteq RowIds(tree')
      BY <1>1, <1>8, <2>3 DEF Drops
    <2>5. \A s \in Requests : ~Revokes(req'[s], p) /\ (req'[q].step = "store" => ~Drops(req'[s], p))
      BY <1>2, <1>12, <1>13, <2>3
    <2> QED
      BY <1>7, <2>3, <2>4, <2>5
  <1>16. ASSUME NEW q \in Requests
         PROVE  SoundFlags(tree', req'[q])
    <2>1. CASE q = r
      BY <1>2, <2>1, NoWorkFields DEF SoundFlags
    <2>2. CASE q # r
      <3>1. Untouched(q) /\ SoundFlags(tree, req[q])
        BY <1>3, <2>2 DEF GrantInv
      <3>2. SUFFICES ASSUME req[q].step = "store", req[q].op = "edit"
                     PROVE  req[q].flags = Flags(Result(tree', req'[q]), req[q].feature)
        BY <3>1 DEF SoundFlags, Untouched
      <3>3. req[q].flags = Flags(Result(tree, req[q]), req[q].feature)
        BY <3>1, <3>2 DEF SoundFlags
      <3>4. req[q].feature \in Features /\ (req[r].op = "edit" => req[r].feature # req[q].feature)
        BY <2>2, <3>2 DEF TreeInv, SoundEdit, SoundWrite, EditsApart
      <3>5. Flags(Result(After(r), req[q]), req[q].feature) = Flags(Result(tree, req[q]), req[q].feature)
        BY <3>4, FlagsElsewhere
      <3>6. Result(tree', req'[q]) = Result(After(r), req[q])
        BY <1>2, <3>1 DEF Result, Untouched
      <3> QED
        BY <3>3, <3>5, <3>6
    <2> QED
      BY <2>1, <2>2
  <1> QED
    BY <1>9, <1>10, <1>11, <1>14, <1>15, <1>16 DEF GrantInv, SoundRecord, Apart, StoredPick, NewPick, SoundFlags,
       SoundPick, Names, Drops, DropsOf, Revokes, RowIds, PicksOf, Result, Flags, EffectsOn, GroupsOf
-----------------------------------------------------------------------------
(* The theorem of what sheets show.                                        *)

LEMMA InitGrantInv ==
  ASSUME EngineInit
  PROVE  GrantInv
  <1>1. /\ flags = [f \in Features |-> Flags(InitTree, f)] /\ tree = InitTree
        /\ level = [c \in Characters |-> 1] /\ grants \in InitGrants /\ picks = {}
        /\ \A r \in Requests : req[r] = NoWork
    BY DEF EngineInit
  <1>2. Tables
    BY <1>1, EngineAssumption DEF Tables
  <1>3. SoundRecord(NoWork, grants) /\ SoundFlags(tree, NoWork) /\ Apart(NoWork, NoWork)
    BY NoWorkFields, NoGrant DEF SoundRecord, PickOps, GrantOps, SoundFlags, Apart, CharacterOps
  <1> QED
    BY <1>1, <1>2, <1>3, NoWorkFields DEF GrantInv

LEMMA NextKeepsGrants ==
  ASSUME TreeInv, ReqType, GrantInv, [EngineNext]_engineVars
  PROVE  GrantInv'
  <1>1. TreeInv'
    BY NextKeepsTree
  <1>2. ASSUME NEW r \in Requests, GmEdits(r)
        PROVE  GrantInv'
    BY <1>1, <1>2, GmEditsKeepGrants
  <1>3. ASSUME NEW r \in Requests, PlayerAnswers(r)
        PROVE  GrantInv'
    BY <1>1, <1>3, AnswerKeepsGrants, InsertKeepsGrants DEF PlayerAnswers
  <1>4. ASSUME NEW r \in Requests, FeatureGrants(r)
        PROVE  GrantInv'
    BY <1>1, <1>4, LoadKeepsGrants, AddFeatureKeepsGrants, RemoveFeatureKeepsGrants DEF FeatureGrants
  <1>5. ASSUME NEW r \in Requests, FeatGrants(r)
        PROVE  GrantInv'
    BY <1>1, <1>5, AddFeatKeepsGrants, UpdateFeatKeepsGrants, RemoveFeatKeepsGrants DEF FeatGrants
  <1>6. ASSUME NEW r \in Requests, LevelUp(r) \/ StoreTotals(r) \/ Abort(r)
        PROVE  GrantInv'
    BY <1>1, <1>6, LevelUpKeepsGrants, StoreKeepsGrants, AbortKeepsGrants
  <1>7. CASE UNCHANGED engineVars
    <2>1. /\ tree' = tree /\ ids' = ids /\ req' = req /\ flags' = flags /\ level' = level
          /\ grants' = grants /\ picks' = picks
      BY <1>7 DEF engineVars
    <2>2. AllRows' = AllRows
      BY <2>1 DEF AllRows
    <2>3. Tables'
      BY <2>1 DEF GrantInv, Tables, Flags, GroupsOf, EffectsOn
    <2>4. \A q \in Requests : SoundRecord(req'[q], grants') /\ SoundFlags(tree', req'[q])
      BY <2>1 DEF GrantInv
    <2>5. \A q, s \in Requests : q # s => Apart(req'[q], req'[s])
      BY <2>1 DEF GrantInv
    <2>6. \A p \in picks' :
              /\ SoundPick(p, AllRows', ids') /\ Names(p) \subseteq RowIds(tree') /\ grants'[p.char][p.feature] # ""
              /\ \A q \in Requests : Drops(req'[q], p) \/ Revokes(req'[q], p) => p \in req'[q].unpick
      BY <2>1, <2>2 DEF GrantInv, StoredPick
    <2>7. \A q \in Requests : \A p \in req'[q].pick :
              /\ SoundPick(p, AllRows', ids') /\ p.char = req'[q].char
              /\ req'[q].step = "store" => Names(p) \subseteq RowIds(tree') /\ \A s \in Requests : ~Drops(req'[s], p)
              /\ \A s \in Requests : ~Revokes(req'[s], p)
      BY <2>1, <2>2 DEF GrantInv, NewPick
    <2> QED
      BY ZenonT(40), <2>3, <2>4, <2>5, <2>6, <2>7 DEF GrantInv, SoundRecord, Apart, StoredPick, NewPick, SoundFlags,
         SoundPick, Names, Drops, DropsOf, Revokes, RowIds, PicksOf, Result, Flags, EffectsOn, GroupsOf
  <1> QED
    BY <1>2, <1>3, <1>4, <1>5, <1>6, <1>7 DEF EngineNext

LEMMA ShownFollows ==
  ASSUME TreeInv, GrantInv
  PROVE  ShownIsCounted
  <1> SUFFICES ASSUME NEW c \in Characters
               PROVE  {e \in Shown(tree, flags, grants, picks, c) : e.type = "ability"} = Counted(tree, grants, picks, c)
    BY DEF ShownIsCounted
  <1> DEFINE there(f) == flags[f].static \/ flags[f].choices
             mine(f) == {p.option : p \in PicksOf(picks, c, f)}
                        \cap UNION {{x.id : x \in OptionsOf(tree, g)} : g \in GroupIds(tree, f)}
  <1>1. flags = [f \in Features |-> Flags(tree, f)]
    BY DEF GrantInv, Tables
  <1>2. \A f \in Features : (flags[f].static <=> EffectsOn(tree, f) # {}) /\ (flags[f].choices <=> GroupsOf(tree, f) # {})
    BY <1>1 DEF Flags
  <1>3. ASSUME NEW p \in picks
        PROVE  /\ p.feature \in Granted(grants, p.char)
               /\ p.char = c => p.option \in mine(p.feature)
               /\ GroupsOf(tree, p.feature) # {} /\ p.feature \in Features
    <2>1. /\ SoundPick(p, AllRows, ids) /\ Names(p) \subseteq RowIds(tree) /\ grants[p.char][p.feature] # ""
      BY DEF GrantInv, StoredPick
    <2>2. PICK g \in tree : g.kind # "effect" /\ g.id = p.group
      BY <2>1 DEF Names, RowIds
    <2>3. PICK o \in tree : o.kind # "effect" /\ o.id = p.option
      BY <2>1 DEF Names, RowIds
    <2>4. g.kind = "group" /\ g.feature = p.feature /\ o.kind = "option" /\ o.group = p.group
      BY <2>1, <2>2, <2>3 DEF SoundPick, AllRows
    <2>5. g \in GroupsOf(tree, p.feature) /\ o \in OptionsOf(tree, g.id)
      BY <2>2, <2>3, <2>4 DEF GroupsOf, OptionsOf
    <2>6. p.feature \in Granted(grants, p.char) /\ p.feature \in Features
      BY <2>1 DEF Granted, SoundPick
    <2>7. ASSUME p.char = c
          PROVE  p.option \in mine(p.feature)
      <3>1. g.id \in GroupIds(tree, p.feature) /\ o.id \in {x.id : x \in OptionsOf(tree, g.id)}
        BY <2>5 DEF GroupIds
      <3>2. p \in PicksOf(picks, c, p.feature)
        BY <2>7 DEF PicksOf
      <3> QED
        BY <2>3, <3>1, <3>2
    <2> QED
      BY <2>5, <2>6, <2>7
  <1> HIDE DEF mine
  <1>4. ASSUME NEW e, e \in Shown(tree, flags, grants, picks, c)
        PROVE  \/ \E f \in Granted(grants, c) : e \in EffectsOn(tree, f)
               \/ \E p \in picks : p.char = c /\ e \in EffectsOn(tree, p.option)
    BY <1>4 DEF Shown, PicksOf
  <1>5. ASSUME NEW f \in Granted(grants, c), NEW e \in EffectsOn(tree, f)
        PROVE  e \in Shown(tree, flags, grants, picks, c)
    <2>1. flags[f].static
      BY <1>2 DEF Granted
    <2> QED
      BY <2>1 DEF Shown
  <1>6. ASSUME NEW p \in picks, p.char = c, NEW e \in EffectsOn(tree, p.option)
        PROVE  e \in Shown(tree, flags, grants, picks, c)
    <2>1. p.feature \in Granted(grants, c) /\ p.option \in mine(p.feature) /\ flags[p.feature].choices
      BY <1>2, <1>3, <1>6
    <2>2. e \in UNION {EffectsOn(tree, o) : o \in mine(p.feature)}
      BY <2>1
    <2> QED
      BY <2>1, <2>2 DEF Shown, mine
  <1>7. \A e : e \in Shown(tree, flags, grants, picks, c) <=>
                   \/ \E f \in Granted(grants, c) : e \in EffectsOn(tree, f)
                   \/ \E p \in picks : p.char = c /\ e \in EffectsOn(tree, p.option)
    BY <1>4, <1>5, <1>6
  <1>8. \A e : e \in Counted(tree, grants, picks, c) <=>
                   /\ e.type = "ability"
                   /\ \/ \E f \in Granted(grants, c) : e \in EffectsOn(tree, f)
                      \/ \E p \in picks : p.char = c /\ e \in EffectsOn(tree, p.option)
    BY DEF Counted
  <1> QED
    BY <1>7, <1>8

\* The sheet's reading of effects, by flags and by options of the feature, and the totals',
\* by joining picks to options, find the same ability effects in every state.
THEOREM SheetsShowWhatCounts == EngineSpec => []ShownIsCounted
  <1>1. EngineInit => TreeInv /\ ReqType /\ GrantInv
    BY InitTreeInv, InitGrantInv
  <1>2. TreeInv /\ ReqType /\ GrantInv /\ [EngineNext]_engineVars => (TreeInv /\ ReqType /\ GrantInv)'
    BY NextKeepsTree, NextKeepsGrants
  <1>3. TreeInv /\ ReqType /\ GrantInv => ShownIsCounted
    BY ShownFollows
  <1> QED
    BY <1>1, <1>2, <1>3, PTL DEF EngineSpec
-----------------------------------------------------------------------------
(* Counts: the picks of a group, and the answers they come from.           *)

LEMMA FinitePicks ==
  ASSUME NEW n \in Nat, NEW rows, NEW ps, \A p \in ps : SoundPick(p, rows, n), NEW c, NEW f, NEW g
  PROVE  IsFiniteSet(PicksIn(ps, c, f, g))
  <1>1. PICK here : here = PicksIn(ps, c, f, g)
    OBVIOUS
  <1>2. ASSUME NEW p \in here
        PROVE  p.option \in 1..n /\ p = [char |-> c, feature |-> f, group |-> g, option |-> p.option]
    <2>1. p \in ps /\ p.char = c /\ p.feature = f /\ p.group = g
      BY <1>1 DEF PicksIn, PicksOf
    <2>2. p \in [char : Characters, feature : Features, group : 1..n, option : 1..n]
      BY <2>1 DEF SoundPick
    <2> QED
      BY <2>1, <2>2
  <1>3. PICK opts : opts = {p.option : p \in here}
    OBVIOUS
  <1>4. IsFiniteSet(opts)
    <2>1. opts \in SUBSET (1..n) /\ IsFiniteSet(1..n)
      BY <1>2, <1>3, FS_Interval
    <2> QED
      BY <2>1, FS_Subset
  <1>5. [o \in opts |-> [char |-> c, feature |-> f, group |-> g, option |-> o]] \in Surjection(opts, here)
    <2>1. \A o \in opts : [char |-> c, feature |-> f, group |-> g, option |-> o] \in here
      BY <1>2, <1>3
    <2>2. \A p \in here : \E o \in opts : [char |-> c, feature |-> f, group |-> g, option |-> o] = p
      BY <1>2, <1>3
    <2> HIDE <1>1, <1>3
    <2> QED
      BY <2>1, <2>2 DEF Surjection
  <1> QED
    BY <1>1, <1>4, <1>5, FS_Surjection

LEMMA FewerPicks ==
  ASSUME NEW big, IsFiniteSet(big), NEW small, small \subseteq big
  PROVE  /\ Cardinality(small) \in Nat /\ Cardinality(big) \in Nat
         /\ Cardinality(small) <= Cardinality(big)
  BY FS_Subset, FS_CardinalityType

LEMMA GroupIs ==
  ASSUME TreeInv, NEW t \in SUBSET AllRows, NEW f, NEW g \in GroupsOf(t, f)
  PROVE  g.kind = "group" /\ g.feature = f /\ g.count \in Nat /\ g.id \in 1..ids /\ g \in t /\ g \in AllRows
  BY RowFields DEF TreeInv, RowsSound, GroupsOf

LEMMA OneRow ==
  ASSUME TreeInv, NEW x \in tree, NEW y \in tree, x.kind # "effect", y.kind # "effect", x.id = y.id
  PROVE  x = y
  BY DEF TreeInv, Once

\* The picks of the group n are those of the answers that name it.
Chosen(new, c, f, n, answers) ==
    \A p : p \in PicksIn(new, c, f, n) <=> \E a \in answers : a[1] = n /\ p = Pick(c, f, a)

LEMMA ChosenCounts ==
  ASSUME TreeInv, NEW c, NEW f \in Features, NEW t \in SUBSET AllRows,
         NEW answers \in Answers(t, f), NEW g \in GroupsOf(t, f), NEW new, Chosen(new, c, f, g.id, answers),
         PicksIn(new, c, f, g.id) # {}
  PROVE  Cardinality(PicksIn(new, c, f, g.id)) = g.count
  <1>1. PICK here, given : here = PicksIn(new, c, f, g.id) /\ given = {a \in answers : a[1] = g.id}
    OBVIOUS
  <1>2. \A p : p \in here <=> \E a \in given : p = Pick(c, f, a)
    BY <1>1 DEF Chosen
  <1>3. given # {} /\ ValidAnswers(t, f, answers)
    BY <1>1, <1>2 DEF Answers
  <1>4. Cardinality(given) = g.count
    BY <1>1, <1>3 DEF ValidAnswers
  <1>5. ASSUME NEW a \in given
        PROVE  a = <<g.id, a[2]>> /\ a[2] \in 1..ids
    <2>1. a \in answers /\ a[1] = g.id
      BY <1>1
    <2>2. a = <<a[1], a[2]>>
      BY <2>1 DEF Answers
    <2>3. PICK x \in GroupsOf(t, f) : \E o \in OptionsOf(t, x.id) : o.id = a[2]
      BY <1>3, <2>1 DEF ValidAnswers
    <2>4. PICK o \in OptionsOf(t, x.id) : o.id = a[2]
      BY <2>3
    <2>5. o \in AllRows /\ o.kind = "option"
      BY DEF OptionsOf
    <2>6. o.id \in 1..ids
      BY <2>5, OldIds
    <2> QED
      BY <2>1, <2>2, <2>4, <2>6
  <1>6. IsFiniteSet(given)
    <2>1. PICK opts : opts = {a[2] : a \in given}
      OBVIOUS
    <2>2. ids \in Nat
      BY DEF TreeInv, RowsSound
    <2>3. opts \in SUBSET (1..ids) /\ IsFiniteSet(1..ids)
      BY <1>5, <2>1, <2>2, FS_Interval
    <2>4. IsFiniteSet(opts)
      BY <2>3, FS_Subset
    <2>5. \A o \in opts : <<g.id, o>> \in given
      BY <1>5, <2>1
    <2>6. \A a \in given : \E o \in opts : <<g.id, o>> = a
      BY <1>5, <2>1
    <2> HIDE <2>1
    <2>7. [o \in opts |-> <<g.id, o>>] \in Surjection(opts, given)
      BY <2>5, <2>6 DEF Surjection
    <2> QED
      BY <2>4, <2>7, FS_Surjection
  <1> HIDE <1>1
  <1>7. PICK to : to = [a \in given |-> Pick(c, f, a)]
    OBVIOUS
  <1>8. to \in Surjection(given, here)
    BY <1>2, <1>7 DEF Surjection
  <1>9. to \in Injection(given, here)
    <2>1. to \in [given -> here]
      BY <1>8 DEF Surjection
    <2>2. ASSUME NEW a \in given, NEW b \in given, to[a] = to[b]
          PROVE  a = b
      <3>1. Pick(c, f, a) = Pick(c, f, b)
        BY <1>7, <2>2
      <3>2. a[2] = b[2]
        BY <3>1, PickedFields
      <3> QED
        BY <1>5, <3>2
    <2> QED
      BY <2>1, <2>2 DEF Injection, IsInjective
  <1>10. Cardinality(here) = Cardinality(given)
    BY <1>6, <1>8, <1>9, FS_Surjection
  <1> QED
    BY <1>1, <1>4, <1>10

LEMMA ChosenFits ==
  ASSUME TreeInv, NEW c, NEW f \in Features, NEW t \in SUBSET AllRows,
         NEW answers \in {{}} \cup Answers(t, f), NEW g \in GroupsOf(tree, f), NEW new,
         Chosen(new, c, f, g.id, answers), \A x \in GroupsOf(t, f) : x.id = g.id => x.count <= g.count
  PROVE  Cardinality(PicksIn(new, c, f, g.id)) <= g.count
  <1>0. tree \in SUBSET AllRows
    BY DEF AllRows
  <1>1. g.count \in Nat
    BY <1>0, GroupIs
  <1>2. CASE PicksIn(new, c, f, g.id) = {}
    BY <1>1, <1>2, FS_EmptySet
  <1>3. ASSUME NEW p \in PicksIn(new, c, f, g.id)
        PROVE  Cardinality(PicksIn(new, c, f, g.id)) <= g.count
    <2>1. PICK a \in answers : a[1] = g.id
      BY DEF Chosen
    <2>2. answers \in Answers(t, f)
      BY <2>1
    <2>3. PICK x \in GroupsOf(t, f) : x.id = a[1]
      BY <2>2 DEF Answers, ValidAnswers
    <2>4. x.id = g.id
      BY <2>1, <2>3
    <2>5. Cardinality(PicksIn(new, c, f, x.id)) = x.count
      BY <2>2, <2>4, ChosenCounts
    <2> QED
      BY <2>4, <2>5
  <1> QED
    BY <1>2, <1>3
-----------------------------------------------------------------------------
(* Counts: the steps of a request.                                         *)

LEMMA TurnKeepsCounts ==
  ASSUME CountInv, NEW r \in Requests, NEW w, req'[r] = w, \A q \in Requests : q # r => req'[q] = req[q],
         tree' = tree, picks' = picks, lowered' = lowered,
         AsiOnly(w), Bounded(w), SeenCounts(w), Answered(w), Published(w, w),
         \A q \in Requests : q # r => Published(w, req[q]) /\ Published(req[q], w)
  PROVE  CountInv'
  <1>1. \A q \in Requests : AsiOnly(req'[q]) /\ Bounded(req'[q]) /\ SeenCounts(req'[q]) /\ Answered(req'[q])
    BY DEF CountInv
  <1>2. \A q, s \in Requests : Published(req'[q], req'[s])
    BY DEF CountInv
  <1>3. NeverOverPicked'
    BY DEF CountInv, NeverOverPicked, GroupsOf, PicksIn, PicksOf
  <1> QED
    BY <1>1, <1>2, <1>3 DEF CountInv, AsiOnly, Bounded, SeenCounts, Answered, Published, Fills, Counts, IsGroup,
       GroupsOf, PicksIn, PicksOf, Pending

\* A record without picks.
LEMMA NoPicksFill ==
  ASSUME TreeInv, NEW w, w.pick = {}
  PROVE  Bounded(w)
  <1> SUFFICES ASSUME NEW f \in Features, NEW g \in GroupsOf(tree, f)
               PROVE  Fills(w, f, g)
    BY DEF Bounded
  <1>1. PicksIn(w.pick, w.char, f, g.id) = {}
    BY DEF PicksIn, PicksOf
  <1>2. tree \in SUBSET AllRows
    BY DEF AllRows
  <1>3. g.count \in Nat
    BY <1>2, GroupIs
  <1> QED
    BY <1>1, <1>3, FS_EmptySet DEF Fills

LEMMA EditStepKeepsCounts ==
  ASSUME TreeInv, TreeInv', GrantInv, CountInv, NEW r \in Requests, EditStep(r)
  PROVE  CountInv'
  <1>1. PICK w : w = req'[r]
    OBVIOUS
  <1>2. /\ w.op = "edit" /\ w.pick = {} /\ w.seen = {} /\ Known(w.put)
        /\ \A q \in Requests : q # r => req'[q] = req[q]
        /\ tree' = tree /\ picks' = picks /\ lowered' = lowered
    BY <1>1 DEF EditStep
  <1>3. AsiOnly(w) /\ SeenCounts(w) /\ Answered(w) /\ \A q \in Requests : Published(req[q], w)
    BY <1>2 DEF AsiOnly, SeenCounts, Answered, Published
  <1>4. Published(w, w)
    BY <1>2 DEF Published
  <1>5. ASSUME NEW y \in w.put, y.kind = "group", y.id \in 1..ids
        PROVE  IsGroup(y.id)
    <2>1. PICK x \in tree : x.kind # "effect" /\ x.id = y.id
      BY <1>2, <1>5 DEF Known, RowIds
    <2>2. x \in AllRows' /\ y \in AllRows'
      BY <1>1, <1>2 DEF AllRows
    <2>3. Alike(x, y)
      BY <2>2 DEF TreeInv, RowsSound, Alike
    <2> QED
      BY <1>5, <2>1, <2>3 DEF Alike, IsGroup
  <1>6. ASSUME NEW q \in Requests
        PROVE  Published(w, req[q])
    <2>1. \A p \in req[q].pick : p.group \in 1..ids
      BY DEF GrantInv, NewPick, SoundPick
    <2>2. \A x \in req[q].seen : x.kind = "group" => x.id \in 1..ids
      BY OldIds, RowsOf
    <2> QED
      BY <1>5, <2>1, <2>2 DEF Published
  <1>7. Bounded(w)
    BY <1>2, NoPicksFill
  <1> HIDE <1>1
  <1>8. req'[r] = w
    BY <1>1
  <1> QED
    BY <1>2, <1>3, <1>4, <1>6, <1>7, <1>8, TurnKeepsCounts

\* The steps that write no rows.
LEMMA QuietKeepsCounts ==
  ASSUME CountInv, ReqType, NEW r \in Requests, NEW w, Turns(r, w), DOMAIN w = DOMAIN NoWork, w.put = {},
         AsiOnly(w), Bounded(w), SeenCounts(w), Answered(w), \A q \in Requests : Published(req[q], w)
  PROVE  CountInv'
  <1>1. req'[r] = w /\ \A q \in Requests : q # r => req'[q] = req[q]
    BY Turned
  <1>2. \A me : Published(w, me)
    BY DEF Published
  <1>3. tree' = tree /\ picks' = picks /\ lowered' = lowered
    BY DEF Turns
  <1> QED
    BY <1>1, <1>2, <1>3, TurnKeepsCounts

LEMMA AbortKeepsCounts ==
  ASSUME TreeInv, CountInv, ReqType, NEW r \in Requests, Abort(r)
  PROVE  CountInv'
  <1>1. Turns(r, NoWork)
    BY AbortTurns
  <1>2. /\ AsiOnly(NoWork) /\ SeenCounts(NoWork) /\ Answered(NoWork) /\ NoWork.pick = {} /\ NoWork.put = {}
        /\ \A q \in Requests : Published(req[q], NoWork)
    BY NoWorkFields DEF AsiOnly, SeenCounts, Answered, Published
  <1>3. Bounded(NoWork)
    BY <1>2, NoPicksFill
  <1> QED
    BY <1>1, <1>2, <1>3, QuietKeepsCounts

LEMMA LoadKeepsCounts ==
  ASSUME TreeInv, CountInv, ReqType, NEW r \in Requests, LoadFeature(r)
  PROVE  CountInv'
  <1>1. PICK c \in Characters, f \in Features : Turns(r, LoadRecord(c, f, Subtree(tree, f)))
    BY LoadTurns
  <1>2. PICK w : w = LoadRecord(c, f, Subtree(tree, f))
    OBVIOUS
  <1>3. /\ DOMAIN w = DOMAIN NoWork
        /\ w.op = "grant" /\ w.seen = Subtree(tree, f) /\ w.put = {} /\ w.pick = {}
    BY <1>2, LoadFields
  <1>4. w.seen \subseteq tree
    BY <1>3, SubtreeRows
  <1>5. AsiOnly(w) /\ Answered(w)
    BY <1>3 DEF AsiOnly, Answered
  <1>6. SeenCounts(w)
    <2> SUFFICES ASSUME NEW x \in w.seen, NEW y \in tree, x.kind = "group", y.kind = "group", x.id = y.id
                 PROVE  x.count <= y.count
      BY DEF SeenCounts
    <2>1. x = y
      BY <1>4, OneRow
    <2>2. y \in GroupsOf(tree, y.feature) /\ tree \in SUBSET AllRows
      BY DEF GroupsOf, AllRows
    <2>3. y.count \in Nat
      BY <2>2, GroupIs
    <2> QED
      BY <2>1, <2>3
  <1>7. \A q \in Requests : Published(req[q], w)
    BY <1>3, <1>4 DEF Published, IsGroup
  <1>8. Bounded(w)
    BY <1>3, NoPicksFill
  <1>9. Turns(r, w)
    BY <1>1, <1>2
  <1> HIDE <1>1, <1>2
  <1> QED
    BY <1>3, <1>5, <1>6, <1>7, <1>8, <1>9, QuietKeepsCounts

LEMMA InsertKeepsCounts ==
  ASSUME GrantInv, CountInv, TreeInv, ReqType, NEW r \in Requests, InsertPicks(r)
  PROVE  CountInv'
  <1>1. PICK me, tot : me = req[r] /\ Turns(r, InsertRecord(me, tot)) /\ me.step = "insert"
    BY InsertTurns
  <1>2. PICK w : w = InsertRecord(me, tot)
    OBVIOUS
  <1>3. /\ DOMAIN me = DOMAIN NoWork /\ me.op # "edit" /\ me.put = {} /\ SoundRecord(me, grants)
    BY <1>1 DEF ReqType, TreeInv, SoundEdit, SoundWrite, GrantInv
  <1>4. me.op \in PickOps
    BY <1>1, <1>3, NoWorkFields DEF SoundRecord, GrantOps
  <1>5. /\ DOMAIN w = DOMAIN NoWork /\ w.op = me.op /\ w.char = me.char /\ w.feature = me.feature
        /\ w.pick = me.pick /\ w.unpick = me.unpick /\ w.put = {} /\ w.seen = me.seen
    BY <1>2, <1>3, InsertFields
  <1>6. AsiOnly(me) /\ Bounded(me) /\ SeenCounts(me) /\ \A q \in Requests : Published(req[q], me)
    BY <1>1 DEF CountInv
  <1>7. AsiOnly(w) /\ Bounded(w) /\ SeenCounts(w) /\ \A q \in Requests : Published(req[q], w)
    BY <1>5, <1>6 DEF AsiOnly, Bounded, Fills, SeenCounts, Published
  <1>8. Answered(w)
    BY <1>4, <1>5 DEF Answered, PickOps
  <1>9. Turns(r, w)
    BY <1>1, <1>2
  <1> HIDE <1>1, <1>2
  <1> QED
    BY <1>5, <1>7, <1>8, <1>9, QuietKeepsCounts
-----------------------------------------------------------------------------
(* Counts: answers.                                                        *)

\* What the answers of one feature put into a group.
OfFeature(new, c, f) == \A x, y, n : (x # c \/ y # f) => PicksIn(new, x, y, n) = {}

LEMMA AnswersChosen ==
  ASSUME NEW c, NEW f, NEW answers, NEW new, new = {Pick(c, f, a) : a \in answers}
  PROVE  (\A n : Chosen(new, c, f, n, answers)) /\ OfFeature(new, c, f)
  <1>1. \A p : p \in new <=> \E a \in answers : p = Pick(c, f, a)
    OBVIOUS
  <1>2. \A a : Pick(c, f, a).char = c /\ Pick(c, f, a).feature = f /\ Pick(c, f, a).group = a[1]
    BY PickedFields
  <1> QED
    BY <1>1, <1>2 DEF Chosen, OfFeature, PicksIn, PicksOf

LEMMA ValidGroups ==
  ASSUME NEW t, NEW f, NEW answers \in Answers(t, f), NEW a \in answers
  PROVE  \E g \in GroupsOf(t, f) : g.id = a[1]
  BY DEF Answers, ValidAnswers

LEMMA AnswerKeepsCounts ==
  ASSUME TreeInv, CountInv, ReqType, NEW r \in Requests, Answer(r)
  PROVE  CountInv'
  <1>1. PICK c \in Characters : \E f \in Granted(grants, c) : \E answers \in Answers(tree, f) :
            Turns(r, PickRecord("answer", c, f, Replaced(c, f, answers), {Pick(c, f, a) : a \in answers}))
    BY AnswerTurns
  <1>2. PICK f \in Granted(grants, c) : \E answers \in Answers(tree, f) :
            Turns(r, PickRecord("answer", c, f, Replaced(c, f, answers), {Pick(c, f, a) : a \in answers}))
    BY <1>1
  <1>3. PICK answers \in Answers(tree, f) :
            Turns(r, PickRecord("answer", c, f, Replaced(c, f, answers), {Pick(c, f, a) : a \in answers}))
    BY <1>2
  <1>4. PICK new : new = {Pick(c, f, a) : a \in answers}
    OBVIOUS
  <1>5. PICK w : w = PickRecord("answer", c, f, Replaced(c, f, answers), new)
    OBVIOUS
  <1>6. /\ DOMAIN w = DOMAIN NoWork
        /\ w.op = "answer" /\ w.step = "insert" /\ w.char = c /\ w.feature = f /\ w.pick = new
        /\ w.unpick = Replaced(c, f, answers) /\ w.put = {} /\ w.seen = {}
    BY <1>5, PickFields
  <1>7. Turns(r, w)
    BY <1>3, <1>4, <1>5
  <1>8. f \in Features /\ tree \in SUBSET AllRows
    <2>1. f \in Features
      BY DEF Granted
    <2>2. tree \subseteq AllRows
      BY DEF AllRows
    <2> QED
      BY <2>1, <2>2
  <1>9. (\A n : Chosen(new, c, f, n, answers)) /\ OfFeature(new, c, f)
    BY <1>4, AnswersChosen
  <1>10. \A p \in new : \E a \in answers : p.group = a[1]
    BY <1>4, PickedFields
  <1> HIDE <1>3, <1>4, <1>5
  <1>11. ASSUME NEW x \in Features, NEW g \in GroupsOf(tree, x)
         PROVE  Fills(w, x, g)
    <2>0. g.count \in Nat
      BY <1>8, GroupIs
    <2>1. CASE x # f
      <3>1. PicksIn(w.pick, w.char, x, g.id) = {}
        BY <1>6, <1>9, <2>1 DEF OfFeature
      <3> QED
        BY <2>0, <3>1, FS_EmptySet DEF Fills
    <2>2. CASE x = f
      <3>1. \A y \in GroupsOf(tree, f) : y.id = g.id => y.count <= g.count
        <4> SUFFICES ASSUME NEW y \in GroupsOf(tree, f), y.id = g.id PROVE y.count <= g.count
          OBVIOUS
        <4>1. y = g
          BY OneRow DEF GroupsOf
        <4> QED
          BY <2>0, <4>1
      <3>2. Cardinality(PicksIn(new, c, f, g.id)) <= g.count
        BY <1>8, <1>9, <2>2, <3>1, ChosenFits
      <3>3. ASSUME PicksIn(new, c, f, g.id) # {}
            PROVE  PicksIn(picks, c, f, g.id) \subseteq Replaced(c, f, answers)
        <4>1. PICK a \in answers : a[1] = g.id
          BY <1>9, <3>3 DEF Chosen
        <4> QED
          BY <4>1 DEF Replaced
      <3> QED
        BY <1>6, <2>2, <3>2, <3>3 DEF Fills
    <2> QED
      BY <2>1, <2>2
  <1>12. Bounded(w)
    BY <1>11 DEF Bounded
  <1>13. AsiOnly(w) /\ SeenCounts(w) /\ Answered(w)
    BY <1>6 DEF AsiOnly, SeenCounts, Answered
  <1>14. \A p \in new : IsGroup(p.group)
    BY <1>10, ValidGroups DEF IsGroup, GroupsOf
  <1>15. \A q \in Requests : Published(req[q], w)
    BY <1>6, <1>14 DEF Published
  <1> QED
    BY <1>6, <1>7, <1>12, <1>13, <1>15, QuietKeepsCounts

\* The options of a feat's ASI group are of an ability group.
LEMMA AsiGroups ==
  ASSUME TreeInv, NEW f, NEW a \in AsiOptions(tree, f), NEW g \in tree, g.kind = "group", g.id = a[1]
  PROVE  g.type = "ability"
  <1>1. PICK x \in GroupsOf(tree, f) :
            \E o \in OptionsOf(tree, x.id) : (\E e \in EffectsOn(tree, o.id) : e.type = "ability") /\ a = <<x.id, o.id>>
    BY DEF AsiOptions
  <1>2. PICK o \in OptionsOf(tree, x.id) : (\E e \in EffectsOn(tree, o.id) : e.type = "ability") /\ a = <<x.id, o.id>>
    BY <1>1
  <1>3. PICK e \in EffectsOn(tree, o.id) : e.type = "ability"
    BY <1>2
  <1>4. a[1] = x.id
    BY <1>2
  <1> HIDE <1>2
  <1>5. x \in tree /\ x.kind = "group" /\ o \in tree /\ o.kind = "option" /\ o.group = x.id
        /\ e \in tree /\ e.kind = "effect" /\ e.owner = o.id
    BY DEF GroupsOf, OptionsOf, EffectsOn
  <1>6. x = g
    BY <1>4, <1>5, OneRow
  <1>7. Fitting(e, o, x)
    BY <1>5 DEF TreeInv, RowsSound, AllRows
  <1> QED
    BY <1>3, <1>5, <1>6, <1>7 DEF Fitting

LEMMA AsiIsGroup ==
  ASSUME NEW f, NEW a \in AsiOptions(tree, f)
  PROVE  IsGroup(a[1])
  <1>1. PICK x \in GroupsOf(tree, f) : \E o : a = <<x.id, o>>
    BY DEF AsiOptions
  <1>2. a[1] = x.id
    BY <1>1
  <1> QED
    BY <1>2 DEF IsGroup, GroupsOf

LEMMA UpdateFeatKeepsCounts ==
  ASSUME TreeInv, CountInv, ReqType, NEW r \in Requests, UpdateFeat(r)
  PROVE  CountInv'
  <1>1. PICK c \in Characters : \E f \in Feats \cap Granted(grants, c) : \E asi \in OneOrNone(AsiOptions(tree, f)) :
            Turns(r, PickRecord("asi", c, f, Replaced(c, f, asi), {Pick(c, f, a) : a \in asi}))
    BY UpdateFeatTurns
  <1>2. PICK f \in Feats \cap Granted(grants, c) : \E asi \in OneOrNone(AsiOptions(tree, f)) :
            Turns(r, PickRecord("asi", c, f, Replaced(c, f, asi), {Pick(c, f, a) : a \in asi}))
    BY <1>1
  <1>3. PICK asi \in OneOrNone(AsiOptions(tree, f)) :
            Turns(r, PickRecord("asi", c, f, Replaced(c, f, asi), {Pick(c, f, a) : a \in asi}))
    BY <1>2
  <1>4. PICK new : new = {Pick(c, f, a) : a \in asi}
    OBVIOUS
  <1>5. PICK w : w = PickRecord("asi", c, f, Replaced(c, f, asi), new)
    OBVIOUS
  <1>6. /\ DOMAIN w = DOMAIN NoWork
        /\ w.op = "asi" /\ w.step = "insert" /\ w.char = c /\ w.feature = f /\ w.pick = new
        /\ w.put = {} /\ w.seen = {}
    BY <1>5, PickFields
  <1>7. Turns(r, w)
    BY <1>3, <1>4, <1>5
  <1>8. asi \subseteq AsiOptions(tree, f)
    BY DEF OneOrNone
  <1>9. ASSUME NEW p \in new
        PROVE  /\ p.feature = f /\ IsGroup(p.group)
               /\ \A x \in tree : x.kind = "group" /\ x.id = p.group => x.type = "ability"
    <2>1. PICK a \in asi : p = Pick(c, f, a)
      BY <1>4
    <2>2. p.feature = f /\ p.group = a[1]
      BY <2>1, PickedFields
    <2>3. IsGroup(a[1])
      BY <1>8, AsiIsGroup
    <2>4. \A x \in tree : x.kind = "group" /\ x.id = a[1] => x.type = "ability"
      BY <1>8, AsiGroups
    <2> QED
      BY <2>2, <2>3, <2>4
  <1> HIDE <1>3, <1>4, <1>5
  <1>10. ASSUME NEW x \in Features, NEW g \in GroupsOf(tree, x), Counts(x, g)
         PROVE  Fills(w, x, g)
    <2>0. g.count \in Nat
      BY RowsOf, GroupIs
    <2>1. PicksIn(w.pick, w.char, x, g.id) = {}
      <3> SUFFICES ASSUME NEW p \in PicksIn(w.pick, w.char, x, g.id) PROVE FALSE
        OBVIOUS
      <3>1. p \in new /\ p.feature = x /\ p.group = g.id
        BY <1>6 DEF PicksIn, PicksOf
      <3>2. x = f /\ g.type = "ability"
        BY <1>9, <3>1 DEF GroupsOf
      <3> QED
        BY <1>10, <3>2 DEF Counts
    <2> QED
      BY <2>0, <2>1, FS_EmptySet DEF Fills
  <1>11. Bounded(w)
    BY <1>10 DEF Bounded
  <1>12. AsiOnly(w) /\ SeenCounts(w) /\ Answered(w)
    BY <1>6, <1>9 DEF AsiOnly, SeenCounts, Answered
  <1>13. \A q \in Requests : Published(req[q], w)
    BY <1>6, <1>9 DEF Published
  <1> QED
    BY <1>6, <1>7, <1>11, <1>12, <1>13, QuietKeepsCounts
-----------------------------------------------------------------------------
(* Counts: grants given and revoked.                                       *)

\* What comes with a grant fits, and is of groups stored.
ComesFit(c, new) ==
    /\ \A f \in Features : \A g \in GroupsOf(tree, f) :
           Counts(f, g) => Cardinality(PicksIn(new, c, f, g.id)) <= g.count
    /\ \A p \in new : \A q \in Requests : \A y \in req[q].put :
           y.kind = "group" /\ p.group = y.id => IsGroup(y.id)

LEMMA WriteKeepsCounts ==
  ASSUME TreeInv, GrantInv, CountInv, ReqType, NEW r \in Requests, NEW op \in GrantOps, NEW c \in Characters,
         NEW f, NEW given, NEW gone, NEW new, NEW lvl, WriteGrants(r, op, c, f, given, gone, new, lvl),
         Gives(c, given), Comes(c, given, new), ComesFit(c, new),
         op = "level" => \A x \in DOMAIN given : Pending(tree, new, c, x) = {}
  PROVE  CountInv'
  <1>1. Turns(r, GrantRecord(op, c, f, given, gone, new, Lost(c, gone), lvl, GrantTotals(c, given, gone, new)))
    BY WriteTurns
  <1>2. PICK w : w = GrantRecord(op, c, f, given, gone, new, Lost(c, gone), lvl, GrantTotals(c, given, gone, new))
    OBVIOUS
  <1>3. /\ DOMAIN w = DOMAIN NoWork /\ w.op = op /\ w.char = c /\ w.grant = given /\ w.pick = new
        /\ w.put = {} /\ w.seen = {}
    BY <1>2, GrantFields
  <1>4. Turns(r, w)
    BY <1>1, <1>2
  <1> HIDE <1>2
  <1>5. ASSUME NEW x \in Features, NEW g \in GroupsOf(tree, x), Counts(x, g)
        PROVE  Fills(w, x, g)
    <2>1. Cardinality(PicksIn(new, c, x, g.id)) <= g.count
      BY <1>5 DEF ComesFit
    <2>2. ASSUME PicksIn(new, c, x, g.id) # {}
          PROVE  PicksIn(picks, c, x, g.id) = {}
      <3>1. PICK p \in new : p.feature = x
        BY <2>2 DEF PicksIn, PicksOf
      <3>2. grants[c][x] = ""
        BY <3>1 DEF Comes, Gives
      <3>3. \A s \in picks : grants[s.char][s.feature] # ""
        BY DEF GrantInv, StoredPick
      <3> QED
        BY <3>2, <3>3 DEF PicksIn, PicksOf
    <2> QED
      BY <1>3, <2>1, <2>2 DEF Fills
  <1>6. Bounded(w)
    BY <1>5 DEF Bounded
  <1>7. AsiOnly(w) /\ SeenCounts(w) /\ Answered(w)
    BY <1>3 DEF AsiOnly, SeenCounts, Answered, GrantOps
  <1>8. \A q \in Requests : Published(req[q], w)
    BY <1>3 DEF Published, ComesFit
  <1> QED
    BY <1>3, <1>4, <1>6, <1>7, <1>8, QuietKeepsCounts

LEMMA NothingFits ==
  ASSUME TreeInv, NEW c
  PROVE  ComesFit(c, {})
  <1> SUFFICES ASSUME NEW f \in Features, NEW g \in GroupsOf(tree, f)
               PROVE  Cardinality(PicksIn({}, c, f, g.id)) <= g.count
    BY DEF ComesFit
  <1>1. PicksIn({}, c, f, g.id) = {}
    BY DEF PicksIn, PicksOf
  <1>2. g.count \in Nat
    <2>1. tree \subseteq AllRows
      BY DEF AllRows
    <2> QED
      BY <2>1, GroupIs
  <1> QED
    BY <1>1, <1>2, FS_EmptySet

LEMMA RemoveFeatureKeepsCounts ==
  ASSUME TreeInv, GrantInv, CountInv, ReqType, NEW r \in Requests, RemoveFeature(r)
  PROVE  CountInv'
  <1>1. PICK c \in Characters : \E f : WriteGrants(r, "revoke", c, f, <<>>, {f}, {}, 0)
    BY RemoveFeatureWrites
  <1>2. PICK f : WriteGrants(r, "revoke", c, f, <<>>, {f}, {}, 0)
    BY <1>1
  <1>3. Gives(c, <<>>) /\ Comes(c, <<>>, {}) /\ ComesFit(c, {})
    BY GivesNone, NothingFits DEF Comes
  <1> QED
    BY <1>2, <1>3, WriteKeepsCounts DEF GrantOps

LEMMA RemoveFeatKeepsCounts ==
  ASSUME TreeInv, GrantInv, CountInv, ReqType, NEW r \in Requests, RemoveFeat(r)
  PROVE  CountInv'
  <1>1. PICK c \in Characters : \E f : \E gone :
            WriteGrants(r, "revoke", c, f, Synced(c, level[c], <<>>).given, gone, {}, 0)
    BY RemoveFeatWrites
  <1>2. PICK f, gone : WriteGrants(r, "revoke", c, f, Synced(c, level[c], <<>>).given, gone, {}, 0)
    BY <1>1
  <1>3. PICK given : given = Synced(c, level[c], <<>>).given
    OBVIOUS
  <1>4. Gives(c, given)
    BY <1>3, GivesNone, SyncedIs
  <1>5. Comes(c, given, {}) /\ ComesFit(c, {})
    BY NothingFits DEF Comes
  <1>6. WriteGrants(r, "revoke", c, f, given, gone, {}, 0)
    BY <1>2, <1>3
  <1> HIDE <1>2, <1>3
  <1> QED
    BY <1>4, <1>5, <1>6, WriteKeepsCounts DEF GrantOps

LEMMA AddFeatureKeepsCounts ==
  ASSUME TreeInv, GrantInv, CountInv, ReqType, NEW r \in Requests, AddFeature(r)
  PROVE  CountInv'
  <1>1. PICK c, f : c = req[r].char /\ f = req[r].feature
    OBVIOUS
  <1>2. /\ req[r].step = "loaded" /\ f \notin Granted(grants, c)
        /\ \E answers \in IF flags[f].choices THEN Answers(req[r].seen, f) ELSE {{}} :
               WriteGrants(r, "grant", c, f, [x \in {f} |-> "GM"], {}, {Pick(c, f, a) : a \in answers}, 0)
    BY <1>1, AddFeatureWrites
  <1>3. PICK answers \in {{}} \cup Answers(req[r].seen, f) :
            WriteGrants(r, "grant", c, f, [x \in {f} |-> "GM"], {}, {Pick(c, f, a) : a \in answers}, 0)
    BY <1>2
  <1>4. c \in Characters /\ f \in Features
    <2>1. SoundRecord(req[r], grants)
      BY DEF GrantInv
    <2>2. req[r].op \in GrantOps
      BY <1>2, <2>1, NoWorkFields DEF SoundRecord, PickOps, GrantOps, TreeInv, SoundEdit, SoundWrite
    <2> QED
      BY <1>1, <1>2, <2>1, <2>2 DEF SoundRecord
  <1>5. PICK t : t = req[r].seen
    OBVIOUS
  <1>6. PICK given, new : given = [x \in {f} |-> "GM"] /\ new = {Pick(c, f, a) : a \in answers}
    OBVIOUS
  <1>7. Gives(c, given) /\ f \in DOMAIN given
    BY <1>2, <1>4, <1>6, GivesOne DEF Granted
  <1>8. t \in SUBSET AllRows /\ answers \in {{}} \cup Answers(t, f)
    BY <1>3, <1>5, RowsOf
  <1>9. Comes(c, given, new)
    BY <1>4, <1>6, <1>7, <1>8, AnswersCome
  <1>10. (\A n : Chosen(new, c, f, n, answers)) /\ OfFeature(new, c, f)
    BY <1>6, AnswersChosen
  <1>11. \A p \in new : \E a \in answers : p.group = a[1]
    BY <1>6, PickedFields
  <1>12. WriteGrants(r, "grant", c, f, given, {}, new, 0)
    BY <1>3, <1>6
  <1>13. SeenCounts(req[r]) /\ \A q \in Requests : Published(req[q], req[r])
    BY DEF CountInv
  <1>14. /\ \A x \in t, y \in tree : x.kind = "group" /\ y.kind = "group" /\ x.id = y.id => y.id \in lowered \/ x.count <= y.count
         /\ \A q \in Requests : \A y \in req[q].put : y.kind = "group" =>
                \A x \in t : x.kind = "group" /\ x.id = y.id => IsGroup(y.id)
    BY <1>5, <1>13 DEF SeenCounts, Published
  <1> HIDE <1>1, <1>2, <1>3, <1>5, <1>6
  <1>15. ASSUME NEW x \in Features, NEW g \in GroupsOf(tree, x), Counts(x, g)
         PROVE  Cardinality(PicksIn(new, c, x, g.id)) <= g.count
    <2>0. g.count \in Nat
      BY RowsOf, GroupIs
    <2>1. CASE x # f
      <3>1. PicksIn(new, c, x, g.id) = {}
        BY <1>10, <2>1 DEF OfFeature
      <3> QED
        BY <2>0, <3>1, FS_EmptySet
    <2>2. CASE x = f
      <3>1. \A y \in GroupsOf(t, f) : y.id = g.id => y.count <= g.count
        BY <1>14, <1>15 DEF GroupsOf, Counts
      <3> QED
        BY <1>4, <1>8, <1>10, <2>2, <3>1, ChosenFits
    <2> QED
      BY <2>1, <2>2
  <1>16. ASSUME NEW p \in new, NEW q \in Requests, NEW y \in req[q].put, y.kind = "group", p.group = y.id
         PROVE  IsGroup(y.id)
    <2>1. PICK a \in answers : p.group = a[1]
      BY <1>11
    <2>2. \E x \in GroupsOf(t, f) : x.id = a[1]
      BY <1>8, <2>1, ValidGroups
    <2> QED
      BY <1>14, <1>16, <2>1, <2>2 DEF GroupsOf
  <1>17. ComesFit(c, new)
    BY <1>15, <1>16 DEF ComesFit
  <1> QED
    BY <1>4, <1>7, <1>9, <1>12, <1>17, WriteKeepsCounts DEF GrantOps

\* Of a feat's groups those that count get the answers, and nothing of the ASI.
CountedChosen(new, c, f, answers) ==
    \A g \in GroupsOf(tree, f) : Counts(f, g) => Chosen(new, c, f, g.id, answers)

LEMMA FeatPicksChosen ==
  ASSUME TreeInv, NEW c, NEW f \in Feats, NEW asi \in SUBSET AsiOptions(tree, f), NEW answers,
         NEW new, new = FeatPicks(c, f, asi, answers)
  PROVE  /\ CountedChosen(new, c, f, answers) /\ OfFeature(new, c, f)
         /\ \A p \in new : \E a \in answers \cup asi : p.group = a[1]
  <1>1. \A p : p \in new <=> \E a \in answers \cup {a \in asi : \A b \in answers : b[1] # a[1]} : p = Pick(c, f, a)
    BY DEF FeatPicks
  <1>2. \A a : Pick(c, f, a).char = c /\ Pick(c, f, a).feature = f /\ Pick(c, f, a).group = a[1]
    BY PickedFields
  <1>3. ASSUME NEW g \in GroupsOf(tree, f), Counts(f, g), NEW a \in asi
        PROVE  a[1] # g.id
    <2>1. g \in tree /\ g.kind = "group"
      BY DEF GroupsOf
    <2>2. a[1] = g.id => g.type = "ability"
      BY <2>1, AsiGroups
    <2> QED
      BY <1>3, <2>2 DEF Counts
  <1>4. ASSUME NEW g \in GroupsOf(tree, f), Counts(f, g)
        PROVE  Chosen(new, c, f, g.id, answers)
    <2>1. \A p : p \in PicksIn(new, c, f, g.id) <=> p \in new /\ p.char = c /\ p.feature = f /\ p.group = g.id
      BY DEF PicksIn, PicksOf
    <2>2. \A a \in asi : a[1] # g.id
      BY <1>3, <1>4
    <2> QED
      BY <1>1, <1>2, <2>1, <2>2 DEF Chosen
  <1>5. OfFeature(new, c, f)
    BY <1>1, <1>2 DEF OfFeature, PicksIn, PicksOf
  <1>6. \A p \in new : \E a \in answers \cup asi : p.group = a[1]
    BY <1>1, <1>2
  <1> QED
    BY <1>4, <1>5, <1>6 DEF CountedChosen

\* Answers on the tree stored.
LEMMA StoredAnswersFit ==
  ASSUME TreeInv, NEW c, NEW f \in Features, NEW answers \in {{}} \cup Answers(tree, f),
         NEW g \in GroupsOf(tree, f), NEW new, Chosen(new, c, f, g.id, answers)
  PROVE  Cardinality(PicksIn(new, c, f, g.id)) <= g.count
  <1>1. tree \in SUBSET AllRows
    BY DEF AllRows
  <1>2. g.count \in Nat
    BY <1>1, GroupIs
  <1>3. \A y \in GroupsOf(tree, f) : y.id = g.id => y.count <= g.count
    <2> SUFFICES ASSUME NEW y \in GroupsOf(tree, f), y.id = g.id PROVE y.count <= g.count
      OBVIOUS
    <2>1. y = g
      BY OneRow DEF GroupsOf
    <2> QED
      BY <1>2, <2>1
  <1> QED
    BY <1>1, <1>3, ChosenFits

LEMMA AddFeatKeepsCounts ==
  ASSUME TreeInv, GrantInv, CountInv, ReqType, NEW r \in Requests, AddFeat(r)
  PROVE  CountInv'
  <1>1. PICK c \in Characters : \E f \in Feats \ Granted(grants, c) :
         \E asi \in OneOrNone(AsiOptions(tree, f)) :
         \E answers \in IF flags[f].choices THEN Answers(tree, f) ELSE {{}} :
            WriteGrants(r, "grant", c, f, Synced(c, level[c], [x \in {f} |-> "GM"]).given,
                            Synced(c, level[c], [x \in {f} |-> "GM"]).gone, FeatPicks(c, f, asi, answers), 0)
    BY AddFeatWrites
  <1>2. PICK f \in Feats \ Granted(grants, c) :
         \E asi \in OneOrNone(AsiOptions(tree, f)) :
         \E answers \in IF flags[f].choices THEN Answers(tree, f) ELSE {{}} :
            WriteGrants(r, "grant", c, f, Synced(c, level[c], [x \in {f} |-> "GM"]).given,
                            Synced(c, level[c], [x \in {f} |-> "GM"]).gone, FeatPicks(c, f, asi, answers), 0)
    BY <1>1
  <1>3. PICK asi \in OneOrNone(AsiOptions(tree, f)), answers \in IF flags[f].choices THEN Answers(tree, f) ELSE {{}} :
            WriteGrants(r, "grant", c, f, Synced(c, level[c], [x \in {f} |-> "GM"]).given,
                            Synced(c, level[c], [x \in {f} |-> "GM"]).gone, FeatPicks(c, f, asi, answers), 0)
    BY <1>2
  <1>4. PICK one, synced, new : /\ one = [x \in {f} |-> "GM"] /\ synced = Synced(c, level[c], one)
                                /\ new = FeatPicks(c, f, asi, answers)
    OBVIOUS
  <1>5. f \in Features /\ grants[c][f] = ""
    BY EngineAssumption DEF Granted
  <1>6. Gives(c, one) /\ f \in DOMAIN one
    BY <1>4, <1>5, GivesOne
  <1>7. Gives(c, synced.given) /\ Takes(c, synced.gone) /\ f \in DOMAIN synced.given
    BY <1>4, <1>6, SyncedIs
  <1>8. asi \in SUBSET AsiOptions(tree, f) /\ answers \in {{}} \cup Answers(tree, f)
    BY DEF OneOrNone
  <1>9. Comes(c, synced.given, new)
    BY <1>4, <1>5, <1>7, <1>8, FeatPicksCome
  <1>10. WriteGrants(r, "grant", c, f, synced.given, synced.gone, new, 0)
    BY <1>3, <1>4
  <1>11. /\ CountedChosen(new, c, f, answers) /\ OfFeature(new, c, f)
         /\ \A p \in new : \E a \in answers \cup asi : p.group = a[1]
    <2>1. new = FeatPicks(c, f, asi, answers)
      BY <1>4
    <2>2. f \in Feats /\ asi \in SUBSET AsiOptions(tree, f)
      BY <1>8
    <2> HIDE <1>3
    <2> QED
      BY <2>1, <2>2, FeatPicksChosen
  <1> HIDE <1>3, <1>4
  <1>12. ASSUME NEW x \in Features, NEW g \in GroupsOf(tree, x), Counts(x, g)
         PROVE  Cardinality(PicksIn(new, c, x, g.id)) <= g.count
    <2>1. CASE x # f
      <3>0. g.count \in Nat
        BY RowsOf, GroupIs
      <3>1. PicksIn(new, c, x, g.id) = {}
        BY <1>11, <2>1 DEF OfFeature
      <3> QED
        BY <3>0, <3>1, FS_EmptySet
    <2>2. CASE x = f
      <3>1. Chosen(new, c, f, g.id, answers)
        BY <1>11, <1>12, <2>2 DEF CountedChosen
      <3> QED
        BY <1>5, <1>8, <2>2, <3>1, StoredAnswersFit
    <2> QED
      BY <2>1, <2>2
  <1>13. \A p \in new : IsGroup(p.group)
    <2> SUFFICES ASSUME NEW p \in new PROVE IsGroup(p.group)
      OBVIOUS
    <2>1. PICK a \in answers \cup asi : p.group = a[1]
      BY <1>11
    <2>2. CASE a \in asi
      BY <1>8, <2>1, <2>2, AsiIsGroup
    <2>3. CASE a \in answers
      <3>1. \E x \in GroupsOf(tree, f) : x.id = a[1]
        BY <1>8, <2>3, ValidGroups
      <3> QED
        BY <2>1, <3>1 DEF IsGroup, GroupsOf
    <2> QED
      BY <2>2, <2>3
  <1>14. ComesFit(c, new)
    BY <1>12, <1>13 DEF ComesFit
  <1> QED
    BY <1>7, <1>9, <1>10, <1>14, WriteKeepsCounts DEF GrantOps

LEMMA LevelUpKeepsCounts ==
  ASSUME TreeInv, GrantInv, CountInv, ReqType, NEW r \in Requests, LevelUp(r)
  PROVE  CountInv'
  <1>1. PICK c \in Characters : \E feat, asi, answers, new : Leveled(r, c, feat, asi, answers, new)
    BY LevelUpWrites
  <1>2. PICK feat, asi, answers, new : Leveled(r, c, feat, asi, answers, new)
    BY <1>1
  <1>3. PICK one, synced : one = [f \in feat |-> "ASI"] /\ synced = Synced(c, level[c] + 1, one)
    OBVIOUS
  <1>4. /\ feat \in OneOrNone(Feats \ Granted(grants, c))
        /\ asi \in OneOrNone(UNION {AsiOptions(tree, f) : f \in feat})
        /\ \A f \in DOMAIN synced.given : answers[f] \in Answers(tree, f)
        /\ new = UNION ({FeatPicks(c, f, asi, answers[f]) : f \in feat}
                        \cup {{Pick(c, f, a) : a \in answers[f]} : f \in DOMAIN synced.given \ feat})
        /\ Resolved(c, synced.given, new)
        /\ WriteGrants(r, "level", c, "", synced.given, synced.gone, new, level[c] + 1)
    BY <1>2, <1>3 DEF Leveled
  <1>5. Gives(c, one) /\ DOMAIN one = feat /\ feat \subseteq Feats
    BY <1>3, <1>4, EngineAssumption DEF Gives, OneOrNone, Granted
  <1>6. Gives(c, synced.given) /\ feat \subseteq DOMAIN synced.given
    BY <1>3, <1>5, SyncedIs
  <1>7. DOMAIN synced.given \subseteq Features
    BY <1>6 DEF Gives
  <1>8. ASSUME NEW f \in feat
        PROVE  asi \in SUBSET AsiOptions(tree, f)
    <2>1. feat = {f}
      BY <1>4 DEF OneOrNone
    <2>2. UNION {AsiOptions(tree, x) : x \in feat} = AsiOptions(tree, f)
      BY <2>1
    <2>3. asi \in OneOrNone(AsiOptions(tree, f))
      BY <1>4, <2>2
    <2> QED
      BY <2>3 DEF OneOrNone
  \* The picks of each feature.
  <1> DEFINE part(f) == IF f \in feat THEN FeatPicks(c, f, asi, answers[f]) ELSE {Pick(c, f, a) : a \in answers[f]}
  <1>9. \A p : p \in new <=> \E f \in DOMAIN synced.given : p \in part(f)
    BY <1>4, <1>6
  <1>10. ASSUME NEW f \in DOMAIN synced.given
         PROVE  /\ CountedChosen(part(f), c, f, answers[f]) /\ OfFeature(part(f), c, f)
                /\ Comes(c, synced.given, part(f)) /\ \A p \in part(f) : IsGroup(p.group)
    <2>1. answers[f] \in Answers(tree, f) /\ f \in Features /\ tree \in SUBSET AllRows
      BY <1>4, <1>7, RowsOf
    <2>2. \A a \in answers[f] : IsGroup(a[1])
      BY <2>1, ValidGroups DEF IsGroup, GroupsOf
    <2>3. CASE f \in feat
      <3>1. PICK here : here = FeatPicks(c, f, asi, answers[f])
        OBVIOUS
      <3>2. /\ CountedChosen(here, c, f, answers[f]) /\ OfFeature(here, c, f)
            /\ \A p \in here : \E a \in answers[f] \cup asi : p.group = a[1]
        BY <1>5, <1>8, <2>3, <3>1, FeatPicksChosen
      <3>3. \A a \in asi : IsGroup(a[1])
        BY <1>8, <2>3, AsiIsGroup
      <3>4. Comes(c, synced.given, here)
        BY <1>8, <2>1, <2>3, <3>1, FeatPicksCome
      <3>5. \A p \in here : IsGroup(p.group)
        BY <2>2, <3>2, <3>3
      <3>6. part(f) = here
        BY <2>3, <3>1
      <3> QED
        BY <3>2, <3>4, <3>5, <3>6
    <2>4. CASE f \notin feat
      <3>1. PICK here : here = {Pick(c, f, a) : a \in answers[f]}
        OBVIOUS
      <3>2. CountedChosen(here, c, f, answers[f]) /\ OfFeature(here, c, f)
        BY <3>1, AnswersChosen DEF CountedChosen
      <3>3. \A p \in here : IsGroup(p.group)
        BY <2>2, <3>1, PickedFields
      <3>4. Comes(c, synced.given, here)
        BY <2>1, <3>1, AnswersCome
      <3>5. part(f) = here
        BY <2>4, <3>1
      <3> QED
        BY <3>2, <3>3, <3>4, <3>5
    <2> QED
      BY <2>3, <2>4
  <1> HIDE DEF part
  <1>11. Comes(c, synced.given, new)
    BY <1>9, <1>10 DEF Comes
  <1>12. ASSUME NEW x \in Features, NEW g \in GroupsOf(tree, x), Counts(x, g)
         PROVE  Cardinality(PicksIn(new, c, x, g.id)) <= g.count
    <2>1. \A p : p \in PicksIn(new, c, x, g.id) <=> \E f \in DOMAIN synced.given : p \in PicksIn(part(f), c, x, g.id)
      BY <1>9 DEF PicksIn, PicksOf
    <2>2. CASE x \notin DOMAIN synced.given
      <3>0. g.count \in Nat
        BY RowsOf, GroupIs
      <3>1. PicksIn(new, c, x, g.id) = {}
        BY <1>10, <2>1, <2>2 DEF OfFeature
      <3> QED
        BY <3>0, <3>1, FS_EmptySet
    <2>3. CASE x \in DOMAIN synced.given
      <3>1. PicksIn(new, c, x, g.id) = PicksIn(part(x), c, x, g.id)
        BY <1>10, <2>1, <2>3 DEF OfFeature
      <3>2. Chosen(part(x), c, x, g.id, answers[x]) /\ answers[x] \in Answers(tree, x)
        BY <1>4, <1>10, <1>12, <2>3 DEF CountedChosen
      <3>3. Cardinality(PicksIn(part(x), c, x, g.id)) <= g.count
        BY <3>2, StoredAnswersFit
      <3> QED
        BY <3>1, <3>3
    <2> QED
      BY <2>2, <2>3
  <1>13. ComesFit(c, new)
    BY <1>9, <1>10, <1>12 DEF ComesFit
  <1>14. ASSUME NEW x \in DOMAIN synced.given
         PROVE  Pending(tree, new, c, x) = {}
    <2>1. flags = [f \in Features |-> Flags(tree, f)]
      BY DEF GrantInv, Tables
    <2>2. flags[x].choices <=> GroupsOf(tree, x) # {}
      BY <1>7, <2>1 DEF Flags
    <2> QED
      BY <1>4, <2>2 DEF Resolved, Pending
  <1>15. WriteGrants(r, "level", c, "", synced.given, synced.gone, new, level[c] + 1)
    BY <1>4
  <1> HIDE <1>2, <1>3, <1>4
  <1> QED
    BY <1>6, <1>11, <1>13, <1>14, <1>15, WriteKeepsCounts DEF GrantOps
-----------------------------------------------------------------------------
(* Counts: the commit.                                                     *)

\* Two requests do not pick in one group of one character, where it counts.
LEMMA PicksApart ==
  ASSUME GrantInv, CountInv, NEW r \in Requests, NEW q \in Requests, q # r, req[r].step = "store",
         NEW c, NEW f, NEW z \in GroupsOf(tree, f), Counts(f, z), PicksIn(req[q].pick, c, f, z.id) # {}
  PROVE  PicksIn(req[r].pick, c, f, z.id) = {}
  <1> SUFFICES ASSUME NEW p1 \in req[q].pick, p1.char = c, p1.feature = f, p1.group = z.id,
                      NEW p2 \in req[r].pick, p2.char = c, p2.feature = f, p2.group = z.id
               PROVE  FALSE
    BY DEF PicksIn, PicksOf
  <1>1. PICK me, you : me = req[r] /\ you = req[q]
    OBVIOUS
  <1>2. /\ SoundRecord(me, grants) /\ SoundRecord(you, grants) /\ Apart(me, you) /\ Apart(you, me)
        /\ AsiOnly(me) /\ AsiOnly(you) /\ me.step = "store"
        /\ p1 \in you.pick /\ p2 \in me.pick
        /\ me.char = c /\ you.char = c
    BY <1>1 DEF GrantInv, CountInv, NewPick
  <1> HIDE <1>1
  <1>3. me.op \in PickOps \cup GrantOps /\ you.op \in PickOps \cup GrantOps
    BY <1>2, NoWorkFields DEF SoundRecord
  <1>4. z \in tree /\ z.kind = "group"
    BY DEF GroupsOf
  <1>5. me.op \in PickOps => me.feature = f /\ grants[c][f] # ""
    BY <1>2 DEF SoundRecord
  <1>6. you.op \in PickOps => you.feature = f /\ grants[c][f] # ""
    BY <1>2 DEF SoundRecord
  <1>7. me.op \in GrantOps => f \in DOMAIN me.grant /\ grants[c][f] = ""
    BY ZenonT(40), <1>2 DEF SoundRecord
  <1>8. you.op \in GrantOps => f \in DOMAIN you.grant /\ grants[c][f] = "" /\ you.step # "loaded"
    BY ZenonT(40), <1>2 DEF SoundRecord
  <1>9. me.op # "asi" /\ you.op # "asi"
    <2>1. me.op = "asi" => f \in Feats /\ z.type = "ability"
      BY <1>2, <1>4, <1>5 DEF AsiOnly, PickOps
    <2>2. you.op = "asi" => f \in Feats /\ z.type = "ability"
      BY <1>2, <1>4, <1>6 DEF AsiOnly, PickOps
    <2> QED
      BY <2>1, <2>2 DEF Counts
  <1>10. CASE me.op \in GrantOps /\ you.op \in GrantOps
    BY <1>2, <1>8, <1>10 DEF Apart, GrantOps, CharacterOps
  <1>11. CASE me.op = "answer" /\ you.op = "answer"
    BY <1>2, <1>5, <1>6, <1>11 DEF Apart, PickOps
  <1> QED
    BY <1>3, <1>5, <1>6, <1>7, <1>8, <1>9, <1>10, <1>11 DEF PickOps

\* A group somebody knew before the commit, and that still counts after it,
\* asks for no less.
LEMMA GroupBefore ==
  ASSUME TreeInv, TreeInv', ReqType, NEW r \in Requests, StoreTotals(r),
         NEW f, NEW g \in GroupsOf(tree', f), IsGroup(g.id)
  PROVE  \E z \in GroupsOf(tree, f) :
             /\ z.id = g.id /\ z.type = g.type
             /\ g.id \notin lowered' => z.id \notin lowered /\ z.count <= g.count
  <1>1. PICK z \in tree : z.kind = "group" /\ z.id = g.id
    BY DEF IsGroup
  <1>2. tree' = After(r) /\ g \in tree' /\ g.kind = "group" /\ g.feature = f
    BY StoreShape DEF GroupsOf
  <1>3. z \in AllRows /\ g \in AllRows
    <2>1. After(r) \subseteq AllRows /\ tree \subseteq AllRows
      BY RowsOf
    <2> QED
      BY <1>2, <2>1
  <1>4. z.feature = f /\ z.type = g.type
    <2>1. Alike(z, g)
      BY <1>3 DEF TreeInv, RowsSound
    <2> QED
      BY <1>1, <1>2, <2>1 DEF Alike
  <1>5. z.count \in Nat /\ g.count \in Nat
    <2>1. z \in Rows(ids) /\ g \in Rows(ids)
      BY <1>3 DEF TreeInv, RowsSound
    <2> QED
      BY <1>1, <1>2, <2>1, RowFields
  <1>6. ASSUME g.id \notin lowered'
        PROVE  z.id \notin lowered /\ z.count <= g.count
    <2>1. lowered' = lowered \cup {x.id : x \in {x \in req[r].cut : \E y \in req[r].put :
                          x.kind = "group" /\ y.kind = "group" /\ x.id = y.id /\ y.count < x.count}}
      BY DEF StoreTotals
    <2>2. CASE z \in tree'
      <3>1. Once(tree)'
        BY DEF TreeInv
      <3>2. z = g
        BY <1>1, <1>2, <2>2, <3>1 DEF Once
      <3> QED
        BY <1>5, <1>6, <2>1, <3>2
    <2>3. CASE z \notin tree'
      <3>1. z \in req[r].cut
        BY <1>2, <2>3 DEF After, Result
      <3>2. g \in req[r].put
        BY <1>1, <1>2, <2>3, OneRow DEF After, Result
      <3> QED
        BY <1>1, <1>2, <1>5, <1>6, <2>1, <3>1, <3>2
    <2> QED
      BY <2>2, <2>3
  <1> QED
    BY <1>1, <1>4, <1>6 DEF GroupsOf

\* A group that is being changed is not taken away by another request's commit.
LEMMA GroupStays ==
  ASSUME TreeInv, ReqType, NEW r \in Requests, StoreTotals(r), NEW q \in Requests, q # r,
         NEW y \in req[q].put, y.kind = "group", NEW z \in tree, z.kind = "group", z.id = y.id
  PROVE  z \in tree'
  <1>1. /\ req[q].op = "edit" /\ req[q].feature \in Features
        /\ BelongsTo(tree \cup req[q].put, y, req[q].feature)
    BY DEF TreeInv, SoundEdit, SoundWrite
  <1>2. y.feature = req[q].feature
    BY <1>1 DEF BelongsTo
  <1>3. z \in AllRows /\ y \in AllRows
    BY DEF AllRows
  <1>4. z.feature = req[q].feature
    <2>1. Alike(z, y)
      BY <1>3 DEF TreeInv, RowsSound
    <2> QED
      BY <1>2, <2>1 DEF Alike
  <1>5. req[r].op = "edit" => req[r].feature # req[q].feature
    BY <1>1 DEF TreeInv, EditsApart
  <1>6. BelongsTo(AllRows, z, req[q].feature) /\ AllRows \in SUBSET AllRows
    BY <1>4, GroupBelongs
  <1>7. z \in After(r)
    BY <1>1, <1>5, <1>6, Elsewhere
  <1> QED
    BY <1>7, StoreShape

\* Nothing is picked in a group nobody knew.
LEMMA NothingInNew ==
  ASSUME GrantInv, TreeInv, NEW n, ~IsGroup(n), NEW c, NEW f
  PROVE  PicksIn(picks, c, f, n) = {}
  <1> SUFFICES ASSUME NEW p \in picks, p.group = n PROVE FALSE
    BY DEF PicksIn, PicksOf
  <1>1. SoundPick(p, AllRows, ids) /\ Names(p) \subseteq RowIds(tree)
    BY DEF GrantInv, StoredPick
  <1>2. PICK x \in tree : x.kind # "effect" /\ x.id = n
    BY <1>1 DEF Names, RowIds
  <1>3. x \in AllRows
    BY DEF AllRows
  <1>4. x.kind = "group"
    BY <1>1, <1>2, <1>3 DEF SoundPick
  <1> QED
    BY <1>2, <1>4 DEF IsGroup

LEMMA StoreKeepsCounts ==
  ASSUME TreeInv, TreeInv', GrantInv, CountInv, ReqType, NEW r \in Requests, StoreTotals(r)
  PROVE  CountInv'
  <1>1. PICK me : me = req[r]
    OBVIOUS
  <1>2. /\ me.step = "store" /\ req'[r] = NoWork /\ tree' = After(r)
        /\ picks' = (picks \ me.unpick) \cup me.pick
    <2>1. picks' = (picks \ me.unpick) \cup me.pick
      BY <1>1 DEF StoreTotals
    <2> QED
      BY <1>1, <2>1, StoreShape
  <1>3. \A q \in Requests : q # r => Untouched(q)
    BY OthersUntouched
  <1>4. \A c, f, n : PicksIn(picks', c, f, n) = (PicksIn(picks, c, f, n) \ me.unpick) \cup PicksIn(me.pick, c, f, n)
    BY <1>2 DEF PicksIn, PicksOf
  <1>5. ASSUME NEW f \in Features, NEW g \in GroupsOf(tree', f)
        PROVE  g.count \in Nat
    <2>1. tree' \in SUBSET AllRows'
      BY DEF AllRows
    <2>2. g \in Rows(ids') /\ g.kind = "group"
      BY <2>1 DEF TreeInv, RowsSound, GroupsOf
    <2> QED
      BY <2>2, RowFields
  \* What is picked in a group that still counts, before and after.
  <1>6. ASSUME NEW f \in Features, NEW g \in GroupsOf(tree', f), Counts(f, g)', IsGroup(g.id)
        PROVE  \E z \in GroupsOf(tree, f) : z.id = g.id /\ Counts(f, z) /\ z.count <= g.count /\ z.count \in Nat
    <2>1. g.id \notin lowered' /\ ~(f \in Feats /\ g.type = "ability")
      BY <1>6 DEF Counts
    <2>2. PICK z \in GroupsOf(tree, f) : /\ z.id = g.id /\ z.type = g.type
                                         /\ z.id \notin lowered /\ z.count <= g.count
      BY <1>6, <2>1, GroupBefore
    <2>3. z.count \in Nat
      BY RowsOf, GroupIs
    <2> QED
      BY <2>1, <2>2, <2>3 DEF Counts
  <1>7. ASSUME NEW q \in Requests, NEW c, NEW f, NEW n, ~IsGroup(n), \E y \in me.put : y.kind = "group" /\ y.id = n
        PROVE  PicksIn(req[q].pick, c, f, n) = {}
    <2>1. Published(me, req[q])
      BY <1>1 DEF CountInv
    <2> QED
      BY <1>7, <2>1 DEF Published, PicksIn, PicksOf
  <1>8. ASSUME NEW f \in Features, NEW g \in GroupsOf(tree', f), ~IsGroup(g.id)
        PROVE  \E y \in me.put : y.kind = "group" /\ y.id = g.id
    BY <1>1, <1>2, <1>8 DEF GroupsOf, IsGroup, After, Result
  <1>9. ASSUME NEW c \in Characters, NEW f \in Features, NEW g \in GroupsOf(tree', f), Counts(f, g)'
        PROVE  Cardinality(PicksIn(picks', c, f, g.id)) <= g.count
    <2>1. CASE ~IsGroup(g.id)
      <3>1. PicksIn(picks, c, f, g.id) = {} /\ PicksIn(me.pick, c, f, g.id) = {}
        BY <1>1, <1>7, <1>8, <2>1, NothingInNew
      <3>2. PicksIn(picks', c, f, g.id) = {}
        BY <1>4, <3>1
      <3> QED
        BY <1>5, <3>2, FS_EmptySet
    <2>2. CASE IsGroup(g.id)
      <3>1. PICK z \in GroupsOf(tree, f) : z.id = g.id /\ Counts(f, z) /\ z.count <= g.count /\ z.count \in Nat
        BY <1>6, <1>9, <2>2
      <3>2. g.count \in Nat
        BY <1>5
      <3>3. CASE PicksIn(me.pick, c, f, g.id) = {}
        <4>1. Cardinality(PicksIn(picks, c, f, g.id)) <= z.count
          BY <3>1 DEF CountInv, NeverOverPicked, Counts
        <4>2. IsFiniteSet(PicksIn(picks, c, f, g.id))
          <5>1. \A p \in picks : SoundPick(p, AllRows, ids)
            BY DEF GrantInv, StoredPick
          <5>2. ids \in Nat
            BY DEF TreeInv, RowsSound
          <5> QED
            BY <5>1, <5>2, FinitePicks
        <4>3. PicksIn(picks', c, f, g.id) \subseteq PicksIn(picks, c, f, g.id)
          BY <1>4, <3>3
        <4>4. /\ Cardinality(PicksIn(picks', c, f, g.id)) \in Nat /\ Cardinality(PicksIn(picks, c, f, g.id)) \in Nat
              /\ Cardinality(PicksIn(picks', c, f, g.id)) <= Cardinality(PicksIn(picks, c, f, g.id))
          BY <4>2, <4>3, FewerPicks
        <4> QED
          BY <3>1, <3>2, <4>1, <4>4
      <3>4. CASE PicksIn(me.pick, c, f, g.id) # {}
        <4>1. me.char = c
          BY <1>1, <3>4 DEF GrantInv, NewPick, PicksIn, PicksOf
        <4>2. Fills(me, f, z)
          BY <1>1, <3>1 DEF CountInv, Bounded
        <4>3. Cardinality(PicksIn(me.pick, c, f, g.id)) <= z.count /\ PicksIn(picks, c, f, g.id) \subseteq me.unpick
          BY <3>1, <3>4, <4>1, <4>2 DEF Fills
        <4>4. PicksIn(picks', c, f, g.id) = PicksIn(me.pick, c, f, g.id)
          BY <1>4, <4>3
        <4>5. IsFiniteSet(PicksIn(me.pick, c, f, g.id))
          <5>1. \A p \in me.pick : SoundPick(p, AllRows, ids)
            BY <1>1 DEF GrantInv, NewPick
          <5>2. ids \in Nat
            BY DEF TreeInv, RowsSound
          <5> QED
            BY <5>1, <5>2, FinitePicks
        <4>6. Cardinality(PicksIn(me.pick, c, f, g.id)) \in Nat
          BY <4>5, FS_CardinalityType
        <4> QED
          BY <3>1, <3>2, <4>3, <4>4, <4>6
      <3> QED
        BY <3>3, <3>4
    <2> QED
      BY <2>1, <2>2
  <1>10. NeverOverPicked'
    BY <1>9 DEF NeverOverPicked, Counts, GroupsOf, PicksIn, PicksOf
  <1>11. ASSUME NEW q \in Requests, q # r
         PROVE  Bounded(req[q])'
    <2>1. PICK you : you = req[q]
      OBVIOUS
    <2>2. req'[q].pick = you.pick /\ req'[q].char = you.char /\ req'[q].unpick = you.unpick
      BY <1>3, <1>11, <2>1 DEF Untouched
    <2>3. ASSUME NEW f \in Features, NEW g \in GroupsOf(tree', f), Counts(f, g)'
          PROVE  /\ Cardinality(PicksIn(you.pick, you.char, f, g.id)) <= g.count
                 /\ PicksIn(you.pick, you.char, f, g.id) # {} => PicksIn(picks', you.char, f, g.id) \subseteq you.unpick
      <3>0. g.count \in Nat
        BY <1>5
      <3>1. CASE ~IsGroup(g.id)
        <4>1. PicksIn(you.pick, you.char, f, g.id) = {}
          BY <1>7, <1>8, <2>1, <3>1
        <4> QED
          BY <3>0, <4>1, FS_EmptySet
      <3>2. CASE IsGroup(g.id)
        <4>1. PICK z \in GroupsOf(tree, f) : z.id = g.id /\ Counts(f, z) /\ z.count <= g.count /\ z.count \in Nat
          BY <1>6, <2>3, <3>2
        <4>2. Fills(you, f, z)
          BY <2>1, <4>1 DEF CountInv, Bounded
        <4>3. PicksIn(you.pick, you.char, f, g.id) # {} => PicksIn(me.pick, you.char, f, g.id) = {}
          BY <1>1, <1>2, <1>11, <2>1, <4>1, PicksApart
        <4>4. PicksIn(you.pick, you.char, f, g.id) # {} => PicksIn(picks', you.char, f, g.id) \subseteq you.unpick
          BY <1>4, <4>1, <4>2, <4>3 DEF Fills
        <4>5. IsFiniteSet(PicksIn(you.pick, you.char, f, g.id))
          <5>1. \A p \in you.pick : SoundPick(p, AllRows, ids)
            BY <2>1 DEF GrantInv, NewPick
          <5>2. ids \in Nat
            BY DEF TreeInv, RowsSound
          <5> QED
            BY <5>1, <5>2, FinitePicks
        <4>6. Cardinality(PicksIn(you.pick, you.char, f, g.id)) \in Nat
          BY <4>5, FS_CardinalityType
        <4>7. Cardinality(PicksIn(you.pick, you.char, f, g.id)) <= z.count
          BY <4>1, <4>2 DEF Fills
        <4>8. Cardinality(PicksIn(you.pick, you.char, f, g.id)) <= g.count
          BY <3>0, <4>1, <4>6, <4>7
        <4> QED
          BY <4>4, <4>8
      <3> QED
        BY <3>1, <3>2
    <2> HIDE <2>1
    <2> QED
      BY <2>2, <2>3 DEF Bounded, Fills, Counts, GroupsOf, PicksIn, PicksOf
  \* The other requests' own reading of the tree.
  <1>12. ASSUME NEW q \in Requests, q # r
         PROVE  SeenCounts(req[q])'
    <2>1. req'[q].seen = req[q].seen
      BY <1>3, <1>12 DEF Untouched
    <2>2. SUFFICES ASSUME NEW x \in req[q].seen, NEW y \in tree', x.kind = "group", y.kind = "group", x.id = y.id,
                          y.id \notin lowered'
                   PROVE  x.count <= y.count
      BY <2>1 DEF SeenCounts
    <2>3. IsGroup(y.id)
      <3>1. CASE y \in tree
        BY <2>2, <3>1 DEF IsGroup
      <3>2. CASE y \in me.put
        <4>1. Published(me, req[q])
          BY <1>1 DEF CountInv
        <4> QED
          BY <2>2, <3>2, <4>1 DEF Published
      <3> QED
        BY <1>1, <1>2, <3>1, <3>2 DEF After, Result
    <2>4. y \in GroupsOf(tree', y.feature)
      BY <2>2 DEF GroupsOf
    <2>5. PICK z \in GroupsOf(tree, y.feature) : z.id = y.id /\ z.id \notin lowered /\ z.count <= y.count
      BY <2>2, <2>3, <2>4, GroupBefore
    <2>6. z \in tree /\ z.kind = "group"
      BY DEF GroupsOf
    <2>7. x.count <= z.count
      BY <2>2, <2>5, <2>6 DEF CountInv, SeenCounts
    <2>8. x.count \in Nat /\ y.count \in Nat /\ z.count \in Nat
      <3>1. x \in AllRows /\ z \in AllRows /\ y \in AllRows
        <4>1. After(r) \subseteq AllRows
          BY RowsOf
        <4> QED
          BY <1>2, <2>6, <4>1 DEF AllRows
      <3>2. x \in Rows(ids) /\ z \in Rows(ids) /\ y \in Rows(ids)
        BY <3>1 DEF TreeInv, RowsSound
      <3> QED
        BY <2>2, <2>6, <3>2, RowFields
    <2> QED
      BY <2>5, <2>7, <2>8
  <1>13. ASSUME NEW q \in Requests, q # r
         PROVE  AsiOnly(req[q])'
    <2>1. Untouched(q) /\ AsiOnly(req[q]) /\ Published(me, req[q])
      BY <1>1, <1>3, <1>13 DEF CountInv
    <2>2. SUFFICES ASSUME req[q].op = "asi"
                   PROVE  /\ req[q].feature \in Feats
                          /\ \A p \in req[q].pick : \A x \in tree' : x.kind = "group" /\ x.id = p.group => x.type = "ability"
      BY <2>1 DEF AsiOnly, Untouched
    <2>3. ASSUME NEW p \in req[q].pick, NEW x \in tree', x.kind = "group", x.id = p.group
          PROVE  x.type = "ability"
      <3>1. IsGroup(x.id)
        <4>1. CASE x \in tree
          BY <2>3, <4>1 DEF IsGroup
        <4>2. CASE x \in me.put
          BY <2>1, <2>3, <4>2 DEF Published
        <4> QED
          BY <1>1, <1>2, <4>1, <4>2 DEF After, Result
      <3>2. x \in GroupsOf(tree', x.feature)
        BY <2>3 DEF GroupsOf
      <3>3. PICK z \in GroupsOf(tree, x.feature) : z.id = x.id /\ z.type = x.type
        BY <3>1, <3>2, GroupBefore
      <3>4. z.type = "ability"
        BY <2>1, <2>2, <2>3, <3>3 DEF AsiOnly, GroupsOf
      <3> QED
        BY <3>3, <3>4
    <2> QED
      BY <2>1, <2>2, <2>3 DEF AsiOnly
  <1>14. ASSUME NEW q \in Requests, q # r
         PROVE  Answered(req[q])'
    <2>1. Untouched(q) /\ Answered(req[q]) /\ SoundRecord(req[q], grants) /\ Apart(me, req[q])
      BY <1>1, <1>3, <1>14 DEF CountInv, GrantInv
    <2>2. SUFFICES ASSUME req[q].step = "store", req[q].op = "level", NEW f \in DOMAIN req[q].grant
                   PROVE  Pending(tree', req[q].pick, req[q].char, f) = {}
      BY <2>1 DEF Answered, Untouched, Pending, PicksIn, PicksOf, GroupsOf
    <2>3. f \in Features /\ (req[r].op = "edit" => req[r].feature # f)
      BY <1>1, <2>1, <2>2 DEF SoundRecord, GrantOps, Apart
    <2>4. \A x : x.kind = "group" /\ x.feature = f => (x \in tree <=> x \in After(r))
      <3>1. AllRows \in SUBSET AllRows
        OBVIOUS
      <3> QED
        BY <2>3, <3>1, Elsewhere, GroupBelongs
    <2>5. GroupsOf(tree', f) = GroupsOf(tree, f)
      BY <1>2, <2>4 DEF GroupsOf
    <2>6. Pending(tree, req[q].pick, req[q].char, f) = {}
      BY <2>1, <2>2 DEF Answered
    <2> QED
      BY <2>5, <2>6 DEF Pending
  <1>15. ASSUME NEW q \in Requests, NEW s \in Requests
         PROVE  Published(req[q], req[s])'
    <2>1. CASE q = r \/ s = r
      BY <1>2, <2>1, NoWorkFields DEF Published
    <2>2. CASE q # r /\ s # r
      <3>1. Untouched(q) /\ Untouched(s) /\ Published(req[q], req[s])
        BY <1>3, <2>2 DEF CountInv
      <3>2. ASSUME NEW y \in req[q].put, y.kind = "group", IsGroup(y.id)
            PROVE  \E x \in tree' : x.kind = "group" /\ x.id = y.id
        BY <2>2, <3>2, GroupStays DEF IsGroup
      <3> QED
        BY <3>1, <3>2 DEF Published, Untouched, IsGroup
    <2> QED
      BY <2>1, <2>2
  <1>16. AsiOnly(req[r])' /\ Bounded(req[r])' /\ SeenCounts(req[r])' /\ Answered(req[r])'
    <2>1. /\ req'[r].op = "" /\ req'[r].pick = {} /\ req'[r].seen = {} /\ req'[r].step = "idle"
      BY <1>2, NoWorkFields
    <2>2. Bounded(req[r])'
      <3>1. \A f \in Features : \A g \in GroupsOf(tree', f) :
                Cardinality(PicksIn(req'[r].pick, req'[r].char, f, g.id)) <= g.count
        <4> TAKE f \in Features
        <4> TAKE g \in GroupsOf(tree', f)
        <4>1. PicksIn(req'[r].pick, req'[r].char, f, g.id) = {}
          BY <2>1 DEF PicksIn, PicksOf
        <4> QED
          BY <1>5, <4>1, FS_EmptySet
      <3> QED
        BY <2>1, <3>1 DEF Bounded, Fills, PicksIn, PicksOf, GroupsOf
    <2> QED
      BY <2>1, <2>2 DEF AsiOnly, SeenCounts, Answered
  <1> QED
    BY <1>10, <1>11, <1>12, <1>13, <1>14, <1>15, <1>16 DEF CountInv

LEMMA InitCountInv ==
  ASSUME EngineInit, TreeInv
  PROVE  CountInv
  <1>1. picks = {} /\ \A r \in Requests : req[r] = NoWork
    BY DEF EngineInit
  <1>2. NeverOverPicked
    <2> SUFFICES ASSUME NEW c \in Characters, NEW f \in Features, NEW g \in GroupsOf(tree, f)
                 PROVE  Cardinality(PicksIn(picks, c, f, g.id)) <= g.count
      BY DEF NeverOverPicked
    <2>1. PicksIn(picks, c, f, g.id) = {}
      BY <1>1 DEF PicksIn, PicksOf
    <2>2. g.count \in Nat
      BY RowsOf, GroupIs DEF AllRows
    <2> QED
      BY <2>1, <2>2, FS_EmptySet
  <1>3. AsiOnly(NoWork) /\ SeenCounts(NoWork) /\ Answered(NoWork) /\ Published(NoWork, NoWork)
    BY NoWorkFields DEF AsiOnly, SeenCounts, Answered, Published
  <1>4. Bounded(NoWork)
    BY NoPicksFill, NoWorkFields
  <1> QED
    BY <1>1, <1>2, <1>3, <1>4 DEF CountInv

LEMMA NextKeepsCounts ==
  ASSUME TreeInv, ReqType, GrantInv, CountInv, [EngineNext]_engineVars
  PROVE  CountInv'
  <1>1. TreeInv'
    BY NextKeepsTree
  <1>2. ASSUME NEW r \in Requests, GmEdits(r)
        PROVE  CountInv'
    BY <1>1, <1>2, GmEditsKeepGrants, EditStepKeepsCounts
  <1>3. ASSUME NEW r \in Requests, PlayerAnswers(r)
        PROVE  CountInv'
    BY <1>1, <1>3, AnswerKeepsCounts, InsertKeepsCounts DEF PlayerAnswers
  <1>4. ASSUME NEW r \in Requests, FeatureGrants(r)
        PROVE  CountInv'
    BY <1>1, <1>4, LoadKeepsCounts, AddFeatureKeepsCounts, RemoveFeatureKeepsCounts DEF FeatureGrants
  <1>5. ASSUME NEW r \in Requests, FeatGrants(r)
        PROVE  CountInv'
    BY <1>1, <1>5, AddFeatKeepsCounts, UpdateFeatKeepsCounts, RemoveFeatKeepsCounts DEF FeatGrants
  <1>6. ASSUME NEW r \in Requests, LevelUp(r) \/ StoreTotals(r) \/ Abort(r)
        PROVE  CountInv'
    BY <1>1, <1>6, LevelUpKeepsCounts, StoreKeepsCounts, AbortKeepsCounts
  <1>7. CASE UNCHANGED engineVars
    <2>1. tree' = tree /\ req' = req /\ picks' = picks /\ lowered' = lowered
      BY <1>7 DEF engineVars
    <2> QED
      BY <2>1 DEF CountInv, NeverOverPicked, AsiOnly, Bounded, SeenCounts, Answered, Published, Fills, Counts,
         IsGroup, GroupsOf, PicksIn, PicksOf, Pending
  <1> QED
    BY <1>2, <1>3, <1>4, <1>5, <1>6, <1>7 DEF EngineNext

\* characters/grants, gm_panel/features and progression: whatever answers, level-ups, grants
\* and edits meet, a group holds no more picks than it asks for, other than those a GM has
\* lowered and the ability groups of feats.
THEOREM GroupsNeverOverPicked == EngineSpec => []NeverOverPicked
  <1>1. EngineInit => TreeInv /\ ReqType /\ GrantInv /\ CountInv
    BY InitTreeInv, InitGrantInv, InitCountInv
  <1>2. TreeInv /\ ReqType /\ GrantInv /\ CountInv /\ [EngineNext]_engineVars
        => (TreeInv /\ ReqType /\ GrantInv /\ CountInv)'
    BY NextKeepsTree, NextKeepsGrants, NextKeepsCounts
  <1>3. CountInv => NeverOverPicked
    BY DEF CountInv
  <1> QED
    BY <1>1, <1>2, <1>3, PTL DEF EngineSpec
-----------------------------------------------------------------------------
(* The theorem of level-ups.                                               *)

\* Only a commit changes what is stored.
LEMMA OnlyCommitsWrite ==
  ASSUME TreeInv, TreeInv', GrantInv, ReqType, [EngineNext]_engineVars
  PROVE  level' = level \/ \E r \in Requests : StoreTotals(r)
  <1>1. ASSUME NEW r \in Requests, GmEdits(r)
        PROVE  level' = level
    BY <1>1, GmEditsKeepGrants DEF EditStep
  <1>2. ASSUME NEW r \in Requests, PlayerAnswers(r) \/ LoadFeature(r) \/ UpdateFeat(r) \/ Abort(r)
        PROVE  level' = level
    <2>1. PICK w : Turns(r, w)
      BY <1>2, AnswerTurns, InsertTurns, LoadTurns, UpdateFeatTurns, AbortTurns DEF PlayerAnswers
    <2> QED
      BY <2>1 DEF Turns
  <1>3. ASSUME NEW r \in Requests, AddFeature(r) \/ RemoveFeature(r) \/ AddFeat(r) \/ RemoveFeat(r) \/ LevelUp(r)
        PROVE  level' = level
    <2>1. \E op, c, f, given, gone, new, lvl : WriteGrants(r, op, c, f, given, gone, new, lvl)
      BY ZenonT(40), <1>3, AddFeatureWrites, RemoveFeatureWrites, AddFeatWrites, RemoveFeatWrites, LevelUpWrites DEF Leveled
    <2> QED
      BY <2>1, WriteTurns DEF Turns
  <1>4. CASE UNCHANGED engineVars
    BY <1>4 DEF engineVars
  <1> QED
    BY <1>1, <1>2, <1>3, <1>4 DEF EngineNext, FeatureGrants, FeatGrants

LEMMA NoLess ==
  ASSUME NEW a \in Nat, NEW b \in Nat, NEW k \in Nat, a <= b, ~(a < k)
  PROVE  ~(b < k)
  OBVIOUS

LEMMA LevelUpResolves ==
  ASSUME TreeInv, ReqType, GrantInv, GrantInv', TreeInv', CountInv, NEW r \in Requests, StoreTotals(r),
         NEW c \in Characters, level'[c] # level[c], NEW f \in Features, grants[c][f] = "", grants'[c][f] # ""
  PROVE  Pending(tree', picks', c, f) = {}
  <1>1. PICK me : me = req[r]
    OBVIOUS
  <1>2. /\ me.step = "store" /\ tree' = After(r) /\ picks' = (picks \ me.unpick) \cup me.pick
        /\ me.op = "level" /\ c = me.char
    <2>1. picks' = (picks \ me.unpick) \cup me.pick /\ me.op = "level"
      BY <1>1 DEF StoreTotals
    <2>2. level' = [level EXCEPT ![me.char] = me.level]
      BY <1>1, <2>1 DEF StoreTotals
    <2>3. level \in [Characters -> Nat]
      BY DEF GrantInv, Tables
    <2>4. c = me.char
      BY <2>2, <2>3
    <2> QED
      BY <1>1, <2>1, <2>4, StoreShape
  <1>3. tree' = tree
    <2>1. SoundWrite(tree, me)
      BY <1>1 DEF TreeInv, SoundEdit
    <2> QED
      BY <1>1, <1>2, <2>1 DEF SoundWrite, After, Result
  <1>4. f \in DOMAIN me.grant
    <2>1. grants'[c][f] = Became(me, c, f)
      BY <1>1, GrantsBecome
    <2> QED
      BY <2>1 DEF Became
  <1>5. Pending(tree, me.pick, c, f) = {}
    BY <1>1, <1>2, <1>4 DEF CountInv, Answered
  <1> SUFFICES ASSUME NEW g \in GroupsOf(tree, f)
               PROVE  ~(Cardinality(PicksIn(picks', c, f, g.id)) < g.count)
    BY <1>3 DEF Pending
  <1>6. ~(Cardinality(PicksIn(me.pick, c, f, g.id)) < g.count)
    BY <1>5 DEF Pending
  <1>7. PicksIn(me.pick, c, f, g.id) \subseteq PicksIn(picks', c, f, g.id)
    BY <1>2 DEF PicksIn, PicksOf
  <1>8. IsFiniteSet(PicksIn(picks', c, f, g.id))
    <2>1. \A p \in picks' : SoundPick(p, AllRows', ids')
      BY DEF GrantInv, StoredPick, SoundPick
    <2>2. ids' \in Nat
      BY DEF TreeInv, RowsSound
    <2> QED
      BY <2>1, <2>2, FinitePicks
  <1>9. g.count \in Nat
    BY RowsOf, GroupIs
  <1>10. /\ Cardinality(PicksIn(me.pick, c, f, g.id)) \in Nat /\ Cardinality(PicksIn(picks', c, f, g.id)) \in Nat
         /\ Cardinality(PicksIn(me.pick, c, f, g.id)) <= Cardinality(PicksIn(picks', c, f, g.id))
    BY <1>7, <1>8, FewerPicks
  <1> QED
    BY <1>6, <1>9, <1>10, NoLess

\* characters/progression/service.py: a level-up that commits has answered every group of every feature
\* it grants, as that feature then is.
THEOREM LevelUpsResolve == EngineSpec => LevelUpLeavesNothingPending
  <1> DEFINE Inv == TreeInv /\ ReqType /\ GrantInv /\ CountInv
             Step == \A c \in Characters : level'[c] # level[c] =>
                         \A f \in Features : grants[c][f] = "" /\ grants'[c][f] # "" => Pending(tree', picks', c, f) = {}
  <1>1. EngineInit => Inv
    BY InitTreeInv, InitGrantInv, InitCountInv
  <1>2. Inv /\ [EngineNext]_engineVars => Inv'
    BY NextKeepsTree, NextKeepsGrants, NextKeepsCounts
  <1>3. Inv /\ [EngineNext]_engineVars => [Step]_engineVars
    <2> SUFFICES ASSUME Inv, [EngineNext]_engineVars, NEW c \in Characters, level'[c] # level[c],
                        NEW f \in Features, grants[c][f] = "", grants'[c][f] # ""
                 PROVE  Pending(tree', picks', c, f) = {}
      OBVIOUS
    <2>1. Inv'
      BY <1>2
    <2>2. PICK r \in Requests : StoreTotals(r)
      BY <2>1, OnlyCommitsWrite
    <2> QED
      BY <2>1, <2>2, LevelUpResolves
  <1>4. [][Step]_engineVars <=> LevelUpLeavesNothingPending
    BY DEF LevelUpLeavesNothingPending
  <1> HIDE DEF Inv, Step
  <1> QED
    BY <1>1, <1>2, <1>3, <1>4, PTL DEF EngineSpec
-----------------------------------------------------------------------------
(* Totals: what they count.                                                *)

\* Whether the effects on w count for a character.
Source(gs, ps, c, w) ==
    \/ w \in Features /\ gs[c][w] # ""
    \/ \E p \in ps : p.char = c /\ p.option = w

LEMMA CountedIs ==
  ASSUME NEW t, NEW gs, NEW ps, NEW c
  PROVE  \A e : e \in Counted(t, gs, ps, c) <=>
                    e.type = "ability" /\ e.kind = "effect" /\ e \in t /\ Source(gs, ps, c, e.owner)
  <1>1. \A e : e \in Counted(t, gs, ps, c) <=>
                   /\ e.type = "ability"
                   /\ \/ \E f \in Granted(gs, c) : e \in EffectsOn(t, f)
                      \/ \E p \in ps : p.char = c /\ e \in EffectsOn(t, p.option)
    BY DEF Counted
  <1>2. \A e, w : e \in EffectsOn(t, w) <=> e \in t /\ e.kind = "effect" /\ e.owner = w
    BY DEF EffectsOn
  <1>3. \A f : f \in Granted(gs, c) <=> f \in Features /\ gs[c][f] # ""
    BY DEF Granted
  <1> QED
    BY <1>1, <1>2, <1>3 DEF Source

LEMMA SameTotals ==
  ASSUME NEW t, NEW gs, NEW ps, NEW t2, NEW gs2, NEW ps2, NEW c,
         \A w : Source(gs, ps, c, w) <=> Source(gs2, ps2, c, w),
         \A e : e.kind = "effect" /\ Source(gs, ps, c, e.owner) => (e \in t <=> e \in t2)
  PROVE  Totals(t, gs, ps, c) = Totals(t2, gs2, ps2, c)
  <1>1. \A e : e \in Counted(t, gs, ps, c) <=> e \in Counted(t2, gs2, ps2, c)
    BY CountedIs
  <1>2. Counted(t, gs, ps, c) = Counted(t2, gs2, ps2, c)
    BY <1>1
  <1> QED
    BY <1>2 DEF Totals

PerCharacter(gs) == gs = [x \in Characters |-> gs[x]]
Acts(me) == me.op # "edit" => me.char \in Characters
WithAt(gs, me, c, f) ==
    With(gs, me)[c][f] =
        IF me.op # "edit" /\ c = me.char
        THEN IF f \in DOMAIN me.grant THEN me.grant[f] ELSE IF f \in me.revoke THEN "" ELSE gs[c][f]
        ELSE gs[c][f]
LEMMA WithIs ==
  ASSUME NEW gs, PerCharacter(gs), NEW me, Acts(me), NEW c \in Characters, NEW f \in Features
  PROVE  WithAt(gs, me, c, f)
  BY DEF With, PerCharacter, Acts, WithAt

\* The effects of a feature that an edit of another leaves alone.
LEMMA EffectsElsewhere ==
  ASSUME TreeInv, NEW r \in Requests, NEW g \in Features, req[r].op = "edit" => req[r].feature # g,
         NEW e, e.kind = "effect", OwnerIn(tree, e.owner, g)
  PROVE  e \in tree <=> e \in After(r)
  <1>1. BelongsTo(tree, e, g)
    BY DEF BelongsTo
  <1>2. tree \in SUBSET AllRows
    BY DEF AllRows
  <1> QED
    BY <1>1, <1>2, Elsewhere

\* A pick's option is one of its feature's.
LEMMA PickOwner ==
  ASSUME NEW p, SoundPick(p, AllRows, ids), Names(p) \subseteq RowIds(tree)
  PROVE  p.feature \in Features /\ p.char \in Characters /\ OwnerIn(tree, p.option, p.feature)
  <1>1. PICK g \in tree : g.kind # "effect" /\ g.id = p.group
    BY DEF Names, RowIds
  <1>2. PICK o \in tree : o.kind # "effect" /\ o.id = p.option
    BY DEF Names, RowIds
  <1>3. g \in AllRows /\ o \in AllRows
    BY DEF AllRows
  <1>4. g.kind = "group" /\ g.feature = p.feature /\ o.kind = "option" /\ o.group = p.group
    BY <1>1, <1>2, <1>3 DEF SoundPick
  <1>5. g \in GroupsOf(tree, p.feature) /\ o \in OptionsOf(tree, g.id)
    BY <1>1, <1>4 DEF GroupsOf, OptionsOf
  <1> QED
    BY <1>2, <1>5 DEF OwnerIn, SoundPick
-----------------------------------------------------------------------------
(* Totals: the commit.                                                     *)

\* A commit that stores no totals of a character leaves alone what they count.
LEMMA CommitSpares ==
  ASSUME TreeInv, GrantInv, TotalInv, ReqType, NEW r \in Requests, StoreTotals(r),
         NEW c \in Characters, c \notin DOMAIN req[r].totals
  PROVE  /\ \A f \in Features : grants'[c][f] = grants[c][f]
         /\ \A p : p.char = c => (p \in picks' <=> p \in picks)
         /\ req[r].op = "edit" => grants[c][req[r].feature] = ""
  <1>1. PICK me : me = req[r]
    OBVIOUS
  <1>2. /\ me.step = "store" /\ picks' = (picks \ me.unpick) \cup me.pick /\ c \notin DOMAIN me.totals
        /\ SoundRecord(me, grants) /\ Computed(me) /\ Unpicks(me)
    BY <1>1 DEF StoreTotals, GrantInv, TotalInv
  <1>3. \A f \in Features : grants'[c][f] = Became(me, c, f)
    BY <1>1, GrantsBecome
  <1>4. CASE me.op = "edit"
    <2>1. grants[c][me.feature] = "" /\ me.pick = {}
      BY <1>2, <1>4 DEF Computed, Holders, SoundRecord
    <2>2. \A p \in picks : p.char = c => p \notin me.unpick
      BY <1>2, <1>4, <2>1 DEF Unpicks, GrantInv, StoredPick
    <2> QED
      BY <1>1, <1>2, <1>3, <1>4, <2>1, <2>2 DEF Became
  <1>5. CASE me.op # "edit"
    <2>1. c # me.char
      BY <1>2, <1>5 DEF Computed
    <2>2. \A p \in me.pick : p.char = me.char
      BY <1>1 DEF GrantInv, NewPick
    <2>3. \A p \in me.unpick : p.char = me.char
      BY <1>2, <1>5 DEF Unpicks
    <2> QED
      BY <1>1, <1>2, <1>3, <1>5, <2>1, <2>2, <2>3 DEF Became
  <1> QED
    BY <1>4, <1>5

LEMMA TotalsStand ==
  ASSUME TreeInv, GrantInv, TotalInv, ReqType, NEW r \in Requests, StoreTotals(r),
         NEW c \in Characters, c \notin DOMAIN req[r].totals
  PROVE  Totals(tree', grants', picks', c) = Totals(tree, grants, picks, c)
  <1>1. /\ \A f \in Features : grants'[c][f] = grants[c][f]
        /\ \A p : p.char = c => (p \in picks' <=> p \in picks)
        /\ req[r].op = "edit" => grants[c][req[r].feature] = ""
    BY CommitSpares
  <1>2. \A w : Source(grants, picks, c, w) <=> Source(grants', picks', c, w)
    BY <1>1 DEF Source
  <1>3. ASSUME NEW e, e.kind = "effect", Source(grants, picks, c, e.owner)
        PROVE  e \in tree <=> e \in tree'
    <2>1. \E g \in Features : grants[c][g] # "" /\ OwnerIn(tree, e.owner, g)
      <3>1. CASE e.owner \in Features /\ grants[c][e.owner] # ""
        BY <3>1 DEF OwnerIn
      <3>2. ASSUME NEW p \in picks, p.char = c, p.option = e.owner
            PROVE  \E g \in Features : grants[c][g] # "" /\ OwnerIn(tree, e.owner, g)
        <4>1. SoundPick(p, AllRows, ids) /\ Names(p) \subseteq RowIds(tree) /\ grants[c][p.feature] # ""
          BY <3>2 DEF GrantInv, StoredPick
        <4> QED
          BY <3>2, <4>1, PickOwner
      <3> QED
        BY <1>3, <3>1, <3>2 DEF Source
    <2>2. PICK g \in Features : grants[c][g] # "" /\ OwnerIn(tree, e.owner, g)
      BY <2>1
    <2>3. e \in tree <=> e \in After(r)
      BY <1>1, <1>3, <2>2, EffectsElsewhere
    <2> QED
      BY <2>3, StoreShape
  <1>4. Totals(tree, grants, picks, c) = Totals(tree', grants', picks', c)
    BY <1>2, <1>3, SameTotals
  <1> QED
    BY <1>4

\* Nor does it touch what another request has computed for that character.
LEMMA ComputedStands ==
  ASSUME TreeInv, GrantInv, GrantInv', TotalInv, ReqType, NEW r \in Requests, StoreTotals(r),
         NEW c \in Characters, c \notin DOMAIN req[r].totals,
         NEW q \in Requests, q # r, req[q].step = "store"
  PROVE  TotalsWith(tree', grants', picks', req[q], c) = TotalsWith(tree, grants, picks, req[q], c)
  <1>1. /\ \A f \in Features : grants'[c][f] = grants[c][f]
        /\ \A p : p.char = c => (p \in picks' <=> p \in picks)
        /\ req[r].op = "edit" => grants[c][req[r].feature] = ""
    BY CommitSpares
  <1>2. PICK you : you = req[q]
    OBVIOUS
  <1>3. /\ SoundRecord(you, grants) /\ you.step = "store" /\ Apart(req[r], you)
        /\ \A p \in you.pick : NewPick(you, p)
    BY <1>2 DEF GrantInv
  <1>4. Acts(you)
    BY <1>3, NoWorkFields DEF SoundRecord, Acts
  <1>5. PerCharacter(grants) /\ PerCharacter(grants')
    <2>1. grants \in [Characters -> [Features -> {"", "AUTO", "GM", "ASI"}]]
      BY DEF GrantInv, Tables
    <2>2. grants' \in [Characters -> [Features -> {"", "AUTO", "GM", "ASI"}]]
      BY GrantsBecome
    <2> QED
      BY <2>1, <2>2 DEF PerCharacter
  <1>6. PICK gs, gs2, ps, ps2 : /\ gs = With(grants, you) /\ gs2 = With(grants', you)
                                /\ ps = Picked(picks, you) /\ ps2 = Picked(picks', you)
    OBVIOUS
  <1>7. ASSUME NEW f \in Features
        PROVE  gs[c][f] = gs2[c][f] /\ (gs[c][f] # "" => grants[c][f] # "" \/ (you.op # "edit" /\ f \in DOMAIN you.grant))
    <2>1. WithAt(grants, you, c, f) /\ WithAt(grants', you, c, f)
      BY <1>4, <1>5, WithIs
    <2>2. grants'[c][f] = grants[c][f]
      BY <1>1
    <2> QED
      BY <1>6, <2>1, <2>2 DEF WithAt
  <1>8. \A p : p.char = c => (p \in ps <=> p \in ps2)
    BY <1>1, <1>6 DEF Picked
  <1>9. \A w : Source(gs, ps, c, w) <=> Source(gs2, ps2, c, w)
    BY <1>7, <1>8 DEF Source
  <1>10. ASSUME NEW e, e.kind = "effect", Source(gs, ps, c, e.owner)
         PROVE  e \in Result(tree, you) <=> e \in Result(tree', you)
    <2>1. \E g \in Features : /\ grants[c][g] # "" \/ g \in DOMAIN you.grant
                              /\ OwnerIn(tree, e.owner, g)
      <3>1. CASE e.owner \in Features /\ gs[c][e.owner] # ""
        BY <1>7, <3>1 DEF OwnerIn
      <3>2. ASSUME NEW p \in ps, p.char = c, p.option = e.owner
            PROVE  \E g \in Features : (grants[c][g] # "" \/ g \in DOMAIN you.grant) /\ OwnerIn(tree, e.owner, g)
        <4>1. CASE p \in picks
          <5>1. SoundPick(p, AllRows, ids) /\ Names(p) \subseteq RowIds(tree) /\ grants[c][p.feature] # ""
            BY <3>2, <4>1 DEF GrantInv, StoredPick
          <5> QED
            BY <3>2, <5>1, PickOwner
        <4>2. CASE p \in you.pick
          <5>1. SoundPick(p, AllRows, ids) /\ Names(p) \subseteq RowIds(tree) /\ p.char = you.char
            BY <1>3, <4>2 DEF NewPick
          <5>2. grants[c][p.feature] # "" \/ p.feature \in DOMAIN you.grant
            BY <1>3, <3>2, <4>2, <5>1, NoWorkFields DEF SoundRecord
          <5> QED
            BY <3>2, <5>1, <5>2, PickOwner
        <4> QED
          BY <1>6, <4>1, <4>2 DEF Picked
      <3> QED
        BY <1>10, <3>1, <3>2 DEF Source
    <2>2. PICK g \in Features : (grants[c][g] # "" \/ g \in DOMAIN you.grant) /\ OwnerIn(tree, e.owner, g)
      BY <2>1
    <2>3. req[r].op = "edit" => req[r].feature # g
      BY <1>1, <1>3, <2>2 DEF Apart
    <2>4. e \in tree <=> e \in After(r)
      BY <1>10, <2>2, <2>3, EffectsElsewhere
    <2> QED
      BY <2>4, StoreShape DEF Result
  <1>11. Totals(Result(tree, you), gs, ps, c) = Totals(Result(tree', you), gs2, ps2, c)
    BY <1>9, <1>10, SameTotals
  <1> QED
    BY <1>2, <1>6, <1>11 DEF TotalsWith

LEMMA StoreKeepsTotals ==
  ASSUME TreeInv, GrantInv, GrantInv', TotalInv, ReqType, NEW r \in Requests, StoreTotals(r)
  PROVE  TotalInv'
  <1>1. PICK me, saved : me = req[r] /\ saved = DOMAIN me.totals
    OBVIOUS
  <1>2. /\ me.step = "store" /\ req'[r] = NoWork /\ tree' = Result(tree, me) /\ picks' = Picked(picks, me)
        /\ totals' = [x \in Characters |-> IF x \in saved THEN me.totals[x] ELSE totals[x]]
        /\ raced' = (raced \ saved) \cup (saved \cap me.late)
        /\ Computed(me)
    <2>1. Computed(me)
      BY <1>1 DEF TotalInv
    <2>2. req'[r] = NoWork
      BY StoreShape
    <2>3. picks' = Picked(picks, me) /\ tree' = Result(tree, me)
      BY <1>1 DEF StoreTotals, Picked, Result
    <2> QED
      BY <1>1, <2>1, <2>2, <2>3 DEF StoreTotals
  <1>3. grants' = With(grants, me)
    BY <1>1 DEF StoreTotals, GrantsWith, With
  <1>4. ASSUME NEW c \in Characters, c \notin raced'
        PROVE  totals'[c] = Totals(tree', grants', picks', c)
    <2>1. CASE c \in saved
      <3>1. me.totals[c] = TotalsWith(tree, grants, picks, me, c)
        BY <1>1, <1>2, <1>4, <2>1 DEF Computed
      <3> QED
        BY <1>2, <1>3, <2>1, <3>1 DEF TotalsWith
    <2>2. CASE c \notin saved
      <3>1. totals[c] = Totals(tree, grants, picks, c)
        BY <1>2, <1>4, <2>2 DEF TotalInv, TotalsFollow
      <3>2. Totals(tree', grants', picks', c) = Totals(tree, grants, picks, c)
        BY <1>1, <2>2, TotalsStand
      <3>3. totals'[c] = totals[c]
        BY <1>2, <2>2
      <3> QED
        BY <3>1, <3>2, <3>3
    <2> QED
      BY <2>1, <2>2
  <1>5. TotalsFollow'
    BY <1>4 DEF TotalsFollow
  <1>6. ASSUME NEW q \in Requests, q # r
        PROVE  Computed(req[q])' /\ Unpicks(req[q])'
    <2>1. PICK you, late : you = req[q] /\ late = req'[q].late
      OBVIOUS
    <2>2. /\ req'[q].op = you.op /\ req'[q].step = you.step /\ req'[q].char = you.char
          /\ req'[q].feature = you.feature /\ req'[q].put = you.put /\ req'[q].cut = you.cut
          /\ req'[q].pick = you.pick /\ req'[q].unpick = you.unpick
          /\ req'[q].grant = you.grant /\ req'[q].revoke = you.revoke /\ req'[q].totals = you.totals
      BY <1>6, <2>1, OthersUntouched DEF Untouched
    <2>3. Computed(you) /\ Unpicks(you) /\ SoundRecord(you, grants) /\ Apart(you, me)
      BY <1>1, <1>6, <2>1 DEF TotalInv, GrantInv
    <2>4. ASSUME you.step = "store"
          PROVE  late = you.late \cup saved
      <3>1. req' = [s \in Requests |-> IF s = r THEN NoWork
                                       ELSE IF Writing(s) THEN [req[s] EXCEPT !.late = @ \cup saved]
                                       ELSE req[s]]
        BY <1>1 DEF StoreTotals
      <3>2. req'[q] = [req[q] EXCEPT !.late = @ \cup saved]
        BY <1>6, <2>1, <2>4, <3>1 DEF Writing
      <3>3. DOMAIN req[q] = DOMAIN NoWork
        BY DEF ReqType
      <3> QED
        BY <2>1, <3>2, <3>3 DEF NoWork
    <2>5. ASSUME you.step = "store", NEW c \in DOMAIN you.totals \ late
          PROVE  you.totals[c] = TotalsWith(tree', grants', picks', you, c)
      <3>1. c \in Characters /\ c \notin saved /\ c \notin you.late
        BY <2>3, <2>4, <2>5 DEF Computed
      <3>2. you.totals[c] = TotalsWith(tree, grants, picks, you, c)
        BY <2>3, <2>5, <3>1 DEF Computed
      <3>3. TotalsWith(tree', grants', picks', you, c) = TotalsWith(tree, grants, picks, you, c)
        BY <1>1, <1>6, <2>1, <2>5, <3>1, ComputedStands
      <3> QED
        BY <3>2, <3>3
    <2>6. ASSUME you.op = "edit", you.step = "store", NEW c \in Characters, grants'[c][you.feature] # ""
          PROVE  c \in DOMAIN you.totals
      <3>1. you.feature \in Features
        BY <2>1, <2>6 DEF TreeInv, SoundEdit, SoundWrite
      <3>2. you.feature \notin DOMAIN me.grant
        BY <2>3, <2>6 DEF Apart
      <3>3. grants[c][you.feature] # ""
        <4>1. \A f \in Features : grants'[c][f] = Became(me, c, f)
          BY <1>1, <2>6, GrantsBecome
        <4> QED
          BY <2>6, <3>1, <3>2, <4>1 DEF Became
      <3> QED
        BY <2>3, <2>6, <3>3 DEF Computed, Holders
    <2>7. Unpicks(req[q])'
      BY <2>2, <2>3 DEF Unpicks
    <2>8. \A c : TotalsWith(tree', grants', picks', req'[q], c) = TotalsWith(tree', grants', picks', you, c)
      BY <2>2 DEF TotalsWith, Result, With, Picked
    <2>9. Computed(req[q])'
      <3> SUFFICES ASSUME you.step = "store"
                   PROVE  /\ DOMAIN you.totals \subseteq Characters
                          /\ you.op = "edit" => \A c \in Characters : grants'[c][you.feature] # "" => c \in DOMAIN you.totals
                          /\ you.op # "edit" => DOMAIN you.totals = {you.char}
                          /\ \A c \in DOMAIN you.totals \ late :
                                 you.totals[c] = TotalsWith(tree', grants', picks', you, c)
        <4> HIDE DEF TotalsWith
        <4> QED
          BY <2>1, <2>2, <2>8 DEF Computed, Holders
      <3> QED
        BY <2>3, <2>5, <2>6 DEF Computed
    <2> QED
      BY <2>7, <2>9
  <1>7. Computed(req[r])' /\ Unpicks(req[r])'
    BY <1>2, NoWorkFields DEF Computed, Unpicks
  <1> QED
    BY <1>5, <1>6, <1>7 DEF TotalInv
-----------------------------------------------------------------------------
(* Totals: the steps of a request.                                         *)

LEMMA TurnKeepsTotals ==
  ASSUME TotalInv, NEW r \in Requests, NEW w, req'[r] = w, \A q \in Requests : q # r => req'[q] = req[q],
         tree' = tree, grants' = grants, picks' = picks, totals' = totals, raced' = raced,
         Computed(w), Unpicks(w)
  PROVE  TotalInv'
  <1>1. \A q \in Requests : Computed(req'[q]) /\ Unpicks(req'[q])
    BY DEF TotalInv
  <1>2. TotalsFollow'
    BY DEF TotalInv, TotalsFollow
  <1>3. ASSUME NEW q \in Requests
        PROVE  Computed(req[q])' /\ Unpicks(req[q])'
    BY <1>1 DEF Computed, Unpicks, Holders
  <1> QED
    BY <1>2, <1>3 DEF TotalInv

\* The steps that have no totals yet.
LEMMA QuietKeepsTotals ==
  ASSUME TotalInv, ReqType, NEW r \in Requests, NEW w, Turns(r, w), DOMAIN w = DOMAIN NoWork,
         Computed(w), Unpicks(w)
  PROVE  TotalInv'
  <1>1. req'[r] = w /\ \A q \in Requests : q # r => req'[q] = req[q]
    BY Turned
  <1>2. tree' = tree /\ grants' = grants /\ picks' = picks /\ totals' = totals /\ raced' = raced
    BY DEF Turns
  <1> QED
    BY <1>1, <1>2, TurnKeepsTotals

LEMMA PickingKeepsTotals ==
  ASSUME TotalInv, ReqType, NEW r \in Requests, NEW op \in PickOps, NEW c, NEW f, NEW away, NEW new,
         Turns(r, PickRecord(op, c, f, away, new)), \A p \in away : p.char = c
  PROVE  TotalInv'
  <1>1. PICK w : w = PickRecord(op, c, f, away, new)
    OBVIOUS
  <1>2. DOMAIN w = DOMAIN NoWork /\ w.op = op /\ w.step = "insert" /\ w.char = c /\ w.unpick = away
    BY <1>1, PickFields
  <1>3. Computed(w) /\ Unpicks(w)
    BY <1>2 DEF Computed, Unpicks, PickOps
  <1> QED
    BY <1>1, <1>2, <1>3, QuietKeepsTotals

LEMMA OwnPicks ==
  ASSUME NEW c, NEW f, NEW answers
  PROVE  \A p \in Replaced(c, f, answers) : p.char = c
  BY DEF Replaced, PicksIn, PicksOf

LEMMA PlayersKeepTotals ==
  ASSUME TreeInv, GrantInv, TotalInv, ReqType, NEW r \in Requests,
         PlayerAnswers(r) \/ UpdateFeat(r) \/ LoadFeature(r) \/ Abort(r)
  PROVE  TotalInv'
  <1>1. CASE Answer(r)
    <2>1. PICK c, f, answers, new : Turns(r, PickRecord("answer", c, f, Replaced(c, f, answers), new))
      BY <1>1, AnswerTurns
    <2> QED
      BY <2>1, OwnPicks, PickingKeepsTotals DEF PickOps
  <1>2. CASE UpdateFeat(r)
    <2>1. PICK c, f, asi, new : Turns(r, PickRecord("asi", c, f, Replaced(c, f, asi), new))
      BY <1>2, UpdateFeatTurns
    <2> QED
      BY <2>1, OwnPicks, PickingKeepsTotals DEF PickOps
  <1>3. CASE LoadFeature(r)
    <2>1. PICK c, f : Turns(r, LoadRecord(c, f, Subtree(tree, f)))
      BY <1>3, LoadTurns
    <2>2. PICK w : w = LoadRecord(c, f, Subtree(tree, f))
      OBVIOUS
    <2>3. DOMAIN w = DOMAIN NoWork /\ w.step = "loaded" /\ w.unpick = {}
      BY <2>2, LoadFields
    <2>4. Computed(w) /\ Unpicks(w)
      BY <2>3 DEF Computed, Unpicks
    <2> QED
      BY <2>1, <2>2, <2>3, <2>4, QuietKeepsTotals
  <1>4. CASE Abort(r)
    <2>1. Computed(NoWork) /\ Unpicks(NoWork)
      BY NoWorkFields DEF Computed, Unpicks
    <2> QED
      BY <1>4, <2>1, AbortTurns, QuietKeepsTotals
  <1>5. CASE InsertPicks(r)
    <2>1. PICK me : me = req[r]
      OBVIOUS
    <2>2. PICK tot : tot = [c \in {me.char} |-> Totals(tree, grants, (picks \ me.unpick) \cup me.pick, c)]
      OBVIOUS
    <2>3. me.step = "insert" /\ Turns(r, InsertRecord(me, tot))
      BY <1>5, <2>1, <2>2, InsertTurns
    <2>4. /\ DOMAIN me = DOMAIN NoWork /\ SoundRecord(me, grants) /\ SoundWrite(tree, me) /\ Unpicks(me)
      BY <2>1 DEF ReqType, GrantInv, TreeInv, SoundEdit, TotalInv
    <2>5. me.op \in PickOps /\ me.char \in Characters /\ me.put = {} /\ me.cut = {} /\ me.grant = <<>> /\ me.revoke = {}
      BY <2>3, <2>4, NoWorkFields DEF SoundRecord, SoundWrite, GrantOps
    <2>6. PICK w : w = InsertRecord(me, tot)
      OBVIOUS
    <2>7. /\ DOMAIN w = DOMAIN NoWork /\ w.op = me.op /\ w.char = me.char /\ w.pick = me.pick /\ w.unpick = me.unpick
          /\ w.put = {} /\ w.cut = {} /\ w.grant = <<>> /\ w.revoke = {} /\ w.totals = tot
      BY <2>4, <2>5, <2>6, InsertFields
    <2>8. With(grants, w) = grants
      <3>1. grants \in [Characters -> [Features -> {"", "AUTO", "GM", "ASI"}]]
        BY DEF GrantInv, Tables
      <3>2. PICK c : c = w.char /\ c \in Characters
        BY <2>5, <2>7
      <3>3. grants[c] = [f \in Features |-> grants[c][f]]
        BY <3>1, <3>2
      <3>4. With(grants, w) = [grants EXCEPT ![c] = [f \in Features |-> grants[c][f]]]
        BY <2>5, <2>7, <3>2, NoGrant DEF With, PickOps
      <3> QED
        BY ZenonT(40), <3>1, <3>2, <3>3, <3>4
    <2>9. Result(tree, w) = tree /\ Picked(picks, w) = (picks \ me.unpick) \cup me.pick
      BY <2>7 DEF Result, Picked
    <2>10. Computed(w)
      BY <2>2, <2>5, <2>7, <2>8, <2>9 DEF Computed, TotalsWith, PickOps
    <2>11. Unpicks(w)
      BY <2>4, <2>7, <2>5 DEF Unpicks, PickOps
    <2>12. Turns(r, w)
      BY <2>3, <2>6
    <2> HIDE <2>2, <2>6
    <2> QED
      BY <2>7, <2>10, <2>11, <2>12, QuietKeepsTotals
  <1> QED
    BY <1>1, <1>2, <1>3, <1>4, <1>5 DEF PlayerAnswers

LEMMA WriteKeepsTotals ==
  ASSUME TotalInv, ReqType, NEW r \in Requests, NEW op \in GrantOps, NEW c \in Characters, NEW f, NEW given,
         NEW gone, NEW new, NEW lvl, WriteGrants(r, op, c, f, given, gone, new, lvl)
  PROVE  TotalInv'
  <1>1. PICK tot, away : tot = GrantTotals(c, given, gone, new) /\ away = Lost(c, gone)
    OBVIOUS
  <1>2. PICK w : w = GrantRecord(op, c, f, given, gone, new, away, lvl, tot)
    OBVIOUS
  <1>3. Turns(r, w)
    BY <1>1, <1>2, WriteTurns
  <1>4. /\ DOMAIN w = DOMAIN NoWork /\ w.op = op /\ w.char = c /\ w.grant = given /\ w.revoke = gone
        /\ w.pick = new /\ w.unpick = away /\ w.put = {} /\ w.cut = {} /\ w.totals = tot
    BY <1>2, GrantFields
  <1> HIDE <1>2
  <1>5. op # "edit"
    BY DEF GrantOps
  <1>6. With(grants, w) = GrantsWith(c, given, gone)
    BY <1>4, <1>5 DEF With, GrantsWith
  <1>7. Result(tree, w) = tree /\ Picked(picks, w) = (picks \ Lost(c, gone)) \cup new
    BY <1>1, <1>4 DEF Result, Picked
  <1>8. Computed(w)
    BY <1>1, <1>4, <1>5, <1>6, <1>7 DEF Computed, TotalsWith, GrantTotals
  <1>9. Unpicks(w)
    BY <1>1, <1>4, <1>5 DEF Unpicks, Lost, PicksOf
  <1> QED
    BY <1>3, <1>4, <1>8, <1>9, QuietKeepsTotals

LEMMA GrantsKeepTotals ==
  ASSUME TreeInv, TotalInv, GrantInv, ReqType, NEW r \in Requests,
         LevelUp(r) \/ AddFeature(r) \/ RemoveFeature(r) \/ AddFeat(r) \/ RemoveFeat(r)
  PROVE  TotalInv'
  <1>1. CASE LevelUp(r)
    BY ZenonT(40), <1>1, LevelUpWrites, WriteKeepsTotals DEF Leveled, GrantOps
  <1>2. CASE AddFeature(r)
    <2>1. req[r].step = "loaded" /\ SoundRecord(req[r], grants) /\ SoundWrite(tree, req[r])
      BY <1>2, AddFeatureWrites DEF GrantInv, TreeInv, SoundEdit
    <2>2. req[r].char \in Characters
      BY <2>1, NoWorkFields DEF SoundRecord, SoundWrite
    <2> QED
      BY <1>2, <2>2, AddFeatureWrites, WriteKeepsTotals DEF GrantOps
  <1>3. CASE RemoveFeature(r)
    BY <1>3, RemoveFeatureWrites, WriteKeepsTotals DEF GrantOps
  <1>4. CASE AddFeat(r)
    BY <1>4, AddFeatWrites, WriteKeepsTotals DEF GrantOps
  <1>5. CASE RemoveFeat(r)
    BY <1>5, RemoveFeatWrites, WriteKeepsTotals DEF GrantOps
  <1> QED
    BY <1>1, <1>2, <1>3, <1>4, <1>5

LEMMA EditStepKeepsTotals ==
  ASSUME TotalInv, TreeInv', NEW r \in Requests, EditStep(r)
  PROVE  TotalInv'
  <1>1. PICK w : w = req'[r]
    OBVIOUS
  <1>2. /\ \A q \in Requests : q # r => req'[q] = req[q]
        /\ tree' = tree /\ grants' = grants /\ picks' = picks /\ totals' = totals /\ raced' = raced
        /\ w.op = "edit" /\ w.pick = {} /\ Deletes(req[r], w.feature, w.unpick)
        /\ w.step = "store" =>
               w.totals = [c \in Holders(w.feature) |-> Totals((tree \ w.cut) \cup w.put, grants, picks \ w.unpick, c)]
    BY <1>1 DEF EditStep
  <1>3. Computed(w)
    <2> SUFFICES ASSUME w.step = "store" PROVE Computed(w)
      BY DEF Computed
    <2>1. Result(tree, w) = (tree \ w.cut) \cup w.put /\ With(grants, w) = grants /\ Picked(picks, w) = picks \ w.unpick
      BY <1>2 DEF Result, With, Picked
    <2>2. \A c : TotalsWith(tree, grants, picks, w, c) = Totals((tree \ w.cut) \cup w.put, grants, picks \ w.unpick, c)
      BY <2>1 DEF TotalsWith
    <2>3. Holders(w.feature) \subseteq Characters
      BY DEF Holders
    <2> QED
      BY <1>2, <2>2, <2>3 DEF Computed
  <1>4. Unpicks(w)
    BY <1>2 DEF Unpicks, Deletes, TotalInv
  <1> QED
    BY <1>1, <1>2, <1>3, <1>4, TurnKeepsTotals

LEMMA InitTotalInv ==
  ASSUME EngineInit
  PROVE  TotalInv
  <1>1. Computed(NoWork) /\ Unpicks(NoWork)
    BY NoWorkFields DEF Computed, Unpicks
  <1>2. TotalsFollow
    BY DEF EngineInit, TotalsFollow
  <1> QED
    BY <1>1, <1>2 DEF EngineInit, TotalInv

LEMMA NextKeepsTotals ==
  ASSUME TreeInv, ReqType, GrantInv, TotalInv, [EngineNext]_engineVars
  PROVE  TotalInv'
  <1>1. TreeInv' /\ GrantInv'
    BY NextKeepsTree, NextKeepsGrants
  <1>2. ASSUME NEW r \in Requests, GmEdits(r)
        PROVE  TotalInv'
    BY <1>1, <1>2, GmEditsKeepGrants, EditStepKeepsTotals
  <1>3. ASSUME NEW r \in Requests, PlayerAnswers(r) \/ UpdateFeat(r) \/ LoadFeature(r) \/ Abort(r)
        PROVE  TotalInv'
    BY <1>3, PlayersKeepTotals
  <1>4. ASSUME NEW r \in Requests, LevelUp(r) \/ AddFeature(r) \/ RemoveFeature(r) \/ AddFeat(r) \/ RemoveFeat(r)
        PROVE  TotalInv'
    BY <1>4, GrantsKeepTotals
  <1>5. ASSUME NEW r \in Requests, StoreTotals(r)
        PROVE  TotalInv'
    BY <1>1, <1>5, StoreKeepsTotals
  <1>6. CASE UNCHANGED engineVars
    <2>1. tree' = tree /\ req' = req /\ picks' = picks /\ grants' = grants /\ totals' = totals /\ raced' = raced
      BY <1>6 DEF engineVars
    <2> QED
      BY <2>1 DEF TotalInv, TotalsFollow, Computed, Unpicks, Holders
  <1> QED
    BY <1>2, <1>3, <1>4, <1>5, <1>6 DEF EngineNext, FeatureGrants, FeatGrants

\* characters/ability_score: the totals stored are those of the grants, picks and trees stored, for every
\* character but those whose totals a request stored over a commit it had not seen.
THEOREM StoredTotalsFollow == EngineSpec => []TotalsFollow
  <1>1. EngineInit => TreeInv /\ ReqType /\ GrantInv /\ TotalInv
    BY InitTreeInv, InitGrantInv, InitTotalInv
  <1>2. TreeInv /\ ReqType /\ GrantInv /\ TotalInv /\ [EngineNext]_engineVars
        => (TreeInv /\ ReqType /\ GrantInv /\ TotalInv)'
    BY NextKeepsTree, NextKeepsGrants, NextKeepsTotals
  <1>3. TotalInv => TotalsFollow
    BY DEF TotalInv
  <1> QED
    BY <1>1, <1>2, <1>3, PTL DEF EngineSpec
=============================================================================
