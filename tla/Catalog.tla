------------------------------ MODULE Catalog ------------------------------
(***************************************************************************)
(* The reference catalogs (skills, items, tags, spells, classes,           *)
(* subclasses, races, subraces, backgrounds, feats, features) and the      *)
(* accounts: who refers to a row of theirs, what a DELETE of the row does  *)
(* to those references, which cached payloads show them, and which         *)
(* namespaces each kind of write purges (core/cache/namespaces.py and the  *)
(* cache.py files).  How one purge or one fill works is module Cache: here *)
(* both are one step, and a fill is refused after a purge it raced.        *)
(*                                                                         *)
(* A behaviour watches one row, one reference to it (a link: a record that *)
(* says what the schema and the code do with such references) and the      *)
(* payload of one namespace, since payloads do not depend on each other.   *)
(* A payload is the set of changes it misses: empty is fresh.              *)
(***************************************************************************)
EXTENDS Naturals, FiniteSets

CONSTANTS
    Writers,   \* requests that write
    Readers    \* requests that read the watched payload

(***************************************************************************)
(* Namespaces                                                              *)
(***************************************************************************)
FeaturePayloads == {"features", "feats", "class_features", "subclass_features",
                    "race_features", "subrace_features", "background_features"}
Details == {"classes", "races", "backgrounds"}

\* Mutant of Dependents: nobody declared that spell listings name subclasses.
DependentsForgotten(entity) ==
    CASE entity = "skill" -> Details \cup FeaturePayloads
      [] entity = "item" -> Details \cup FeaturePayloads \cup {"nested_items"}
      [] entity = "spell" -> Details \cup FeaturePayloads \cup {"characters"}
      [] entity \in {"class", "race", "subrace"} -> {"spells"}
      [] entity = "tag" -> {"races", "backgrounds", "articles"}
      [] entity = "user" -> {"articles"}
      [] OTHER -> {}

Dependents(entity) ==
    CASE entity = "skill" -> Details \cup FeaturePayloads
      [] entity = "item" -> Details \cup FeaturePayloads \cup {"nested_items"}
      [] entity = "spell" -> Details \cup FeaturePayloads \cup {"characters"}
      [] entity \in {"class", "subclass", "race", "subrace"} -> {"spells"}
      [] entity = "tag" -> {"races", "backgrounds", "articles"}
      [] entity = "user" -> {"articles"}
      [] OTHER -> {}

Parents == {"class", "subclass", "race", "subrace", "background"}
Sources == Parents \cup {"feat", "other"}

ListNamespace(source) ==
    CASE source = "class" -> {"class_features"}
      [] source = "subclass" -> {"subclass_features"}
      [] source = "race" -> {"race_features"}
      [] source = "subrace" -> {"subrace_features"}
      [] source = "background" -> {"background_features"}
      [] OTHER -> {}

\* Where the reads of a catalog are cached: details, listings, progressions.
ReadNamespaces(kind) ==
    CASE kind \in {"class", "subclass"} -> {"classes"}
      [] kind \in {"race", "subrace"} -> {"races"}
      [] kind = "background" -> {"backgrounds"}
      [] kind = "feat" -> {"feats", "features"}
      [] kind = "skill" -> {"skills"}
      [] kind = "item" -> {"items"}
      [] kind = "tag" -> {"tags"}
      [] kind = "spell" -> {"spells"}
      [] kind = "user" -> {"users"}
      [] OTHER -> {"features"}

\* What a write to a feature of this source purges.
FeatureNamespaces(source) ==
    {"features"} \cup ListNamespace(source)
                 \cup (IF source = "other" THEN {} ELSE ReadNamespaces(source))

(***************************************************************************)
(* References                                                              *)
(***************************************************************************)
\* kind, holder: of what, by what; onDelete: the foreign key; guarded: is_in_use
\* looks at it; locked: the delete locks the row first; shown: the namespaces
\* whose payloads render it; purges: what the write of such a reference purges.
Link(kind, holder, onDelete, guarded, locked, shown, purges) ==
    [kind |-> kind, holder |-> holder, onDelete |-> onDelete, guarded |-> guarded,
     locked |-> locked, shown |-> shown, purges |-> purges]

\* A fixed effect or a choice option of a feature that names a skill, an item or a spell.
EffectLinks(kind, locked) ==
    {Link(kind, "effect", "restrict", TRUE, locked,
          {"features"} \cup ListNamespace(s) \cup (IF s = "other" THEN {} ELSE ReadNamespaces(s)),
          FeatureNamespaces(s)) : s \in Sources}

SkillLinks ==
    EffectLinks("skill", TRUE)
    \cup {Link("skill", h, "restrict", TRUE, TRUE, ReadNamespaces(h), ReadNamespaces(h)) :
              h \in {"class", "race", "background"}}
    \cup {Link("skill", "proficiency", "cascade", TRUE, TRUE, {}, {})}

ItemLinks ==
    EffectLinks("item", TRUE)
    \cup {Link("item", h, "restrict", TRUE, TRUE, ReadNamespaces(h) \cup {"nested_items"},
               ReadNamespaces(h) \cup {"nested_items"}) : h \in {"class", "background"}}
    \cup {Link("item", "inventory", "restrict", TRUE, TRUE, {}, {}),
          Link("item", "proficiency", "cascade", TRUE, TRUE, {}, {})}

TagLinks ==
    {Link("tag", h, "restrict", TRUE, FALSE, ReadNamespaces(h), ReadNamespaces(h) \cup {"tags"}) :
         h \in {"race", "subrace"}}
    \cup {Link("tag", "background", "restrict", TRUE, FALSE, {"backgrounds"}, {"backgrounds"}),
          Link("tag", "article", "restrict", TRUE, FALSE, {"articles"}, {"articles"})}

SpellLinks ==
    EffectLinks("spell", FALSE)
    \cup {Link("spell", "granted", "restrict", TRUE, FALSE, {}, {}),
          Link("spell", "known", "cascade", TRUE, FALSE, {}, {})}

\* Spell listings and details name the classes, races, ... a spell is available to.
AvailabilityLinks ==
    {Link(k, "spell", "cascade", FALSE, FALSE, {"spells"}, {"spells"}) :
         k \in {"class", "subclass", "race", "subrace"}}

\* The features of a catalog row go with it, those of its sub-catalogs too.
SourceFeatureLinks ==
    {Link(k, "feature", "cascade", FALSE, FALSE, {"features"} \cup ListNamespace(k), FeatureNamespaces(k)) :
         k \in Parents}
    \cup {Link("class", "feature", "cascade", FALSE, FALSE, {"features", "subclass_features"},
               FeatureNamespaces("subclass")),
          Link("race", "feature", "cascade", FALSE, FALSE, {"features", "subrace_features"},
               FeatureNamespaces("subrace"))}

EquipmentLinks ==
    {Link(k, "equipment", "cascade", FALSE, FALSE, {"nested_items"}, ReadNamespaces(k) \cup {"nested_items"}) :
         k \in {"class", "background"}}

\* The columns of a character.  Only a class is protected by the foreign key,
\* and only a class is read (its hit dice) when the payload is put together.
CharacterLinks ==
    {Link("class", "character", "restrict", TRUE, FALSE, {"characters"}, {"characters"})}
    \cup {Link(k, "character", "null", TRUE, FALSE, {"characters"}, {"characters"}) :
              k \in {"subclass", "race", "subrace"}}
    \cup {Link("background", "character", "null", FALSE, FALSE, {"characters"}, {"characters"})}

\* Grants of a background's features, of feats (deleted as a feat, or as a feature,
\* which locks nothing), and of features without a source.
GrantLinks ==
    {Link("background", "grant", "cascade", TRUE, TRUE, {}, {}),
     Link("feat", "grant", "cascade", TRUE, TRUE, {}, {}),
     Link("feat", "grant", "cascade", TRUE, FALSE, {}, {}),
     Link("feat", "asi", "restrict", TRUE, TRUE, {}, {}),
     Link("other", "grant", "cascade", TRUE, FALSE, {}, {})}

AuthorLinks == {Link("user", "author", "null", FALSE, FALSE, {"articles"}, {})}

Links == SkillLinks \cup ItemLinks \cup TagLinks \cup SpellLinks \cup AvailabilityLinks
         \cup SourceFeatureLinks \cup EquipmentLinks \cup CharacterLinks \cup GrantLinks \cup AuthorLinks

Kinds == {l.kind : l \in Links}

(***************************************************************************)
(* What each service purges                                                *)
(***************************************************************************)
\* The namespaces a service purges after a create, an update and a delete.
Purging(create, update, delete) == [create |-> create, update |-> update, delete |-> delete]

SkillWrites == Purging({"skills"}, {"skills"} \cup Dependents("skill"), {"skills"})
ItemWrites == Purging({"items"}, {"items"} \cup Dependents("item"), {"items"})
\* A new tag is in no cached payload, and nor is a new account.
TagWrites == Purging({}, {"tags"} \cup Dependents("tag"), {"tags"})
\* The update is a rename; others purge less, and change what fewer payloads show.
SpellWrites == Purging({"spells"}, {"spells"} \cup Dependents("spell"), {"spells"})

\* Mutant of ClassWrites: the starting equipment of a deleted class is forgotten.
ClassWritesOwn ==
    Purging({"classes"} \cup Dependents("class"), {"classes"} \cup Dependents("class"),
            {"classes", "class_features", "subclass_features", "features"} \cup Dependents("class"))

ClassWrites ==
    Purging({"classes"} \cup Dependents("class"), {"classes"} \cup Dependents("class"),
            {"classes", "class_features", "subclass_features", "features", "nested_items"}
                \cup Dependents("class"))
SubclassWrites ==
    Purging({"classes"} \cup Dependents("subclass"), {"classes"} \cup Dependents("subclass"),
            {"classes", "subclass_features", "features"} \cup Dependents("subclass"))
RaceWrites ==
    Purging({"races"} \cup Dependents("race"), {"races"} \cup Dependents("race"),
            {"races", "race_features", "subrace_features", "features"} \cup Dependents("race"))
SubraceWrites ==
    Purging({"races"} \cup Dependents("subrace"), {"races"} \cup Dependents("subrace"),
            {"races", "subrace_features", "features"} \cup Dependents("subrace"))
BackgroundWrites ==
    Purging({"backgrounds"}, {"backgrounds"},
            {"backgrounds", "background_features", "features", "nested_items"})
FeatWrites == Purging({"feats", "features"}, {"feats", "features"}, {"feats", "features"})
FeatureWrites(source) ==
    Purging(FeatureNamespaces(source), FeatureNamespaces(source), FeatureNamespaces(source))

UserWrites ==
    Purging({}, {"users"} \cup Dependents("user"), {"users", "articles", "article_trees"})

Writes(kind) ==
    CASE kind = "skill" -> SkillWrites
      [] kind = "item" -> ItemWrites
      [] kind = "tag" -> TagWrites
      [] kind = "spell" -> SpellWrites
      [] kind = "class" -> ClassWrites
      [] kind = "subclass" -> SubclassWrites
      [] kind = "race" -> RaceWrites
      [] kind = "subrace" -> SubraceWrites
      [] kind = "background" -> BackgroundWrites
      [] kind = "feat" -> FeatWrites
      [] kind = "user" -> UserWrites
      [] OTHER -> FeatureWrites("other")

(***************************************************************************)
(* State                                                                   *)
(***************************************************************************)
VARIABLES
    link,    \* the reference watched
    ns,      \* the namespace watched
    row,     \* the row is there
    linked,  \* the reference is there
    cache,   \* the payload in Redis
    writer,  \* per writer: step, operation, what it will purge
    reader   \* per reader: step, the value it put together, purged in between

vars == <<link, ns, row, linked, cache, writer, reader>>

Imaged == {"class", "subclass", "race", "subrace"}
Ops == {"create", "update", "delete", "link", "unlink", "image"}
\* "joined": an update of the class missed by a character that joined it meanwhile.
Causes == Ops \cup {"joined"}

NoPayload == [there |-> FALSE, missed |-> {}]
Payloads == [there : BOOLEAN, missed : SUBSET Causes]
Idle == [step |-> "idle", op |-> "create", purges |-> {}]
Resting == [step |-> "idle", missed |-> {}, raced |-> FALSE]

Init ==
    /\ link \in Links
    /\ ns \in ReadNamespaces(link.kind) \cup link.shown
    /\ row = TRUE
    /\ linked \in BOOLEAN /\ (link.holder = "author" => linked)
    /\ cache = NoPayload
    /\ writer = [w \in Writers |-> Idle]
    /\ reader = [r \in Readers |-> Resting]

----------------------------------------------------------------------------
\* The row of a character is read before the payload is looked up in the cache.
RowFirst == link.holder = "character" /\ ns = "characters"

\* Does the watched payload change when such a write commits?  Who refers to a
\* row by its name renders it; features and equipment show only whose they are,
\* a character the ids it has and the hit dice of its class.
Own == ns \in ReadNamespaces(link.kind)
Renders == /\ ns \in link.shown /\ link.holder \notin {"feature", "equipment"}
           /\ link.holder = "character" => link.kind = "class"
Shows(op) ==
    CASE op = "create" -> Own /\ link.kind \notin {"tag", "user"}
      [] op = "image" -> Own
      [] op = "update" -> Own \/ (linked /\ Renders)
      [] op = "delete" -> Own \/ (linked /\ ns \in link.shown)
      [] OTHER -> ns \in link.shown

Missing(payload, cause) == [payload EXCEPT !.missed = @ \cup {cause}]

\* A commit makes stale what is cached and what readers have read already.
Stales(op, cause) ==
    /\ cache' = IF cache.there /\ Shows(op) THEN Missing(cache, cause) ELSE cache
    /\ reader' = [r \in Readers |->
                     IF reader[r].step # "idle" /\ Shows(op) THEN Missing(reader[r], cause) ELSE reader[r]]

\* A purge: the payload goes, and the epoch moves on for whoever took it before.
PurgeNow ==
    /\ cache' = NoPayload
    /\ reader' = [r \in Readers |-> [reader[r] EXCEPT !.raced = reader[r].step = "read" \/ @]]

At(w, step, op) == writer[w].step = step /\ writer[w].op = op
Go(w, step, op, purges) == writer' = [writer EXCEPT ![w] = [step |-> step, op |-> op, purges |-> purges]]
Stop(w) == writer' = [writer EXCEPT ![w] = Idle]
Others(w, step, op) == \E v \in Writers \ {w} : At(v, step, op)

\* Row locks: a new reference holds the row FOR KEY SHARE until its transaction
\* ends, an update FOR NO KEY UPDATE, a delete (or its lock) FOR UPDATE.
Shared(w) == Others(w, "written", "link")
Deleting(w) == \/ Others(w, "written", "delete")
               \/ link.locked /\ (Others(w, "locked", "delete") \/ Others(w, "checked", "delete"))
Updating(w) == Others(w, "written", "update") \/ Others(w, "written", "image")

(***************************************************************************)
(* Writers                                                                 *)
(***************************************************************************)
Create(w) ==
    /\ writer[w].step = "idle" /\ ~row
    /\ \A v \in Writers \ {w} : ~At(v, "written", "create")
    /\ Go(w, "written", "create", Writes(link.kind).create)
    /\ UNCHANGED <<link, ns, row, linked, cache, reader>>

\* The keys of a class's characters are collected here, in the transaction.
Update(w) ==
    /\ writer[w].step = "idle" /\ row
    /\ ~Deleting(w) /\ ~Updating(w)
    /\ LET hitDice == link.kind = "class" /\ link.holder = "character" /\ linked
       IN Go(w, "written", "update",
             Writes(link.kind).update \cup (IF hitDice THEN {"characters"} ELSE {}))
    /\ UNCHANGED <<link, ns, row, linked, cache, reader>>

\* An image is replaced: the purge is not left for after the commit.
Image(w) ==
    /\ writer[w].step = "idle" /\ row /\ link.kind \in Imaged
    /\ ~Deleting(w) /\ ~Updating(w)
    /\ Go(w, "written", "image", {})
    /\ IF Own THEN PurgeNow ELSE UNCHANGED <<cache, reader>>
    /\ UNCHANGED <<link, ns, row, linked>>

\* A reference to the row is added, or written again.
Refer(w) ==
    /\ writer[w].step = "idle" /\ row /\ link.holder # "author"
    /\ ~Deleting(w)
    /\ ~Others(w, "written", "link") /\ ~Others(w, "written", "unlink")
    /\ Go(w, "written", "link", link.purges)
    /\ UNCHANGED <<link, ns, row, linked, cache, reader>>

Unrefer(w) ==
    /\ writer[w].step = "idle" /\ linked /\ link.holder # "author"
    /\ ~Others(w, "written", "delete")
    /\ ~Others(w, "written", "link") /\ ~Others(w, "written", "unlink")
    /\ Go(w, "written", "unlink", link.purges)
    /\ UNCHANGED <<link, ns, row, linked, cache, reader>>

\* delete: the row is fetched, locked where the repository does, checked for use ...
Fetch(w) ==
    /\ writer[w].step = "idle" /\ row
    /\ Go(w, "fetched", "delete", Writes(link.kind).delete)
    /\ UNCHANGED <<link, ns, row, linked, cache, reader>>

\* Mutant of LockRow: the in-use check runs on a row nobody holds.
LockNothing(w) ==
    /\ At(w, "fetched", "delete") /\ row /\ link.locked
    /\ Go(w, "locked", "delete", writer[w].purges)
    /\ UNCHANGED <<link, ns, row, linked, cache, reader>>

LockRow(w) ==
    /\ At(w, "fetched", "delete") /\ row /\ link.locked
    /\ ~Shared(w) /\ ~Deleting(w) /\ ~Updating(w)
    /\ Go(w, "locked", "delete", writer[w].purges)
    /\ UNCHANGED <<link, ns, row, linked, cache, reader>>

CheckInUse(w) ==
    /\ At(w, "locked", "delete") \/ (At(w, "fetched", "delete") /\ ~link.locked)
    /\ IF link.guarded /\ linked THEN Stop(w) ELSE Go(w, "checked", "delete", writer[w].purges)
    /\ UNCHANGED <<link, ns, row, linked, cache, reader>>

\* ... and deleted, unless a RESTRICT key or a missing row stops it.
Delete(w) ==
    /\ At(w, "checked", "delete")
    /\ ~Shared(w) /\ ~Others(w, "written", "unlink") /\ ~Deleting(w) /\ ~Updating(w)
    /\ IF row /\ ~(linked /\ link.onDelete = "restrict")
       THEN Go(w, "written", "delete", writer[w].purges)
       ELSE Stop(w)
    /\ UNCHANGED <<link, ns, row, linked, cache, reader>>

Rollback(w) ==
    /\ writer[w].step \in {"written", "locked", "checked"}
    /\ Stop(w)
    /\ UNCHANGED <<link, ns, row, linked, cache, reader>>

\* The row went while the request was waiting for it.
Gone(w) ==
    /\ At(w, "fetched", "delete") /\ ~row
    /\ Stop(w)
    /\ UNCHANGED <<link, ns, row, linked, cache, reader>>

\* Mutant of Commit: the purge comes before the commit.
CommitAfterPurge(w) ==
    /\ writer[w].step = "written"
    /\ LET op == writer[w].op
       IN IF ns \in writer[w].purges
          THEN PurgeNow /\ Go(w, "written", op, {}) /\ UNCHANGED <<row, linked>>
          ELSE /\ row' = IF op = "create" THEN TRUE ELSE row /\ op # "delete"
               /\ linked' = (op = "link" \/ (linked /\ op \notin {"unlink", "delete"}))
               /\ Stales(op, op) /\ Stop(w)
    /\ UNCHANGED <<link, ns>>

\* COMMIT: the payload of ns is owed its purge from here on.  The purges of
\* other namespaces are left out: they only make readers give up more often.
Commit(w) ==
    /\ writer[w].step = "written"
    /\ LET op == writer[w].op
           late == op = "update" /\ link.kind = "class" /\ ns \notin writer[w].purges
       IN /\ row' = IF op = "create" THEN TRUE ELSE row /\ op # "delete"
          /\ linked' = (op = "link" \/ (linked /\ op \notin {"unlink", "delete"}))
          /\ Stales(op, IF late THEN "joined" ELSE op)
          /\ IF ns \in writer[w].purges THEN Go(w, "purge", op, {ns}) ELSE Stop(w)
    /\ UNCHANGED <<link, ns>>

Purge(w) ==
    /\ writer[w].step = "purge"
    /\ PurgeNow /\ Stop(w)
    /\ UNCHANGED <<link, ns, row, linked>>

(***************************************************************************)
(* Readers                                                                 *)
(***************************************************************************)
\* The character is loaded for the access check; other reads start at the cache.
Load(r) ==
    /\ reader[r].step = "idle" /\ RowFirst
    /\ reader' = [reader EXCEPT ![r] = [step |-> "loaded", missed |-> {}, raced |-> FALSE]]
    /\ UNCHANGED <<link, ns, row, linked, cache, writer>>

\* A miss: the epoch is taken, then the database is read, except what was loaded.
Read(r) ==
    /\ reader[r].step = IF RowFirst THEN "loaded" ELSE "idle"
    /\ ~cache.there
    /\ reader' = [reader EXCEPT ![r] =
                     [step |-> "read", raced |-> FALSE, missed |-> @.missed \cap {"link", "unlink", "delete"}]]
    /\ UNCHANGED <<link, ns, row, linked, cache, writer>>

\* Stored unless a purge moved the epoch.
Store(r) ==
    /\ reader[r].step = "read"
    /\ cache' = IF reader[r].raced THEN cache ELSE [there |-> TRUE, missed |-> reader[r].missed]
    /\ reader' = [reader EXCEPT ![r] = Resting]
    /\ UNCHANGED <<link, ns, row, linked, writer>>

Hit(r) ==
    /\ reader[r].step = "loaded" /\ cache.there
    /\ reader' = [reader EXCEPT ![r] = Resting]
    /\ UNCHANGED <<link, ns, row, linked, cache, writer>>

Next ==
    \/ \E w \in Writers :
         \/ Create(w) \/ Update(w) \/ Image(w) \/ Refer(w) \/ Unrefer(w)
         \/ Fetch(w) \/ LockRow(w) \/ CheckInUse(w) \/ Delete(w) \/ Gone(w)
         \/ Rollback(w) \/ Commit(w) \/ Purge(w)
    \/ \E r \in Readers : Load(r) \/ Read(r) \/ Store(r) \/ Hit(r)

Spec == Init /\ [][Next]_vars

(***************************************************************************)
(* Properties                                                              *)
(***************************************************************************)
\* Every variable has its type.
TypeOK ==
    /\ link \in Links /\ ns \in ReadNamespaces(link.kind) \cup link.shown
    /\ row \in BOOLEAN /\ linked \in BOOLEAN /\ cache \in Payloads
    /\ writer \in [Writers -> [step : {"idle", "written", "fetched", "locked", "checked", "purge"},
                               op : Ops, purges : SUBSET (FeaturePayloads \cup Details \cup
                                   {"skills", "items", "tags", "spells", "users", "nested_items",
                                    "characters", "articles", "article_trees"})]]
    /\ reader \in [Readers -> [step : {"idle", "loaded", "read"}, missed : SUBSET Causes, raced : BOOLEAN]]

\* Changes that the code may leave in a cached payload until its time to live
\* ends: the image writes, which purge too early; the columns of a character,
\* whose row is read before the epoch (the comment on CHARACTER_CACHE_TTL) and
\* which nothing purges when a background goes; a character that joined a class
\* while the class was written.
Tolerated == {"image", "joined"} \cup (IF RowFirst THEN {"link", "unlink", "delete"} ELSE {})

\* A cached payload that misses any other change, of the row or of a reference to
\* it, is owed by a committed write whose purge of this very namespace is still to
\* run: each service purges every namespace that shows what it writes, the narrow
\* purges of the deletes are enough because rows in use cannot be deleted, and no
\* fill outlives a purge (core/cache/namespaces.py, the cache.py files).
StaleIsOwed ==
    cache.missed \ Tolerated # {} => \E w \in Writers : writer[w].step = "purge"

\* A row is never deleted from under a reference that is_in_use looks at, where the
\* foreign key is RESTRICT or the repository locks the row before it looks (skills,
\* items, feats, backgrounds, classes, tags): base/repository.py, delete.
ProtectedLinksKept ==
    [][row /\ ~row' /\ link.guarded /\ (link.locked \/ link.onDelete = "restrict") => ~linked]_vars

=============================================================================
