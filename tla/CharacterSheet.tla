--------------------------- MODULE CharacterSheet ---------------------------
(***************************************************************************)
(* One character: features/characters progression (level-up, subclass,     *)
(* background, rebuild), crud (hit points, rest) and gm_panel (level cap,  *)
(* maximum HP, feats, features).                                           *)
(*                                                                         *)
(* Every write but the GM's maximum HP locks the character's row.  The     *)
(* owner's writes and the GM's level cap re-read the row once they hold it *)
(* ("locked"); the GM's grants load the character first, then take the     *)
(* lock without reading it again ("held").  What a request read is its     *)
(* instance (build, hp); it computes from the instance and stores the      *)
(* columns it changed with its commit, which also gives the lock up.  The  *)
(* other tables are read under the lock.  A write that fails a rule is     *)
(* rolled back (Abort).                                                    *)
(*                                                                         *)
(* Left out: ability scores and their cache, the picks of a feature's      *)
(* choice groups, spells, proficiencies, and catalogue edits.              *)
(***************************************************************************)
EXTENDS Integers, FiniteSets

CONSTANTS
    Requests,
    Subclasses, Backgrounds,
    Class,                \* the character's class: a source of features
    Features, Feats,      \* reference features; feats are owned by no source
    SourceOf, LevelOf,    \* per feature: who owns it, the level that unlocks it
    AsiLevels,            \* ASI_LEVELS
    MaxLevel,             \* CHARACTER_MAX_LEVEL
    Die,                  \* hit die plus CON modifier, at least 1
    Deltas, HpInputs,     \* bounds of the instance: HP values clients send
    GmHp,                 \* bound of the instance: maximum HP a GM sets
    MaxKits,              \* bound of the instance: starting kits handed out
    NoRequest, Null

Sources == {Class} \cup Subclasses \cup Backgrounds

ASSUME NullAssumption == NoRequest \notin Requests /\ Null \notin Sources \cup Feats
ASSUME SourceAssumption ==
    /\ SourceOf \in [Features -> Sources] /\ LevelOf \in [Features -> Nat]
    /\ Features \cap Feats = {} /\ "ability" \notin Feats
ASSUME NumberAssumption ==
    /\ MaxLevel \in Nat \ {0} /\ AsiLevels \subseteq 2..MaxLevel
    /\ Die \in Nat \ {0} /\ MaxKits \in Nat
    /\ Deltas \subseteq Int /\ HpInputs \subseteq Nat /\ GmHp \subseteq Nat

VARIABLES
    build,    \* characters: level, subclass, background
    hp,       \* characters: maximum, current and temporary hit points
    cap,      \* character_max_levels
    grants,   \* character_features: per feature, the source of its grant
    log,      \* character_asi_choices: per ASI level, what was taken
    freed,    \* ASI levels whose feat a GM has revoked since they were taken
    kits,     \* the starting kits set_background has handed out
    lock,     \* the transaction that holds the character's row
    req       \* per request: where it is, and its instance of the character

vars == <<build, hp, cap, grants, log, freed, kits, lock, req>>

Build == [level : 1..MaxLevel, subclass : Subclasses \cup {Null},
          background : Backgrounds \cup {Null}]
Hp == [max : Nat, current : Nat, temp : Nat]
Grantable == Features \cup Feats
Choices == Feats \cup {"ability"}

Least(a, b) == IF a < b THEN a ELSE b
Most(a, b) == IF a < b THEN b ELSE a

FullHp(n) == [max |-> n, current |-> n, temp |-> 0]

\* _desired_feature_ids: owned by a source of the build, and reached.
Desired(b) == {f \in Features : /\ SourceOf[f] \in {Class, b.subclass, b.background}
                                /\ LevelOf[f] <= b.level}

\* sync_progression_features: the grants g reconciled to the build b.
Sync(g, b) ==
    [f \in Grantable |->
        IF f \in Desired(b) THEN IF g[f] = "" THEN "AUTO" ELSE g[f]
                            ELSE IF g[f] = "AUTO" THEN "" ELSE g[f]]

\* required_asi_levels.
Required(level) == {l \in AsiLevels : l <= level}

\* apply_hp_delta, then resolve_hp_update's clamps.
Damaged(h, delta) ==
    LET absorbed == Least(h.temp, -delta)
    IN IF delta >= 0 THEN [h EXCEPT !.current = Least(h.current + delta, h.max)]
       ELSE [h EXCEPT !.current = Most(0, h.current + delta + absorbed), !.temp = h.temp - absorbed]

NoBuild == [level |-> 1, subclass |-> Null, background |-> Null]
Idle == [step |-> "idle", build |-> NoBuild, hp |-> FullHp(0)]

TypeOK ==
    /\ build \in Build /\ hp \in Hp /\ hp.current <= hp.max
    /\ cap \in 1..MaxLevel
    /\ grants \in [Grantable -> {"", "AUTO", "GM", "ASI"}]
    /\ log \in [AsiLevels -> Choices \cup {Null}]
    /\ freed \subseteq AsiLevels
    /\ kits \in 0..MaxKits
    /\ lock \in Requests \cup {NoRequest}
    /\ req \in [Requests -> [step : {"idle", "loaded", "held", "locked"}, build : Build, hp : Hp]]

\* CharacterCreationService.persist: level 1, its cap 1, starting HP.
Init ==
    /\ build \in {b \in Build : b.level = 1}
    /\ hp = FullHp(Die)
    /\ cap = 1
    /\ grants = Sync([f \in Grantable |-> ""], build)
    /\ log = [l \in AsiLevels |-> Null] /\ freed = {}
    /\ kits = 0
    /\ lock = NoRequest
    /\ req = [r \in Requests |-> Idle]

-----------------------------------------------------------------------------
(* Transactions.                                                           *)

\* get_character_for_gm: the access check of a GM's grant loads the character.
Load(r) ==
    /\ req[r].step = "idle"
    /\ req' = [req EXCEPT ![r] = [step |-> "loaded", build |-> build, hp |-> FullHp(0)]]
    /\ UNCHANGED <<build, hp, cap, grants, log, freed, kits, lock>>

\* Mutant of LockCharacter: the character is read without FOR UPDATE.
ReadCharacter(r) ==
    /\ req[r].step = "idle"
    /\ lock' = IF lock = NoRequest THEN r ELSE lock
    /\ req' = [req EXCEPT ![r] = [step |-> "locked", build |-> build, hp |-> hp]]
    /\ UNCHANGED <<build, hp, cap, grants, log, freed, kits>>

\* get_for_update: waits for the row, then reads it.
LockCharacter(r) ==
    /\ req[r].step = "idle"
    /\ lock = NoRequest /\ lock' = r
    /\ req' = [req EXCEPT ![r] = [step |-> "locked", build |-> build, hp |-> hp]]
    /\ UNCHANGED <<build, hp, cap, grants, log, freed, kits>>

\* lock_character: the row is locked, the instance stays as it was loaded.
LockOnly(r) ==
    /\ req[r].step = "loaded"
    /\ lock = NoRequest /\ lock' = r
    /\ req' = [req EXCEPT ![r].step = "held"]
    /\ UNCHANGED <<build, hp, cap, grants, log, freed, kits>>

Done(r) ==
    /\ lock' = IF lock = r THEN NoRequest ELSE lock
    /\ req' = [req EXCEPT ![r] = Idle]

\* A rule is not met, or the request ends, before anything was written.
Abort(r) ==
    /\ req[r].step # "idle"
    /\ Done(r)
    /\ UNCHANGED <<build, hp, cap, grants, log, freed, kits>>

-----------------------------------------------------------------------------
(* The owner's writes: progression.                                        *)

\* set_subclass: set or cleared, the features follow.
SetSubclass(r, s) ==
    /\ req[r].step = "locked"
    /\ build' = [build EXCEPT !.subclass = s]
    /\ grants' = Sync(grants, [req[r].build EXCEPT !.subclass = s])
    /\ Done(r)
    /\ UNCHANGED <<hp, cap, log, freed, kits>>

\* set_background: only while there is none; its equipment comes with it.
SetBackground(r, g) ==
    /\ req[r].step = "locked" /\ req[r].build.background = Null
    /\ kits < MaxKits
    /\ build' = [build EXCEPT !.background = g]
    /\ grants' = Sync(grants, [req[r].build EXCEPT !.background = g])
    /\ kits' = kits + 1
    /\ Done(r)
    /\ UNCHANGED <<hp, cap, log, freed>>

\* apply_feat: not known yet; granted and logged.
Takeable(g, choice) == choice \in Feats => g[choice] = ""
Granted(g, choice, source) ==
    [f \in Grantable |-> IF f = choice THEN source ELSE g[f]]

\* level_up: below the cap, one level, an ASI level with its choice; fully heals.
LevelUp(r, choice, gain) ==
    LET level == req[r].build.level + 1
    IN /\ req[r].step = "locked"
       /\ level <= cap
       /\ (level \in AsiLevels) <=> (choice # Null)
       /\ Takeable(grants, choice)
       /\ choice # Null => log[level] = Null
       /\ build' = [build EXCEPT !.level = level]
       /\ grants' = Sync(Granted(grants, choice, "ASI"), [req[r].build EXCEPT !.level = level])
       /\ log' = [l \in AsiLevels |-> IF l = level THEN choice ELSE log[l]]
       /\ hp' = FullHp(req[r].hp.max + gain)
       /\ Done(r)
       /\ UNCHANGED <<cap, freed, kits>>

\* Mutant of WithoutAsiFeats: the feats of the old ASI levels stay.
KeptAsiFeats(g) == g

\* remove_feats_by_source.
WithoutAsiFeats(g) ==
    [f \in Grantable |-> IF f \in Feats /\ g[f] = "ASI" THEN "" ELSE g[f]]

\* rebuild_character: subclass and background replaced, every reached ASI level
\* resolved again, new maximum HP within max_hp_bounds; fully heals.
Rebuild(r, s, g, choice, max) ==
    LET level == req[r].build.level
        kept == WithoutAsiFeats(grants)
    IN /\ req[r].step = "locked"
       /\ \A l \in AsiLevels : (l \in Required(level)) <=> (choice[l] # Null)
       /\ \A l \in AsiLevels : Takeable(kept, choice[l])
       /\ \A l, m \in AsiLevels : l # m /\ choice[l] \in Feats => choice[l] # choice[m]
       /\ max \in (Die + level - 1)..(Die * level)
       /\ build' = [build EXCEPT !.subclass = s, !.background = g]
       /\ grants' = Sync([f \in Grantable |->
                            IF \E l \in AsiLevels : choice[l] = f THEN "ASI" ELSE kept[f]],
                         [level |-> level, subclass |-> s, background |-> g])
       /\ log' = choice
       /\ freed' = {}
       /\ hp' = FullHp(max)
       /\ Done(r)
       /\ UNCHANGED <<cap, kits>>

-----------------------------------------------------------------------------
(* The owner's writes: hit points.                                         *)

WriteHp(r, new) ==
    /\ req[r].step = "locked"
    /\ hp' = [new EXCEPT !.max = hp.max]
    /\ Done(r)
    /\ UNCHANGED <<build, cap, grants, log, freed, kits>>

\* update_hp with a delta.
ApplyDelta(r, delta) == WriteHp(r, Damaged(req[r].hp, delta))

\* update_hp with absolute values, update_character with a current_hp:
\* current is clamped to the maximum, temporary HP only rise.
SetHp(r, current, temp) ==
    WriteHp(r, [req[r].hp EXCEPT !.current = Least(current, req[r].hp.max), !.temp = Most(@, temp)])

\* rest (long).
Rest(r) == WriteHp(r, FullHp(req[r].hp.max))

-----------------------------------------------------------------------------
(* The GM's writes.                                                        *)

\* set_max_level: locks and re-reads; the cap only rises, never below the level.
SetMaxLevel(r, n) ==
    /\ req[r].step = "locked"
    /\ n >= req[r].build.level /\ n > cap
    /\ cap' = n
    /\ Done(r)
    /\ UNCHANGED <<build, hp, grants, log, freed, kits>>

\* Mutant of SetMaxHp: the statement does not wait for the row.
SetMaxHpNow(n) ==
    /\ hp' = [hp EXCEPT !.max = n, !.current = Least(@, n)]
    /\ UNCHANGED <<build, cap, grants, log, freed, kits, lock, req>>

\* set_max_hp: one UPDATE of the stored row, which waits for its lock.
SetMaxHp(n) ==
    /\ lock = NoRequest
    /\ hp' = [hp EXCEPT !.max = n, !.current = Least(@, n)]
    /\ UNCHANGED <<build, cap, grants, log, freed, kits, lock, req>>

\* add_feat, with the sync to the instance's build.
AddFeat(r, t) ==
    /\ req[r].step = "held" /\ grants[t] = ""
    /\ grants' = Sync(Granted(grants, t, "GM"), req[r].build)
    /\ Done(r)
    /\ UNCHANGED <<build, hp, cap, log, freed, kits>>

\* remove_feat: with its rows of the ASI log, so the level is free again.
RemoveFeat(r, t) ==
    LET levels == {l \in AsiLevels : log[l] = t}
    IN /\ req[r].step = "held" /\ grants[t] # ""
       /\ grants' = Sync(Granted(grants, t, ""), req[r].build)
       /\ log' = [l \in AsiLevels |-> IF l \in levels THEN Null ELSE log[l]]
       /\ freed' = freed \cup levels
       /\ Done(r)
       /\ UNCHANGED <<build, hp, cap, kits>>

\* add_feature.
AddFeature(r, f) ==
    /\ req[r].step = "held" /\ grants[f] = ""
    /\ grants' = Granted(grants, f, "GM")
    /\ Done(r)
    /\ UNCHANGED <<build, hp, cap, log, freed, kits>>

\* remove_feature: any grant by its id, a feat's too.
RemoveFeature(r, f) ==
    /\ req[r].step = "held" /\ grants[f] # ""
    /\ grants' = Granted(grants, f, "")
    /\ Done(r)
    /\ UNCHANGED <<build, hp, cap, log, freed, kits>>

-----------------------------------------------------------------------------

\* The requests, with all their inputs.
ChangeSources(r) ==
    \/ \E s \in Subclasses \cup {Null} : SetSubclass(r, s)
    \/ \E g \in Backgrounds : SetBackground(r, g)

RebuildCharacter(r) ==
    \E s \in Subclasses \cup {Null}, g \in Backgrounds \cup {Null},
       choice \in [AsiLevels -> Choices \cup {Null}], max \in 1..(Die * MaxLevel) :
         Rebuild(r, s, g, choice, max)

LevelUpCharacter(r) ==
    \E choice \in Choices \cup {Null}, gain \in 1..Die : LevelUp(r, choice, gain)

HitPoints(r) ==
    \/ \E delta \in Deltas : ApplyDelta(r, delta)
    \/ \E current, temp \in HpInputs : SetHp(r, current, temp)
    \/ Rest(r)

Next ==
    \/ \E r \in Requests :
        \/ Load(r) \/ LockCharacter(r) \/ LockOnly(r) \/ Abort(r)
        \/ ChangeSources(r) \/ RebuildCharacter(r) \/ LevelUpCharacter(r)
        \/ HitPoints(r)
        \/ \E n \in 1..MaxLevel : SetMaxLevel(r, n)
        \/ \E t \in Feats : AddFeat(r, t) \/ RemoveFeat(r, t)
        \/ \E f \in Features : AddFeature(r, f)
        \/ \E f \in Grantable : RemoveFeature(r, f)
    \/ \E n \in GmHp : SetMaxHp(n)

Spec == Init /\ [][Next]_vars

-----------------------------------------------------------------------------
(* Properties.                                                             *)

\* While a request that re-read the character under its lock is at work, its
\* instance is the row as it stands: nobody's write can be lost under it.
InstanceCurrent ==
    \A r \in Requests : req[r].step = "locked" => req[r].build = build /\ req[r].hp = hp

\* progression: every ASI level up to the character's level is resolved, and
\* none above, except a level whose feat a GM has taken away.
AsiResolved ==
    \A l \in AsiLevels : (log[l] # Null \/ l \in freed) <=> l <= build.level

\* apply_feat and remove_character_feat: a feat granted at an ASI level has its
\* row in the ASI log.
AsiFeatsLogged == \A t \in Feats : grants[t] = "ASI" => \E l \in AsiLevels : log[l] = t

\* The AUTO grants are the features the build has unlocked and nobody granted.
Reconciled ==
    \A f \in Features : /\ grants[f] = "AUTO" => f \in Desired(build)
                        /\ f \in Desired(build) => grants[f] # ""

\* A write that changes level, subclass or background leaves the feature
\* grants reconciled with what it stored.
BuildChangesReconcile == [][build' # build => Reconciled']_vars

\* A starting kit is handed out only as a character without a background gets one.
KitWithBackground ==
    [][kits' # kits => build.background = Null /\ build'.background # Null]_vars

\* level_up: one level, at least one more hit point, fully healed.
LevelAddsHp ==
    [][build'.level # build.level =>
        /\ build'.level = build.level + 1
        /\ hp'.max > hp.max /\ hp' = FullHp(hp'.max)]_vars
=============================================================================
