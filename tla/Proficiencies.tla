---------------------------- MODULE Proficiencies ----------------------------
(***************************************************************************)
(* What a character is proficient in: features/characters/proficiencies    *)
(* (the rows of its class, race and background, and how all sources        *)
(* resolve), gm_panel/proficiencies (the GM's layer over them) and what    *)
(* progression does to the rows.                                           *)
(*                                                                         *)
(* A feature gives proficiencies without a row: they are computed from its *)
(* effects and the options the player picked, which change without the     *)
(* character's lock. The rows, the grants and the GM's layer change under  *)
(* it: the owner's writes re-read the character with their lock            *)
(* ("locked"), the GM's lock it ("held") and then read what the one        *)
(* proficiency is worth ("read"). A request that fails a rule ends         *)
(* without a write (Abort).                                                *)
(*                                                                         *)
(* The skills of a class, race or background are replaced at any time and  *)
(* without that lock (SetSkills); the rows of characters stay as they are. *)
(* A rebuild reads the skills before it waits for the lock ("prepared"),   *)
(* set_background after ("loaded"): either may write what has been         *)
(* replaced since.                                                         *)
(*                                                                         *)
(* Left out: who set a GM row, names, the deletion of skills and items     *)
(* (refused while a row uses them: module Catalog), a race deleted just    *)
(* after its check found no character of it, and the edits of a class's    *)
(* other grants and of its skill_choice_count (read once, at creation, and *)
(* with the chosen skills).                                                *)
(***************************************************************************)
EXTENDS FiniteSets, Naturals

CONSTANTS
    Requests,
    Skills, Throws, Armor, Weapons,   \* what one can be proficient in
    Classes, Races, Backgrounds,
    Grants,            \* class_saving_throws, armor and weapon proficiencies
    ChoiceCount,       \* classes: skill_choice_count
    Offers,            \* the lists of skills a GM may give a class, race or background
    Bare,              \* backgrounds without a feature
    Features, Options, \* the options of the features' choice groups
    Effects,           \* possible effect rows: of a feature, or of one of its options
    Builds,            \* bound: the builds players ask for
    MaxDecided,        \* bound: the proficiencies of the character a GM has decided at once
    NoRequest, Null

Granting == Races \cup Backgrounds
Sources == Classes \cup Granting
Keys == Skills \cup Throws \cup Armor \cup Weapons

Build == [class : Classes, race : Races \cup {Null}, background : Backgrounds \cup {Null},
          chosen : SUBSET Skills]

\* [feature, option, key, expertise]: a fixed effect has no option.
ASSUME EffectAssumption ==
    Effects \subseteq [feature : Features, option : Options \cup {Null}, key : Keys, expertise : BOOLEAN]
ASSUME SourceAssumption ==
    /\ Grants \in [Classes -> SUBSET (Keys \ Skills)]
    /\ ChoiceCount \in [Classes -> Nat] /\ MaxDecided \in Nat
    /\ Offers \in [Sources -> SUBSET SUBSET Skills]
    /\ Bare \subseteq Backgrounds
    /\ Classes \cap Granting = {} /\ Races \cap Backgrounds = {}
ASSUME BuildAssumption == Builds \subseteq Build
ASSUME NullAssumption ==
    /\ NoRequest \notin Requests
    /\ Null \notin Classes \cup Races \cup Backgrounds \cup Options \cup Keys

VARIABLES
    build,     \* characters: class, race, background and the skills chosen with them
    rows,      \* character_proficiencies of the sources but the GM: <<source_type, key>>
    gm,        \* character_proficiencies: the GM's row of each proficiency
    granted,   \* character_features
    picked,    \* character_feature_choices: the options picked
    effects,   \* the effect rows there are
    backgrounds, \* the backgrounds there are
    offered,   \* classes: available_skills; races and backgrounds: granted_skills
    given,     \* history: what each race and background has granted since it was
               \* read for the rows the character has; empty for any other
    lock,      \* the transaction that holds the character's row
    req        \* per request: where it is and what it has read

vars == <<build, rows, gm, granted, picked, effects, backgrounds, offered, given, lock, req>>

NoRow == [action |-> "NONE", expertise |-> "unset"]
Rows == {NoRow} \cup [action : {"GRANT", "REVOKE"}, expertise : {"unset", "yes", "no"}]

\* validate_chosen_skills.
Choosable(class) ==
    {S \in SUBSET offered[class] : Cardinality(S) <= ChoiceCount[class]}

OptionsOf(f) == {e.option : e \in {x \in Effects : x.feature = f}} \ {Null}

Sourced(source, keys) == {source} \X keys
SourcesOf(b) == {b.race, b.background} \ {Null}
SkillsOf(x, skills) == IF x = Null THEN {} ELSE skills[x]

\* add_skill_proficiencies of a build's three sources, of which race and
\* background grant these skills.
SkillRows(b, skills) ==
    Sourced("CLASS_CHOICE", b.chosen) \cup Sourced("RACE", SkillsOf(b.race, skills))
        \cup Sourced("BACKGROUND", SkillsOf(b.background, skills))

\* The history of races and backgrounds that are read now, and of those read
\* before when x is given the skills S.
Read(sources) == [x \in Granting |-> IF x \in sources THEN {offered[x]} ELSE {}]
Noted(history, x, S) ==
    [y \in Granting |-> history[y] \cup (IF y = x /\ history[y] # {} THEN {S} ELSE {})]

\* feature_entries: the effects the character has, fixed ones and of picked options.
Effective ==
    {e \in effects : e.feature \in granted /\ (e.option = Null \/ e.option \in picked)}

\* The claims of the sources but the GM on a proficiency, each by whether it is
\* an expertise.  Effects of one feature are one claim.
Others(k) ==
    {FALSE : row \in {x \in rows : x[2] = k}} \cup
    {\E e \in Effective : e.feature = f /\ e.key = k /\ e.expertise :
        f \in {e.feature : e \in {x \in Effective : x.key = k}}}

\* resolve_group: a REVOKE excludes it, any other claim grants it; an explicit
\* expertise of the GM decides.
Holds(row, others) == row.action # "REVOKE" /\ (row.action = "GRANT" \/ others # {})
Expert(row, others) ==
    Holds(row, others) /\ (row.expertise = "yes" \/ (row.expertise = "unset" /\ TRUE \in others))

Proficient(k) == Holds(gm[k], Others(k))

\* Mutant of GmRow: the GM's own row counts among the sources it is weighed against.
GmRowOfAll(row, others, want, expertise) ==
    IF want = (others # {} \/ row # NoRow) /\ expertise = "unset" THEN NoRow
    ELSE [action |-> IF want THEN "GRANT" ELSE "REVOKE",
          expertise |-> IF want THEN expertise ELSE "unset"]

\* CharacterProficiencyGmRepository.apply: no row where the sources agree, else
\* a GRANT or a veto; an explicit expertise needs a GRANT to live on.
GmRow(row, others, want, expertise) ==
    IF want = (others # {}) /\ expertise = "unset" THEN NoRow
    ELSE [action |-> IF want THEN "GRANT" ELSE "REVOKE",
          expertise |-> IF want THEN expertise ELSE "unset"]

Idle == [step |-> "idle", key |-> Null, want |-> FALSE, expertise |-> "unset",
         row |-> NoRow, others |-> {}, background |-> Null,
         target |-> Null, new |-> {}, since |-> [x \in Granting |-> {}]]

SourceRows == {"CLASS", "CLASS_CHOICE", "RACE", "BACKGROUND"} \X Keys

\* target, new, since: the build to be written, its rows of skills, and what
\* their race and background have granted since they were read.
Request == [step : {"idle", "prepared", "locked", "loaded", "rebuilding", "held", "read"},
            key : Keys \cup {Null}, want : BOOLEAN, expertise : {"unset", "yes", "no"},
            row : Rows, others : SUBSET BOOLEAN, background : Backgrounds \cup {Null},
            target : Build \cup {Null}, new : SUBSET SourceRows,
            since : [Granting -> SUBSET SUBSET Skills]]

TypeOK ==
    /\ build \in Build
    /\ rows \subseteq SourceRows
    /\ gm \in [Keys -> Rows]
    /\ granted \subseteq Features /\ picked \subseteq Options
    /\ effects \subseteq Effects /\ backgrounds \subseteq Backgrounds
    /\ offered \in [Sources -> SUBSET Skills]
    /\ given \in [Granting -> SUBSET SUBSET Skills]
    /\ lock \in Requests \cup {NoRequest}
    /\ req \in [Requests -> Request]

\* CharacterCreationService.persist: the rows of the skills and, of the class,
\* of saving throws, armor and weapons.
Init ==
    /\ offered \in {o \in [Sources -> SUBSET Skills] : \A x \in Sources : o[x] \in Offers[x]}
    /\ build \in {b \in Builds : b.chosen \in Choosable(b.class)}
    /\ rows = SkillRows(build, offered) \cup Sourced("CLASS", Grants[build.class])
    /\ given = Read(SourcesOf(build))
    /\ gm = [k \in Keys |-> NoRow]
    /\ granted \in SUBSET Features /\ picked = {} /\ effects \in SUBSET Effects
    /\ backgrounds = Backgrounds
    /\ lock = NoRequest
    /\ req = [r \in Requests |-> Idle]

-----------------------------------------------------------------------------
(* Transactions.                                                           *)

\* rebuild_character.prepare: the references and the chosen skills of the build
\* are checked, and the skills of its race and background read, before the lock.
Prepare(r, b) ==
    /\ req[r].step = "idle"
    /\ b.race # Null /\ b.background \in backgrounds \cup {Null}
    /\ b.chosen \in Choosable(b.class)
    /\ req' = [req EXCEPT ![r] = [Idle EXCEPT !.step = "prepared", !.target = b,
                                   !.new = SkillRows(b, offered), !.since = Read(SourcesOf(b))]]
    /\ UNCHANGED <<build, rows, gm, granted, picked, effects, backgrounds, offered, given, lock>>

Locking(r) ==
    [req[r] EXCEPT !.step = IF @ = "idle" THEN "locked" ELSE "rebuilding", !.background = build.background]

\* Mutant of LockCharacter: the character is read without FOR UPDATE.
ReadCharacter(r) ==
    /\ req[r].step \in {"idle", "prepared"}
    /\ lock' = IF lock = NoRequest THEN r ELSE lock
    /\ req' = [req EXCEPT ![r] = Locking(r)]
    /\ UNCHANGED <<build, rows, gm, granted, picked, effects, backgrounds, offered, given>>

\* get_for_update: waits for the row, then reads it.
LockCharacter(r) ==
    /\ req[r].step \in {"idle", "prepared"}
    /\ lock = NoRequest /\ lock' = r
    /\ req' = [req EXCEPT ![r] = Locking(r)]
    /\ UNCHANGED <<build, rows, gm, granted, picked, effects, backgrounds, offered, given>>

\* Mutant of Ask: the character's row is not locked.
AskUnlocked(r, k, want, expertise) ==
    /\ req[r].step = "idle"
    /\ lock' = IF lock = NoRequest THEN r ELSE lock
    /\ req' = [req EXCEPT ![r] = [Idle EXCEPT !.step = "held", !.key = k, !.want = want, !.expertise = expertise]]
    /\ UNCHANGED <<build, rows, gm, granted, picked, effects, backgrounds, offered, given>>

Decided == {k \in Keys : gm[k] # NoRow}

\* _write: what the GM wants of a proficiency; lock_character.
Ask(r, k, want, expertise) ==
    /\ req[r].step = "idle"
    /\ Cardinality(Decided \cup {k}) <= MaxDecided
    /\ lock = NoRequest /\ lock' = r
    /\ req' = [req EXCEPT ![r] = [Idle EXCEPT !.step = "held", !.key = k, !.want = want, !.expertise = expertise]]
    /\ UNCHANGED <<build, rows, gm, granted, picked, effects, backgrounds, offered, given>>

\* get_rows and feature_entries: the rows cannot change between the two.
ReadEntries(r) ==
    /\ req[r].step = "held"
    /\ req' = [req EXCEPT ![r].step = "read", ![r].row = gm[req[r].key], ![r].others = Others(req[r].key)]
    /\ UNCHANGED <<build, rows, gm, granted, picked, effects, backgrounds, offered, given, lock>>

Done(r) ==
    /\ lock' = IF lock = r THEN NoRequest ELSE lock
    /\ req' = [req EXCEPT ![r] = Idle]

Abort(r) ==
    /\ req[r].step # "idle"
    /\ Done(r)
    /\ UNCHANGED <<build, rows, gm, granted, picked, effects, backgrounds, offered, given>>

\* The checks of _write ("already", "missing"), apply and the commit.
Write(r) ==
    LET q == req[r]
    IN /\ q.step = "read"
       /\ Holds(q.row, q.others) = (~q.want \/ q.expertise # "unset")
       /\ gm' = [gm EXCEPT ![q.key] = GmRow(q.row, q.others, q.want, q.expertise)]
       /\ Done(r)
       /\ UNCHANGED <<build, rows, granted, picked, effects, backgrounds, offered, given>>

-----------------------------------------------------------------------------
(* The GM panel.                                                           *)

AddSkill(r) == \E k \in Skills : Ask(r, k, TRUE, "unset")
RemoveSkill(r) == \E k \in Skills : Ask(r, k, FALSE, "unset")
SetSkillExpertise(r) == \E k \in Skills, expertise \in {"yes", "no"} : Ask(r, k, TRUE, expertise)
AddSavingThrow(r) == \E k \in Throws : Ask(r, k, TRUE, "unset")
RemoveSavingThrow(r) == \E k \in Throws : Ask(r, k, FALSE, "unset")
AddArmor(r) == \E k \in Armor : Ask(r, k, TRUE, "unset")
RemoveArmor(r) == \E k \in Armor : Ask(r, k, FALSE, "unset")
\* A category or an item, exactly one of the two.
AddWeapon(r) == \E k \in Weapons : Ask(r, k, TRUE, "unset")
RemoveWeapon(r) == \E k \in Weapons : Ask(r, k, FALSE, "unset")

-----------------------------------------------------------------------------
(* The owner.                                                              *)

\* The character has these features from now on; with a grant its picks go.
Hold(features) ==
    /\ granted' = features
    /\ picked' = picked \ UNION {OptionsOf(f) : f \in granted \ features}

\* set_background: only while there is none; get_by_id reads what it grants.
LoadBackground(r, b) ==
    /\ req[r].step = "locked" /\ req[r].background = Null
    /\ b \in backgrounds
    /\ req' = [req EXCEPT ![r] = [@ EXCEPT !.step = "loaded", !.target = [build EXCEPT !.background = b],
                                   !.new = Sourced("BACKGROUND", offered[b]), !.since = Read({b})]]
    /\ UNCHANGED <<build, rows, gm, granted, picked, effects, backgrounds, offered, given, lock>>

\* The rest of set_background: it unlocks features (which ones: module
\* CharacterSheet) and grant_skills adds its rows.  A background deleted in the
\* meantime fails the foreign key.
SetBackground(r, features) ==
    LET b == req[r].target.background
    IN /\ req[r].step = "loaded"
       /\ b \in backgrounds
       /\ build' = [build EXCEPT !.background = b]
       /\ rows' = rows \cup req[r].new
       /\ given' = [given EXCEPT ![b] = req[r].since[b]]
       /\ granted \subseteq features /\ Hold(features)
       /\ Done(r)
       /\ UNCHANGED <<gm, effects, backgrounds, offered>>

\* Mutant of Rebuilt: delete_skill_proficiencies without its sources, and the GM's layer with it.
RebuiltAll(new) == /\ rows' = new \cup {row \in rows : row[1] = "CLASS"}
                   /\ gm' = [k \in Keys |-> IF k \in Skills THEN NoRow ELSE gm[k]]

\* _rebuild_skill_proficiencies: the rows of three sources, anew.  The rows of
\* source CLASS stay those of the class the character was created with.
Rebuilt(new) == /\ rows' = new \cup {row \in rows : row[1] = "CLASS"}
                /\ gm' = gm

\* apply: another class, race and background, the features they unlock, and the
\* skills that were read and chosen.  The foreign key fails as above.
Rebuild(r, features) ==
    /\ req[r].step = "rebuilding"
    /\ req[r].target.background \in backgrounds \cup {Null}
    /\ build' = req[r].target
    /\ Rebuilt(req[r].new) /\ given' = req[r].since
    /\ Hold(features)
    /\ Done(r)
    /\ UNCHANGED <<effects, backgrounds, offered>>

\* PUT /classes, /races, /backgrounds/{id}/skills: a GM replaces the skills of a
\* class, race or background; the rows of characters are not touched.
SetSkills(x, S) ==
    /\ x \in Classes \cup Races \cup backgrounds
    /\ S \in Offers[x]
    /\ offered' = [offered EXCEPT ![x] = S]
    /\ given' = Noted(given, x, S)
    /\ req' = [r \in Requests |-> [req[r] EXCEPT !.since = Noted(@, x, S)]]
    /\ UNCHANGED <<build, rows, gm, granted, picked, effects, backgrounds, lock>>

\* A background is deleted unless a feature of it is granted.  A character that
\* refers to it keeps its rows, and has no background (ON DELETE SET NULL, which
\* waits for the character's row).
DeleteBackground(b) ==
    /\ b \in backgrounds
    /\ build.background = b => b \in Bare /\ lock = NoRequest
    /\ backgrounds' = backgrounds \ {b}
    /\ build' = [build EXCEPT !.background = IF @ = b THEN Null ELSE @]
    /\ UNCHANGED <<rows, gm, granted, picked, effects, offered, given, lock, req>>

\* A level-up or a GM grants a feature, or a GM takes it away, under the lock.
GainFeature(r, f) ==
    /\ req[r].step = "locked" /\ f \notin granted
    /\ Hold(granted \cup {f})
    /\ Done(r)
    /\ UNCHANGED <<build, rows, gm, effects, backgrounds, offered, given>>
LoseFeature(r, f) ==
    /\ req[r].step = "locked" /\ f \in granted
    /\ Hold(granted \ {f})
    /\ Done(r)
    /\ UNCHANGED <<build, rows, gm, effects, backgrounds, offered, given>>

\* answer_choices: replaces the picks, under the lock of the grant.
AnswerChoices(f, options) ==
    /\ f \in granted /\ options \subseteq OptionsOf(f)
    /\ picked' = (picked \ OptionsOf(f)) \cup options
    /\ UNCHANGED <<build, rows, gm, granted, effects, backgrounds, offered, given, lock, req>>

\* A GM adds an effect to a feature or an option, or takes one away.
EditEffects(e) ==
    /\ effects' = IF e \in effects THEN effects \ {e} ELSE effects \cup {e}
    /\ UNCHANGED <<build, rows, gm, granted, picked, backgrounds, offered, given, lock, req>>

-----------------------------------------------------------------------------

GmPanel(r) ==
    \/ AddSkill(r) \/ RemoveSkill(r) \/ SetSkillExpertise(r)
    \/ AddSavingThrow(r) \/ RemoveSavingThrow(r)
    \/ AddArmor(r) \/ RemoveArmor(r)
    \/ AddWeapon(r) \/ RemoveWeapon(r)

Next ==
    \/ \E r \in Requests :
        \/ LockCharacter(r) \/ ReadEntries(r) \/ Write(r) \/ Abort(r)
        \/ GmPanel(r)
        \/ \E b \in Builds : Prepare(r, b)
        \/ \E b \in Backgrounds : LoadBackground(r, b)
        \/ \E features \in SUBSET Features : SetBackground(r, features) \/ Rebuild(r, features)
        \/ \E f \in Features : GainFeature(r, f) \/ LoseFeature(r, f)
    \/ \E f \in Features, options \in SUBSET Options : AnswerChoices(f, options)
    \/ \E e \in Effects : EditEffects(e)
    \/ \E b \in Backgrounds : DeleteBackground(b)
    \/ \E x \in Sources, S \in SUBSET Skills : SetSkills(x, S)

Spec == Init /\ [][Next]_vars

-----------------------------------------------------------------------------
(* Properties.                                                             *)

\* The skill rows are the skills chosen and, each as one whole list it has granted
\* since it was read for them, those of the race and the background the character
\* has now, whichever of set_background and rebuild came first, and of backgrounds
\* that were deleted under it: those rows stay, and another background adds its
\* own.  While no list is replaced (SetSkills) that is what they grant now.
RowsFollowBuild ==
    \E deleted \in SUBSET (Backgrounds \ backgrounds) :
        \E skills \in [SourcesOf(build) \cup deleted -> SUBSET Skills] :
            /\ \A x \in SourcesOf(build) \cup deleted : skills[x] \in given[x]
            /\ {row \in rows : row[1] # "CLASS"} =
                   SkillRows(build, skills) \cup Sourced("BACKGROUND", UNION {skills[b] : b \in deleted})

\* The GM's request r was carried out in this step.
Wrote(r) == req[r].step = "read" /\ req'[r] = Idle /\ gm' # gm

\* "The GM veto wins over every other source" and "nothing but another GM write
\* ever touches a GM row": a character gains or loses a proficiency by a write of
\* the GM, or by a change of its sources where the GM has not decided.
GmDecides ==
    [][\A k \in Keys : Proficient(k)' # Proficient(k) =>
        \/ \E r \in Requests : Wrote(r) /\ req[r].key = k
        \/ gm[k] = NoRow /\ gm'[k] = NoRow /\ Others(k)' # Others(k)]_vars

\* A GM's write leaves the proficiency as the GM asked for it and, where the GM
\* set one, with that expertise, unless its sources have changed since they were read.
AsAsked ==
    [][\A r \in Requests, k \in Keys :
        Wrote(r) /\ req[r].key = k /\ req[r].others = Others(k) =>
            /\ Proficient(k)' = req[r].want
            /\ req[r].expertise # "unset" =>
                   (Expert(gm[k], Others(k))' <=> req[r].expertise = "yes")]_vars

\* A GM's decision is made over the row it is about to change.
DecidedOnCurrent == \A r \in Requests : req[r].step = "read" => req[r].row = gm[req[r].key]
=============================================================================
