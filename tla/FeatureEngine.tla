---------------------------- MODULE FeatureEngine ----------------------------
(***************************************************************************)
(* The effect engine of features and feats: GMs edit a feature's tree      *)
(* (choice groups, their options, the effects of both) row by row while    *)
(* players answer the groups of what they were granted, level up into      *)
(* features, and GMs grant and revoke them (features/effects,              *)
(* characters/grants, characters/ability_score, gm_panel/features, /feats) *)
(*                                                                         *)
(* A request is a transaction of one to three steps.  What it has written  *)
(* and not committed stays in its record, as do the row locks it holds: a  *)
(* GM's edit locks the feature FOR UPDATE, a grant inserted takes KEY      *)
(* SHARE on the feature, an answer locks the grant FOR UPDATE, a pick      *)
(* inserted takes KEY SHARE on the grant, the group and the option, the    *)
(* writes of a character lock the character.  StoreTotals(r) upserts the   *)
(* ability totals and commits.                                             *)
(*                                                                         *)
(* Two things a GM's edit may do to picks are not errors here: deleting an *)
(* option or a group deletes the picks of it, and a pick count lowered     *)
(* under the picks stored is left as it is (`lowered').  The other         *)
(* summands of a total (base score, race, subrace, ASI log) stay Base.     *)
(***************************************************************************)
EXTENDS Integers, FiniteSets, FiniteSetsExt, SequencesExt

CONSTANTS
    Requests,
    Characters,
    Features,    \* feats among them
    Feats,
    LevelOf,     \* the level a class feature comes at (the characters' class owns them all)
    AsiLevels,
    Keys,        \* per effect type, what an effect can be about
    Open,        \* the key of an "any skill" or "any spell" effect, in rows of old
    Amounts,     \* per effect type, how much of it
    Base,
    InitTree,
    InitGrants,  \* the grants characters may have to begin with
    MaxGroups,   \* MAX_CHOICE_GROUPS
    PickCounts,  \* the pick counts a GM asks for
    MaxLevel,
    MaxIds,      \* bounds the ids handed out
    EditCost,    \* a GM's edit counts as so many requests
    MaxStarts    \* bounds the requests made

EffectTypes == {"ability", "skill", "saving_throw", "armor", "weapon", "spell"}

ASSUME EngineAssumption ==
    /\ Feats \subseteq Features
    /\ LevelOf \in [Features \ Feats -> Nat]
    /\ AsiLevels \subseteq Nat
    /\ InitGrants \subseteq [Characters -> [Features -> {"", "AUTO", "GM", "ASI"}]]
    /\ MaxGroups \in Nat /\ MaxLevel \in Nat /\ MaxIds \in Nat /\ EditCost \in Nat /\ MaxStarts \in Nat
    /\ PickCounts \subseteq Nat \ {0}

\* Effects hang on a feature or on an option (tables of their own).
ASSUME OwnerAssumption == Features \cap Nat = {}

VARIABLES
    tree,     \* the rows of the effect tables: groups, options and effects
    flags,    \* per feature, the columns has_static_effects and has_choices
    level,
    grants,   \* per character and feature, how it was granted ("" if not)
    picks,    \* rows of character_feature_choices
    totals,   \* the ability-score cache
    ids,      \* the last id the sequences gave
    started,
    lowered,  \* groups whose pick count a GM has lowered
    raced,    \* characters whose totals a request stored over those of one it had not seen
    req

engineVars == <<tree, flags, level, grants, picks, totals, ids, started, lowered, raced, req>>

(***************************************************************************)
(* Rows and payloads                                                       *)
(***************************************************************************)
Group(id, f, type, count) == [kind |-> "group", id |-> id, feature |-> f, type |-> type, count |-> count]
Option(id, g) == [kind |-> "option", id |-> id, group |-> g]
Effect(owner, item) ==
    [kind |-> "effect", owner |-> owner, type |-> item.type, key |-> item.key, amount |-> item.amount]

Items ==
    UNION {{[type |-> t, key |-> k, amount |-> a] : k \in Keys[t], a \in Amounts[t]} : t \in EffectTypes}

ASSUME ItemsAssumption == IsFiniteSet(Items)

SameEffect(a, b) == a.type = b.type /\ a.key = b.key

\* Items of one bundle: none twice, none open.
Bundles ==
    {b \in UNION {kSubset(n, Items) : n \in 0..2} :
        /\ \A i, j \in b : SameEffect(i, j) => i = j
        /\ \A i \in b : i.key # Open}

\* The options a group may come with.
OptionBundles == UNION {kSubset(n, Bundles) : n \in 0..2}

\* The one effect type the options of a group may carry is the group's own.
Fits(type, bundle) == \A i \in bundle : i.type = type

GroupsOf(t, f) == {x \in t : x.kind = "group" /\ x.feature = f}
GroupIds(t, f) == {g.id : g \in GroupsOf(t, f)}
OptionsOf(t, g) == {x \in t : x.kind = "option" /\ x.group = g}
EffectsOn(t, owner) == {x \in t : x.kind = "effect" /\ x.owner = owner}
IsOpen(t, option) == \E e \in EffectsOn(t, option) : e.type \in {"skill", "spell"} /\ e.key = Open

\* What goes with a row when it is deleted (ON DELETE CASCADE).
WithOption(t, o) == {o} \cup EffectsOn(t, o.id)
WithGroup(t, g) == {g} \cup UNION {WithOption(t, o) : o \in OptionsOf(t, g.id)}

\* The options of a feature and all they hang on.
Subtree(t, f) == UNION {WithGroup(t, g) : g \in GroupsOf(t, f)}

RowIds(rows) == {x.id : x \in {x \in rows : x.kind # "effect"}}

Legal(t) ==
    /\ \A f \in Features :
           /\ Cardinality(GroupsOf(t, f)) <= MaxGroups
           /\ Cardinality({g \in GroupsOf(t, f) : g.type = "ability"}) <= 1
    /\ \A x, y \in {x \in t : x.kind = "effect"} : x.owner = y.owner /\ SameEffect(x, y) => x = y
    /\ \A g \in {x \in t : x.kind = "group"} : \A o \in OptionsOf(t, g.id) :
           Fits(g.type, EffectsOn(t, o.id))

\* The rows there can be while the sequences have given n ids.
Rows(n) ==
    [kind : {"group"}, id : 1..n, feature : Features, type : EffectTypes, count : Nat \ {0}]
    \cup [kind : {"option"}, id : 1..n, group : 1..n]
    \cup [kind : {"effect"}, owner : Features \cup (1..n), type : EffectTypes,
          key : UNION {Keys[t] : t \in EffectTypes}, amount : UNION {Amounts[t] : t \in EffectTypes}]

ASSUME TreeAssumption ==
    /\ IsFiniteSet(InitTree) /\ Legal(InitTree)
    /\ InitTree \subseteq Rows(Cardinality(RowIds(InitTree)))
    /\ \A x, y \in InitTree : x.kind # "effect" /\ y.kind # "effect" /\ x.id = y.id => x = y

Flags(t, f) == [static |-> EffectsOn(t, f) # {}, choices |-> GroupsOf(t, f) # {}]

(***************************************************************************)
(* Answers, and what grants give                                           *)
(***************************************************************************)
Pick(c, f, answer) == [char |-> c, feature |-> f, group |-> answer[1], option |-> answer[2]]
PicksOf(ps, c, f) == {p \in ps : p.char = c /\ p.feature = f}
PicksIn(ps, c, f, g) == {p \in PicksOf(ps, c, f) : p.group = g}

ValidAnswers(t, f, answers) ==
    /\ \A a \in answers :
           \E g \in GroupsOf(t, f) : \E o \in OptionsOf(t, g.id) :
               g.id = a[1] /\ o.id = a[2] /\ ~IsOpen(t, o.id)
    /\ \A g \in GroupsOf(t, f) :
           LET given == {a \in answers : a[1] = g.id} IN given # {} => Cardinality(given) = g.count

\* What a client may send: an answer names a group and an option of the feature.
Answers(t, f) ==
    LET options == UNION {{o.id : o \in OptionsOf(t, g)} : g \in GroupIds(t, f)}
    IN  {a \in SUBSET (GroupIds(t, f) \X options) : ValidAnswers(t, f, a)}

Pending(t, ps, c, f) == {g \in GroupsOf(t, f) : Cardinality(PicksIn(ps, c, f, g.id)) < g.count}

Granted(gs, c) == {f \in Features : gs[c][f] # ""}
Holders(f) == {c \in Characters : grants[c][f] # ""}

\* What a sheet shows: per grant the feature's effects and those of its own options picked,
\* for the features whose flags say there is something.
Shown(t, fl, gs, ps, c) ==
    UNION {EffectsOn(t, f)
           \cup UNION {EffectsOn(t, o) :
                   o \in {p.option : p \in PicksOf(ps, c, f)}
                         \cap UNION {{x.id : x \in OptionsOf(t, g)} : g \in GroupIds(t, f)}} :
        f \in {f \in Granted(gs, c) : fl[f].static \/ fl[f].choices}}

\* What the totals count: the ability effects joined to the grants, and to the picks.
Counted(t, gs, ps, c) ==
    {e \in UNION ({EffectsOn(t, f) : f \in Granted(gs, c)}
                  \cup {EffectsOn(t, p.option) : p \in {p \in ps : p.char = c}}) : e.type = "ability"}

\* Floored at 1.
TotalOf(rows) == LET sum == Base + MapThenSumSet(LAMBDA e : e.amount, rows) IN IF sum < 1 THEN 1 ELSE sum
Totals(t, gs, ps, c) ==
    LET rows == Counted(t, gs, ps, c) IN [a \in Keys["ability"] |-> TotalOf({e \in rows : e.key = a})]

(***************************************************************************)
(* Requests, their uncommitted writes and their locks                      *)
(***************************************************************************)
NoWork ==
    [op |-> "", step |-> "idle", char |-> "", feature |-> "", seen |-> {}, put |-> {}, cut |-> {},
     pick |-> {}, unpick |-> {}, grant |-> <<>>, revoke |-> {}, level |-> 0,
     flags |-> <<>>, totals |-> <<>>, late |-> {}]

OtherThan(r) == Requests \ {r}
Writing(q) == req[q].step = "store"
CharacterOps == {"level", "grant", "asi", "revoke"}

\* Mutant of FeatureShared: a grant does not look at the feature it points at.
FeatureUnchecked(r, f) == TRUE

FeatureShared(r, f) == \A q \in OtherThan(r) : req[q].op = "edit" => req[q].feature # f

\* Mutant of FeatureLocked: a GM's lock lets grants being inserted through.
FeatureLockedForEdits(r, f) == FeatureShared(r, f)

FeatureLocked(r, f) ==
    /\ FeatureShared(r, f)
    /\ \A q \in OtherThan(r) : f \notin DOMAIN req[q].grant
CharacterLocked(r, c) ==
    \A q \in OtherThan(r) : ~(req[q].op \in CharacterOps /\ req[q].step # "loaded" /\ req[q].char = c)
GrantShared(r, c, f) ==
    \A q \in OtherThan(r) : ~(req[q].op = "answer" /\ req[q].char = c /\ req[q].feature = f)
                         /\ ~(req[q].char = c /\ f \in req[q].revoke)

\* Mutant of GrantLocked: the grant is read without FOR UPDATE.
GrantRead(r, c, f) == TRUE

GrantLocked(r, c, f) ==
    /\ GrantShared(r, c, f)
    /\ \A q \in OtherThan(r) : Writing(q) => PicksOf(req[q].pick, c, f) = {}

\* The picks a DELETE touches are not being deleted by another.
PicksFree(r, ps) == \A q \in OtherThan(r) : req[q].unpick \cap ps = {}

Dropped(q) == IF Writing(q) THEN RowIds(req[q].cut) \ RowIds(req[q].put) ELSE {}

\* A pick inserted finds its group and option, and nobody is deleting them.
PicksLand(r, ps) ==
    \A p \in ps : /\ {p.group, p.option} \subseteq RowIds(tree)
                  /\ \A q \in OtherThan(r) : {p.group, p.option} \cap Dropped(q) = {}

Starts(r, cost) ==
    /\ req[r] = NoWork
    /\ started + cost <= MaxStarts
    /\ started' = started + cost

Committed == <<tree, flags, level, grants, picks, totals, lowered, raced>>

\* Mutant of Edit: the flags come from the tree before the change was flushed.
EditUnflushed(r, f, put, cut, unpick) ==
    LET t == (tree \ cut) \cup put
    IN  req' = [req EXCEPT ![r] =
            [NoWork EXCEPT !.op = "edit", !.step = "store", !.feature = f, !.put = put, !.cut = cut,
                         !.unpick = unpick, !.flags = Flags(tree, f),
                         !.totals = [c \in Holders(f) |-> Totals(t, grants, picks \ unpick, c)]]]

\* _finish_write: after the flush, the flags and the totals of whoever holds the feature.
Edit(r, f, put, cut, unpick) ==
    LET t == (tree \ cut) \cup put
    IN  req' = [req EXCEPT ![r] =
            [NoWork EXCEPT !.op = "edit", !.step = "store", !.feature = f, !.put = put, !.cut = cut,
                         !.unpick = unpick, !.flags = Flags(t, f),
                         !.totals = [c \in Holders(f) |-> Totals(t, grants, picks \ unpick, c)]]]

\* Mutant of LockFeature: the row is read without FOR UPDATE.
ReadFeature(r, f) == Starts(r, EditCost)

LockFeature(r, f) == Starts(r, EditCost) /\ FeatureLocked(r, f)

(***************************************************************************)
(* A GM edits the tree of a feature                                        *)
(***************************************************************************)
AddEffects(r, f, owner, bundle) ==
    /\ bundle # {}
    /\ \A i \in bundle, e \in EffectsOn(tree, owner) : ~SameEffect(i, e)
    /\ Edit(r, f, {Effect(owner, i) : i \in bundle}, {}, {})
    /\ UNCHANGED <<Committed, ids>>

UpdateEffect(r, f, owner, e, item) ==
    /\ item.type = e.type
    /\ {item} \in Bundles
    /\ \A other \in EffectsOn(tree, owner) \ {e} : ~SameEffect(item, other)
    /\ LET row == Effect(owner, item) IN Edit(r, f, {row}, {e} \ {row}, {})
    /\ UNCHANGED <<Committed, ids>>

RemoveEffect(r, f, e) ==
    /\ Edit(r, f, {}, {e}, {})
    /\ UNCHANGED <<Committed, ids>>

FixedEffectWrites(r, f) ==
    /\ LockFeature(r, f)
    /\ \/ \E b \in Bundles : AddEffects(r, f, f, b)
       \/ \E e \in EffectsOn(tree, f) :
              \/ \E i \in Items : UpdateEffect(r, f, f, e, i)
              \/ RemoveEffect(r, f, e)

FixedEffectRoutes(r) == \E f \in Features : FixedEffectWrites(r, f)

NewOptions(g, first, bundles) ==
    LET b == SetToSeq(bundles)
    IN  UNION {{Option(first + n, g)} \cup {Effect(first + n, i) : i \in b[n]} : n \in DOMAIN b}

AddChoiceGroup(r, f, type, count, bundles) ==
    /\ \A b \in bundles : Fits(type, b)
    /\ Cardinality(GroupsOf(tree, f)) < MaxGroups
    /\ type = "ability" => \A g \in GroupsOf(tree, f) : g.type # "ability"
    /\ ids + 1 + Cardinality(bundles) <= MaxIds
    /\ ids' = ids + 1 + Cardinality(bundles)
    /\ Edit(r, f, {Group(ids + 1, f, type, count)} \cup NewOptions(ids + 1, ids + 1, bundles), {}, {})
    /\ UNCHANGED Committed

\* Neither the options there are nor the picks stored bound the new count.
UpdateChoiceGroup(r, f, g, count) ==
    /\ LET row == [g EXCEPT !.count = count] IN Edit(r, f, {row}, {g} \ {row}, {})
    /\ UNCHANGED <<Committed, ids>>

\* clear_character_picks, before the rows go.
ClearPicks(r, f, rows) ==
    LET gone == {p \in picks : p.group \in RowIds(rows) \/ p.option \in RowIds(rows)}
    IN  /\ PicksFree(r, gone)
        /\ req' = [req EXCEPT ![r] = [NoWork EXCEPT !.op = "edit", !.step = "drop", !.feature = f,
                                                  !.cut = rows, !.unpick = gone]]
        /\ UNCHANGED <<Committed, ids>>

\* The DELETE waits for picks being inserted; a pick that landed since is a 409 (Abort).
DropRows(r) ==
    LET me == req[r]
        touches(p) == p.group \in RowIds(me.cut) \/ p.option \in RowIds(me.cut)
    IN  /\ me.step = "drop"
        /\ \A q \in OtherThan(r) : Writing(q) => \A p \in req[q].pick : ~touches(p)
        /\ \A p \in picks \ me.unpick : ~touches(p)
        /\ Edit(r, me.feature, {}, me.cut, me.unpick)
        /\ UNCHANGED <<Committed, ids, started>>

GroupRoutes(r) ==
    \E f \in Features :
        /\ LockFeature(r, f)
        /\ \/ \E type \in EffectTypes, count \in PickCounts, bs \in OptionBundles :
                  AddChoiceGroup(r, f, type, count, bs)
           \/ \E g \in GroupsOf(tree, f) :
                  \/ \E count \in PickCounts : UpdateChoiceGroup(r, f, g, count)
                  \/ ClearPicks(r, f, WithGroup(tree, g))

AddChoiceOption(r, f, g, bundle) ==
    /\ Fits(g.type, bundle)
    /\ ids < MaxIds
    /\ ids' = ids + 1
    /\ Edit(r, f, NewOptions(g.id, ids, {bundle}), {}, {})
    /\ UNCHANGED Committed

\* An effect changed keeps its type, so only a new one is held against the group's.
OptionEffectWrites(r, f, g, o) ==
    \/ \E b \in Bundles : Fits(g.type, b) /\ AddEffects(r, f, o.id, b)
    \/ \E e \in EffectsOn(tree, o.id) :
           \/ \E i \in Items : UpdateEffect(r, f, o.id, e, i)
           \/ RemoveEffect(r, f, e)

OptionRoutes(r) ==
    \E f \in Features :
        /\ LockFeature(r, f)
        /\ \E g \in GroupsOf(tree, f) :
               \/ \E b \in Bundles : AddChoiceOption(r, f, g, b)
               \/ \E o \in OptionsOf(tree, g.id) :
                      \/ ClearPicks(r, f, WithOption(tree, o))
                      \/ OptionEffectWrites(r, f, g, o)

(***************************************************************************)
(* A player answers                                                        *)
(***************************************************************************)
\* replace_choices: the picks of the groups answered.
Replaced(c, f, answers) == UNION {PicksIn(picks, c, f, a[1]) : a \in answers}

\* The grant is locked, the answers are checked, the old picks are deleted.
Answer(r) ==
    \E c \in Characters : \E f \in Granted(grants, c) : \E answers \in Answers(tree, f) :
        /\ Starts(r, 1)
        /\ GrantLocked(r, c, f)
        /\ PicksFree(r, Replaced(c, f, answers))
        /\ req' = [req EXCEPT ![r] = [NoWork EXCEPT !.op = "answer", !.step = "insert",
                      !.char = c, !.feature = f, !.unpick = Replaced(c, f, answers),
                      !.pick = {Pick(c, f, a) : a \in answers}]]
        /\ UNCHANGED <<Committed, ids>>

\* The new picks, and the totals with them; a pick stored twice is refused (Abort).
InsertPicks(r) ==
    LET me == req[r]
        now == picks \ me.unpick
    IN  /\ me.step = "insert"
        /\ me.pick # {} => GrantShared(r, me.char, me.feature)
        /\ PicksLand(r, me.pick)
        /\ me.pick \cap now = {}
        /\ req' = [req EXCEPT ![r].step = "store",
                       ![r].totals = [c \in {me.char} |-> Totals(tree, grants, now \cup me.pick, c)]]
        /\ UNCHANGED <<Committed, ids, started>>

(***************************************************************************)
(* Grants                                                                  *)
(***************************************************************************)
Desired(lvl) == {f \in Features \ Feats : LevelOf[f] <= lvl}

\* sync_progression_features: what the level unlocks is granted, AUTO grants beyond it go.
Synced(c, lvl, given) ==
    [given |-> [f \in DOMAIN given \cup (Desired(lvl) \ Granted(grants, c)) |->
                   IF f \in DOMAIN given THEN given[f] ELSE "AUTO"],
     gone |-> {f \in Granted(grants, c) : grants[c][f] = "AUTO" /\ f \notin Desired(lvl)}]

GrantsWith(c, given, gone) ==
    [grants EXCEPT ![c] = [f \in Features |-> IF f \in DOMAIN given THEN given[f]
                                              ELSE IF f \in gone THEN "" ELSE @[f]]]

\* One transaction on a locked character: grants, revocations (their picks go with them),
\* picks, and the totals computed at the end.
WriteGrants(r, op, c, f, given, gone, new, lvl) ==
    LET lost == UNION {PicksOf(picks, c, x) : x \in gone}
    IN  /\ CharacterLocked(r, c)
        /\ \A x \in DOMAIN given : FeatureShared(r, x)
        /\ \A x \in gone : GrantLocked(r, c, x)
        /\ PicksFree(r, lost)
        /\ PicksLand(r, new)
        /\ req' = [req EXCEPT ![r] = [NoWork EXCEPT !.op = op, !.step = "store", !.char = c, !.feature = f,
                      !.grant = given, !.revoke = gone, !.pick = new, !.unpick = lost, !.level = lvl,
                      !.totals = [x \in {c} |->
                          Totals(tree, GrantsWith(c, given, gone), (picks \ lost) \cup new, x)]]]
        /\ UNCHANGED <<Committed, ids>>

AsiOptions(t, f) ==
    UNION {{<<g.id, o.id>> : o \in {o \in OptionsOf(t, g.id) : \E e \in EffectsOn(t, o.id) : e.type = "ability"}} :
           g \in GroupsOf(t, f)}

\* The pick made with a feat, then the answers sent beside it, which replace it.
FeatPicks(c, f, asi, answers) ==
    {Pick(c, f, a) : a \in answers \cup {a \in asi : \A b \in answers : b[1] # a[1]}}

OneOrNone(s) == {{}} \cup {{x} : x \in s}

\* With enforce, no group of what is new may be left unanswered.
Resolved(c, given, new) ==
    \A f \in DOMAIN given : flags[f].choices => Pending(tree, new, c, f) = {}

LevelUp(r) ==
    \E c \in Characters :
        LET lvl == level[c] + 1
            feats == IF lvl \in AsiLevels THEN Feats \ Granted(grants, c) ELSE {}
        IN  /\ Starts(r, 1)
            /\ level[c] < MaxLevel
            /\ \E feat \in OneOrNone(feats) :
                   LET synced == Synced(c, lvl, [f \in feat |-> "ASI"])
                       plain == DOMAIN synced.given \ feat
                   IN  \E asi \in OneOrNone(UNION {AsiOptions(tree, f) : f \in feat}) :
                       \E answers \in [DOMAIN synced.given -> UNION {Answers(tree, f) : f \in DOMAIN synced.given}] :
                           LET new == UNION ({FeatPicks(c, f, asi, answers[f]) : f \in feat}
                                             \cup {{Pick(c, f, a) : a \in answers[f]} : f \in plain})
                           IN  /\ \A f \in DOMAIN answers : answers[f] \in Answers(tree, f)
                               /\ Resolved(c, synced.given, new)
                               /\ WriteGrants(r, "level", c, "", synced.given, synced.gone, new, lvl)

\* A GM's grant loads the feature before it locks the character ...
LoadFeature(r) ==
    \E c \in Characters, f \in Features \ Feats :
        /\ Starts(r, 1)
        /\ req' = [req EXCEPT ![r] = [NoWork EXCEPT !.op = "grant", !.step = "loaded", !.char = c,
                                                  !.feature = f, !.seen = Subtree(tree, f)]]
        /\ UNCHANGED <<Committed, ids>>

\* ... and checks the answers against the tree it loaded; groups may be left pending.
AddFeature(r) ==
    LET c == req[r].char
        f == req[r].feature
    IN  /\ req[r].step = "loaded"
        /\ f \notin Granted(grants, c)
        /\ \E answers \in IF flags[f].choices THEN Answers(req[r].seen, f) ELSE {{}} :
               WriteGrants(r, "grant", c, f, [x \in {f} |-> "GM"], {}, {Pick(c, f, a) : a \in answers}, 0)
        /\ UNCHANGED started

\* A GM's feat: read again after the grant's insert, the ASI pick optional.
AddFeat(r) ==
    \E c \in Characters : \E f \in Feats \ Granted(grants, c) :
    \E asi \in OneOrNone(AsiOptions(tree, f)) :
    \E answers \in IF flags[f].choices THEN Answers(tree, f) ELSE {{}} :
        LET synced == Synced(c, level[c], [x \in {f} |-> "GM"])
        IN  /\ Starts(r, 1)
            /\ WriteGrants(r, "grant", c, f, synced.given, synced.gone, FeatPicks(c, f, asi, answers), 0)

\* The picks of the ASI group are deleted; InsertPicks stores the other one.
UpdateFeat(r) ==
    \E c \in Characters : \E f \in Feats \cap Granted(grants, c) : \E asi \in OneOrNone(AsiOptions(tree, f)) :
        /\ Starts(r, 1)
        /\ CharacterLocked(r, c)
        /\ asi = {} => AsiOptions(tree, f) = {}
        /\ PicksFree(r, Replaced(c, f, asi))
        /\ req' = [req EXCEPT ![r] = [NoWork EXCEPT !.op = "asi", !.step = "insert", !.char = c,
                      !.feature = f, !.unpick = Replaced(c, f, asi), !.pick = {Pick(c, f, a) : a \in asi}]]
        /\ UNCHANGED <<Committed, ids>>

\* remove_feature takes any grant, a feat's too.
RemoveFeature(r) ==
    \E c \in Characters : \E f \in Granted(grants, c) :
        Starts(r, 1) /\ WriteGrants(r, "revoke", c, f, <<>>, {f}, {}, 0)

\* remove_feat syncs afterwards.
RemoveFeat(r) ==
    \E c \in Characters : \E f \in Feats \cap Granted(grants, c) :
        LET synced == Synced(c, level[c], <<>>)
        IN  Starts(r, 1) /\ WriteGrants(r, "revoke", c, f, synced.given, {f} \cup synced.gone, {}, 0)

(***************************************************************************)
(* Commit, and everything that is not one                                  *)
(***************************************************************************)
\* The totals are upserted as they were computed, then all of it is committed.
StoreTotals(r) ==
    LET me == req[r]
        c == me.char
        saved == DOMAIN me.totals
    IN  /\ me.step = "store"
        /\ tree' = (tree \ me.cut) \cup me.put
        /\ flags' = [f \in Features |-> IF me.op = "edit" /\ f = me.feature THEN me.flags ELSE flags[f]]
        /\ picks' = (picks \ me.unpick) \cup me.pick
        /\ grants' = IF me.op = "edit" THEN grants ELSE GrantsWith(c, me.grant, me.revoke)
        /\ level' = IF me.op = "level" THEN [level EXCEPT ![c] = me.level] ELSE level
        /\ totals' = [x \in Characters |-> IF x \in saved THEN me.totals[x] ELSE totals[x]]
        /\ lowered' = lowered \cup {x.id : x \in {x \in me.cut : \E y \in me.put :
                          x.kind = "group" /\ y.kind = "group" /\ x.id = y.id /\ y.count < x.count}}
        /\ raced' = (raced \ saved) \cup (saved \cap me.late)
        /\ req' = [q \in Requests |-> IF q = r THEN NoWork
                                      ELSE IF Writing(q) THEN [req[q] EXCEPT !.late = @ \cup saved]
                                      ELSE req[q]]
        /\ UNCHANGED <<ids, started>>

\* An error, a conflict (409), a deadlock's victim, a lost connection.
Abort(r) ==
    /\ req[r].step # "idle"
    /\ req' = [req EXCEPT ![r] = NoWork]
    /\ UNCHANGED <<Committed, ids, started>>

EngineInit ==
    /\ tree = InitTree
    /\ flags = [f \in Features |-> Flags(InitTree, f)]
    /\ level = [c \in Characters |-> 1]
    /\ grants \in InitGrants
    /\ picks = {}
    /\ totals = [c \in Characters |-> Totals(InitTree, grants, {}, c)]
    /\ ids = Cardinality(RowIds(InitTree))
    /\ started = 0
    /\ lowered = {} /\ raced = {}
    /\ req = [r \in Requests |-> NoWork]

PlayerAnswers(r) == Answer(r) \/ InsertPicks(r)
GmEdits(r) == FixedEffectRoutes(r) \/ GroupRoutes(r) \/ OptionRoutes(r) \/ DropRows(r)
FeatureGrants(r) == LoadFeature(r) \/ AddFeature(r) \/ RemoveFeature(r)
FeatGrants(r) == AddFeat(r) \/ UpdateFeat(r) \/ RemoveFeat(r)

EngineNext ==
    \E r \in Requests :
        GmEdits(r) \/ PlayerAnswers(r) \/ LevelUp(r) \/ FeatureGrants(r) \/ FeatGrants(r)
        \/ StoreTotals(r) \/ Abort(r)

EngineSpec == EngineInit /\ [][EngineNext]_engineVars

(***************************************************************************)
(* Properties                                                              *)
(***************************************************************************)
\* The rules of a feature's tree that no constraint of the schema holds hold however GMs'
\* edits of one feature meet: at most MaxGroups groups and one of abilities, no effect twice
\* on one owner, no effect in an option that its group's type does not allow.
TreeRules == Legal(tree)

\* The two ways a grant's effects are read agree: the sheet, which skips features by their
\* flags and ignores options that are not the feature's, shows exactly the ability effects
\* the totals count by joining picks to options.
ShownIsCounted ==
    \A c \in Characters :
        {e \in Shown(tree, flags, grants, picks, c) : e.type = "ability"} = Counted(tree, grants, picks, c)

\* A group never holds more picks than it asks for, unless a GM lowered what it asks for.
\* Left out are a feat's ability groups, which UpdateFeat writes without the grant's lock.
NeverOverPicked ==
    \A c \in Characters, f \in Features : \A g \in GroupsOf(tree, f) :
        (g.id \notin lowered /\ ~(f \in Feats /\ g.type = "ability"))
            => Cardinality(PicksIn(picks, c, f, g.id)) <= g.count

\* A level-up that commits leaves no group of what it granted unanswered, whatever GMs did
\* to those features while it ran.
LevelUpLeavesNothingPending ==
    [][\A c \in Characters : level'[c] # level[c] =>
           \A f \in Features : grants[c][f] = "" /\ grants'[c][f] # "" => Pending(tree', picks', c, f) = {}]_engineVars

\* The ability totals stored are those of the character's grants, picks and trees as they
\* are, unless the request that stored them had computed them before another one's commit.
TotalsFollow ==
    \A c \in Characters : c \in raced \/ totals[c] = Totals(tree, grants, picks, c)
=============================================================================
