# Verification of the Heofberu backend

TLA+ models of the parts of the Heofberu backend (`src/app`: FastAPI, PostgreSQL, Redis; `src/migrations`: alembic)
whose correctness depends on what concurrent requests, failures and long sequences of calls do to each other, the TLC
configurations that check them on small instances, and theorems about them that TLAPS proves for every value of their
constants. Paths below are relative to `src/app/features` unless they start with another directory of the repository.

1. [Inventory](#inventory) · 2. [Modules](#modules) · 3. [Properties](#properties) · 4. [Runs, bounds, fairness](#runs) ·
5. [What the models showed](#what-the-models-showed) · 6. [Proofs](#proofs) · 7. [Not modelled](#not-modelled)

## Inventory

Requests are coroutines of several uvicorn workers. They share PostgreSQL (READ COMMITTED, one session per request,
`app/core/base/transaction.py`), two Redis databases (cache, auth) and, inside one worker, its memory. Nothing else
runs: there is no scheduler, and post-response tasks are best-effort. Deployments run `alembic upgrade head` in every
container before the application starts.

| Component | State it keeps | Operations | What is hard | What makes it correct | Module |
|---|---|---|---|---|---|
| Cache (`app/core/cache/client.py`, `decorator.py`) | Redis: payloads, index sets, epoch. Worker: remembered purges, breaker | cached read, purge of namespaces and keys, flush, replay, overflow | every Redis command is an await; readers race purges; Redis fails between commands | a stale payload is on its way out; no purge is forgotten | `Cache` |
| Invalidation names (`app/core/cache/namespaces.py`, the `cache.py` files) | - | which namespaces a write purges | a payload of one catalog shows rows of another | every payload a write changes is purged | `Catalog` |
| Transactions (`app/core/base/transaction.py`) | depth and after-commit callbacks | `atomic`, `after_commit` | purge runs after COMMIT; lost commit replies | callbacks run exactly after a commit | `Cache`, `Catalog` |
| Articles: crud, writer, workflow, revisions, proposals | rows of `articles`, `article_revisions`, `article_proposals` | edit, restore, delete; submit, publish, reject, archive; propose, accept, rebase, replace, decide | state read before the transaction; row locks in different orders | complete history, one outcome per proposal, publish what was reviewed | `Articles`, `ArticleHistory` |
| Articles: tree and images | `parent_id`, `path`, one advisory lock; image rows and storage objects | create, move, delete; upload, remove | checks read other rows; an upload is three steps that fail separately | a bounded tree; no half-done upload without somebody to undo it | `ArticleTree`, `ArticleForest` |
| Auth and sessions (`auth/`, `app/core/security/token.py`) | Redis: blacklist, claims, revocation time per user | login, register, refresh, logout, reset | check, claim and issue are separate; three units of time | a refresh token works once; after a reset no older token works | `Sessions` |
| Campaigns (crud, characters, sessions, reviews) | campaign, participation, session, attendance, review rows | roster, status, archive, numbering, attendance, reviews, moderation | locks of different campaigns; writes outside the lock | a character sits at one open table; ended stays ended | `Campaigns`, `CampaignSeats` |
| Characters: build and HP (`characters/progression`, `crud`, `gm_panel`) | level, sources, HP, caps, ASI log, grants | level up, subclass, background, rebuild, heal, rest, GM edits | some writers re-read under the lock, others do not | nobody's write is lost; every ASI level is resolved; grants follow the build | `CharacterSheet` |
| Feature engine (`features/effects`, `characters/grants`, `characters/ability_score`) | trees of groups, options, effects; picks; totals | GM edits of trees; answers, grants | GMs edit while players answer and level up | rules of a tree, no group answered over, totals follow | `FeatureEngine` |
| Proficiencies (`characters/proficiencies`, `gm_panel/proficiencies`) | rows per source, the GM's layer | nine GM requests, `set_background`, rebuild | a decision over sources that change; rows of sources that were replaced | the GM decides, and decides on what is there | `Proficiencies` |
| Catalogs and accounts (classes, races, spells, items, feats, ...) | reference rows | GM CRUD, images, delete with in-use check | a reference added between check and DELETE; stale payloads elsewhere | no protected reference loses its row; purges are enough | `Catalog` |
| Schema and migrations (`src/migrations`, `app/models`, `Dockerfile`) | the schema, `alembic_version` | 82 revisions up and down | two containers at once, crashes, rows in the way, rollbacks | the next revision applies; the head is what the models declare | `SchemaOps`, `MigrationsEarly`, `MigrationsLate`, `ModelTables`, `Migrations` |
| Article relations, tags, subtypes, listing; public campaigns; rate limit; middleware, handlers; email, tasks; settings, main | association rows; presets; a counter | full replace, queries; publish; count | little, see [Not modelled](#not-modelled) | - | - |

How they meet: a write registers purges in its `atomic` block and they run after its commit (`Catalog` says which, `Cache`
how one works). An accepted proposal is written by the same `ArticleWriter` as an edit (both in `Articles`), which moves the
article in the tree (`ArticleTree`). A level-up reconciles grants (`CharacterSheet`), whose groups it must answer
(`FeatureEngine`); a rebuild rewrites proficiency rows (`Proficiencies`), and the effects and picks of the engine are sources
of proficiencies. Deletions of catalog rows are refused or cascade (`Catalog`), and `Proficiencies` follows one of those
cascades. Models that share rows are kept apart where the properties do not need both: each one's header says what it leaves
to the other.

### Plan

The models were built from the core outwards: `Cache`, then `Articles` with its abstract specification, then the components
that share a row lock (`ArticleTree`, `Sessions`, `Campaigns`, `CharacterSheet`), then those that cross components (`Catalog`,
`FeatureEngine`, `Proficiencies`), and the deployment (`Migrations`). The proofs followed in the same order, and last the abstract
specifications of the tree and of the rosters. Every
safety property the runs check is proved except three of `Migrations`, which compare computed schemas (see [Proofs](#proofs)).

## Modules

Every module models requests as a function from requests to where they are and what they have read. A step ends where the
code awaits something another request can get in front of: a statement, a Redis command, a storage call. READ COMMITTED is
modelled as the code depends on it: plain reads see the last commit, an UPDATE or SELECT ... FOR UPDATE waits for the row
and then sees its newest version, what a transaction wrote appears at its COMMIT. Operators marked "Mutant of" are plausible
bugs, used to see that each property can be broken.

### `Cache` (checked through `MCCache`)

A payload is the version of the rows behind it: `data[k]` is what a fresh read returns now, `store[k]` what is cached.
`store`, `index`, `epoch` are Redis; `pending` and `breaker` the module globals of `client.py`, one per worker; `pc`, `key`,
`val`, `seen` the locals of `use_cache.wrapper` and `cache_get/epoch/set`; `queue` and `own` the callbacks of
`_run_pending`; `taken`, `step`, `left`, `at`, `members`, `todo`, `cut` the locals of `_replay_pending`, `_apply_purge`,
`_purge_namespace`, `_purge_index` and `_scan_delete`. `lost` is a history variable: the version of a key when an
invalidation of it was lost for good. A scan returns at one moment what is there and is unlinked in one command. Left out:
disabled caching, `skip_if` and `cache_none=False`, the wording of keys, the length of the breaker's window (it may be over
at any moment).

### `Articles` and `ArticleHistory` (checked through `MCArticles`)

The variables are the committed rows plus, per request, what it has read. Content is a title and a body, standing for the
six `REVISED_FIELDS`; the title matters because of the slug. `StartEdit`, `UpdateFields`, `CommitWrite` are `update_article` /
`restore_revision` and `ArticleWriter.apply_changes`; `StartAccept` to `CommitWrite` are `accept` and its guard; `StartRebase`,
`MergeOnto`, `StoreContent` are `rebase`; `StartReplace`, `CheckVersion`, `StoreContent` are `replace`; `StartDelete`, `Cascade`,
`CommitDelete` the DELETE and its cascade to the proposals. `DeadlockAbort` and `Blocks` are PostgreSQL's deadlock
detection, `Rollback` any failure. Left out: who may do what (constant while a request runs, it only removes behaviours),
subtypes, tags, slug suffixes, `change_note`; the tree and images are `ArticleTree`. `ArticleHistory` says what this promises:
per article an append-only sequence of contents and a status that moves along the workflow; `HistoryPromise` is the
refinement, read off `revisions` and the content shown.

### `ArticleTree` and `ArticleForest` (checked through `MCArticleTree`)

Ids, parents and paths (`parent`, `path`, root first), the advisory lock `TREE_LOCK_KEY`, image rows (`image`) and storage
objects (`stored`). A tree change loads its article before its transaction, waits for the lock (`LockTree`), reads and checks
cycle and depth (`CheckTree`), then writes the subtree's paths and commits (`WriteTree`, `DeleteArticle`). An upload is
`StartUpload` (the limit), `Place` (the row without URL), `Upload`, `Link`, or the clean-up `Unstore` and `Unplace`; a removal
is `StartDrop`, `DropRow`, `RemoveObjects`. `cut` remembers uploads whose worker died. `Ancestors` are the ends of the walks up
`parent_id` that the recursive query of `_ancestor_chain` makes; it stops after 256 rows (`ChainLimit`), of which the model only
assumes that they are no fewer than `MAX_TREE_DEPTH`, and that there are finitely many requests. `ArticleForest` is what the
tree promises, in terms of parents only: a forest whose branches are never longer than `MaxDepth`, in which an article is
planted, moved to a place that is not below itself, or felled. `ForestPromise` maps `planted` to the ids given out and `up` to
the parents of the rows; paths, checks and the lock are how `ArticleTree` gets there.

### `Sessions` (checked through `MCSessions`)

Tokens in the order of issue; `black` holds per token the time its blacklist entry or claim lives until, `revoked` per user the
revocation timestamp and its key's life. Issue times count ticks (milliseconds), expiry times whole seconds, lifetimes of
keys whole seconds: the truncations are modelled. `ClaimToken` is the SET NX of `claim_token`; `SetPassword`, `RevokeSessions`,
`ResetFails`, `ReleaseToken` are `reset_password`; `Logout`, `LogoutAccess`, `LogoutRefresh` are `logout`. `Lost` ends a request
anywhere. Credentials are left out: a wrong one changes nothing. Of the lifetimes the model assumes what `token.py:24-26` makes
true: an access token lives shorter than a refresh token, a reset link no longer.

### `Campaigns` and `CampaignSeats` (checked through `MCCampaigns`)

Campaign, participation, session and review rows as functions over ids that are never reused; `lock` is the row lock of each
campaign. A request begins by locking and resolving the caller's standing (`Begin`), reads what its rule needs (`Check...`),
writes and commits. `SetAttendance` and `Add` write what was checked one step earlier. `DeleteCharacter`, `DeleteUser` and
the founder's moderation (`ReadReview`, `SetHidden`) take no campaign lock. Notes, names, session texts and dates are left out.
`CampaignSeats` is what the rosters promise: one book of participations, in which a character sits down at an open table when it
sits at no other, gets up with a record of how it ended that is never rewritten, and a table that shuts retires all its players in
the same step. `RosterPromise` maps `open` to the campaigns that are neither closed nor archived and `book` to the participations.

### `CharacterSheet` (checked through `MCCharacterSheet`)

The character's row (`build`, `hp`, `cap`), its ASI log and feature grants, the starting kits handed out. Owners' writes
re-read the row under its lock; the GM's grants load the character, then lock without reading again; `SetMaxHp` does not
lock. `Sync` is the reconciliation of AUTO grants. `freed` remembers ASI levels whose feat a GM has taken away. Background
deletion is in `Proficiencies`, picks and totals in `FeatureEngine`.

### `FeatureEngine` (checked through `MCFeatureEngine`)

`tree` holds the rows of groups, options and effects, `flags` a feature's two columns that say whether there are any, `picks`
the answers, `totals` the ability cache. A GM's edit locks the feature, checks the tree's rules and rewrites the holders'
totals; an answer locks the grant and replaces its picks; a level-up reads the groups it must answer before it inserts
its grants; GM grants and feats follow their routes. What a transaction has written stays in its record until `StoreTotals`, with
the row locks its statements take, KEY SHARE locks of inserts included. `lowered` (groups whose pick count a GM lowered) and
`raced` (totals stored by a request that had computed them before another's commit) are history variables: what they excuse is
described under [What the models showed](#what-the-models-showed).

### `Proficiencies` (checked through `MCProficiencies`)

`rows` are the proficiency rows of class, race and background, `gm` the GM's row per proficiency, `effects` what features and
options give, `granted` and `picked` which of them the character has. `Others(k)` is what the sources give, `Expert` and
`Proficient` the resolver with the GM's layer on top. The nine GM requests lock the character, read the proficiency
(`ReadEntries`) and write the GM row (`Write`). The owner's writes add or rewrite rows in the steps in which the code reads:
`LoadBackground` reads what a background grants under the character's lock and `SetBackground` writes it; `Prepare` checks a
rebuild and reads what its race and background grant before the lock (`LockCharacter`), and `Rebuild` then writes what was read.
`SetSkills` is the GM's replacement of the skills of a class, race or background (`offered`): it takes no lock of the character
and touches no row. `DeleteBackground` clears the reference without touching rows. `given` is a history variable: the lists each
race and background has granted since the read that the character's rows come from (`since` in a request, for the rows it is
about to write). No action reads it.

### `Catalog` (checked through `MCCatalog`)

A behaviour watches one catalog row, one reference to it (`link`: a record per foreign key that says what ON DELETE does,
whether the in-use check looks at it, whether the delete locks the row first, which payloads show it and what a write of it
purges) and the payload of one namespace; `Init` chooses them. `Writes`, `Dependents` and the `ReadNamespaces` are the tables of
`namespaces.py` and the `cache.py` files. A payload is the set of changes it misses. A purge and a fill are one step here: that a
purge in progress wins against a fill is what `Cache` proves.

### `SchemaOps`, `MigrationsEarly`, `MigrationsLate`, `ModelTables`, `Migrations` (checked through `MCMigrations`)

`SchemaOps` gives PostgreSQL's effect for each statement the scripts use (external to the repository): a missing table, a
duplicate name, a type still in use, a required column over rows make a script broken or refused. `Up_<revision>` and
`Down_<revision>` are the 82 scripts statement by statement, `ModelTables` what the 71 models and 25 Python enums declare.
`Migrations` is the deployment: a runner reads `alembic_version` once (`Start`), applies scripts one transaction each (`Advance`),
notices only at a script's end that the row is no longer what it believed, may be killed inside a script (`Crash`); revision 17
commits in its middle. `Use` is the application filling tables (also with rows a later revision refuses), `Clean` the
operator removing what a refusal listed, `Rollback` a downgrade. Data moves are kept only where a later statement depends on
them. An empty database is set up by one container: two stale starters on an empty database would both insert the version row.

## Properties

| Property | States |
|---|---|
| `Cache!StaleIsOwed` | A stale payload that its indexes list is owed by a purge in progress or remembered, or by the drop of whoever stored it, unless an invalidation of it was lost |
| `Cache!DeferredPurgeKept` | What a purge could not remove leaves the worker's memory only when a replay has been applied to the end, or with the worker |
| `Cache!StaleEventuallyGone` | Without failures every stale indexed payload goes or is refreshed |
| `Articles!HistoryComplete` | Versions 1 to the current one, one revision each, the last is what is shown, every proposal's base exists |
| `Articles!AcceptedIsTheRevision` | A proposal is accepted exactly when one revision came from it, at the version it recorded |
| `Articles!PublishedAsReviewed` | A publish makes public the content its reviewer read |
| `Articles!HistoryPromise` | `Articles` implements `ArticleHistory` |
| `Articles!RequestsEnd` | No request waits for ever |
| `ArticleTree!TreeIntact` | Stored paths are the chains of parents (so there is no cycle) and within the depth |
| `ArticleTree!ForestPromise` | `ArticleTree` implements `ArticleForest` |
| `ArticleTree!GalleryIntact` | A row without URL belongs to a running upload or to one whose worker died; the limit is passed by racing uploads only |
| `ArticleTree!LinkedIsStored` | What a page may embed is in the storage |
| `Sessions!RotatedOnce` | A refresh token is exchanged once, until the last second of its life |
| `Sessions!LinkHeldByOne` | Two requests never work with one reset link |
| `Sessions!LastRevocationHolds` | No token issued before the last revocation is usable, also when the revocation key has expired |
| `Sessions!LogoutHolds` | What was blacklisted is refused until the last second of its life |
| `Campaigns!SeatsAgree` | One open table per character, nobody at a closed or archived one, attendance of the table's own players |
| `Campaigns!AutoNumberFree` | An automatic session number is free when its row is inserted |
| `Campaigns!RosterPromise` | `Campaigns` implements `CampaignSeats`; in particular a participation ends once and goes with its character only |
| `Campaigns!ReviewsKept` | A review the founder hid is not rewritten (`HiddenIsKept`); one of a session is written while its chronicle is published and by a player of the table, or by one whose character was deleted between check and write (`ReviewedWhileOpen`) |
| `CharacterSheet!InstanceCurrent` | A row read under the lock is current until it is written |
| `CharacterSheet!AsiResolved` | Every ASI level up to the character's is resolved, and none above, except those whose feat was taken |
| `CharacterSheet!AsiFeatsLogged` | A feat granted at an ASI level has its log row |
| `CharacterSheet!BuildChangesReconcile` | A change of level or sources leaves the grants reconciled |
| `FeatureEngine!TreeRules` | The rules of a tree that no constraint holds survive concurrent edits |
| `FeatureEngine!ShownIsCounted` | What the sheet shows of ability effects is what the totals count, though one skips by flags and the other joins picks |
| `FeatureEngine!NeverOverPicked` | A group is not answered over |
| `FeatureEngine!LevelUpLeavesNothingPending` | A level-up leaves no group of what it granted unanswered |
| `FeatureEngine!TotalsFollow` | Totals are those of grants, picks and trees, unless computed before another's commit |
| `Proficiencies!RowsFollowBuild` | The skill rows are those of the build, and of backgrounds deleted under the character, each source by one whole list it has granted since it was read (the present one, unless a GM replaced it) |
| `Proficiencies!GmDecides` | A proficiency changes by a GM's write, or with its sources where no GM decided |
| `Proficiencies!AsAsked` | A GM's write leaves what was asked, from every combination of sources and GM row |
| `Proficiencies!DecidedOnCurrent` | The row a GM's write decided over is the row it replaces |
| `Catalog!StaleIsOwed` | A payload that misses a change of the row or of a reference is owed a purge, except for changes the code tolerates |
| `Catalog!ProtectedLinksKept` | A reference the in-use check protects by lock or RESTRICT never loses its row |
| `Migrations!UpgradesApply` | Wherever a crash, a stale runner, a refusal or a rollback left the database, the next revision applies or refuses over rows |
| `Migrations!HeadIsTheModels` | At the head, tables, columns, keys, references and enum labels are those the models declare |
| `Migrations!UpgradesUndone` | A downgrade takes back what its upgrade did to a schema without rows |
| `Migrations!SchemaMovesWithVersion` | No table changes without the version |
| `Migrations!ReachesHead` | The containers bring the schema to the head |

Each module that is not only data also has one type invariant; where it is proved no run checks it, elsewhere it documents
the types.

## Runs

All of them are exhaustive.

| Run | Instance | Shows |
|---|---|---|
| `cache_races` | 2 coroutines, 2 keys, a one- and a two-segment namespace, index limit 1, chunk 1, 2 commits; about 970,000 states | `StaleEventuallyGone` under every interleaving of reads, purges and overflow |
| `cache_faults` | 2 coroutines, 1 key, every fault, 2 commits, 2 failures, pending limit 1, breaker threshold 1; 2.7 million | `StaleIsOwed` and `DeferredPurgeKept` when Redis, commits and workers fail |
| `articles` | 1 article, 1 proposal, 2 requests, 3 texts; requests start below version 2 and may reach 3 | the safety properties, the refinement, `RequestsEnd` |
| `articles_accept` (violation) | body edits | finding 1 |
| `article_tree` | 4 articles, depth 3, chain limit 4, 1 image, gallery limit 1, 2 requests, all faults | `TreeIntact`, `GalleryIntact`, `LinkedIsStored`, the refinement; 3.2 million |
| `sessions` | 1 account, 2 requests, 4 tokens signed in ticks 0 and 1, time to tick 5, 2 ticks a second, refresh life 2 s; 5.3 million | the session properties |
| `campaigns` | 2 campaigns of one GM, a player with one character, the founder, 2 requests, 3 rows, numbers to 2; 1.9 million | the campaign properties, the refinement |
| `character_sheet` | 2 requests, level cap 3, ASI level 2, a class and a subclass feature, a feat, a background; 1.9 million | the sheet's properties |
| `feature_engine` | 1 character, a class feature and a feat with one group each (options that give something, nothing, and "any"), 2 requests at a time, up to four in a behaviour (a GM's edit counts double), 9 row ids | the engine's properties |
| `proficiencies` | 2 requests, one skill and one of every other kind, 2 classes, a race, 2 backgrounds, one without features, a feature with a fixed and an optional effect, a race and a background whose granted skill is replaced, two builds to ask for, one proficiency decided by the GM at a time; 820,000 | the proficiency properties |
| `catalog` | 2 writers, 2 readers, every reference and every namespace | the catalog's properties |
| `migrations` | 2 runners, images of 3 releases (46, 69, 82), rollback to 39, one rollback, two uses and crashes; 75,000 | the deployment's properties |

Bounds. The hazards are races of two requests, often against an unlocked third step (a deletion, an edit, the clock), which are
actions without a request where the code has a single statement. Two keys with chunk and index limit 1 make every purge take
several commands and every second entry overflow; a pending limit of 1 reaches the collapse into a flush; two failures let a
replay fail too. Two article requests that both start at version 1 produce every order of two saves; three texts give edits that
merge and that conflict. Four articles in depth 3 let two moves form a cycle or exceed the depth by a subtree. In `sessions`,
tokens of ticks 0 and 1 and time to tick 5 cover truncated expiry, a revocation between two tokens of one second, and the end of
every token and of the keys written against it. Two campaigns and one character are what two tables can disagree about. One ASI
level below a cap of 3 is reached, passed, freed and taken again. In `feature_engine` four requests allow an edit beside two
moves of the player, or a level-up beside two GM grants; deletions of the option just picked need no more. In `proficiencies`
the GM has one proficiency decided at a time (`MaxDecided`), as a write changes no other (`WriteIsLocal`, proved), and `Builds`
is one build to be created or rebuilt into besides the empty one: the second background comes by `set_background`. In `migrations` the
releases are chosen before and behind the revisions that rewrite features (47), proficiencies (50) and that refuse over rows;
the floor of 39 is the version `tests/integration/core/test_migrations.py` goes back to. Symmetric sets are declared only in
runs without liveness properties.

Deadlock checking is off in four runs whose bounds end a behaviour: `article_tree`, `campaigns` and `sessions` (ids, rows and
tokens are used up) and `feature_engine` (requests are).

Fairness. `Cache!FairSpec`: a started coroutine is scheduled again after each await; nothing is assumed of new requests,
expiry or the breaker. `Articles!FairSpec`: PostgreSQL grants a row to its waiters in turn (strong fairness of `Proceed`) and
looks for deadlocks (weak fairness of `DeadlockAbort`); without that detection `RequestsEnd` fails, as accept and delete take
the two rows in opposite orders. `Migrations`: the newest container is started again while the head is not reached (the restart
policies of the compose files) and a running one goes on; the weak fairness of the latter is written out with its enabling
condition (`Goes`), which spares TLC evaluating 82 scripts for ENABLED.

## What the models showed

Finding 1 (`articles_accept`): `articles/proposals/service.py:177` takes the proposal's content before the transaction that
closes it; a `replace` or `rebase` in between is closed as accepted while the older content becomes the version, against
`app/models/articles/article_proposal_model.py:19` and `service.py:167`.

The other disagreements met while modelling are written here; where a property would fail because of one, the model has a
history variable or a named exception, so that the property still says what does hold.

- **Cache.** A reader that refills a key between the UNLINK and the SREM of a purge (`client.py:234`) loses its index entry and
  keeps its value: a live key no index lists, which later purges miss until its TTL (docstring at `client.py:28`). A failed drop
  in `cache_set` is an invalidation that nobody remembers. Hence "indexed" and `lost` in `StaleIsOwed`.
- **Articles.** A rename that races the first publish changes the slug of a published article (`crud/writer.py:129`, against
  `:110`). The image keys of a deleted article are read before the tree lock (`crud/service.py:223`).
- **Catalog.** Image writes purge before their commit, against `app/core/base/transaction.py:7` (`Tolerated`). The character
  payload reads the row before it takes the epoch, as the comment on `CHARACTER_CACHE_TTL` accepts. Deleting a background leaves
  the payload of its characters; a character that joins a class during a change of its hit dice keeps the old ones until the
  TTL. Where neither a lock nor RESTRICT protects a reference (spells, subclasses, races, subraces, features), one added between
  check and DELETE is cut or cascades although `spells/README.md:71` and `subclasses/crud/service.py:67` say "in use" is
  refused.
- **Sessions.** A refresh that passed the revocation check before a reset issues its pair afterwards (`auth/service.py:176`): a
  pair issued after the revocation is valid, though it descends from a session that was ended.
- **Campaigns.** The standing of a player is resolved before a concurrent deletion of the character that gave it
  (`campaigns/base.py:86`, which says that the standing cannot change before the write: a deletion takes no campaign lock);
  `ReviewedWhileOpen` allows it.
- **Character sheet.** The GM's feat (`characters/gm_panel/feats/service.py:60`) reconciles grants with the build loaded before
  the lock. `remove_feature` accepts the id of a feat's grant and then leaves its log row.
- **Feature engine.** `update_feat` locks the character but not the grant, `answer_choices` the grant but not the character:
  without a stored pick both insert, two picks in a group of one (`characters/gm_panel/feats/service.py:96`). A pick count may
  be lowered below the stored picks, or exceed the options a group has, which blocks level-ups into it. Totals computed before
  another request's commit are stored after it (`raced`), which `characters/progression/feature_sync.py:131` documents for its
  reconciliation and nothing says of answers and ASI adjustments. Deleting a source-owned feature does not rewrite the totals of
  characters a GM had granted it to.
- **Proficiencies.** Deleting a background that a character has without granted features of it keeps its BACKGROUND rows while
  `background_id` becomes NULL (`backgrounds/README.md:79`), so the owner may set a second one and has the rows and the kits of
  both, against `characters/progression/router.py:61` ("can never be swapped"). `RowsFollowBuild` names those rows. A rebuild
  never rewrites rows of source CLASS: saving throws, armor and weapons stay those of the class at creation
  (`app/models/character/character_proficiency_model.py:92` says "written wholesale"). Setting expertise leaves a GM GRANT row,
  so the proficiency outlives its source. `PUT /races/{id}/skills` and `PUT /backgrounds/{id}/skills` replace what a race or
  background grants (`shared/skills/mixins.py:24`) and leave the rows of characters as they are, so a row need not be of a skill
  that is granted now; and a rebuild reads that list, and checks the choices against the class, before it waits for the
  character's lock (`characters/progression/rebuild.py:115`), so a list replaced meanwhile is written after its replacement. No
  document promises otherwise. `RowsFollowBuild` therefore asks for a list granted since it was read, whole and of the right
  source, and holds of the present list where none was replaced. `GET proficiencies` reads rows and grants in separate statements.
- **Migrations.** Revisions 17, 24 (down) and 50 lack the checks over rows that `migrations/README:23` asks for; 6 adds required
  columns without default (below the floor); the downgrade of 47 after that of 48 cannot keep ASI choices that are feats; the
  downgrade of 59 refuses over rows. Downgrades of 17, 52, 71 and 79 leave enum labels behind, which `UpgradesUndone` does not
  ask for: the next upgrade accepts them.
- **Rate limit.** A client may use the budgets of Redis and of the fallback map when Redis fails in between, as documented.

## Proofs

`tlapm` proves 48 listed theorems in eight modules. What they have in common: the property alone is not inductive because a
step relies on what its request locked or read before; the strengthening says what a request at each step holds and knows;
a lemma per action, or group of actions, shows that it keeps this, and one lemma that it leaves other requests undisturbed.

`CacheProofs` proves `Typing` from the assumptions of `Cache` on its constants; the breaker's range needs the cap in
`RecordFailure` and the re-opening in `HalfOpen`. It proves `StaleOwned` (`Spec => []StaleIsOwed`) with

- `CallShape`: in which calls a request can be at a step of a purge, hold a remembered one or have one of its own;
- `JobShape`: what a purge still has to visit belongs to what it was asked for;
- `NothingAhead`: no payload is newer than the database and no epoch newer than the counter;
- `FillIsWatched`: a fill that would pass the epoch check holds the current payload, or one that a purge whose INCR is still
  ahead will remove.

It uses `NamespaceAssumption` (an index covers what is below its namespace) and `WriteAssumption` (a service purges every key
whose payload its write changes): the second is a claim about every service, and what `Catalog` checks of it.
The third theorem is `DeferredKept` (`Spec => DeferredPurgeKept`): only `EnterReplay`, `PurgeFails` (by `MergeCovers`, past the
limit too) and `ReplayDone` touch what is deferred.

`ArticlesProofs` proves the types, `HistoryIsComplete`, `OneRevisionPerAccept` and `ReviewedIsPublished` from one invariant:
`IdsOnce`, `HeldRows` (who writes an article or decides a proposal holds the row), `Subject`, `ReadIsHistory` (what was read
without a lock is a content the article has had), `AcceptIsDue`. The module also proves `Implementation`: each action maps
to `Appear`, `Write`, `Move`, `Vanish` or a stutter of `ArticleHistory`. They use only `InputAssumption` and `NullAssumption`.

`CharacterSheetProofs` proves seven theorems. `Locked == TypeOK /\ LockOwner /\ InstanceCurrent` gives `TypeCorrect` and
`NoLostUpdate`: no request writes `build` or `hp` without the lock except `SetMaxHp`, which is enabled only while no owner's
request holds it (its UPDATE waits for the row). `Resolved == AsiResolved /\ AsiFeatsLogged` adds the log: a level-up writes the
row of the level it reaches, a rebuild all of them, and `RemoveFeat` frees what it deletes. `BuildReconciled`,
`LevelsAddHitPoints` and `KitsWithBackground` are action properties that follow step by step; the last two are proved only, no
run checks them.

`CatalogProofs` proves `LinksKept`, `CatalogTyped` and `StaleOwed` from `Sound == Guarded /\ Typed /\ CachedExcused /\
ReadsExcused`. `Guarded` is the row locks: a delete past its check excludes new references where the code locks the row.
`CachedExcused` and `ReadsExcused` carry "every change this payload misses is tolerated, or a committed write still has its
purge to run" from the cached payload to readers that have not stored yet; `CommitOwes` goes through the references and
namespaces one by one, and is where a missing name in `namespaces.py` would show.

The second part of `CatalogProofs` is about the catalog whose rows have trees, `FeatureEngine`, and proves `TreesStayLegal`,
`SheetsShowWhatCounts`, `GroupsNeverOverPicked`, `LevelUpsResolve` and `StoredTotalsFollow` (`EngineSpec => []TreeRules` and so
on) for any number of requests, characters, features and rows. Four invariants build on each other; TLC checked each of them on
the instance of `feature_engine` before it was proved.

- `TreeInv`: no two edits work on one feature (`EditsApart`), an edit puts and cuts rows of its own feature's tree only
  (`BelongsTo`), and the tree it would leave is legal. `CommitKeepsEdit` shows that another edit's commit leaves all that true:
  it disturbs neither the groups of this feature nor the effects of its owners. Ids are never given twice (`Alike`), which is
  what keeps an option, and an effect of one, with its group.
- `GrantInv`: a stored pick has its grant and finds its group and option; flags are those of the tree. Who is about to take a
  grant, a group or an option away takes the picks with it, and what is about to be stored is safe from all of them: `Apart` is
  the locks of the features, grants and characters, the key-share locks of inserts among them.
- `CountInv`: what a request is about to store in a group fits it and replaces all picks that are there (`Fills`); no other
  request is about to do the same. A tree read without a lock asks for no more than the one stored (`SeenCounts`), as only
  `lowered` groups ask for fewer. For a level-up, every group of what it grants is answered in the tree as it is (`Answered`),
  because its locks on those features stop edits of them.
- `TotalInv`: the totals a request holds are those of the state its commit will make, for every character it is not late for; by
  `CommitSpares` a commit leaves what the totals of all other characters count as it was.

They use `EngineAssumption` (feats are features, levels and bounds are numbers, a group asks for at least one pick),
`OwnerAssumption` (features are not ids of options: effects hang on them in two tables), `ItemsAssumption` (finitely many
effects to choose from) and `TreeAssumption` (the database begins with finitely many rows, within the rules).

`ProficienciesProofs` proves five theorems from `IInv == Locked /\ BackgroundCurrent /\ PlansWereRead /\ RowsFollowBuild`, with
`Locked == TypeOK /\ LockOwner /\ WellAsked /\ DecidedOnCurrent`. `BackgroundCurrent` says that the background an owner's request
read is still the row's; without it two `set_background` could leave the rows of both. `PlansWereRead` says that the rows a request
is going to write are of lists granted since it read them; `prepare` reads outside the lock, so nothing stronger is inductive.
The witnesses of `RowsFollowBuild` are the set of backgrounds deleted under the character since the last rebuild and the list
read of each source; that races and backgrounds are rows of different tables (`SourceAssumption`) keeps a new background's list
apart from the race's. `TheGmDecides` needs that only `Write` changes a GM row,
`WrittenAsAsked` that `DecidedOnCurrent` holds and a case split over the requests.

`PlatformProofs` has two parts. The first is about `Sessions` and proves `TypeCorrect`, `RotatesOnce`, `LinkHeld`,
`LogoutIsFinal` and `RevocationIsFinal`. Times are counted in three units, and the proofs rest on every truncation erring to the
same side:

- `Signed`: a token ends a fixed number of whole seconds after the second it was issued in, and the second token of a pair
  stands against a claimed parent;
- `EntriesOutlive`: a blacklist entry or claim lives until the last second of its token, and `RequestsHold` says the same of
  one that is computed and not yet sent, by `RemainingSeconds` (the truncated rest is short by less than a second);
- `RevocationsOutlive`: a revocation key lives a refresh token's life longer than its timestamp, so whatever it stands
  against has expired before it. Here the assumption on the lifetimes is needed: a reset link that outlived a refresh token
  would be usable again;
- `Once`: a refresh token has one pair or one request about to sign it, until its last second. The last second is a real
  exception, as a claim whose time to live truncates to zero is not kept.

The second part is about `Migrations` and proves `NothingHalfApplied` (`DeploySpec => SchemaMovesWithVersion`) and the types,
for any set of runners and releases and any number of crashes, rollbacks and uses, from `BoundsAssumption` and
`ReleasesAssumption`. It looks at all 164 scripts: 163 leave their transaction open to the end (`UpgradesWhole`,
`DowngradesWhole`), and the one that commits in its middle, revision 17, has only added an enum label by then (`LabelFirst`).
`RunKeeps` concludes that a script that fails or dies leaves the tables as they were, whatever database a stale runner starts it
on; `DeployInv` says that runners are always at scripts of the chain and that rows are in tables that exist. `Run` is a
recursive function over the statements, and `RunExists` proves that it has a value for scripts of any length, by lemma `Least`
(below).

`CampaignsProofs` proves `TypeCorrect`, `SeatsAlwaysAgree`, `AutoNumberStaysFree`, `HistoryAlwaysKept`, `ReviewsAlwaysKept`
(from `HiddenAlwaysKept` and `AlwaysReviewedWhileOpen`) and the refinement `RosterKept`. `Held` is who has which campaign's row
locked; `Knowing` what a request read under that lock and still holds when it writes, one part per operation: the campaign is
open (`KnowsAdd`), the status may change to the one asked and `ended` is what was read (`KnowsStatus`), the computed number is
free (`KnowsNumber`), those who attended play at this table (`KnowsAttendance`), the chronicle is published (`KnowsScope`). Each
is qualified by what takes no lock: rows may have gone with a deleted character (`HasDeleted`). `RowsAgree` is the roster: a
character has one active participation, which its partial unique index refuses to double whatever tables are locked.

For `RosterKept` the entries of the book follow the rows (`Entry`), and each step maps to one of `CampaignSeats` or to a stutter
(`StepMaps`): what opens or restores a campaign to `Open`; closing and archiving to `Shut`, because `release_characters` ends
exactly the active rows of that table; `Add` to `SitDown`, by `KnowsAdd` (the table is still open) and the unique index (no other
seat, at any table); `SetStatus` to `GetUp` or `StrikeOut`, by `KnowsStatus` and `RowsAgree`; the deletions, also one that hits
between check and write, to `Depart`.

`ArticleTreeProofs` proves `TypeCorrect`, `TreeStaysIntact`, `LinkedStaysStored`, `GalleryStaysIntact` and the refinement
`ForestKept`, from `ChainAssumption` (`ChainLimit >= MaxDepth`) and finitely many requests. For the tree:

- `PathsArePrefixes`: where paths follow the parents, the path of an ancestor is a prefix of the path, so "below" by path and
  by walks up `parent_id` agree (`AncestorsFound`) and the cut of the recursive query at 256 rows hides no cycle;
- `KnowsTree`: what a check found is still so at the write. Between them come only requests without the lock, the creations
  of new roots (`NewRootDisturbsNobody`); `MoveKeepsTree`, `CreateKeepsTree` and `DeleteKeepsTree` then show that the subtree's
  new paths follow the parents and stay within `MAX_TREE_DEPTH`.
- `AbovePath`: what is above an article in the forest is on its path, so a path within the depth bounds the branch
  (`ShallowForest`) and an article that is not on the path of its new parent is not above it (`NotAbove`). With that, creations
  are steps `Plant`, writes of a moved subtree steps `Move` or stutters, deletions steps `Fell`: this is `ForestKept`.

For the images, `Settled` says of each one that it has no row, or is linked to a stored object, or has its uploader or lost it
(`cut`); `HasImage` and `UploadsApart` what a request works on and that no other does. A gallery passes its limit by requests
that counted before each other's row, hence the bound by the number of requests, for which these are finite.

`CampaignsProofs`, `ArticleTreeProofs` and the second part of `PlatformProofs` need an induction over numbers (the least free
number, the shortest path that is wrong, the first statement that breaks something). The library's induction theorems take an
operator as a parameter, which the installed provers cannot instantiate; lemma `Least` (a nonempty set of numbers has a least
element) is what they use instead.

Only model-checked: liveness (`StaleEventuallyGone`, `RequestsEnd`, `ReachesHead`), which is out of the prover's reach as ENABLED
is; and three properties of `Migrations`, `UpgradesApply`, `HeadIsTheModels` and `UpgradesUndone`, which are about the schema that
up to 82 scripts leave: a computation for TLC rather than an argument. The violated property of `articles_accept` is of course
not a theorem.

## Not modelled

The component list in `PROJECT.json` says of each part what is left out. In groups:

- **Reads and shapes.** Listings, filters, pagination, response schemas, search, diffs and the exports only select. Together
  with validation schemas of single fields they are most of the code that no definition stands for.
- **Single-statement writes** with nothing that depends on them: article relations, tags and subtypes, campaign notes, presets
  of public campaigns, attacks, spell slots and notes of a character.
- **Declarations and assembly**: settings, `main`, routers, constants, error envelopes, request ids and logging.
- **Best-effort I/O**: email, the storage client, background tasks. Their failures are actions of the callers where state
  depends on them (`ArticleTree`).
- **Rate limit.** Two counters whose only promise is an upper bound; the fallback map is documented as best effort.
- Inside modelled components: the order and wording of responses, sort orders, unique names and slug suffixes, `merge_text` on
  several lines (`Articles` merges whole values), the reconciliation of every character of a class when its features change,
  ability scores other than the effects' share of them, a race deleted between its in-use check and a rebuild, what data steps
  of a migration write, nullability, lengths and defaults of columns.
- Cancellation of a coroutine is modelled only as the end of its worker or of its request (`Crash`, `Lost`, `Rollback`).
