------------------------------ MODULE Migrations ------------------------------
(***************************************************************************)
(* The deployment of the schema: src/migrations/env.py applies the scripts *)
(* of MigrationsEarly and MigrationsLate, each in a transaction of its own *)
(* that ends by moving the row of alembic_version.  Every container that   *)
(* starts runs `alembic upgrade head' of its image before the application  *)
(* (Dockerfile), so two may run at once, and an operator may downgrade.  A *)
(* runner reads the version once and then trusts its memory of it; that the*)
(* row no longer holds that version is noticed at the end of a script only.*)
(*                                                                         *)
(* Between two runs the application fills tables, also with rows that a    *)
(* later revision will not take (dirty); the operator removes these.       *)
(***************************************************************************)
EXTENDS MigrationsEarly, MigrationsLate, ModelTables, Integers

CONSTANTS
    Runners,        \* containers, and the operator's shell
    Releases,       \* the heads of the images that are deployed
    Floor,          \* the oldest version a rollback goes to
    MaxUses, MaxRollbacks, MaxCrashes,
    MaxLag          \* how far the row may move ahead of a runner that has not noticed

ASSUME BoundsAssumption ==
    MaxUses \in Nat /\ MaxRollbacks \in Nat /\ MaxCrashes \in Nat /\ MaxLag \in Nat \ {0}

\* down_revision of every script links them into one chain.
Up == <<
    Up_0001, Up_0002, Up_0003, Up_bb20790b5a8c, Up_69038c284ea4, Up_5bde518ea704, Up_ed896a68cda0,
    Up_62ead1ad9e84, Up_0c571ff6a50e, Up_ad86e093f8cb, Up_7e70b8a81bb9, Up_4b17bc9bfef5,
    Up_802345a50dc7, Up_ae09bdf473f4, Up_2bea8b331f7a, Up_d4c1e9b2a7f3, Up_8e6cbf5381ba,
    Up_9f4c8e2a1b7d, Up_c3f8e2a1b5d9, Up_a89aff41cc17, Up_c1a2b3d4e5f6, Up_d2e3f4a5b6c7,
    Up_a1b2c3d4e5f7, Up_f0a1b2c3d4e5, Up_f1a2b3c4d5e6, Up_e7f8a9b0c1d2, Up_8a4c5d6e7f8a,
    Up_af6347715f5e, Up_b7c2d9e4f1a8, Up_a48de7f0f9b3, Up_6fa86eefd557, Up_c4d7e1a9f3b2,
    Up_b5f3d8c2e7a9, Up_e2a9f4b7c6d1, Up_f7c1b8d3a5e2, Up_a9d4f2e8b1c7, Up_c3e7a1f9d2b4,
    Up_e8b5c7d9f1a3, Up_f9c6d8e2b4a7, Up_b8e2f4a6c9d1, Up_c5d9e8f2a4b7, Up_d1e2f3a4b5c6,
    Up_a3b4c5d6e7f8, Up_e3d5f7a9b2c4, Up_f2a9c7d3b5e1, Up_b3f6a2c8d4e1, Up_c8f4e2a6b9d3,
    Up_d4e6f8a2c1b3, Up_a1b2c3d4e5f6, Up_f3a5c7e9b1d4, Up_f0168d7c8559, Up_771ee792d001,
    Up_42d89281e627, Up_e6dde395e1a0, Up_5c2b6d2ff132, Up_76676c656c28, Up_c2a4e8f1b6d3,
    Up_b7e4d1f2a9c6, Up_a031c08480da, Up_47437cd77998, Up_4ffb883f9582, Up_705548ecfb46,
    Up_d2b8f6c41a97, Up_e5c1a7d93f02, Up_b4e8d2a6f1c3, Up_c7a3e9d1b5f2, Up_d8b4f0a2c6e9,
    Up_e2c6a8f4d0b7, Up_f4d8b2c6a0e1, Up_a5e9c3f7b1d2, Up_b6f0d4a8c2e3, Up_d6a2c8e4f0b1,
    Up_e7b2d4f6a8c0, Up_f8c3e5a7b9d1, Up_a6d1f3b5c7e9, Up_c4a8e2f6b1d9, Up_d7b3e9a1c5f2,
    Up_e2c6a4f8d0b3, Up_f5a1d7c3e9b2, Up_a7c3e5f9b1d4, Up_b3d9f1a6c8e2, Up_c8e2a4f6d1b9>>
Down == <<
    Down_0001, Down_0002, Down_0003, Down_bb20790b5a8c, Down_69038c284ea4, Down_5bde518ea704,
    Down_ed896a68cda0, Down_62ead1ad9e84, Down_0c571ff6a50e, Down_ad86e093f8cb, Down_7e70b8a81bb9,
    Down_4b17bc9bfef5, Down_802345a50dc7, Down_ae09bdf473f4, Down_2bea8b331f7a, Down_d4c1e9b2a7f3,
    Down_8e6cbf5381ba, Down_9f4c8e2a1b7d, Down_c3f8e2a1b5d9, Down_a89aff41cc17, Down_c1a2b3d4e5f6,
    Down_d2e3f4a5b6c7, Down_a1b2c3d4e5f7, Down_f0a1b2c3d4e5, Down_f1a2b3c4d5e6, Down_e7f8a9b0c1d2,
    Down_8a4c5d6e7f8a, Down_af6347715f5e, Down_b7c2d9e4f1a8, Down_a48de7f0f9b3, Down_6fa86eefd557,
    Down_c4d7e1a9f3b2, Down_b5f3d8c2e7a9, Down_e2a9f4b7c6d1, Down_f7c1b8d3a5e2, Down_a9d4f2e8b1c7,
    Down_c3e7a1f9d2b4, Down_e8b5c7d9f1a3, Down_f9c6d8e2b4a7, Down_b8e2f4a6c9d1, Down_c5d9e8f2a4b7,
    Down_d1e2f3a4b5c6, Down_a3b4c5d6e7f8, Down_e3d5f7a9b2c4, Down_f2a9c7d3b5e1, Down_b3f6a2c8d4e1,
    Down_c8f4e2a6b9d3, Down_d4e6f8a2c1b3, Down_a1b2c3d4e5f6, Down_f3a5c7e9b1d4, Down_f0168d7c8559,
    Down_771ee792d001, Down_42d89281e627, Down_e6dde395e1a0, Down_5c2b6d2ff132, Down_76676c656c28,
    Down_c2a4e8f1b6d3, Down_b7e4d1f2a9c6, Down_a031c08480da, Down_47437cd77998, Down_4ffb883f9582,
    Down_705548ecfb46, Down_d2b8f6c41a97, Down_e5c1a7d93f02, Down_b4e8d2a6f1c3, Down_c7a3e9d1b5f2,
    Down_d8b4f0a2c6e9, Down_e2c6a8f4d0b7, Down_f4d8b2c6a0e1, Down_a5e9c3f7b1d2, Down_b6f0d4a8c2e3,
    Down_d6a2c8e4f0b1, Down_e7b2d4f6a8c0, Down_f8c3e5a7b9d1, Down_a6d1f3b5c7e9, Down_c4a8e2f6b1d9,
    Down_d7b3e9a1c5f2, Down_e2c6a4f8d0b3, Down_f5a1d7c3e9b2, Down_a7c3e5f9b1d4, Down_b3d9f1a6c8e2,
    Down_c8e2a4f6d1b9>>
Newest == Len(Up)

ASSUME ReleasesAssumption == Floor \in Nat /\ Newest \in Releases /\ Releases \subseteq Floor .. Newest

AtRest == [at |-> 0, goal |-> 0]
\* What the application may have written into: everything, or everything but
\* the dictionary of tags and its links.
Filled(d) == {DOMAIN d.tables, DOMAIN d.tables \ {"tags", "race_tags", "background_tags", "subrace_tags"}}

VARIABLES
    version,        \* the row of alembic_version, as the position in the chain
    db,             \* the schema and which of its tables hold rows
    dirty,          \* some rows violate what a later revision requires
    runner,         \* per runner: the version it believes in and the one it goes to
    uses, rollbacks, crashes
deployVars == <<version, db, dirty, runner, uses, rollbacks, crashes>>
bounds == <<uses, rollbacks, crashes>>

DeployTypeOK ==
    /\ version \in 0 .. Newest
    /\ dirty \in BOOLEAN
    /\ runner \in [Runners -> {AtRest} \cup [at : 0 .. Newest, goal : 0 .. Newest]]
    /\ db.rows \subseteq DOMAIN db.tables
    /\ uses \in 0 .. MaxUses /\ rollbacks \in 0 .. MaxRollbacks /\ crashes \in 0 .. MaxCrashes

DeployInit ==
    /\ version = 0 /\ db = NoDatabase /\ dirty = FALSE
    /\ runner = [r \in Runners |-> AtRest]
    /\ uses = 0 /\ rollbacks = 0 /\ crashes = 0

Busy(r) == runner[r] # AtRest
Ascends(r) == runner[r].goal > runner[r].at
Beyond(r) == IF Ascends(r) THEN runner[r].at + 1 ELSE runner[r].at - 1
\* The script a runner is about to run, on the database of this moment.
Attempt(r) == Run(IF Ascends(r) THEN Up[runner[r].at + 1] ELSE Down[runner[r].at], db, dirty)
Halt(r) == runner' = [runner EXCEPT ![r] = AtRest]

\* A container of an image with that head starts.  An image that does not know
\* the version fails at once; an empty database is set up by one container (two
\* would both insert the row).
Start(r, head) ==
    /\ ~Busy(r) /\ version < head
    /\ version = 0 => \A s \in Runners : ~Busy(s)
    /\ runner' = [runner EXCEPT ![r] = [at |-> version, goal |-> head]]
    /\ UNCHANGED <<version, db, dirty, bounds>>

\* The operator runs `alembic downgrade'.
Rollback(r) ==
    /\ ~Busy(r) /\ version > Floor /\ rollbacks < MaxRollbacks
    /\ runner' = [runner EXCEPT ![r] = [at |-> version, goal |-> Floor]]
    /\ rollbacks' = rollbacks + 1
    /\ UNCHANGED <<version, db, dirty, uses, crashes>>

WithinLag(r) == \A s \in Runners \ {r} : Busy(s) => Beyond(r) - runner[s].at \in -MaxLag .. MaxLag

\* A script runs to its end and the row still holds the version it started from.
Advance(r) ==
    /\ Busy(r) /\ version = runner[r].at
    /\ WithinLag(r)
    /\ LET run == Attempt(r) IN
          /\ run.outcome = "done"
          /\ db' = Left(run)
    /\ version' = Beyond(r)
    /\ runner' = [runner EXCEPT ![r] = IF Beyond(r) = @.goal THEN AtRest ELSE [@ EXCEPT !.at = Beyond(r)]]
    /\ UNCHANGED <<dirty, bounds>>

\* A statement fails, or the UPDATE of the row finds another version: the
\* transaction is rolled back to its last COMMIT and the command ends.
Stop(r) ==
    /\ Busy(r)
    /\ LET run == Attempt(r) IN
          /\ run.outcome # "done" \/ version # runner[r].at
          /\ db' = run.saved
    /\ Halt(r)
    /\ UNCHANGED <<version, dirty, bounds>>

\* The container dies inside a script, before or after its COMMIT.
Crash(r) ==
    /\ Busy(r) /\ crashes < MaxCrashes
    /\ db' \in {db, Attempt(r).saved}
    /\ Halt(r)
    /\ crashes' = crashes + 1
    /\ UNCHANGED <<version, dirty, uses, rollbacks>>

\* The application of a release serves for a while.
Use ==
    /\ version \in Releases /\ uses < MaxUses
    /\ \E ts \in Filled(db) : db' = [db EXCEPT !.rows = @ \cup ts]
    /\ dirty' \in BOOLEAN
    /\ uses' = uses + 1
    /\ UNCHANGED <<version, runner, rollbacks, crashes>>

\* The operator removes the rows a revision has refused to run over.
Clean ==
    /\ dirty
    /\ dirty' = FALSE
    /\ UNCHANGED <<version, db, runner, bounds>>

Deployed ==
    /\ version = Newest /\ \A r \in Runners : ~Busy(r)
    /\ UNCHANGED deployVars

DeployNext ==
    \/ \E r \in Runners :
          \/ \E head \in Releases : Start(r, head)
          \/ Rollback(r) \/ Advance(r) \/ Stop(r) \/ Crash(r)
    \/ Use \/ Clean \/ Deployed

\* A container that failed is restarted (the restart policies of the compose
\* files), the latest image among them, and a running one goes on: its weak
\* fairness, with the condition that enables it written out.
Goes(r) == Busy(r) /\ (version = runner[r].at => WithinLag(r))
Fairness ==
    /\ WF_deployVars(\E r \in Runners : Start(r, Newest))
    /\ \A r \in Runners : []<>(~Goes(r)) \/ []<><<Advance(r) \/ Stop(r)>>_deployVars
DeploySpec == DeployInit /\ [][DeployNext]_deployVars /\ Fairness
(***************************************************************************)
(* What a deployment relies on.                                            *)
(***************************************************************************)
\* Wherever a crash, a stale runner, a refusal or a rollback left the database,
\* the next revision applies to it; rows can only make it refuse, and only rows
\* the operator can name (migrations/README: "abort with ONE message listing
\* every offender").
UpgradesApply ==
    version < Newest => LET outcome == Run(Up[version + 1], db, dirty).outcome IN
                      outcome # "broken" /\ (~dirty => outcome = "done")

\* At the head the tables, columns, keys and references are those the models
\* declare, and the enum types with their labels are those the Python enums do,
\* whatever way led there (TestNoDrift of tests/integration/core/test_migrations.py
\* checks the tables on the direct way and on one round trip, and no labels).
SameTable(a, b) == a.cols = b.cols /\ a.keys = b.keys /\ Range(a.refs) = Range(b.refs)
HeadIsTheModels ==
    version = Newest =>
        /\ DOMAIN db.tables = DOMAIN Metadata
        /\ \A t \in DOMAIN Metadata : SameTable(db.tables[t], Metadata[t])
        /\ db.types = EnumTypes @@ [n \in {"btree_gin", "pg_trgm", "ltree"} |-> {}]

\* "downgrade() must undo upgrade()": what an upgrade above the floor did to an
\* empty schema, its downgrade takes back, tables and types alike.
UpgradesUndone ==
    [][Floor <= version /\ version < version' =>
        LET back == Run(Down[version'], [db' EXCEPT !.rows = {}], FALSE) IN
        /\ back.outcome = "done"
        /\ back.tables = db.tables /\ DOMAIN back.types = DOMAIN db.types]_deployVars

\* "nothing is half-applied": without a move of the version no table changes,
\* whatever fails, dies or runs twice.
SchemaMovesWithVersion == [][version' = version => db'.tables = db.tables]_deployVars

\* Once no row stands against a revision, the containers bring the schema to the head.
ReachesHead == []<>(~dirty) => <>[](version = Newest)
=============================================================================
