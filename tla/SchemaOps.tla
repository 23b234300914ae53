------------------------------ MODULE SchemaOps ------------------------------
(***************************************************************************)
(* What the statements of a migration script do to a PostgreSQL schema, as *)
(* the scripts of src/migrations/versions use them (alembic and PostgreSQL *)
(* are not under src/).                                                    *)
(*                                                                         *)
(* A database is its tables, its enum types with their labels, its         *)
(* extensions (types without labels), and the set of tables that hold      *)
(* rows. A column is known by its enum type, or the expression it is       *)
(* generated from, or "untyped"; a key is an index, a uniqueness or a      *)
(* check over some columns; a reference is a foreign key with what its ON  *)
(* DELETE does. Names PostgreSQL or alembic would derive from the table    *)
(* and the column are <<"ix", column>> and <<"fkey", column>>. Primary     *)
(* keys, nullability, lengths and defaults are left out, save that a       *)
(* required column without a default needs an empty table. A statement is  *)
(* a record; a script is a sequence of statements.                         *)
(***************************************************************************)
EXTENDS Integers, Sequences, SequencesExt, Functions, TLC

NoDatabase == [tables |-> << >>, types |-> << >>, rows |-> {}]

(***************************************************************************)
(* The statements.                                                         *)
(***************************************************************************)
\* Plain columns, <<column, type>> pairs and <<column, target, on delete>> triples.
Columns(plain, typed, refs) ==
    [c \in plain \cup {p[1] : p \in typed \cup refs} |->
        IF \E p \in typed : p[1] = c THEN (CHOOSE p \in typed : p[1] = c)[2] ELSE "untyped"]
References(refs) ==
    [n \in {<<"fkey", p[1]>> : p \in refs} |->
        LET p == CHOOSE p \in refs : p[1] = n[2] IN [on |-> p[1], to |-> p[2], act |-> p[3]]]

Table(t, plain, typed, refs) ==
    [do |-> "table", t |-> t, cols |-> Columns(plain, typed, refs), refs |-> References(refs)]
DropTables(ts) == [do |-> "drop_tables", ts |-> ts]

\* ADD COLUMN, of columns that are nullable or have a default; with an enum type;
\* and of required ones without a default.
AddColumns(t, cs) == [do |-> "columns", t |-> t, cols |-> [c \in cs |-> "untyped"], required |-> FALSE]
AddTyped(t, c, type) == [do |-> "columns", t |-> t, cols |-> c :> type, required |-> FALSE]
AddRequired(t, cs) == [AddColumns(t, cs) EXCEPT !.required = TRUE]
AddRequiredTyped(t, c, type) == [AddTyped(t, c, type) EXCEPT !.required = TRUE]
Generated(t, c, sql) == [do |-> "generated", t |-> t, c |-> c, sql |-> sql]
DropColumns(t, cs) == [do |-> "drop_columns", t |-> t, cs |-> cs]
Rename(t, c, new) == [do |-> "rename", t |-> t, c |-> c, new |-> new]
Retype(t, c, type) == [do |-> "retype", t |-> t, c |-> c, type |-> type]

\* UPDATE of every row's column; SET NOT NULL of a column this script added.
Fill(t, c) == [do |-> "fill", t |-> t, c |-> c]
NotNull(t, c) == [do |-> "not_null", t |-> t, c |-> c]

\* Keys.  "over": the rows already in the table may violate it.
KeyOf(t, n, on, how, over) == [do |-> "keys", t |-> t, keys |-> n :> [on |-> on, how |-> how], over |-> over]
Key(t, n, on, how) == KeyOf(t, <<n>>, on, how, FALSE)
KeyOver(t, n, on, how) == KeyOf(t, <<n>>, on, how, TRUE)
Ix(t, cs) == [do |-> "keys", t |-> t, over |-> FALSE,
              keys |-> [n \in {<<"ix", c>> : c \in cs} |-> [on |-> {n[2]}, how |-> "index"]]]
UniqueIx(t, c) == KeyOf(t, <<"ix", c>>, {c}, "unique", FALSE)
UniqueIxOver(t, c) == KeyOf(t, <<"ix", c>>, {c}, "unique", TRUE)
SearchIx(t, c, how) == KeyOf(t, <<"ix", c>>, {c}, how, FALSE)
DropKey(t, n) == [do |-> "drop_keys", t |-> t, ns |-> {<<n>>}]
DropIx(t, cs) == [do |-> "drop_keys", t |-> t, ns |-> {<<"ix", c>> : c \in cs}]

RefOf(t, n, c, to, act) == [do |-> "ref", t |-> t, n |-> n, c |-> c, to |-> to, act |-> act]
Ref(t, c, to, act) == RefOf(t, <<"fkey", c>>, c, to, act)
NamedRef(t, n, c, to, act) == RefOf(t, <<n>>, c, to, act)
DropRef(t, c) == [do |-> "drop_ref", t |-> t, n |-> <<"fkey", c>>]
DropNamedRef(t, n) == [do |-> "drop_ref", t |-> t, n |-> <<n>>]
\* The foreign keys of t to "to", found by their target in pg_constraint.
DropRefTo(t, to) == [do |-> "drop_ref_to", t |-> t, to |-> to]
\* An UPDATE that maps the values of t.c from one table to another, by the rows of "through".
Repoint(t, c, through) == [do |-> "repoint", t |-> t, c |-> c, through |-> through]

NewType(n, labels) == [do |-> "type", n |-> n, labels |-> labels]
DropType(n) == [do |-> "drop_type", n |-> n]
Label(n, l) == [do |-> "label", n |-> n, l |-> l]
Unlabel(n, l) == [do |-> "unlabel", n |-> n, l |-> l]

\* INSERT INTO dst, by itself or SELECTed from src.
Insert(dst) == [do |-> "insert", dst |-> dst]
Copy(src, dst) == [do |-> "copy", src |-> src, dst |-> dst]

\* The checks of a script that raise: on rows a new constraint would not
\* take, and on any row.
Refuses(ts) == [do |-> "refuses", ts |-> ts]
RequireEmpty(ts) == [do |-> "require_empty", ts |-> ts]
\* COMMIT; BEGIN: what has been done stays.
Commit == [do |-> "commit"]
\* nextval() of a sequence that is made with its table; drop_constraint(None).
Sequence(t) == [do |-> "sequence", t |-> t]
Unnamed(t) == [do |-> "unnamed", t |-> t]

\* IF EXISTS, IF NOT EXISTS, checkfirst, or a look at the catalog: a statement
\* that does not apply is skipped.
IfNeeded(o) == [do |-> "if_needed", o |-> o]
Types(labels) == [do |-> "types", labels |-> labels]
Extensions(ns) == Types([n \in ns |-> {}])
DropTypes(ns) == [do |-> "drop_types", ns |-> ns]

(***************************************************************************)
(* Their effect. A run of a script carries what the script has filled and  *)
(* what it has left pointing nowhere, the database as last committed, and  *)
(* its outcome: "done" so far, "refused" over rows, or "broken" on a       *)
(* statement PostgreSQL rejects whatever a person would do about the rows. *)
(***************************************************************************)
HasTable(d, t) == t \in DOMAIN d.tables
HasColumns(d, t, cs) == HasTable(d, t) /\ cs \subseteq DOMAIN d.tables[t].cols
Typed(d, cols) == \A c \in DOMAIN cols : cols[c] = "untyped" \/ cols[c] \in DOMAIN d.types
\* A table other than those of "gone" holds a foreign key to t.
Referenced(d, t, gone) ==
    \E u \in DOMAIN d.tables \ gone : \E n \in DOMAIN d.tables[u].refs : d.tables[u].refs[n].to = t
InUse(d, type) == \E t \in DOMAIN d.tables : \E c \in DOMAIN d.tables[t].cols : d.tables[t].cols[c] = type
NoRows(d, t) == t \notin d.rows

\* The statement is one PostgreSQL accepts.
Applies(o, d) ==
    CASE o.do = "table" -> /\ ~HasTable(d, o.t) /\ Typed(d, o.cols)
                           /\ \A n \in DOMAIN o.refs : o.refs[n].to = o.t \/ HasTable(d, o.refs[n].to)
      [] o.do = "drop_tables" ->
            \A i \in DOMAIN o.ts : HasTable(d, o.ts[i]) /\ ~Referenced(d, o.ts[i], {o.ts[j] : j \in 1..i})
      [] o.do = "columns" -> /\ HasTable(d, o.t) /\ Typed(d, o.cols)
                             /\ DOMAIN o.cols \cap DOMAIN d.tables[o.t].cols = {}
                             /\ o.required => NoRows(d, o.t)
      [] o.do = "generated" -> HasTable(d, o.t) /\ ~HasColumns(d, o.t, {o.c})
      [] o.do = "drop_columns" -> HasColumns(d, o.t, o.cs)
      [] o.do = "rename" -> HasColumns(d, o.t, {o.c}) /\ ~HasColumns(d, o.t, {o.new})
      [] o.do = "retype" -> HasColumns(d, o.t, {o.c}) /\ (o.type = "untyped" \/ o.type \in DOMAIN d.types)
      [] o.do = "fill" -> HasColumns(d, o.t, {o.c})
      [] o.do = "not_null" -> HasColumns(d, o.t, {o.c}) /\ (NoRows(d, o.t) \/ <<o.t, o.c>> \in d.filled)
      [] o.do = "keys" -> /\ \A n \in DOMAIN o.keys : HasColumns(d, o.t, o.keys[n].on)
                          /\ DOMAIN o.keys \cap DOMAIN d.tables[o.t].keys = {}
      [] o.do = "drop_keys" -> HasTable(d, o.t) /\ o.ns \subseteq DOMAIN d.tables[o.t].keys
      [] o.do = "ref" -> /\ HasColumns(d, o.t, {o.c}) /\ HasTable(d, o.to)
                         /\ o.n \notin DOMAIN d.tables[o.t].refs
                         /\ NoRows(d, o.t) \/ <<o.t, o.c>> \notin d.stray
      [] o.do = "drop_ref" -> HasTable(d, o.t) /\ o.n \in DOMAIN d.tables[o.t].refs
      [] o.do = "drop_ref_to" -> HasTable(d, o.t)
      [] o.do = "repoint" -> HasColumns(d, o.t, {o.c}) /\ HasTable(d, o.through)
      [] o.do = "type" -> o.n \notin DOMAIN d.types
      [] o.do = "drop_type" -> o.n \in DOMAIN d.types /\ ~InUse(d, o.n)
      [] o.do \in {"label", "unlabel"} -> o.n \in DOMAIN d.types
      [] o.do = "drop_types" -> \A n \in o.ns : ~InUse(d, n)
      [] o.do = "insert" -> HasTable(d, o.dst)
      [] o.do = "copy" -> HasTable(d, o.src) /\ HasTable(d, o.dst)
      [] o.do = "sequence" -> HasTable(d, o.t)
      [] o.do = "unnamed" -> FALSE
      [] o.do \in {"refuses", "require_empty"} -> \A t \in o.ts : HasTable(d, t)
      [] o.do \in {"types", "commit"} -> TRUE

Without(f, S) == Restrict(f, DOMAIN f \ S)
Renamed(c, o) == IF c = o.c THEN o.new ELSE c

\* The table o.t after a statement about it.
Altered(o, tb) ==
    CASE o.do = "columns" -> [tb EXCEPT !.cols = o.cols @@ @]
      [] o.do = "generated" -> [tb EXCEPT !.cols = o.c :> o.sql @@ @]
      [] o.do = "drop_columns" ->
            [cols |-> Without(tb.cols, o.cs),
             keys |-> Without(tb.keys, {n \in DOMAIN tb.keys : tb.keys[n].on \cap o.cs # {}}),
             refs |-> Without(tb.refs, {n \in DOMAIN tb.refs : tb.refs[n].on \in o.cs})]
      [] o.do = "rename" ->
            [cols |-> o.new :> tb.cols[o.c] @@ Without(tb.cols, {o.c}),
             keys |-> [n \in DOMAIN tb.keys |-> [tb.keys[n] EXCEPT !.on = {Renamed(c, o) : c \in @}]],
             refs |-> [n \in DOMAIN tb.refs |-> [tb.refs[n] EXCEPT !.on = Renamed(@, o)]]]
      [] o.do = "retype" -> [tb EXCEPT !.cols[o.c] = o.type]
      [] o.do = "keys" -> [tb EXCEPT !.keys = o.keys @@ @]
      [] o.do = "drop_keys" -> [tb EXCEPT !.keys = Without(@, o.ns)]
      [] o.do = "ref" -> [tb EXCEPT !.refs = o.n :> [on |-> o.c, to |-> o.to, act |-> o.act] @@ @]
      [] o.do = "drop_ref" -> [tb EXCEPT !.refs = Without(@, {o.n})]
      [] o.do = "drop_ref_to" -> [tb EXCEPT !.refs = Without(@, {n \in DOMAIN @ : @[n].to = o.to})]
Alterations == {"columns", "generated", "drop_columns", "rename", "retype", "keys", "drop_keys", "ref",
                "drop_ref", "drop_ref_to"}

\* The database as a transaction leaves it.
Snapshot(d) == [tables |-> d.tables, types |-> d.types, rows |-> d.rows]

Effect(o, d) ==
    CASE o.do \in Alterations -> [d EXCEPT !.tables[o.t] = Altered(o, @),
                            !.filled = IF o.do = "rename"
                                       THEN {<<p[1], IF p[1] = o.t THEN Renamed(p[2], o) ELSE p[2]>> : p \in @}
                                       ELSE @]
      [] o.do = "table" -> [d EXCEPT !.tables = [t \in DOMAIN d.tables \cup {o.t} |->
                                IF t = o.t THEN [cols |-> o.cols, keys |-> << >>, refs |-> o.refs] ELSE d.tables[t]]]
      [] o.do = "drop_tables" -> [d EXCEPT !.tables = Without(@, Range(o.ts)), !.rows = @ \ Range(o.ts)]
      [] o.do = "fill" -> [d EXCEPT !.filled = @ \cup {<<o.t, o.c>>}]
      [] o.do = "repoint" -> [d EXCEPT !.stray = IF o.through \in d.rows THEN @ ELSE @ \cup {<<o.t, o.c>>}]
      [] o.do = "type" -> [d EXCEPT !.types = o.n :> o.labels @@ @]
      [] o.do = "types" -> [d EXCEPT !.types = @ @@ o.labels]
      [] o.do = "drop_type" -> [d EXCEPT !.types = Without(@, {o.n})]
      [] o.do = "drop_types" -> [d EXCEPT !.types = Without(@, o.ns)]
      [] o.do = "label" -> [d EXCEPT !.types[o.n] = @ \cup {o.l}]
      [] o.do = "unlabel" -> [d EXCEPT !.types[o.n] = @ \ {o.l}]
      [] o.do = "insert" -> [d EXCEPT !.rows = @ \cup {o.dst}]
      [] o.do = "copy" -> [d EXCEPT !.rows = IF o.src \in @ THEN @ \cup {o.dst} ELSE @]
      [] o.do = "commit" -> [d EXCEPT !.saved = Snapshot(d)]
      [] OTHER -> d

\* Rows stand against the statement: some violate what it requires, or there are any.
Refused(o, d, dirty) ==
    \/ dirty /\ o.do = "keys" /\ o.over /\ o.t \in d.rows
    \/ dirty /\ o.do = "refuses" /\ o.ts \cap d.rows # {}
    \/ o.do = "require_empty" /\ o.ts \cap d.rows # {}

Execute(d, o, dirty) ==
    CASE d.outcome # "done" -> d
      [] d.outcome = "done" /\ o.do = "if_needed" -> IF Applies(o.o, d) THEN Effect(o.o, d) ELSE d
      [] d.outcome = "done" /\ o.do # "if_needed" ->
            IF ~Applies(o, d) THEN [d EXCEPT !.outcome = "broken"]
            ELSE IF Refused(o, d, dirty) THEN [d EXCEPT !.outcome = "refused"]
            ELSE Effect(o, d)

\* A script in its transaction: all of its statements, or what it had committed before one failed.
Run(script, db, dirty) ==
    LET after[i \in 0 .. Len(script)] ==
            IF i = 0
            THEN [tables |-> db.tables, types |-> db.types, rows |-> db.rows,
                  filled |-> {}, stray |-> {}, saved |-> db, outcome |-> "done"]
            ELSE Execute(after[i - 1], script[i], dirty)
    IN  after[Len(script)]
Left(run) == IF run.outcome = "done" THEN Snapshot(run) ELSE run.saved
=============================================================================
