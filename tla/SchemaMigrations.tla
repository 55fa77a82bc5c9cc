--------------------------- MODULE SchemaMigrations ---------------------------
(***************************************************************************)
(* How Database.connect brings the file of an earlier release to the       *)
(* current schema.  Every missing version is applied in turn, its          *)
(* statements one by one between BEGIN IMMEDIATE and COMMIT; what is not   *)
(* committed when the process dies, or when a statement fails, is rolled   *)
(* back, and the next start takes up the versions again from the one       *)
(* recorded.  sqlite3's executescript commits the open transaction before  *)
(* it runs, so versions 1 and 4 are not one transaction: from there on     *)
(* each statement of theirs is committed by itself.                        *)
(*                                                                         *)
(* A database is its tables, each with the set of jobs it has a row of,    *)
(* its added columns, and the jobs whose reservation was carried over to   *)
(* the projected column.  Indexes hold no rows and are left out, except    *)
(* that a row is never refused by one here.                                *)
(***************************************************************************)
EXTENDS Integers, Sequences

CONSTANTS Jobs,       \* active jobs an old file holds rows of
          MaxFaults   \* bound: faults, and statements refused while the bot runs

ASSUME FaultAssumption == MaxFaults \in Nat

VARIABLES db,        \* the committed database
          version,   \* the highest version recorded in it
          work,      \* the database as the open transaction sees it
          todo,      \* statements of the version in progress
          applying,  \* the version in progress, 0 when there is none
          inTransaction,
          faults

schema == <<db, version, work, todo, applying, inTransaction>>
schemaVars == <<schema, faults>>

CURRENT_SCHEMA_VERSION == 11

Has(d, table) == table \in DOMAIN d.tables
WithTable(d, table, rows) ==
    [d EXCEPT !.tables = [t \in DOMAIN @ \cup {table} |-> IF t = table THEN rows ELSE @[t]]]
WithoutTable(d, table) ==
    [d EXCEPT !.tables = [t \in DOMAIN @ \ {table} |-> @[t]]]
With(d, column) == [d EXCEPT !.columns = @ \cup {column}]

(***************************************************************************)
(* The statements.  IfMissing is CREATE TABLE IF NOT EXISTS; Create and    *)
(* Rename fail when the new name is taken, Add when the column exists.     *)
(***************************************************************************)
Script          == [op |-> "script"]
IfMissing(t)    == [op |-> "if missing", table |-> t]
Create(t)       == [op |-> "create", table |-> t]
Drop(t)         == [op |-> "drop", table |-> t]
Rename(t, u)    == [op |-> "rename", table |-> u, from |-> t]
Copy(t, u)      == [op |-> "copy", table |-> u, from |-> t]
Add(t, c)       == [op |-> "add", table |-> t, column |-> c]
CarryReserved   == [op |-> "carry"]
AddCreators     == [op |-> "creators"]

Fails(s, d) ==
    \/ s.op = "create" /\ Has(d, s.table)
    \/ s.op = "rename" /\ (Has(d, s.table) \/ ~Has(d, s.from))
    \/ s.op = "copy" /\ ~(Has(d, s.table) /\ Has(d, s.from))
    \/ s.op = "add" /\ (s.column \in d.columns \/ ~Has(d, s.table))

After(s, d) ==
    CASE s.op = "if missing" -> IF Has(d, s.table) THEN d ELSE WithTable(d, s.table, {})
      [] s.op = "create"     -> WithTable(d, s.table, {})
      [] s.op = "drop"       -> WithoutTable(d, s.table)
      [] s.op = "rename"     -> WithoutTable(WithTable(d, s.table, d.tables[s.from]), s.from)
      [] s.op = "copy"       -> WithTable(d, s.table, d.tables[s.table] \cup d.tables[s.from])
      [] s.op = "add"        -> With(d, s.column)
      [] s.op = "carry"      -> [d EXCEPT !.carried = d.tables["disk_reservations"]]
      [] s.op = "creators"   -> WithTable(d, "job_subscribers",
                                   d.tables["job_subscribers"] \cup d.tables["download_jobs"])
      [] OTHER               -> d

(***************************************************************************)
(* The statements of each version.  The columns are read before they are   *)
(* added, all of them when the version begins.                             *)
(***************************************************************************)
AddMissing(d, t, column) == IF column \in d.columns THEN <<>> ELSE <<Add(t, column)>>

migration_v1(d) ==
    <<Script, IfMissing("users"), IfMissing("media_sessions"),
      IfMissing("download_jobs"), IfMissing("disk_reservations")>>
migration_v2(d) == 
    AddMissing(d, "download_jobs", "source_url") \o AddMissing(d, "download_jobs", "claimed_at")
migration_v3AsScript(d) ==
    <<Script, IfMissing("disk_reservations")>>
    \o (IF "projected_bytes" \in d.columns THEN <<>>
        ELSE <<Add("disk_reservations", "projected_bytes"), CarryReserved>>)
    \o AddMissing(d, "disk_reservations", "actual_bytes")
migration_v3(d) ==
    <<IfMissing("disk_reservations")>>
    \o (IF "projected_bytes" \in d.columns THEN <<>>
        ELSE <<Add("disk_reservations", "projected_bytes"), CarryReserved>>)
    \o AddMissing(d, "disk_reservations", "actual_bytes")
migration_v4(d) ==
    <<IfMissing("media_sessions")>>
    \o AddMissing(d, "media_sessions", "extras_json")
    \o AddMissing(d, "download_jobs", "media_kind")
    \o AddMissing(d, "download_jobs", "output_identity")
    \o <<Script, IfMissing("user_settings"), IfMissing("ui_drafts"),
         IfMissing("telegram_file_cache"), IfMissing("job_subscribers"),
         IfMissing("system_settings")>>
migration_v5(d) ==
    AddMissing(d, "download_jobs", "collection_entry_id") \o <<AddCreators>>
migration_v6(d) ==
    <<Drop("ui_drafts"), Create("ui_drafts"),
      Rename("job_subscribers", "job_subscribers_v5"), Create("job_subscribers"),
      Copy("job_subscribers_v5", "job_subscribers"), Drop("job_subscribers_v5")>>
migration_v7(d) == AddMissing(d, "download_jobs", "ytdlp_impersonated")
migration_v8(d) == <<>>
migration_v9(d) == AddMissing(d, "telegram_file_cache", "execution_identity")
migration_v10(d) == <<IfMissing("runtime_settings")>>
migration_v11(d) ==
    IF "real_duration" \in d.columns THEN <<>>
    ELSE <<Create("media_sessions_v11"), Copy("media_sessions", "media_sessions_v11"),
           Drop("media_sessions"), Rename("media_sessions_v11", "media_sessions"),
           Add("media_sessions", "real_duration")>>

Migration(v, d) ==
    <<migration_v1(d), migration_v2(d), migration_v3(d), migration_v4(d),
      migration_v5(d), migration_v6(d), migration_v7(d), migration_v8(d),
      migration_v9(d), migration_v10(d), migration_v11(d)>>[v]

(***************************************************************************)
(* No file yet, or one of the first release, which had no recipients; the  *)
(* duration of its sessions may be REAL already.  What a later release left *)
(* behind is what its migrations made of such a file, a state on the way.  *)
(***************************************************************************)
NoFile == [tables |-> [t \in {} |-> {}], columns |-> {"real_duration"}, carried |-> {}]

FirstFile ==
    [tables |-> [t \in {"users", "media_sessions", "download_jobs", "disk_reservations"} |->
                    IF t = "users" THEN {} ELSE Jobs],
     columns |-> {}, carried |-> {}]

SchemaInit ==
    /\ \/ version = 0 /\ db = NoFile
       \/ version = 1 /\ db \in {FirstFile, With(FirstFile, "real_duration")}
    /\ work = db
    /\ todo = <<>>
    /\ applying = 0
    /\ inTransaction = FALSE
    /\ faults = 0

(* The next missing version: BEGIN IMMEDIATE, then its first look at the columns. *)
Begin ==
    /\ applying = 0
    /\ version < CURRENT_SCHEMA_VERSION
    /\ applying' = version + 1
    /\ work' = db
    /\ todo' = Migration(version + 1, db)
    /\ inTransaction' = TRUE
    /\ UNCHANGED <<db, version, faults>>

StatementCommitted ==
    /\ todo # <<>>
    /\ ~Fails(Head(todo), work)
    /\ work' = After(Head(todo), work)
    /\ todo' = Tail(todo)
    /\ db' = work'
    /\ UNCHANGED <<version, applying, inTransaction, faults>>

(* A statement of the version in progress. *)
Statement ==
    /\ todo # <<>>
    /\ ~Fails(Head(todo), work)
    /\ work' = After(Head(todo), work)
    /\ todo' = Tail(todo)
    /\ inTransaction' = (inTransaction /\ Head(todo).op # "script")
    /\ db' = IF inTransaction' THEN db ELSE work'
    /\ UNCHANGED <<version, applying, faults>>

(* The version is recorded, and with it everything it did is committed. *)
Record ==
    /\ applying # 0
    /\ todo = <<>>
    /\ version' = applying
    /\ db' = work
    /\ applying' = 0
    /\ inTransaction' = FALSE
    /\ UNCHANGED <<work, todo, faults>>

(* The process dies while it migrates; the file is what was committed. *)
CrashWhileMigrating ==
    /\ applying # 0
    /\ faults < MaxFaults
    /\ faults' = faults + 1
    /\ work' = db
    /\ todo' = <<>>
    /\ applying' = 0
    /\ inTransaction' = FALSE
    /\ UNCHANGED <<db, version>>

Migrate == Begin \/ Statement \/ Record \/ CrashWhileMigrating

SchemaIsCurrent == applying = 0 /\ version = CURRENT_SCHEMA_VERSION
===============================================================================
