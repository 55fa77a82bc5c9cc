---------------------------- MODULE Administration ----------------------------
(***************************************************************************)
(* What administrators change while the bot runs, and what of it a restart *)
(* finds: runtime settings, the admission pause, the site login sessions,  *)
(* the users' rights, and the operations that need a confirmation.         *)
(*                                                                         *)
(* Every press of a button or command is a task of the event loop.  It     *)
(* hands one statement at a time to the database thread, which takes them  *)
(* in the order they were handed over (queue) and resumes the tasks in the *)
(* order it answered (results); between the two any other task may run.    *)
(* A press is named when it is made; the name of a press that asked for a  *)
(* confirmation is the token of the confirmation.                          *)
(*                                                                         *)
(* The process starts once the schema is current (SchemaMigrations), and   *)
(* may die at any moment; memory and the presses under way are lost.       *)
(***************************************************************************)
EXTENDS SchemaMigrations, FiniteSets

CONSTANTS Presses,            \* bound: the presses made, each once
          Limit, Mode,        \* a numeric setting and the resource mode
          Values, Bootstrap,  \* the legal values (of both), and those of the environment
          LegacyMode,         \* what a release before 10 stored of the mode, or None
          Profiles,           \* site login sessions
          Owners, Guests,     \* ADMIN_USER_IDS, and other Telegram users
          None, Failed

ASSUME ValueAssumption ==
    /\ Values \subseteq Int /\ Bootstrap \in [{Limit, Mode} -> Values]
    /\ LegacyMode \in Values \cup {None}
    /\ Limit # Mode
ASSUME PressAssumption == IsFiniteSet(Presses)
ASSUME NameAssumption ==
    /\ None \notin Values /\ None \notin BOOLEAN /\ Failed # None /\ Failed \notin BOOLEAN
    /\ {None, Failed} \cap {"user", "suspended", "admin"} = {}

Keys == {Limit, Mode}
Users == Owners \cup Guests

VARIABLES up,            \* the process runs
          setting,       \* Settings, as the rest of the program reads them
          _overrides,
          stored,        \* table runtime_settings
          _paused, pausedRow,       \* scheduler._paused; system_settings
          _disabled, disabledRows,  \* cookie_profiles._disabled; system_settings
          users,         \* table users
          drafts,        \* confirmations in table ui_drafts
          expired,       \* confirmations older than two minutes
          press, queue, results,
          performed      \* history: how often a confirmed operation was performed

memory == <<setting, _overrides, _paused, _disabled>>
rows   == <<stored, pausedRow, disabledRows, users, drafts>>
vars   == <<schemaVars, up, memory, rows, expired, press, queue, results, performed>>

(***************************************************************************)
(* The buttons and commands.                                               *)
(***************************************************************************)
Operations ==
         [op : {"perf"}, step : {-1, 1}] \cup [op : {"perfreset"}]
    \cup [op : {"resource"}, mode : Values]
    \cup [op : {"pause"}, on : BOOLEAN]
    \cup [op : {"refresh"}]
    \cup [op : {"ask"}, what : Profiles \cup {"operation"}]
    \cup [op : {"confirm", "dismiss"}, token : Presses]
    \cup [op : {"allow", "disallow", "user"}, target : Users]

Idle == [op |-> "none"]

(* A token can be pressed once its message is there. *)
Offered(t) == press[t].pc = "offered"

NothingElse == UNCHANGED <<memory, rows, expired, performed>>

(***************************************************************************)
(* The event loop and the database thread.                                 *)
(***************************************************************************)
Hands(p, statement) == queue' = Append(queue, [press |-> p, statement |-> statement])

Resumed(p, pc) ==
    /\ results # <<>>
    /\ Head(results).press = p
    /\ Head(results).value # Failed
    /\ press[p].pc = pc
    /\ results' = Tail(results)

Answer == Head(results).value

Goes(p, pc) == press' = [press EXCEPT ![p].pc = pc]
Awaits(p, pc, statement) == Goes(p, pc) /\ Hands(p, statement)
Ends(p) == Goes(p, "done") /\ UNCHANGED queue

(* What one statement does to the rows, and what it answers. *)
UsersAfter(s) == IF s.do = "put user" THEN [users EXCEPT ![s.user] = s.as] ELSE users

StoredAfter(s) ==
    IF s.do \in {"set_runtime_setting", "delete_runtime_setting"}
    THEN [stored EXCEPT ![s.key] = s.value] ELSE stored

PausedAfter(s) == IF s.do = "scheduler_paused" THEN s.on ELSE pausedRow

SessionsAfter(s) ==
    IF s.do # "session_disabled" THEN disabledRows
    ELSE IF s.on THEN disabledRows \ {s.profile} ELSE disabledRows \cup {s.profile}

DraftsAfter(s) ==
    CASE s.do = "save_ui_draft" -> drafts \cup {s.token}
      [] s.do \in {"delete_ui_draft", "consume_ui_draft"} -> drafts \ {s.token}
      [] OTHER -> drafts

Executes(s) ==
    /\ users' = UsersAfter(s) /\ stored' = StoredAfter(s) /\ drafts' = DraftsAfter(s)
    /\ pausedRow' = PausedAfter(s) /\ disabledRows' = SessionsAfter(s)

AnswerTo(s) ==
    CASE s.do = "get user" -> users[s.user]
      [] s.do = "get session" -> s.profile \in disabledRows
      [] s.do \in {"delete_ui_draft", "consume_ui_draft"} -> s.token \in drafts
      [] OTHER -> None

(***************************************************************************)
(* A refresh notes which sessions it has read, and (history) which of      *)
(* those were rewritten before it used what it read.                       *)
(***************************************************************************)
Noted(p, s) ==
    CASE s.do = "get session" /\ p = Head(queue).press ->
            [press[p] EXCEPT !.read = @ \cup {s.profile}]
      [] s.do = "session_disabled" /\ press[p].pc = "reads" /\ s.profile \in press[p].read ->
            [press[p] EXCEPT !.overtaken = @ \cup {s.profile}]
      [] OTHER -> press[p]

AnsweredLastFirst(answer) == <<answer>> \o results
Answered(answer) == Append(results, answer)

(* The thread answers the oldest statement. *)
Execute ==
    /\ queue # <<>>
    /\ LET s == Head(queue).statement IN
       /\ Executes(s)
       /\ results' = Answered([press |-> Head(queue).press, value |-> AnswerTo(s)])
       /\ press' = [p \in Presses |-> Noted(p, s)]
    /\ queue' = Tail(queue)
    /\ UNCHANGED <<memory, expired, performed>>

(* Or it refuses it (a full disk, a locked file), and nothing is written. *)
Refuse ==
    /\ queue # <<>>
    /\ faults < MaxFaults
    /\ faults' = faults + 1
    /\ results' = Answered([press |-> Head(queue).press, value |-> Failed])
    /\ queue' = Tail(queue)
    /\ UNCHANGED <<memory, rows, expired, press, performed>>

(* The exception ends the handler of the press. *)
Raise ==
    /\ results # <<>>
    /\ Answer = Failed
    /\ Goes(Head(results).press, "failed") /\ UNCHANGED queue
    /\ results' = Tail(results)
    /\ NothingElse

(***************************************************************************)
(* A press arrives.  The user's row is read first: by the access           *)
(* middleware for every update, and by the handlers of buttons once more.  *)
(***************************************************************************)
Press(p) ==
    /\ press[p].pc = "idle"
    /\ \E operation \in Operations :
        /\ operation.op \in {"confirm", "dismiss"} => Offered(operation.token)
        /\ press' = [press EXCEPT ![p].op = operation, ![p].pc = "check"]
    /\ \E o \in Owners : Hands(p, [do |-> "get user", user |-> o])
    /\ UNCHANGED <<memory, rows, results, expired, performed>>

(* Whoever is no administrator any more is turned away. *)
Deny(p) ==
    /\ Resumed(p, "check")
    /\ Answer # "admin"
    /\ Ends(p)
    /\ NothingElse

Admitted(p, op) ==
    /\ Resumed(p, "check")
    /\ Answer = "admin"
    /\ press[p].op.op = op

(***************************************************************************)
(* Runtime settings: validated, stored, and only then applied.             *)
(***************************************************************************)
validate(value) == value \in Values

Set(p, key, value) ==
    IF validate(value)
    THEN /\ press' = [press EXCEPT ![p].pc = "set", ![p].got = value]
         /\ Hands(p, [do |-> "set_runtime_setting", key |-> key, value |-> value])
    ELSE Ends(p)

(* One step up or down from the value in memory. *)
Adjust(p) ==
    /\ Admitted(p, "perf")
    /\ Set(p, Limit, setting[Limit] + press[p].op.step)
    /\ NothingElse

Choose(p) ==
    /\ Admitted(p, "resource")
    /\ Set(p, Mode, press[p].op.mode)
    /\ NothingElse

KeyOf(p) == IF press[p].op.op = "resource" THEN Mode ELSE Limit

(* The listener of changes wakes the scheduler (main.py:237), which only    *)
(* sets an event: it cannot fail, and Dispatcher models what it sets off.  *)
Apply(p) ==
    /\ Resumed(p, "set")
    /\ setting' = [setting EXCEPT ![KeyOf(p)] = press[p].got]
    /\ _overrides' = _overrides \cup {KeyOf(p)}
    /\ Ends(p)
    /\ UNCHANGED <<_paused, _disabled, rows, expired, performed>>

Reset(p) ==
    /\ Admitted(p, "perfreset")
    /\ Awaits(p, "reset", [do |-> "delete_runtime_setting", key |-> Limit, value |-> None])
    /\ NothingElse

ApplyReset(p) ==
    /\ Resumed(p, "reset")
    /\ setting' = [setting EXCEPT ![Limit] = Bootstrap[Limit]]
    /\ _overrides' = _overrides \ {Limit}
    /\ Ends(p)
    /\ UNCHANGED <<_paused, _disabled, rows, expired, performed>>

(* Admissions are paused or resumed at once, and the choice is stored after. *)
Pause(p) ==
    /\ Admitted(p, "pause")
    /\ _paused' = press[p].op.on
    /\ Awaits(p, "last", [do |-> "scheduler_paused", on |-> press[p].op.on])
    /\ UNCHANGED <<setting, _overrides, _disabled, rows, expired, performed>>

(* The last statement of a handler has been answered. *)
Finish(p) ==
    /\ Resumed(p, "last")
    /\ press' = [press EXCEPT ![p].pc = "done", ![p].got = Answer]
    /\ UNCHANGED <<memory, rows, queue, expired, performed>>

(***************************************************************************)
(* Operations with a confirmation.                                         *)
(***************************************************************************)
Ask(p) ==
    /\ Admitted(p, "ask")
    /\ Awaits(p, "asks", [do |-> "save_ui_draft", token |-> p])
    /\ NothingElse

(* The question is shown with its two buttons, or Telegram refuses it. *)
Offer(p) ==
    /\ Resumed(p, "asks")
    /\ Goes(p, "offered") \/ Goes(p, "done")
    /\ UNCHANGED <<memory, rows, queue, expired, performed>>

Expire(t) ==
    /\ Offered(t)
    /\ t \notin expired
    /\ expired' = expired \cup {t}
    /\ UNCHANGED <<memory, rows, press, queue, results, performed>>

Dismiss(p) ==
    /\ Admitted(p, "dismiss")
    /\ Awaits(p, "last", [do |-> "delete_ui_draft", token |-> press[p].op.token])
    /\ NothingElse

Confirm(p) ==
    /\ Admitted(p, "confirm")
    /\ Awaits(p, "consumes", [do |-> "consume_ui_draft", token |-> press[p].op.token])
    /\ NothingElse

(* The confirmation is accepted once, and while it is fresh. *)
Consume(p) ==
    /\ Resumed(p, "consumes")
    /\ Goes(p, IF Answer = TRUE /\ press[p].op.token \notin expired THEN "answers" ELSE "done")
    /\ UNCHANGED <<memory, rows, queue, expired, performed>>

What(p) == press[press[p].op.token].op.what

(* "Working..." is shown, and the operation begins. *)
Perform(p) ==
    /\ press[p].pc = "answers"
    /\ performed' = [performed EXCEPT ![press[p].op.token] = @ + 1]
    /\ \/ /\ What(p) = "operation"
          /\ Awaits(p, "last", [do |-> "operation"])
       \/ /\ What(p) \in Profiles
          /\ press' = [press EXCEPT ![p].pc = "saves", ![p].got = What(p) \in _disabled]
          /\ Hands(p, [do |-> "session_disabled", profile |-> What(p), on |-> What(p) \in _disabled])
    /\ UNCHANGED <<memory, rows, results, expired>>

(* Telegram fails to show it: the confirmation is spent, the operation is not performed. *)
PerformFails(p) ==
    /\ press[p].pc = "answers"
    /\ Ends(p)
    /\ UNCHANGED <<memory, rows, results, expired, performed>>

(***************************************************************************)
(* Site login sessions.                                                    *)
(***************************************************************************)
(* set_enabled remembers the session's new state once it is stored. *)
SetEnabled(p) ==
    /\ Resumed(p, "saves")
    /\ _disabled' = IF press[p].got THEN _disabled \ {What(p)} ELSE _disabled \cup {What(p)}
    /\ Ends(p)
    /\ UNCHANGED <<setting, _overrides, _paused, rows, expired, performed>>

OffSoFar(p) ==
    IF press[p].pc = "reads" /\ Answer = TRUE THEN press[p].off \cup {press[p].got} ELSE press[p].off

(* The rows of the profiles one after the other, into a set of its own. *)
Refresh(p) ==
    /\ Admitted(p, "refresh") \/ Resumed(p, "reads")
    /\ LET left == Profiles \ press[p].read IN
          \/ /\ left = {}
             /\ _disabled' = OffSoFar(p)
             /\ Ends(p)
          \/ /\ left # {}
             /\ LET next == CHOOSE x \in left : TRUE IN
                /\ press' = [press EXCEPT ![p].pc = "reads", ![p].off = OffSoFar(p), ![p].got = next]
                /\ Hands(p, [do |-> "get session", profile |-> next])
             /\ UNCHANGED _disabled
    /\ UNCHANGED <<setting, _overrides, _paused, rows, expired, performed>>

(***************************************************************************)
(* Users.                                                                  *)
(***************************************************************************)
Allow(p) ==
    /\ Admitted(p, "allow")
    /\ Awaits(p, "last", [do |-> "put user", user |-> press[p].op.target, as |-> "user"])
    /\ NothingElse

Disallow(p) ==
    /\ Admitted(p, "disallow")
    /\ IF press[p].op.target \in Owners THEN Ends(p)
       ELSE Awaits(p, "last", [do |-> "put user", user |-> press[p].op.target, as |-> "suspended"])
    /\ NothingElse

(* The button of the user list: the row is looked at, then rewritten. *)
LookAtUser(p) ==
    /\ Admitted(p, "user")
    /\ Awaits(p, "looks", [do |-> "get user", user |-> press[p].op.target])
    /\ NothingElse

MayToggleWhoIsNoAdmin(p) == Answer \notin {None, "admin"}
MayToggle(p) == Answer \notin {None, "admin"} /\ press[p].op.target \notin Owners

ToggleUser(p) ==
    /\ Resumed(p, "looks")
    /\ IF MayToggle(p)
       THEN Awaits(p, "last", [do |-> "put user", user |-> press[p].op.target,
                               as |-> IF Answer = "user" THEN "suspended" ELSE "user"])
       ELSE Ends(p)
    /\ NothingElse

(***************************************************************************)
(* The process.                                                            *)
(***************************************************************************)
(* What initialize reads; what a release before 10 stored of the mode is   *)
(* imported unless the mode has been chosen since.                         *)
Start ==
    /\ ~up
    /\ SchemaIsCurrent
    /\ up' = TRUE
    /\ users' = [u \in Users |-> IF u \in Owners THEN "admin" ELSE users[u]]
    /\ stored' = IF LegacyMode # None /\ stored[Mode] = None
                 THEN [stored EXCEPT ![Mode] = LegacyMode] ELSE stored
    /\ setting' = [k \in Keys |-> IF stored'[k] = None THEN Bootstrap[k] ELSE stored'[k]]
    /\ _overrides' = {k \in Keys : stored'[k] # None}
    /\ _paused' = pausedRow
    /\ _disabled' = disabledRows
    /\ UNCHANGED <<schemaVars, pausedRow, disabledRows, drafts, expired, press, queue, results,
                   performed>>

(* Memory, the presses under way and what the thread had not begun are lost. *)
Crash ==
    /\ up
    /\ faults < MaxFaults
    /\ faults' = faults + 1
    /\ up' = FALSE
    /\ press' = [p \in Presses |->
                    IF press[p].pc \in {"idle", "offered", "done", "failed"} THEN press[p]
                    ELSE [press[p] EXCEPT !.pc = "gone"]]
    /\ queue' = <<>> /\ results' = <<>>
    /\ setting' = Bootstrap /\ _overrides' = {} /\ _paused' = FALSE /\ _disabled' = {}
    /\ UNCHANGED <<schema, rows, expired, performed>>

NoPress ==
    [op |-> Idle, pc |-> "idle", got |-> None, read |-> {}, off |-> {}, overtaken |-> {}]

Init ==
    /\ SchemaInit
    /\ up = FALSE
    /\ setting = Bootstrap /\ _overrides = {} /\ _paused = FALSE /\ _disabled = {}
    /\ stored = [k \in Keys |-> None] /\ pausedRow = FALSE /\ disabledRows = {}
    /\ users = [u \in Users |-> None]
    /\ drafts = {} /\ expired = {}
    /\ press = [p \in Presses |-> NoPress]
    /\ queue = <<>> /\ results = <<>>
    /\ performed = [p \in Presses |-> 0]

Step(p) ==
    \/ Press(p) \/ Deny(p)
    \/ Adjust(p) \/ Choose(p) \/ Apply(p) \/ Reset(p) \/ ApplyReset(p) \/ Pause(p) \/ Finish(p)
    \/ Ask(p) \/ Offer(p) \/ Expire(p) \/ Dismiss(p) \/ Confirm(p) \/ Consume(p)
    \/ Perform(p) \/ PerformFails(p) \/ SetEnabled(p) \/ Refresh(p)
    \/ Allow(p) \/ Disallow(p) \/ LookAtUser(p) \/ ToggleUser(p)

Running == Execute \/ Raise \/ \E p \in Presses : Step(p)

Next ==
    \/ ~up /\ Migrate /\ UNCHANGED <<up, memory, rows, expired, press, queue, results,
                                     performed>>
    \/ Start
    \/ up /\ Running /\ UNCHANGED <<schemaVars, up>>
    \/ up /\ Refuse /\ UNCHANGED <<schema, up>>
    \/ Crash

Spec == Init /\ [][Next]_vars
-----------------------------------------------------------------------------
TypeOK ==
    /\ up \in BOOLEAN /\ _paused \in BOOLEAN /\ pausedRow \in BOOLEAN
    /\ setting \in [Keys -> Values] /\ _overrides \subseteq Keys
    /\ stored \in [Keys -> Values \cup {None}]
    /\ _disabled \subseteq Profiles /\ disabledRows \subseteq Profiles
    /\ users \in [Users -> {None, "user", "suspended", "admin"}]
    /\ drafts \subseteq Presses /\ expired \subseteq Presses
    /\ \A p \in Presses :
        /\ press[p].op \in Operations \cup {Idle}
        /\ press[p].read \subseteq Profiles /\ press[p].off \subseteq press[p].read
        /\ press[p].overtaken \subseteq press[p].read
    /\ Len(queue) + Len(results) <= Cardinality(Presses)
    /\ faults \in 0..MaxFaults

(* database.py:_run_migrations: whatever a start that was cut short left   *)
(* behind, no statement of a later start fails on it.                      *)
MigrationsSucceed == todo # <<>> => ~Fails(Head(todo), work)

(* database.py:_run_migrations: no row of the tables that hold the users'  *)
(* work is ever missing from the committed file once it was there, wherever *)
(* the process dies and while version 6 and version 11 rebuild a table.    *)
RowsAreKept ==
    [][\A t \in {"download_jobs", "media_sessions", "disk_reservations", "job_subscribers"} :
          Has(db, t) => Has(db', t) /\ db.tables[t] \subseteq db'.tables[t]]_db

(* database.py:connect: what the queries of this release name exists, every *)
(* reservation was carried over and every active job has a recipient,      *)
(* however often the way there was cut short.                              *)
ReadyWhenCurrent ==
    SchemaIsCurrent =>
        /\ {"users", "media_sessions", "download_jobs", "disk_reservations", "user_settings",
            "ui_drafts", "telegram_file_cache", "job_subscribers", "system_settings",
            "runtime_settings"} = DOMAIN db.tables
        /\ {"source_url", "projected_bytes", "actual_bytes", "extras_json", "output_identity",
            "collection_entry_id", "ytdlp_impersonated", "execution_identity",
            "real_duration"} \subseteq db.columns
        /\ db.tables["disk_reservations"] \subseteq db.carried
        /\ db.tables["download_jobs"] \subseteq db.tables["job_subscribers"]

(* database.py:_run_migrations: a migration that is cut off anywhere can be  *)
(* run again and leads to the same schema.                                 *)
MigrationsAreRepeatable == MigrationsSucceed /\ ReadyWhenCurrent

UnderWay(ops, pcs) == \E p \in Presses : press[p].op.op \in ops /\ press[p].pc \in pcs

(* runtime_settings.py: once every change has been applied, the settings   *)
(* the program runs with are the ones a restart would find, whatever       *)
(* changes overlapped and whichever of them the database refused.          *)
SettingsAsStored ==
    up => \A k \in Keys :
        UnderWay(IF k = Mode THEN {"resource"} ELSE {"perf", "perfreset"}, {"set", "reset"})
        \/ /\ setting[k] = IF stored[k] = None THEN Bootstrap[k] ELSE stored[k]
           /\ (k \in _overrides) = (stored[k] # None)

(* phase2.py:1477: the pause in force is the one a restart restores, unless *)
(* a press that asked for the pause in force is about to store it, or its  *)
(* statement was refused and nobody has asked for anything else since.     *)
PauseAsStored ==
    up => \/ _paused = pausedRow
          \/ \E p \in Presses : press[p].op = [op |-> "pause", on |-> _paused]
                               /\ press[p].pc \in {"last", "failed"}

(* cookie_profiles.py:refresh and set_enabled: the sessions in use are the *)
(* ones stored as enabled, also while a refresh reads them, but for one    *)
(* whose button was confirmed after the refresh had read its row and before *)
(* it was done.                                                            *)
SessionsAsStored ==
    up => \A x \in Profiles :
        \/ (x \in _disabled) = (x \in disabledRows)
        \/ UnderWay({"confirm"}, {"saves"})
        \/ \E p \in Presses : x \in press[p].overtaken

(* What the program runs with is what a restart would find.                *)
MemoryAsStored == TypeOK /\ SettingsAsStored /\ PauseAsStored /\ SessionsAsStored

(* operations.py: pressing Confirm again, from two devices or after a      *)
(* restart, performs nothing a second time; and once Keep current state    *)
(* has withdrawn a confirmation it is not performed at all, though Confirm *)
(* may have been pressed before.                                           *)
OneOperationPerConfirmation ==
    /\ \A t \in Presses : performed[t] <= 1
    /\ \A p \in Presses :
          press[p].op.op = "dismiss" /\ press[p].pc = "done" /\ press[p].got = TRUE =>
              performed[press[p].op.token] = 0

(* commands.py:130 and phase2.py:user_toggle: no mix of the commands and   *)
(* the user list suspends a configured administrator, not one either whose *)
(* rights an /allow that names them took away; and nothing but such an     *)
(* /allow takes them away.  The next start gives them back.                *)
AllowedByName(u) ==
    \E p \in Presses : press[p].op = [op |-> "allow", target |-> u]
                     /\ press[p].pc \in {"last", "done"}

OwnersKeepTheirRights ==
    \A u \in Owners :
        /\ users[u] # "suspended"
        /\ up => users[u] = "admin" \/ AllowedByName(u)

(* However administrators' presses overlap, a confirmed operation is       *)
(* performed once, and a configured administrator is never suspended and   *)
(* loses their rights only through an /allow that names them.              *)
PressesDoNoHarm == OneOperationPerConfirmation /\ OwnersKeepTheirRights
=============================================================================
