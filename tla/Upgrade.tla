---- MODULE Upgrade ----
(***************************************************************************)
(* What a start does to the database: entrypoint.sh creates it or rebuilds  *)
(* it from version 1, mends the foreign keys that an earlier upgrade left   *)
(* behind, and runs the bootstrap, which adds what is missing and rebuilds  *)
(* the tables whose constraints have changed.  Every statement may be the   *)
(* last one of a start.  What is followed is in which tables the            *)
(* installation has rows of its own, and what of that is committed.         *)
(***************************************************************************)
EXTENDS Integers, Sequences

CONSTANTS
    MaxKills,  \* bound: starts that are interrupted
    MaxFaults  \* bound: statements that fail where the code goes on

ASSUME UpgradeBounds == MaxKills \in Nat /\ MaxFaults \in Nat

VARIABLES
    db,       \* the database as its connection sees it
    disk,     \* what is committed of it
    tx,       \* the connection has a transaction open
    there,    \* the file exists
    kept,     \* tables with own rows in the copies of the backup directory
    import,   \* the copy that is imported can be
    stage,    \* how far the start is
    at,       \* the step of the bootstrap, and the statement in it
    owned,    \* where the installation had rows of its own at first
    scars,    \* what happened that the properties make an exception of
    deleted,  \* bundled rows the administrator has deleted
    spare     \* interruptions and failures left

upgradeVars == <<db, disk, tx, there, kept, import, stage, at, owned, scars, deleted, spare>>

----------------------------------------------------------------------------
(***************************************************************************)
(* The schema, as far as a step of the bootstrap depends on it.             *)
(***************************************************************************)
\* What the core step insists on, and refuses to create.
Required == {"vodum_users", "media_users", "servers", "libraries", "media_user_libraries",
             "email_templates", "sent_emails", "settings", "user_identities", "media_jobs",
             "tautulli_import_jobs", "tasks", "migration_campaigns", "migration_users",
             "migration_steps", "migration_library_mappings"}

\* A child, its parent, and what becomes of its rows when the parent's go.
UserRefs == {<<"media_users", "vodum_users", "refuse">>,
             <<"user_identities", "vodum_users", "cascade">>}
ReferralRefs == {<<"user_referrals", "vodum_users", "cascade">>,
                 <<"user_referrals", "comm_templates", "null">>,
                 <<"user_referral_events", "user_referrals", "cascade">>}
CommunicationRefs == {<<"comm_scheduled", "vodum_users", "cascade">>,
                      <<"comm_scheduled", "comm_templates", "cascade">>,
                      <<"comm_template_translations", "comm_templates", "cascade">>,
                      <<"comm_template_attachments", "comm_templates", "cascade">>,
                      <<"comm_history", "comm_templates", "null">>,
                      <<"comm_history", "vodum_users", "null">>}
Refs == UserRefs \cup ReferralRefs \cup CommunicationRefs
Related == {r[1] : r \in Refs} \cup {r[2] : r \in Refs}

\* Tables that a new CHECK constraint rebuilds, the others being rebuilt for
\* their foreign keys; and the names of the tables they replace.
Upgraded == {"vodum_users", "comm_templates", "user_referrals"}
Old == [vodum_users |-> "vodum_users_old", comm_templates |-> "comm_templates_old",
        user_referrals |-> "user_referrals_old", comm_scheduled |-> "comm_scheduled_old",
        comm_template_attachments |-> "comm_template_attachments_old",
        comm_history |-> "comm_history_old"]

\* The rows that are moved from the tables of earlier versions.
Sources == [comm_templates |-> {"email_templates", "discord_templates"},
            comm_campaigns |-> {"mail_campaigns", "discord_campaigns"},
            comm_history |-> {"sent_emails", "sent_discord"}]

\* tables.sql in its order; what the bootstrap creates as well stands at the
\* end as one.
TablesSql == <<"vodum_users", "user_identities", "media_users", "servers", "libraries",
               "media_user_libraries", "email_templates", "welcome_email_templates",
               "sent_emails", "mail_campaigns", "settings", "user_referrals",
               "user_referral_events", "tasks", "media_jobs", "the rest">>

----------------------------------------------------------------------------
(***************************************************************************)
(* The bootstrap: what each step asks for, creates, and then executes.      *)
(***************************************************************************)
Plain(needs, makes) == [needs |-> needs, makes |-> makes, work |-> <<>>]
\* Mutant: the old table is dropped before its rows are copied.
RebuildDroppingFirst(t) ==
    <<<<"rename", t>>, <<"create", t>>, <<"drop", t>>, <<"copy", t>>>>

Rebuild(t) == <<<<"rename", t>>, <<"create", t>>, <<"copy", t>>, <<"drop", t>>>>
Commit1 == <<<<"commit", "all">>>>
SystemText == <<<<"seed", "system">>>> \o Commit1
SeedOnce(k) == <<<<"seed", k>>, <<"mark", k>>>> \o Commit1

WelcomeSchema == Plain({}, {"welcome_email_templates"})
StreamSchema == Plain({}, {"stream_policies", "stream_enforcement_state", "stream_enforcements"})
ImportMonitoringSchema ==
    Plain({}, {"tautulli_import_jobs", "monitoring_snapshots", "monitoring_server_resources"})
MigrationSchema == Plain({}, {"migration_campaigns", "migration_users", "migration_steps",
                              "migration_library_mappings"})
SchedulerMode == Plain({"tasks"}, {})
CoreSchema == Plain(Required, {})
UsageRiskSchema == Plain({}, {"usage_risk_recommendations"})
ReferralSchema == [needs |-> {}, makes |-> {"user_referral_settings", "user_referrals"},
                   work |-> Rebuild("user_referrals") \o Commit1]
ReferralEventSchema == Plain({}, {"user_referral_events"})
UserSchema == [needs |-> {"vodum_users"}, makes |-> {}, work |-> Rebuild("vodum_users") \o Commit1]
PlanSchema == [needs |-> {}, makes |-> {"subscription_templates"}, work |-> SeedOnce("plans")]
SettingsSchema == Plain({"tasks", "settings"}, {"auth_login_attempts"})
DiscordSchema == Plain({"settings", "vodum_users"},
                       {"discord_bots", "discord_templates", "sent_discord", "discord_campaigns"})

Repairs == Rebuild("comm_scheduled") \o Rebuild("comm_template_attachments")
           \o Rebuild("comm_history")
TemplateTables == {"comm_templates", "comm_template_translations"}
CommunicationSchema ==
    [needs |-> {"settings"},
     makes |-> TemplateTables
               \cup {"comm_scheduled", "comm_template_attachments", "comm_campaigns",
                     "comm_campaign_attachments", "comm_campaign_targets", "comm_history"},
     work |-> Rebuild("comm_templates") \o Commit1 \o SystemText
              \o Repairs \o Commit1
              \o <<<<"take", "comm_templates">>>> \o Commit1
              \o <<<<"take", "comm_campaigns">>>> \o Commit1
              \o <<<<"take", "comm_history">>>> \o Commit1]

GiftSchema == Plain({}, {"subscription_gift_runs", "subscription_gift_run_users"})
LiveSchema == Plain({}, {"media_sessions", "media_events"})
HistorySchema == Plain({}, {"media_session_history", "monitoring_daily_stats"})
MediaJobsSchema == Plain({"media_session_history", "media_users", "media_jobs"}, {})
MediaTypes == Plain({"media_session_history", "media_sessions"}, {})
QueryIndexes ==
    Plain({"vodum_users", "user_referrals", "media_users", "libraries", "media_user_libraries",
           "user_identities", "welcome_email_templates", "stream_enforcement_state",
           "stream_enforcements", "media_session_history"}, {})
SeedTasks == Plain({"tasks"}, {})
SeedWelcome == Plain({"welcome_email_templates"}, {})
SeedTexts == [needs |-> {"comm_templates"}, makes |-> {}, work |-> SeedOnce("texts")]
SeedMailTexts == Plain({"email_templates"}, {})
BaseSettings == Plain({"settings", "servers"}, {})
PlaintextSecrets == Plain({"settings"}, {})
ScheduleDefaults == Plain({"settings", "tasks"}, {})
UsageRiskTemplate == [needs |-> {"comm_templates"}, makes |-> {},
                      work |-> SystemText]

Steps == <<WelcomeSchema, StreamSchema, ImportMonitoringSchema, MigrationSchema, SchedulerMode,
           CoreSchema, UsageRiskSchema, ReferralSchema, ReferralEventSchema, UserSchema,
           PlanSchema, SettingsSchema, DiscordSchema, CommunicationSchema, GiftSchema,
           LiveSchema, HistorySchema, MediaJobsSchema, MediaTypes, QueryIndexes, SeedTasks,
           SeedWelcome, SeedTexts, SeedMailTexts, BaseSettings, PlaintextSecrets,
           ScheduleDefaults, UsageRiskTemplate>>

Created == UNION {Steps[i].makes : i \in DOMAIN Steps}
Table == Required \cup Created \cup {"mail_campaigns"}

----------------------------------------------------------------------------
Nothing == [have |-> {}, own |-> {}, dated |-> {}, stray |-> {}, given |-> {}, marked |-> {}]
Installed(tables, own, dated) ==
    [Nothing EXCEPT !.have = tables, !.own = own, !.dated = dated]

Imported == {"vodum_users", "user_identities", "media_users", "email_templates"}
MailOnly == {"mail_campaigns"}
Accounts == {{}, {"media_users"}} \* of some user on a server, or of none

\* No file; a database of version 1; one from before the communications were
\* unified; and one with constraints of earlier versions or of this one.
UpgradeInit ==
    /\ \/ disk \in {Nothing, Installed({"users"}, {"users"}, {})}
       \/ \E without \in Accounts, dated \in SUBSET {"vodum_users"} :
             disk = Installed(Required \cup MailOnly, (Imported \cup MailOnly) \ without, dated)
       \/ \E without \in Accounts, dated \in SUBSET Upgraded :
             disk = Installed(Table, (Imported \cup Related) \ without, dated)
    /\ db = disk /\ tx = FALSE
    /\ there = (disk # Nothing)
    /\ kept = {} /\ import \in {FALSE, "users" \in disk.have}
    /\ stage = "off" /\ at = <<1, 0>>
    /\ owned = disk.own
    /\ scars = {} /\ deleted = {}
    /\ spare = [kills |-> MaxKills, faults |-> MaxFaults]

----------------------------------------------------------------------------
\* Python's sqlite3: a transaction begins with the first INSERT, UPDATE or
\* DELETE; outside of one, every other statement is committed by itself.
Ddl(d) == db' = d /\ disk' = (IF tx THEN disk ELSE d) /\ tx' = tx
Dml(d) == db' = d /\ disk' = disk /\ tx' = TRUE
Reads == UNCHANGED <<db, disk, tx>>

\* The end of the process, by an exit or by a death: what is not committed is
\* gone.
Ended == db' = disk /\ disk' = disk /\ tx' = FALSE /\ stage' = "off" /\ at' = <<1, 0>>
Goes(from, to) == stage = from /\ stage' = to /\ at' = at
Elsewhere == UNCHANGED <<owned, deleted, spare>>

----------------------------------------------------------------------------
(***************************************************************************)
(* entrypoint.sh                                                            *)
(***************************************************************************)
Begin ==
    /\ Goes("off", IF there THEN "look" ELSE "create")
    /\ there' = TRUE
    /\ Reads /\ UNCHANGED <<kept, import, scars>> /\ Elsewhere

\* sqlite3 < tables.sql, on a new file or on one that an end has left half made.
Missing == {i \in DOMAIN TablesSql : TablesSql[i] \notin db.have}
CreateTable ==
    /\ stage \in {"create", "recreate"} /\ Missing # {}
    /\ LET first == CHOOSE i \in Missing : \A j \in Missing : i <= j
       IN  Ddl([db EXCEPT !.have = @ \cup {TablesSql[first]}
                                        \cup (IF TablesSql[first] = "the rest" THEN Table ELSE {})])
    /\ there' = TRUE
    /\ UNCHANGED <<kept, import, stage, at, scars>> /\ Elsewhere

AllCreated ==
    /\ Missing = {}
    /\ Goes("create", "look") \/ Goes("recreate", "import")
    /\ Reads /\ UNCHANGED <<there, kept, import, scars>> /\ Elsewhere

\* Without tasks it is taken for a database of version 1.
Look ==
    /\ Goes("look", IF "tasks" \in db.have THEN "mend" ELSE "keep")
    /\ Reads /\ UNCHANGED <<there, kept, import, scars>> /\ Elsewhere

KeepCopy ==
    /\ Goes("keep", "remove")
    /\ kept' = kept \cup db.own
    /\ import' = (import /\ "users" \in db.have)
    /\ Reads /\ UNCHANGED <<there, scars>> /\ Elsewhere

Remove ==
    /\ Goes("remove", "recreate")
    /\ Ddl(Nothing) /\ there' = FALSE
    /\ UNCHANGED <<kept, import, scars>> /\ Elsewhere

\* One transaction, of all that can be imported; a failure ends the start.
Import ==
    /\ import /\ Goes("import", "mend")
    /\ Ddl([db EXCEPT !.own = Imported])
    /\ UNCHANGED <<there, kept, import, scars>> /\ Elsewhere

ImportFails ==
    /\ stage = "import" /\ ~import
    /\ Ended
    /\ scars' = scars \cup {"unimported"}
    /\ UNCHANGED <<there, kept, import>> /\ Elsewhere

\* 20260201_fix_fk_legacy_suffixes.py: all in one transaction.  foreign_key_check
\* then looks for rows whose parent row is not there.
Mended == [db EXCEPT !.stray = {}]
Orphaned == \E r \in Refs : r[3] # "null" /\ r[1] \in db.own /\ r[2] \notin db.own

Mend ==
    /\ Goes("mend", "boot")
    /\ db.stray = {} \/ ~Orphaned
    /\ Ddl(Mended)
    /\ UNCHANGED <<there, kept, import, scars>> /\ Elsewhere

\* Mutant: what is mended is rolled back when rows are orphaned.
MendOrNothing ==
    /\ stage = "mend" /\ db.stray # {} /\ Orphaned
    /\ Ended
    /\ kept' = kept \cup db.own
    /\ UNCHANGED <<there, import, scars>> /\ Elsewhere

\* A copy is taken before; the exit after leaves the change committed.
MendWithOrphans ==
    /\ stage = "mend" /\ db.stray # {} /\ Orphaned
    /\ db' = Mended /\ disk' = Mended /\ tx' = FALSE
    /\ stage' = "off" /\ at' = <<1, 0>>
    /\ kept' = kept \cup db.own
    /\ UNCHANGED <<there, import, scars>> /\ Elsewhere

----------------------------------------------------------------------------
(***************************************************************************)
(* run_migrations                                                           *)
(***************************************************************************)
Here == Steps[at[1]]
After(n) == IF at[2] + n <= Len(Here.work) THEN <<at[1], at[2] + n>> ELSE <<at[1] + 1, 0>>
Skips(n) ==
    /\ at' = After(n)
    /\ stage' = IF After(n)[1] > Len(Steps) THEN "serve" ELSE "boot"
BootOnly == UNCHANGED <<there, kept, import>> /\ Elsewhere

MakeTable ==
    /\ stage = "boot" /\ at[2] = 0
    /\ \E t \in Here.makes \ db.have :
          Ddl([db EXCEPT !.have = @ \cup {t}, !.dated = @ \ {t}])
    /\ UNCHANGED <<stage, at, scars>> /\ BootOnly

TablesVerified ==
    /\ stage = "boot" /\ at[2] = 0
    /\ Here.needs \cup Here.makes \subseteq db.have
    /\ Skips(1)
    /\ db' = db /\ disk' = db /\ tx' = FALSE
    /\ UNCHANGED scars /\ BootOnly

\* The RuntimeError of the core step, or "no such table".
TableMissing ==
    /\ stage = "boot" /\ at[2] = 0
    /\ Here.makes \subseteq db.have /\ ~(Here.needs \subseteq db.have)
    /\ Ended
    /\ UNCHANGED scars /\ BootOnly

Now(op) == stage = "boot" /\ at[2] > 0 /\ Here.work[at[2]][1] = op
What == Here.work[at[2]][2]

Outdated(t) == IF t \in Upgraded THEN t \in db.dated ELSE <<t, "comm_templates">> \in db.stray

UpToDate ==
    /\ Now("rename") /\ ~Outdated(What)
    /\ Skips(4)
    /\ Reads /\ UNCHANGED scars /\ BootOnly

\* SQLite renames the table in the foreign keys that point to it as well.
Rename ==
    /\ Now("rename") /\ Outdated(What)
    /\ Skips(1)
    /\ Ddl([db EXCEPT !.have = (@ \ {What}) \cup {Old[What]},
                      !.own = IF What \in @ THEN (@ \ {What}) \cup {Old[What]} ELSE @,
                      !.stray = @ \cup {<<r[1], r[2]>> : r \in {s \in Refs : s[2] = What}}])
    /\ UNCHANGED scars /\ BootOnly

\* Mutant: the new table has the constraint that the check misses.
CreateAsBefore ==
    /\ Now("create")
    /\ Skips(1)
    /\ Ddl([db EXCEPT !.have = @ \cup {What}, !.stray = {s \in @ : s[1] # What}])
    /\ UNCHANGED scars /\ BootOnly

CreateAnew ==
    /\ Now("create")
    /\ Skips(1)
    /\ Ddl([db EXCEPT !.have = @ \cup {What}, !.dated = @ \ {What},
                      !.stray = {s \in @ : s[1] # What}])
    /\ UNCHANGED scars /\ BootOnly

\* Mutant: the statement that copies the rows is left out.
CopyNothing ==
    /\ Now("copy")
    /\ Skips(1)
    /\ Reads
    /\ UNCHANGED scars /\ BootOnly

CopyRows ==
    /\ Now("copy")
    /\ Skips(1)
    /\ Dml([db EXCEPT !.own = IF Old[What] \in @ THEN @ \cup {What} ELSE @])
    /\ UNCHANGED scars /\ BootOnly

\* DROP TABLE deletes the rows first, and the children whose foreign keys were
\* renamed see their parents go.
Behind(t, rule) == {c \in db.own : <<c, t, rule>> \in Refs /\ <<c, t>> \in db.stray}
Swept(t) ==
    LET first == Behind(t, "cascade")
        Follows(c) == \E p \in first : <<c, p, "cascade">> \in Refs /\ <<c, p>> \notin db.stray
    IN  IF Old[t] \in db.own THEN first \cup {c \in db.own : Follows(c)} ELSE {}
Refused(t) == Old[t] \in db.own /\ Behind(t, "refuse") # {}

DropOld ==
    /\ Now("drop") /\ ~Refused(What)
    /\ Skips(1)
    /\ Ddl([db EXCEPT !.have = @ \ {Old[What]}, !.own = @ \ (Swept(What) \cup {Old[What]})])
    /\ scars' = scars \cup (IF "user_referrals" \in Swept(What) THEN {"swept"} ELSE {})
    /\ BootOnly

\* FOREIGN KEY constraint failed, and nothing catches it.
DropRefused ==
    /\ Now("drop") /\ Refused(What)
    /\ Ended
    /\ scars' = scars \cup {"refused"}
    /\ BootOnly

CommitStep ==
    /\ Now("commit")
    /\ Skips(1)
    /\ db' = db /\ disk' = db /\ tx' = FALSE
    /\ UNCHANGED scars /\ BootOnly

\* Bundled rows: those of the system are put back at every start, the others
\* are given once.
\* Mutant: the table of marks is not looked at.
WantedIfAbsent(k) == k = "system" \/ k \notin db.given

Wanted(k) == k = "system" \/ k \notin db.marked

Seed ==
    /\ Now("seed")
    /\ Skips(1)
    /\ IF Wanted(What) THEN Dml([db EXCEPT !.given = @ \cup {What}]) ELSE Reads
    /\ UNCHANGED scars /\ BootOnly

Mark ==
    /\ Now("mark")
    /\ Skips(1)
    /\ IF Wanted(What) THEN Dml([db EXCEPT !.marked = @ \cup {What}]) ELSE Reads
    /\ UNCHANGED scars /\ BootOnly

\* The rows of earlier versions, once: when the new table has none at all.
IsEmpty(t) == t \notin db.own /\ (t = "comm_templates" => db.given \cap {"system", "texts"} = {})
Take ==
    /\ Now("take")
    /\ Skips(1)
    /\ IF IsEmpty(What) /\ Sources[What] \cap db.own # {}
       THEN Dml([db EXCEPT !.own = @ \cup {What}])
       ELSE Reads
    /\ UNCHANGED scars /\ BootOnly

\* A statement fails, and its except clause prints a line and goes on: what
\* the transaction holds until then is committed by a later step.
RebuildFails ==
    /\ \/ Now("rename") /\ Outdated(What)
       \/ Now("create") \/ Now("copy") \/ Now("drop")
    /\ What = "user_referrals"
    /\ spare.faults > 0 /\ spare' = [spare EXCEPT !.faults = @ - 1]
    /\ Skips(Len(Here.work) - at[2])
    /\ Reads
    /\ scars' = scars \cup {"failed"}
    /\ UNCHANGED <<there, kept, import, owned, deleted>>

TakeFails ==
    /\ Now("take")
    /\ spare.faults > 0 /\ spare' = [spare EXCEPT !.faults = @ - 1]
    /\ Skips(Len(Here.work) - at[2] + 1)
    /\ IF IsEmpty(What) /\ Sources[What] \cap db.own # {}
       THEN \/ Dml([db EXCEPT !.own = @ \cup {What}])
            \/ Reads
       ELSE Reads
    /\ scars' = scars \cup {"failed"}
    /\ UNCHANGED <<there, kept, import, owned, deleted>>

----------------------------------------------------------------------------
Kill ==
    /\ stage \notin {"off", "serve"}
    /\ spare.kills > 0 /\ spare' = [spare EXCEPT !.kills = @ - 1]
    /\ Ended
    /\ scars' = scars \cup {"killed"}
    /\ UNCHANGED <<there, kept, import, owned, deleted>>

\* The application stops; the next start may be one of the same version.
Stop ==
    /\ stage = "serve"
    /\ Ended
    /\ UNCHANGED <<there, kept, import, owned, deleted, spare>>
    /\ scars' = scars \cup {"served"}

AdminDeletes ==
    /\ stage = "serve"
    /\ \E k \in db.given \ {"system"} :
          /\ db' = [db EXCEPT !.given = @ \ {k}] /\ disk' = db' /\ tx' = FALSE
          /\ deleted' = deleted \cup {k}
    /\ UNCHANGED <<there, kept, import, stage, at, owned, scars, spare>>

EntryPoint == Begin \/ CreateTable \/ AllCreated \/ Look \/ KeepCopy \/ Remove
              \/ Import \/ ImportFails \/ Mend \/ MendWithOrphans
Statement == UpToDate \/ Rename \/ CreateAnew \/ CopyRows \/ DropOld \/ DropRefused
             \/ CommitStep \/ Seed \/ Mark \/ Take
Booting == MakeTable \/ TablesVerified \/ TableMissing \/ Statement \/ RebuildFails \/ TakeFails

UpgradeNext == EntryPoint \/ Booting \/ Kill \/ Stop \/ AdminDeletes
UpgradeSpec == UpgradeInit /\ [][UpgradeNext]_upgradeVars

\* The container is started again ("restart: unless-stopped"), and a start goes on.
UpgradeFairness == WF_upgradeVars(EntryPoint) /\ WF_upgradeVars(Booting)
UpgradeFairSpec == UpgradeSpec /\ UpgradeFairness

----------------------------------------------------------------------------
Parents == {"vodum_users", "comm_templates", "user_referrals", "users"}
Places(t) == IF t \in DOMAIN Old THEN {t, Old[t]} ELSE {t}

\* Whatever interrupts a start, and whatever fails in it, the rows of a table
\* that is rebuilt, and those of a database of version 1, are committed
\* somewhere: in the table, in the one it replaces, or in a copy.  Referrals
\* may be deleted with the users they refer to.
NoRowsAreLost ==
    \A t \in owned \cap Parents :
        \/ Places(t) \cap disk.own # {}
        \/ t \in kept
        \/ t = "user_referrals" /\ "swept" \in scars

\* A start that nothing has interrupted, or failed in, serves a database with
\* all its users and templates, those of version 1 included ("Startup applies
\* idempotent database bootstrap and migrations automatically",
\* getting-started.md).  It does not when SQLite refuses to drop the table
\* of users, or when the import fails.
UpgradeKeepsRows ==
    stage = "serve" /\ scars \subseteq {"swept", "served"} =>
        /\ owned \cap {"vodum_users", "comm_templates"} \subseteq db.own
        /\ "users" \in owned => "vodum_users" \in db.own

\* A database that has once been served is upgraded: no later start deletes
\* rows from it, those of children included, unless a rebuild had failed.
UpgradedForGood ==
    [][ "served" \in scars /\ "failed" \notin scars => disk.own \subseteq disk'.own ]_upgradeVars

\* Bundled plans and texts that the administrator has deleted "must not come
\* back automatically at next boot" (db_bootstrap_subscriptions.py).
DeletedStayDeleted == deleted \cap db.given = {}

\* A start ends in an application that serves, if need be after others that
\* do not, except that an interrupted one may leave a database without a table
\* that nothing creates.
Bricked == "tasks" \in disk.have /\ ~(Required \ Created \subseteq disk.have)
StartsAtLast == stage = "off" ~> stage = "serve" \/ Bricked
====
