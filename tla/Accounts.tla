---- MODULE Accounts ----
(***************************************************************************)
(* Who holds which native account: vodum_users, media_users and             *)
(* user_identities of one Plex and one Jellyfin server.  Both               *)
(* synchronisations and the Tautulli import (one at a time, in the worker), *)
(* the creation of a user, a merge, a deletion and the thread that deletes  *)
(* a server write them, every statement on its own.                         *)
(*                                                                         *)
(* An account stands for its external id and for the name and e-mail it     *)
(* goes by.                                                                 *)
(***************************************************************************)
EXTENDS Naturals, Sequences, FiniteSets

CONSTANTS
    Plex, Jellyfin,  \* the accounts either server may have
    MaxRequests,     \* bound: requests of the administrator
    MaxMishaps       \* bound: failing calls, rows others insert behind an import, deaths

ASSUME ServersDiffer == Plex \cap Jellyfin = {}
ASSUME AccountBounds == {MaxRequests, MaxMishaps} \subseteq Nat

VARIABLES
    native,     \* the accounts that exist at their server
    emailed,    \* the Plex accounts whose e-mail Plex tells
    owners,     \* the accounts of the Plex owner and of Jellyfin administrators
    data,       \* the tables
    worker,     \* the task that runs
    page,       \* api_users_create
    form,       \* user_merge, user_delete
    sweep,      \* _background_delete_server
    upload,     \* the youngest row of tautulli_import_jobs
    apart,      \* ghost: the accounts whose row and identity were set apart
    spare       \* what the bounds leave

world == <<native, emailed, owners>>
requests == <<page, form, sweep>>
accountVars == <<world, data, worker, requests, upload, apart, spare>>

None == "none"
Account == Plex \cup Jellyfin
ServerOf(a) == IF a \in Plex THEN "plex" ELSE "jellyfin"

\* What may be in media_users: the row of an account, or a Plex invitation,
\* which has no external id yet.
Row(a) == <<"row", a>>
Invitation(a) == <<"invitation", a>>
Ref == {Row(a) : a \in Account} \cup {Invitation(a) : a \in Plex}
Nothing == <<>>
Lost == <<"lost">>

NoTask == [task |-> None, step |-> "rest", todo |-> {}, a |-> None, u |-> 0,
           seen |-> Nothing, pending |-> Nothing]
NoPage == [step |-> "rest", a |-> None, u |-> 0, friend |-> FALSE, seen |-> Nothing]
NoForm == [step |-> "rest", master |-> 0, other |-> 0, mail |-> None]
NoSweep == [step |-> "rest", server |-> None]

Person(name, mail) ==
    [live |-> TRUE, name |-> name, mail |-> mail, exempt |-> FALSE, lapsed |-> FALSE]
Nobody == [Person(None, None) EXCEPT !.live = FALSE]

AccountsInit ==
    /\ native \in SUBSET Account /\ emailed \in SUBSET Plex /\ owners \in SUBSET native
    /\ data = [person |-> <<>>, media |-> [r \in Ref |-> 0], owned |-> {},
               identity |-> [a \in Account |-> <<>>], up |-> {"plex", "jellyfin"}]
    /\ worker = NoTask /\ page = NoPage /\ form = NoForm /\ sweep = NoSweep
    /\ upload = None /\ apart = {}
    /\ spare \in [requests : 0..MaxRequests, mishaps : 0..MaxMishaps]

Take(what) == spare[what] > 0 /\ spare' = [spare EXCEPT ![what] = @ - 1]

----------------------------------------------------------------------------
(***************************************************************************)
(* The tables.  The holder of a row that does not exist is 0, and so is no  *)
(* user's id.                                                               *)
(***************************************************************************)
Users == {u \in DOMAIN data.person : data.person[u].live}
Named(a) == {u \in Users : data.person[u].name = a}
WithMail(a) == {u \in Users : data.person[u].mail = a}
Oldest(S) == CHOOSE u \in S : \A v \in S : u <= v
Fresh == Len(data.person) + 1

Holder(r) == data.media[r]
There(r) == Holder(r) # 0
RowsOf(u) == {r \in Ref : Holder(r) = u}

\* UNIQUE(type, server_id, external_user_id) does not hold Plex identities
\* apart, whose server_id is NULL: the oldest of them is found.  A deleted one
\* leaves 0 behind, for ids are not used again.
Eldest(ids) ==
    IF \A i \in DOMAIN ids : ids[i] = 0 THEN 0
    ELSE ids[CHOOSE i \in DOMAIN ids : ids[i] # 0 /\ \A k \in DOMAIN ids : k < i => ids[k] = 0]
Without(ids, u) == [i \in DOMAIN ids |-> IF ids[i] = u THEN 0 ELSE ids[i]]

Identity(a) == Eldest(data.identity[a])
Known(a) == Identity(a) # 0
Identified(a, u) ==
    IF ~Known(a) \/ (a \in Plex /\ \A i \in DOMAIN data.identity[a] : data.identity[a][i] # u)
    THEN [data EXCEPT !.identity[a] = Append(@, u)]
    ELSE data

\* Foreign keys: a row needs its user and its server.
MayRefer(a, u) == u \in Users /\ (a \in Jellyfin => "jellyfin" \in data.up)
MayInsert(r, u) == u \in Users /\ ServerOf(r[2]) \in data.up /\ ~There(r)

Inserted(person) == [data EXCEPT !.person = Append(@, person)]
Held(r, u) == [data EXCEPT !.media[r] = u]

UpdatedNotItsHolder(seen, r, u) ==
    IF seen \in {Lost, r} THEN data ELSE [data EXCEPT !.media[seen] = 0, !.media[r] = Holder(seen)]

\* An UPDATE by id, which may give an invitation the account it was for.
Updated(seen, r, u) ==
    CASE seen = Lost -> data
      [] seen = r    -> Held(r, u)
      [] OTHER       -> [data EXCEPT !.media[seen] = 0, !.media[r] = u]
MayUpdate(seen, r, u) == seen = Lost \/ (u \in Users /\ (seen = r \/ ~There(r)))

Erased(S) == [data EXCEPT !.media = [r \in Ref |-> IF r \in S THEN 0 ELSE @[r]],
                          !.owned = {a \in @ : Row(a) \notin S}]
Forgotten(d, u) ==
    [d EXCEPT !.person[u] = Nobody,
              !.identity = [a \in Account |-> Without(@[a], u)]]

\* Those who hold the id of a row that goes, or that becomes another's.
Follow(hand, S, r) == IF hand.seen \in S THEN [hand EXCEPT !.seen = r] ELSE hand
FollowBoth(hand, S, r) ==
    [Follow(hand, S, r) EXCEPT !.pending = IF @ \in S THEN r ELSE @]

\* Ghost: row and identity of an account name different users, and were set
\* apart by a page or the worker, who wrote the row last, or in the ways that
\* SyncMovesNothing excepts.
Apart(d, a) == d.media[Row(a)] \notin {0, Eldest(d.identity[a])}
SetApart(S) == apart' = {a \in Account : Apart(data', a) /\ (a \in apart \/ a \in S)}
Watch == SetApart({a \in Account : data'.media[Row(a)] # Holder(Row(a))})

----------------------------------------------------------------------------
(***************************************************************************)
(* The worker.  An exception ends the run; what is left of it waits for the *)
(* next one.                                                                *)
(***************************************************************************)
Doing(task, step) == worker.task = task /\ worker.step = step
GoOn(step) == worker' = [worker EXCEPT !.step = step] /\ UNCHANGED upload
Rest == /\ worker' = NoTask
        /\ upload' = IF worker.task = "import" THEN "over" ELSE upload
Raise == Rest /\ UNCHANGED data
Done == IF worker.todo = {} THEN Rest ELSE GoOn("next")

Begin(task, S) ==
    /\ worker.task = None /\ S # {}
    /\ worker' = [NoTask EXCEPT !.task = task, !.step = "next", !.todo = S]

RunPlexSync ==
    /\ "plex" \in data.up
    /\ Begin("plex", native \cap Plex)
    /\ UNCHANGED <<world, data, requests, upload, apart, spare>>

RunJellyfinSync ==
    /\ "jellyfin" \in data.up
    /\ Begin("jellyfin", native \cap Jellyfin)
    /\ UNCHANGED <<world, data, requests, upload, apart, spare>>

TakeUp(task, a, step, u, seen) ==
    /\ Doing(task, "next") /\ a \in worker.todo
    /\ worker' = [worker EXCEPT !.todo = @ \ {a}, !.a = a, !.step = step, !.u = u, !.seen = seen]

\* sync_users_from_api, then sync_plex_owner_for_server.
FindPlexIdentity(a) ==
    /\ a \in owners => worker.todo \subseteq owners
    /\ TakeUp("plex", a, IF Known(a) THEN "join" ELSE IF a \in emailed THEN "mail" ELSE "insert",
              Identity(a), Nothing)
    /\ UNCHANGED <<world, data, requests, upload, apart, spare>>

FindByMail ==
    LET found == WithMail(worker.a) IN
    /\ Doing("plex", "mail")
    /\ worker' = IF found = {} THEN [worker EXCEPT !.step = "insert"]
                 ELSE [worker EXCEPT !.step = "join", !.u = Oldest(found)]
    /\ UNCHANGED <<world, data, requests, upload, apart, spare>>

\* _upsert_media_user_by_jellyfin_id looks for the row before the identity.
FindJellyfinRow(a) ==
    /\ TakeUp("jellyfin", a, "identity", 0, IF There(Row(a)) THEN Row(a) ELSE Nothing)
    /\ UNCHANGED <<world, data, requests, upload, apart, spare>>

FindJellyfinIdentity ==
    /\ Doing("jellyfin", "identity")
    /\ worker' = IF Known(worker.a) THEN [worker EXCEPT !.step = "join", !.u = Identity(worker.a)]
                 ELSE [worker EXCEPT !.step = "insert"]
    /\ UNCHANGED <<world, data, requests, upload, apart, spare>>

\* Of the three tasks the import makes an expired user.
InsertUser ==
    LET a == worker.a
        mail == IF a \in emailed THEN a ELSE None IN
    /\ worker.step = "insert"
    /\ data' = Inserted([Person(a, mail) EXCEPT !.lapsed = worker.task = "import"])
    /\ worker' = [worker EXCEPT !.u = Fresh,
                   !.step = CASE worker.task = "plex" -> "join"
                              [] worker.task = "jellyfin" -> "claim"
                              [] OTHER -> "lastid"]
    /\ UNCHANGED <<world, requests, upload, apart, spare>>

\* The INSERT of _ensure_vodum_user_for_username, which nothing makes ignore
\* an identity that has come in between.
ClaimIdentity ==
    LET a == worker.a IN
    /\ Doing("jellyfin", "claim")
    /\ \/ MayRefer(a, worker.u) /\ ~Known(a)
          /\ data' = Identified(a, worker.u) /\ GoOn("join")
       \/ ~MayRefer(a, worker.u) /\ Raise
       \/ Known(a) /\ Raise
    /\ Watch
    /\ UNCHANGED <<world, requests, spare>>

JoinIdentity ==
    /\ worker.step = "join"
    /\ IF MayRefer(worker.a, worker.u)
       THEN /\ data' = Identified(worker.a, worker.u)
            /\ GoOn(IF worker.task = "plex" THEN "rows" ELSE "write")
       ELSE Raise
    /\ Watch
    /\ UNCHANGED <<world, requests, spare>>

\* The accepted row, and a pending one of the user or by name or e-mail,
\* which is another account's if the user awaits that one too.
Invitations(a, u) ==
    {r \in Ref : There(r) /\ r[1] = "invitation" /\ (r[2] = a \/ Holder(r) = u)}

FindRows ==
    LET a == worker.a
        rows == {Row(a)} \cap {r \in Ref : There(r)}
        pending == IF a \in owners THEN {} ELSE Invitations(a, worker.u) IN
    /\ Doing("plex", "rows")
    /\ \E row \in IF rows = {} THEN {Nothing} ELSE rows,
          invitation \in IF pending = {} THEN {Nothing} ELSE pending :
         worker' = IF row # Nothing /\ invitation # Nothing
                   THEN [worker EXCEPT !.step = "fold", !.seen = row, !.pending = invitation]
                   ELSE [worker EXCEPT !.step = "write",
                                       !.seen = IF row # Nothing THEN row ELSE invitation]
    /\ UNCHANGED <<world, data, requests, upload, apart, spare>>

\* merge_accepted_plex_media_user
Fold ==
    /\ Doing("plex", "fold")
    /\ data' = IF worker.pending = Lost THEN data ELSE Erased({worker.pending})
    /\ page' = Follow(page, {worker.pending}, Lost)
    /\ worker' = [worker EXCEPT !.step = "write", !.pending = Nothing]
    /\ UNCHANGED <<world, form, sweep, upload, apart, spare>>

WriteRow ==
    LET a == worker.a
        u == worker.u
        changed == IF worker.seen = Nothing THEN Held(Row(a), u)
                   ELSE Updated(worker.seen, Row(a), u)
        fine == IF worker.seen = Nothing THEN MayInsert(Row(a), u)
                ELSE MayUpdate(worker.seen, Row(a), u) IN
    /\ worker.step = "write"
    /\ IF fine
       THEN /\ data' = [changed EXCEPT !.owned = IF a \in owners \cap Plex /\ worker.seen # Lost
                                                THEN @ \cup {a} ELSE @]
            /\ page' = Follow(page, {worker.seen} \ {Nothing, Lost}, Row(a))
            /\ IF a \in owners THEN GoOn("exempt") ELSE Done
       ELSE Raise /\ UNCHANGED page
    /\ Watch
    /\ UNCHANGED <<world, form, sweep, spare>>

\* expiration_date_override; a Jellyfin administrator whose user has lapsed
\* is not recorded as one.
Exempt ==
    LET a == worker.a
        u == worker.u
        lapsed == a \in Jellyfin /\ u \in Users /\ data.person[u].lapsed IN
    /\ worker.step = "exempt"
    /\ data' = IF lapsed THEN data
               ELSE [data EXCEPT !.person[u].exempt = u \in Users,
                                 !.owned = IF There(Row(a)) THEN @ \cup {a} ELSE @]
    /\ Done
    /\ UNCHANGED <<world, requests, apart, spare>>

\* import_tautulli: the users it knows are read at the start, by the names and
\* e-mails of rows and of their holders; whom else Tautulli has seen is made.
ImportKnows(a) ==
    \E r \in Ref : /\ There(r)
                  /\ a \in {r[2], data.person[Holder(r)].name, data.person[Holder(r)].mail}

Unmatched == {a \in Plex : ~ImportKnows(a)}
ImportHasServer == "plex" \in data.up

RunImport ==
    /\ upload = "queued" /\ worker.task = None
    /\ IF ImportHasServer
       THEN \E S \in SUBSET Unmatched :
               IF S = {} THEN upload' = "over" /\ UNCHANGED worker
               ELSE Begin("import", S) /\ upload' = "running"
       ELSE upload' = "over" /\ UNCHANGED worker
    /\ UNCHANGED <<world, data, requests, apart, spare>>

ImportFindsUser(a) ==
    LET found == IF a \in emailed /\ WithMail(a) # {} THEN WithMail(a) ELSE Named(a) IN
    /\ TakeUp("import", a, IF found = {} THEN "insert" ELSE "place",
              IF found = {} THEN 0 ELSE Oldest(found), Nothing)
    /\ UNCHANGED <<world, data, requests, upload, apart, spare>>

\* SELECT last_insert_rowid() on the connection all threads share: the id may
\* be that of a row another one has inserted since.
ReadOwnId ==
    /\ Doing("import", "lastid")
    /\ GoOn("place")
    /\ UNCHANGED <<world, data, requests, apart, spare>>

ReadOthersId(u) ==
    /\ Doing("import", "lastid")
    /\ Take("mishaps")
    /\ worker' = [worker EXCEPT !.step = "place", !.u = u]
    /\ UNCHANGED <<world, data, requests, upload, apart>>

\* The row gets no identity.
ImportPlacesRow ==
    LET a == worker.a
        there == {r \in Ref : There(r) /\ r[2] = a} IN
    /\ Doing("import", "place")
    /\ CASE there # {} -> Done /\ UNCHANGED data
         [] there = {} /\ MayInsert(Row(a), worker.u) -> Done /\ data' = Held(Row(a), worker.u)
         [] OTHER -> Raise
    /\ Watch
    /\ UNCHANGED <<world, requests, spare>>

----------------------------------------------------------------------------
(***************************************************************************)
(* Pages: the creation of a user with one account, ...                      *)
(***************************************************************************)
Turn(step) == page' = [page EXCEPT !.step = step]
Answer == page' = NoPage

CreateUser(a) ==
    /\ page.step = "rest" /\ ServerOf(a) \in data.up /\ Take("requests")
    /\ data' = Inserted(Person(a, IF a \in Plex THEN a ELSE None))
    /\ page' = [NoPage EXCEPT !.step = "provision", !.a = a, !.u = Fresh]
    /\ UNCHANGED <<world, worker, form, sweep, upload, apart>>

\* A Jellyfin account is made; a Plex friend is given a share, and who is no
\* friend yet is invited.
MakeAccount(a) ==
    /\ a \in Jellyfin
    /\ IF a \in native \/ There(Row(a)) THEN Answer /\ UNCHANGED native
       ELSE native' = native \cup {a} /\ Turn("insert")

InviteOrShare(a) ==
    /\ a \in Plex
    /\ page' = [page EXCEPT !.step = "look", !.friend = a \in native]
    /\ UNCHANGED native

Provision ==
    /\ page.step = "provision"
    /\ MakeAccount(page.a) \/ InviteOrShare(page.a)
    /\ UNCHANGED <<emailed, owners, data, worker, form, sweep, upload, apart, spare>>

\* The provider refuses, or makes the account and then refuses its policy.
MakeHalf(a) == a \in Jellyfin /\ ~There(Row(a)) /\ native' = native \cup {a}

ProvisionFails ==
    /\ page.step = "provision" /\ Take("mishaps") /\ Answer
    /\ UNCHANGED native \/ MakeHalf(page.a)
    /\ UNCHANGED <<emailed, owners, data, worker, form, sweep, upload, apart>>

\* Outside of any try: the INSERT fails if a synchronisation was quicker.
InsertJellyfinRow ==
    /\ page.step = "insert"
    /\ IF MayInsert(Row(page.a), page.u)
       THEN /\ data' = Held(Row(page.a), page.u)
            /\ Turn("identify")
       ELSE Answer /\ UNCHANGED data
    /\ Watch
    /\ UNCHANGED <<world, worker, form, sweep, upload, spare>>

\* A row of the new user, then one by external id, then by e-mail or name.
FindPlexRow ==
    LET a == page.a
        found == {r \in RowsOf(page.u) : r[2] \in Plex}
        accepted == {Row(a)} \cap {r \in Ref : page.friend /\ There(r)}
        named == {r \in Ref : There(r) /\ r[2] = a}
        rows == CASE found # {} -> found [] accepted # {} -> accepted [] OTHER -> named IN
    /\ page.step = "look"
    /\ \E r \in IF rows = {} THEN {Nothing} ELSE rows :
          page' = [page EXCEPT !.step = "write", !.seen = r]
    /\ UNCHANGED <<world, data, worker, form, sweep, upload, apart, spare>>

WritePlexRow ==
    LET a == page.a
        wanted == IF page.friend THEN Row(a) ELSE Invitation(a)
        r == IF page.friend \/ page.seen \in {Nothing, Lost} THEN wanted ELSE page.seen
        fine == IF page.seen = Nothing THEN MayInsert(r, page.u) ELSE MayUpdate(page.seen, r, page.u)
    IN
    /\ page.step = "write"
    /\ IF fine
       THEN /\ data' = IF page.seen = Nothing THEN Held(r, page.u) ELSE Updated(page.seen, r, page.u)
            /\ worker' = FollowBoth(worker, {page.seen} \ {Nothing, Lost}, r)
            /\ IF page.friend THEN Turn("identify") ELSE Answer
       ELSE Answer /\ UNCHANGED <<data, worker>>
    /\ Watch
    /\ UNCHANGED <<world, form, sweep, upload, spare>>

Identify ==
    /\ page.step = "identify"
    /\ data' = IF MayRefer(page.a, page.u) THEN Identified(page.a, page.u) ELSE data
    /\ Answer
    /\ Watch
    /\ UNCHANGED <<world, worker, form, sweep, upload, spare>>

\* An invited account accepts.
Accept(a) ==
    /\ a \in Plex \ native
    /\ \/ There(Invitation(a))
       \/ page.a = a /\ page.step \in {"look", "write"}
    /\ native' = native \cup {a}
    /\ UNCHANGED <<emailed, owners, data, worker, requests, upload, apart, spare>>

(***************************************************************************)
(* ... the merge of two users and the deletion of one, ...                  *)
(***************************************************************************)
Submit(step) == form' = [form EXCEPT !.step = step]

MergeUsers(master, other) ==
    /\ form.step = "rest" /\ master # other /\ Take("requests")
    /\ form' = [step |-> "rows", master |-> master, other |-> other,
                mail |-> LET mine == data.person[master].mail IN
                         IF mine = None THEN data.person[other].mail ELSE mine]
    /\ UNCHANGED <<world, data, worker, page, sweep, upload, apart>>

MoveRows ==
    LET rows == RowsOf(form.other) IN
    /\ form.step = "rows"
    /\ IF rows = {} \/ form.master \in Users
       THEN /\ data' = [data EXCEPT !.media =
                            [r \in Ref |-> IF r \in rows THEN form.master ELSE @[r]]]
            /\ Submit("duplicates")
       ELSE form' = NoForm /\ UNCHANGED data
    /\ UNCHANGED <<world, worker, page, sweep, upload, apart, spare>>

\* It has moved the rows and not yet deleted the other user.
Merging == form.step \in {"duplicates", "identities", "fields", "delete"}

OfBoth(identities) ==
    \E i, j \in DOMAIN identities : identities[i] = form.master /\ identities[j] = form.other

DropDuplicates ==
    /\ form.step = "duplicates" /\ Submit("identities")
    /\ data' = [data EXCEPT !.identity = [a \in Account |->
                    IF OfBoth(@[a]) THEN Without(@[a], form.other) ELSE @[a]]]
    /\ SetApart({a \in Account : Eldest(data'.identity[a]) \notin {Identity(a), form.master}})
    /\ UNCHANGED <<world, worker, page, sweep, upload, spare>>

InheritedByNobody(u) == u
Inherited(u) == IF u = form.other THEN form.master ELSE u
MoveIdentities ==
    LET moved == [a \in Account |-> [i \in DOMAIN data.identity[a] |->
                                        Inherited(data.identity[a][i])]] IN
    /\ form.step = "identities"
    /\ IF moved = data.identity \/ form.master \in Users
       THEN data' = [data EXCEPT !.identity = moved] /\ Submit("fields") /\ UNCHANGED apart
       ELSE form' = NoForm /\ UNCHANGED data /\ SetApart(Account)
    /\ UNCHANGED <<world, worker, page, sweep, upload, spare>>

MergeFields ==
    /\ form.step = "fields" /\ Submit("delete")
    /\ data' = IF form.master \in Users
               THEN [data EXCEPT !.person[form.master].mail = form.mail] ELSE data
    /\ UNCHANGED <<world, worker, page, sweep, upload, apart, spare>>

\* Refused while a row refers to the user; identities go with it.
DeleteOther ==
    /\ form.step = "delete" /\ form' = NoForm
    /\ IF RowsOf(form.other) = {}
       THEN data' = Forgotten(data, form.other) /\ UNCHANGED apart
       ELSE UNCHANGED data /\ SetApart(Account)
    /\ UNCHANGED <<world, worker, page, sweep, upload, spare>>

\* get_user_deletion_protection, then _delete_vodum_user_everywhere, which is
\* one transaction.
DeleteUser(u) ==
    /\ form.step = "rest" /\ Take("requests")
    /\ \A a \in data.owned : Holder(Row(a)) # u
    /\ form' = [NoForm EXCEPT !.step = "erase", !.other = u]
    /\ UNCHANGED <<world, data, worker, page, sweep, upload, apart>>

EraseUser ==
    LET rows == RowsOf(form.other) IN
    /\ form.step = "erase" /\ form' = NoForm
    /\ data' = Forgotten(Erased(rows), form.other)
    /\ worker' = FollowBoth(worker, rows, Lost) /\ page' = Follow(page, rows, Lost)
    /\ UNCHANGED <<world, sweep, upload, apart, spare>>

(***************************************************************************)
(* ... the deletion of a server, and an upload for the import.              *)
(***************************************************************************)
DeleteServer(s) ==
    /\ sweep.step = "rest" /\ s \in data.up /\ Take("requests")
    /\ sweep' = [step |-> "identities", server |-> s]
    /\ UNCHANGED <<world, data, worker, page, form, upload, apart>>

SweepIdentities ==
    /\ sweep.step = "identities" /\ sweep' = [sweep EXCEPT !.step = "rows"]
    /\ data' = [data EXCEPT !.identity = [a \in Account |->
                    IF a \in Jellyfin /\ ServerOf(a) = sweep.server THEN <<>> ELSE @[a]]]
    /\ SetApart({a \in Account : data'.identity[a] # data.identity[a]})
    /\ UNCHANGED <<world, worker, page, form, upload, spare>>

RowsAt(s) == {r \in Ref : There(r) /\ ServerOf(r[2]) = s}
SweepRows ==
    LET rows == RowsAt(sweep.server) IN
    /\ sweep.step = "rows" /\ sweep' = [sweep EXCEPT !.step = "server"]
    /\ data' = Erased(rows)
    /\ worker' = FollowBoth(worker, rows, Lost) /\ page' = Follow(page, rows, Lost)
    /\ UNCHANGED <<world, form, upload, apart, spare>>

\* A row that came in since keeps the server; identities go with it.
SweepServer ==
    /\ sweep.step = "server" /\ sweep' = NoSweep
    /\ data' = IF RowsAt(sweep.server) # {} THEN data
               ELSE [data EXCEPT !.up = @ \ {sweep.server},
                                 !.identity = [a \in Account |->
                                     IF a \in Jellyfin /\ sweep.server = "jellyfin"
                                     THEN <<>> ELSE @[a]]]
    /\ UNCHANGED <<world, worker, page, form, upload, apart, spare>>

Upload ==
    /\ upload # "queued" /\ Take("requests") /\ upload' = "queued"
    /\ UNCHANGED <<world, data, worker, requests, apart>>

\* A death of the process: an import that ran stays running in its table.
AccountsDeath ==
    /\ <<worker, page, form, sweep>> # <<NoTask, NoPage, NoForm, NoSweep>>
    /\ Take("mishaps")
    /\ worker' = NoTask /\ page' = NoPage /\ form' = NoForm /\ sweep' = NoSweep
    /\ UNCHANGED <<world, data, upload>>
    /\ IF Merging THEN SetApart(Account) ELSE UNCHANGED apart

----------------------------------------------------------------------------
Working ==
    \/ \E a \in Plex : FindPlexIdentity(a) \/ ImportFindsUser(a)
    \/ \E a \in Jellyfin : FindJellyfinRow(a)
    \/ FindByMail \/ FindJellyfinIdentity \/ InsertUser \/ ClaimIdentity \/ JoinIdentity
    \/ FindRows \/ Fold \/ WriteRow \/ Exempt
    \/ ReadOwnId \/ ImportPlacesRow
Creating ==
    \/ Provision \/ InsertJellyfinRow \/ FindPlexRow \/ WritePlexRow \/ Identify
Editing ==
    \/ MoveRows \/ DropDuplicates \/ MoveIdentities \/ MergeFields \/ DeleteOther \/ EraseUser
Sweeping == SweepIdentities \/ SweepRows \/ SweepServer
Elsewhere ==
    \/ \E u \in DOMAIN data.person : ReadOthersId(u)
    \/ ProvisionFails
    \/ \E a \in Account : CreateUser(a) \/ Accept(a)
    \/ \E u \in Users : DeleteUser(u) \/ \E v \in Users : MergeUsers(u, v)
    \/ \E s \in data.up : DeleteServer(s)
    \/ Upload \/ AccountsDeath

AccountsNext ==
    \/ RunPlexSync \/ RunJellyfinSync \/ RunImport
    \/ Working \/ Creating \/ Editing \/ Sweeping \/ Elsewhere

(***************************************************************************)
(* The scheduler asks for both synchronisations again and again, and they   *)
(* take turns with other tasks on the one worker; a thread that has begun   *)
(* goes on.                                                                 *)
(***************************************************************************)
AccountsFairness ==
    /\ SF_accountVars(RunPlexSync) /\ SF_accountVars(RunJellyfinSync)
    /\ WF_accountVars(Working) /\ WF_accountVars(Creating)
    /\ WF_accountVars(Editing) /\ WF_accountVars(Sweeping)

AccountsSpec == AccountsInit /\ [][AccountsNext]_accountVars /\ AccountsFairness

----------------------------------------------------------------------------
(***************************************************************************)
(* No run of a synchronisation takes an account from the user that holds    *)
(* it: identities follow every merge and deletion, and no later run undoes  *)
(* one.  Excepted, since sync_plex.py and sync_jellyfin.py never ask who    *)
(* holds the row: one that a page or the import wrote without an identity,  *)
(* or behind that of another user; one whose identity a deletion of the     *)
(* server took; what a merge (user_merge.py commits every statement) has    *)
(* moved that goes on, or that ended before its time, or that found the     *)
(* identity of a third user older than that of the first; and a user the    *)
(* run had read before the oldest identity became another's.                *)
(***************************************************************************)
SyncMovesNothing ==
    [][\A a \in Account :
          /\ There(Row(a)) /\ Holder(Row(a))' \notin {0, Holder(Row(a))}
          /\ <<page.step, form, sweep>>' = <<page.step, form, sweep>>
          => \/ a \in apart \/ Merging
             \/ Known(a) /\ worker.u # Identity(a)]_accountVars

(***************************************************************************)
(* Whatever pages, merges, deletions, imports and deaths left: in the end   *)
(* every account that exists at a server VODUM has is held by a user that   *)
(* lives, its identity names that same user, and an owner's or              *)
(* administrator's user never expires.  Excepted: the Jellyfin              *)
(* administrator whose account was merged into a user that the import had   *)
(* made expired, whose role the synchronisation never records.              *)
(***************************************************************************)
Settled(a) ==
    LET u == Holder(Row(a)) IN
    /\ There(Row(a)) /\ u \in Users /\ Known(a) /\ Identity(a) = u
    /\ a \in owners => data.person[u].exempt \/ (a \in Jellyfin /\ data.person[u].lapsed)

AccountsSettle ==
    \A a \in Account : <>[](a \in native /\ ServerOf(a) \in data.up => Settled(a))
====
