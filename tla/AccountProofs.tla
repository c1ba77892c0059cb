---- MODULE AccountProofs ----
(***************************************************************************)
(* Theorems about Accounts, for every set of accounts of either server and  *)
(* any number of requests and mishaps.                                      *)
(***************************************************************************)
EXTENDS Accounts, NaturalsInduction, WellFoundedInduction, TLAPS

----------------------------------------------------------------------------
(***************************************************************************)
(* The least of some numbers, and the eldest of some identities.            *)
(***************************************************************************)
LEMMA LeastBy ==
    ASSUME NEW R, IsWellFoundedOn(R, Nat), \A x, y \in Nat : <<y, x>> \in R <=> y < x,
           NEW T \in SUBSET Nat, T # {}
    PROVE  \E x \in T : \A y \in T : x <= y
<1>1. PICK x \in T : \A y \in T : ~ (<<y, x>> \in R)
  BY WFMin
<1>2. x \in Nat /\ \A y \in T : y \in Nat
  OBVIOUS
<1>3. \A y \in T : ~(y < x)
  BY <1>1, <1>2
<1> QED
  BY <1>2, <1>3

LEMMA LeastNat == ASSUME NEW T \in SUBSET Nat, T # {} PROVE \E x \in T : \A y \in T : x <= y
<1>1. IsWellFoundedOn(OpToRel(<, Nat), Nat)
  BY NatLessThanWellFounded
<1>2. \A x, y \in Nat : <<y, x>> \in OpToRel(<, Nat) <=> y < x
  BY DEF OpToRel
<1> QED
  BY <1>1, <1>2, LeastBy

LEMMA OldestIsOne == ASSUME NEW T \in SUBSET Nat, T # {} PROVE Oldest(T) \in T
  BY LeastNat DEF Oldest

FirstAt(ids, i) ==
    i \in DOMAIN ids /\ ids[i] # 0 /\ \A k \in DOMAIN ids : k < i => ids[k] = 0

\* A mere list of identities of one account.
List(ids) == \E n \in Nat : ids \in [1..n -> Nat]

LEMMA SeqsAreLists == ASSUME NEW ids \in Seq(Nat) PROVE List(ids)
<1>1. Len(ids) \in Nat /\ ids \in [1..Len(ids) -> Nat]
  OBVIOUS
<1> QED
  BY <1>1 DEF List

LEMMA FirstIsEldest ==
    ASSUME NEW ids, List(ids), NEW i, FirstAt(ids, i)
    PROVE  Eldest(ids) = ids[i] /\ Eldest(ids) \in Nat /\ Eldest(ids) # 0
<1>1. PICK n \in Nat : ids \in [1..n -> Nat]
  BY DEF List
<1> DEFINE P(x) == x \in DOMAIN ids /\ ids[x] # 0 /\ \A k \in DOMAIN ids : k < x => ids[k] = 0
           c == CHOOSE x \in DOMAIN ids : ids[x] # 0 /\ \A k \in DOMAIN ids : k < x => ids[k] = 0
<1>2. P(i)
  BY DEF FirstAt
<1>3. c \in DOMAIN ids /\ ids[c] # 0 /\ \A k \in DOMAIN ids : k < c => ids[k] = 0
  BY <1>2
<1>4. c = i
  BY <1>1, <1>2, <1>3
<1>5. ~ \A x \in DOMAIN ids : ids[x] = 0
  BY <1>2
<1>6. Eldest(ids) = ids[c]
  BY <1>5 DEF Eldest
<1> QED
  BY <1>1, <1>2, <1>4, <1>6

LEMMA FirstExists ==
    ASSUME NEW ids, List(ids), NEW j \in DOMAIN ids, ids[j] # 0
    PROVE  \E i : FirstAt(ids, i)
<1>1. PICK n \in Nat : ids \in [1..n -> Nat]
  BY DEF List
<1> DEFINE T == {x \in DOMAIN ids : ids[x] # 0}
<1>2. T \in SUBSET Nat /\ T # {}
  BY <1>1
<1>3. PICK i \in T : \A y \in T : i <= y
  BY <1>2, LeastNat
<1>4. \A k \in DOMAIN ids : k < i => ids[k] = 0
  BY <1>1, <1>3
<1> QED
  BY <1>3, <1>4 DEF FirstAt

LEMMA NoneIsEldest ==
    ASSUME NEW ids, List(ids) PROVE Eldest(ids) = 0 <=> \A i \in DOMAIN ids : ids[i] = 0
<1>1. CASE \A i \in DOMAIN ids : ids[i] = 0
  BY <1>1 DEF Eldest
<1>2. CASE ~ \A i \in DOMAIN ids : ids[i] = 0
  <2>1. PICK i : FirstAt(ids, i)
    BY <1>2, FirstExists
  <2> QED
    BY <1>2, <2>1, FirstIsEldest
<1> QED
  BY <1>1, <1>2

LEMMA EldestIsFirst ==
    ASSUME NEW ids, List(ids), Eldest(ids) # 0
    PROVE  \E i : FirstAt(ids, i) /\ Eldest(ids) = ids[i]
<1>1. PICK j \in DOMAIN ids : ids[j] # 0
  BY NoneIsEldest
<1>2. PICK i : FirstAt(ids, i)
  BY <1>1, FirstExists
<1> QED
  BY <1>2, FirstIsEldest

LEMMA EldestType == ASSUME NEW ids, List(ids) PROVE Eldest(ids) \in Nat
<1>1. CASE Eldest(ids) = 0
  BY <1>1
<1>2. CASE Eldest(ids) # 0
  <2>1. PICK i : FirstAt(ids, i) /\ Eldest(ids) = ids[i]
    BY <1>2, EldestIsFirst
  <2> QED
    BY <2>1, FirstIsEldest
<1> QED
  BY <1>1, <1>2

\* A list that has 0 wherever another has it, and not at the other's eldest.
LEMMA EldestStays ==
    ASSUME NEW ids, List(ids), NEW others, List(others), DOMAIN others = DOMAIN ids,
           NEW i, FirstAt(ids, i), others[i] # 0, \A k \in DOMAIN ids : ids[k] = 0 => others[k] = 0
    PROVE  Eldest(others) = others[i]
<1>1. FirstAt(others, i)
  BY DEF FirstAt
<1> QED
  BY <1>1, FirstIsEldest

LEMMA EldestAppend ==
    ASSUME NEW ids \in Seq(Nat), NEW u \in Nat, Eldest(ids) # 0
    PROVE  Eldest(Append(ids, u)) = Eldest(ids)
<1> DEFINE more == Append(ids, u)
<1>0. more \in Seq(Nat)
  OBVIOUS
<1>1. List(ids) /\ List(more)
  BY <1>0, SeqsAreLists
<1>2. PICK i : FirstAt(ids, i) /\ Eldest(ids) = ids[i]
  BY <1>1, EldestIsFirst
<1>3. /\ DOMAIN ids = 1..Len(ids) /\ DOMAIN more = 1..(Len(ids) + 1) /\ Len(ids) \in Nat
      /\ \A k \in DOMAIN ids : more[k] = ids[k]
  OBVIOUS
<1> HIDE DEF more
<1>4. FirstAt(more, i)
  BY <1>2, <1>3 DEF FirstAt
<1>5. i \in DOMAIN ids
  BY <1>2 DEF FirstAt
<1>6. Eldest(more) = ids[i]
  BY <1>1, <1>3, <1>4, <1>5, FirstIsEldest
<1> QED
  BY <1>2, <1>6 DEF more

LEMMA WithoutType ==
    ASSUME NEW ids \in Seq(Nat), NEW u PROVE Without(ids, u) \in Seq(Nat)
<1>1. Len(ids) \in Nat /\ DOMAIN ids = 1..Len(ids) /\ \A i \in DOMAIN ids : ids[i] \in Nat
  OBVIOUS
<1>2. Without(ids, u) \in [1..Len(ids) -> Nat]
  BY <1>1 DEF Without
<1> QED
  BY <1>1, <1>2

LEMMA EldestWithout ==
    ASSUME NEW ids \in Seq(Nat), NEW u, Eldest(ids) # u
    PROVE  Eldest(Without(ids, u)) = Eldest(ids)
<1> DEFINE less == Without(ids, u)
<1>1. List(ids) /\ List(less)
  BY SeqsAreLists, WithoutType
<1>2. DOMAIN less = DOMAIN ids /\ \A k \in DOMAIN ids : less[k] = IF ids[k] = u THEN 0 ELSE ids[k]
  BY DEF Without
<1> HIDE DEF less
<1>3. CASE Eldest(ids) = 0
  <2>1. \A k \in DOMAIN less : less[k] = 0
    BY <1>1, <1>2, <1>3, NoneIsEldest
  <2> QED
    BY <1>1, <1>3, <2>1, NoneIsEldest DEF less
<1>4. CASE Eldest(ids) # 0
  <2>1. PICK i : FirstAt(ids, i) /\ Eldest(ids) = ids[i]
    BY <1>1, <1>4, EldestIsFirst
  <2>2. i \in DOMAIN ids /\ less[i] = ids[i] /\ less[i] # 0
    BY <1>2, <2>1 DEF FirstAt
  <2>3. \A k \in DOMAIN ids : ids[k] = 0 => less[k] = 0
    BY <1>2
  <2>4. Eldest(less) = less[i]
    BY <1>1, <1>2, <2>1, <2>2, <2>3, EldestStays
  <2> QED
    BY <2>1, <2>2, <2>4 DEF less
<1> QED
  BY <1>3, <1>4

LEMMA InheritedType ==
    ASSUME NEW ids \in Seq(Nat), form.master \in Nat
    PROVE  [i \in DOMAIN ids |-> Inherited(ids[i])] \in Seq(Nat)
<1>1. Len(ids) \in Nat /\ DOMAIN ids = 1..Len(ids) /\ \A i \in DOMAIN ids : ids[i] \in Nat
  OBVIOUS
<1>2. \A i \in DOMAIN ids : Inherited(ids[i]) \in Nat
  BY <1>1 DEF Inherited
<1>3. [i \in DOMAIN ids |-> Inherited(ids[i])] \in [1..Len(ids) -> Nat]
  BY <1>1, <1>2
<1> QED
  BY <1>1, <1>3

LEMMA EldestInherited ==
    ASSUME NEW ids \in Seq(Nat), form.master \in Nat \ {0}, form.other # 0
    PROVE  Eldest([i \in DOMAIN ids |-> Inherited(ids[i])]) = Inherited(Eldest(ids))
<1> DEFINE moved == [i \in DOMAIN ids |-> Inherited(ids[i])]
<1>1. List(ids) /\ List(moved)
  BY SeqsAreLists, InheritedType
<1>2. DOMAIN moved = DOMAIN ids /\ \A k \in DOMAIN ids : moved[k] = Inherited(ids[k])
  OBVIOUS
<1>3. Inherited(0) = 0 /\ \A u \in Nat : u # 0 => Inherited(u) # 0
  BY DEF Inherited
<1> HIDE DEF moved
<1>4. CASE Eldest(ids) = 0
  <2>1. \A k \in DOMAIN moved : moved[k] = 0
    BY <1>1, <1>2, <1>3, <1>4, NoneIsEldest
  <2> QED
    BY <1>1, <1>3, <1>4, <2>1, NoneIsEldest DEF moved
<1>5. CASE Eldest(ids) # 0
  <2>1. PICK i : FirstAt(ids, i) /\ Eldest(ids) = ids[i]
    BY <1>1, <1>5, EldestIsFirst
  <2>2. i \in DOMAIN ids /\ ids[i] \in Nat /\ ids[i] # 0
    BY <1>1, <2>1 DEF FirstAt, List
  <2>3. moved[i] # 0 /\ \A k \in DOMAIN ids : ids[k] = 0 => moved[k] = 0
    BY <1>2, <1>3, <2>2
  <2>4. Eldest(moved) = moved[i]
    BY <1>1, <1>2, <2>1, <2>3, EldestStays
  <2> QED
    BY <1>2, <2>1, <2>2, <2>4 DEF moved
<1> QED
  BY <1>4, <1>5

----------------------------------------------------------------------------
(***************************************************************************)
(* Types.                                                                   *)
(***************************************************************************)
Names == Account \cup {None}
People == [live : BOOLEAN, name : Names, mail : Names, exempt : BOOLEAN, lapsed : BOOLEAN]
Tables == [person : Seq(People), media : [Ref -> Nat], owned : SUBSET Account,
           identity : [Account -> Seq(Nat)], up : SUBSET {"plex", "jellyfin"}]
Slot == Ref \cup {Nothing, Lost}

Merge == {"duplicates", "identities", "fields", "delete"}
Tasks == [task : {None, "plex", "jellyfin", "import"},
          step : {"rest", "next", "mail", "join", "insert", "identity", "claim", "lastid",
                  "place", "rows", "fold", "write", "exempt"},
          todo : SUBSET Account, a : Names, u : Nat, seen : Slot, pending : Slot]
Pages == [step : {"rest", "provision", "insert", "look", "write", "identify"},
          a : Names, u : Nat, friend : BOOLEAN, seen : Slot]
Forms == [step : {"rest", "rows", "erase"} \cup Merge, master : Nat, other : Nat, mail : Names]
Sweeps == [step : {"rest", "identities", "rows", "server"}, server : {None, "plex", "jellyfin"}]

WorldType == /\ native \subseteq Account /\ emailed \subseteq Plex /\ owners \subseteq Account
             /\ upload \in {None, "queued", "running", "over"} /\ apart \subseteq Account
             /\ spare \in [requests : Nat, mishaps : Nat]
WorkerType == worker \in Tasks /\ (worker.step \notin {"rest", "next"} => worker.a \in Account)
PageType == /\ page \in Pages /\ (page.step # "rest" => page.a \in Account)
            /\ page.step \in {"look", "write"} => page.a \in Plex
FormType == /\ form \in Forms /\ (form.step # "rest" => form.other # 0)
            /\ form.step \in {"rows"} \cup Merge => form.master # 0

AccountsType ==
    WorldType /\ data \in Tables /\ WorkerType /\ PageType /\ FormType /\ sweep \in Sweeps

\* What is written to the tables.
LEMMA TablesAre ==
    ASSUME NEW d \in Tables
    PROVE  /\ d.person \in Seq(People) /\ d.media \in [Ref -> Nat] /\ d.owned \subseteq Account
           /\ d.identity \in [Account -> Seq(Nat)] /\ d.up \subseteq {"plex", "jellyfin"}
           /\ d = [person |-> d.person, media |-> d.media, owned |-> d.owned,
                   identity |-> d.identity, up |-> d.up]
  BY DEF Tables

LEMMA UsersAreNumbers ==
    ASSUME data \in Tables
    PROVE  /\ DOMAIN data.person \subseteq Nat \ {0} /\ Users \subseteq DOMAIN data.person
           /\ Fresh \in Nat
<1>1. data.person \in Seq(People)
  BY TablesAre
<1>2. Len(data.person) \in Nat /\ DOMAIN data.person = 1..Len(data.person)
  BY <1>1
<1> QED
  BY <1>2 DEF Users, Fresh

LEMMA OldestUser ==
    ASSUME data \in Tables, NEW T \in SUBSET Users, T # {} PROVE Oldest(T) \in Nat
<1>1. T \in SUBSET Nat
  BY UsersAreNumbers
<1> QED
  BY <1>1, OldestIsOne

LEMMA IdentityType == ASSUME data \in Tables, NEW a \in Account PROVE Identity(a) \in Nat
<1>1. data.identity[a] \in Seq(Nat)
  BY TablesAre
<1> QED
  BY <1>1, SeqsAreLists, EldestType DEF Identity

LEMMA PersonType ==
    ASSUME NEW name \in Names, NEW mail \in Names, NEW lapsed \in BOOLEAN
    PROVE  Person(name, mail) \in People /\ Nobody \in People
           /\ [Person(name, mail) EXCEPT !.lapsed = lapsed] \in People
  BY DEF Person, Nobody, People, Names

LEMMA InsertedType ==
    ASSUME data \in Tables, NEW person \in People
    PROVE  /\ Inserted(person) \in Tables /\ Inserted(person).media = data.media
           /\ Inserted(person).identity = data.identity
<1>1. Append(data.person, person) \in Seq(People)
  BY TablesAre
<1> QED
  BY <1>1, TablesAre DEF Inserted, Tables

LEMMA HeldType ==
    ASSUME data \in Tables, NEW r, NEW u \in Nat
    PROVE  Held(r, u) \in Tables /\ Held(r, u).identity = data.identity
<1>1. [data.media EXCEPT ![r] = u] \in [Ref -> Nat]
  BY TablesAre
<1> QED
  BY <1>1, TablesAre DEF Held, Tables

LEMMA SlotsDiffer ==
    /\ \A r \in Ref : r # Nothing /\ r # Lost /\ DOMAIN r = 1..2
    /\ \A a, b : Row(a) = Row(b) <=> a = b
    /\ \A a, b : Row(a) # Invitation(b)
    /\ \A a \in Account : Row(a) \in Ref
    /\ \A a \in Plex : Invitation(a) \in Ref
<1>1. \A a : Row(a) # Nothing /\ Row(a) # Lost /\ DOMAIN Row(a) = 1..2
  BY DEF Row, Nothing, Lost
<1>2. \A a : Invitation(a) # Nothing /\ Invitation(a) # Lost /\ DOMAIN Invitation(a) = 1..2
  BY DEF Invitation, Nothing, Lost
<1>3. \A a, b : Row(a) # Invitation(b) /\ (Row(a) = Row(b) <=> a = b)
  BY DEF Invitation, Row
<1> QED
  BY <1>1, <1>2, <1>3 DEF Ref

LEMMA UpdatedType ==
    ASSUME data \in Tables, NEW seen, NEW r \in Ref, NEW u, MayUpdate(seen, r, u)
    PROVE  Updated(seen, r, u) \in Tables /\ Updated(seen, r, u).identity = data.identity
<1>1. CASE seen = Lost
  BY <1>1, SlotsDiffer DEF Updated
<1>2. CASE seen # Lost
  <2>1. u \in Nat
    BY <1>2, UsersAreNumbers DEF MayUpdate
  <2>2. [[data.media EXCEPT ![seen] = 0] EXCEPT ![r] = u] \in [Ref -> Nat]
    BY <2>1, TablesAre
  <2>3. CASE seen = r
    BY <1>2, <2>1, <2>3, HeldType DEF Updated
  <2>4. CASE seen # r
    BY <1>2, <2>2, <2>4, TablesAre DEF Updated, Tables
  <2> QED
    BY <2>3, <2>4
<1> QED
  BY <1>1, <1>2

LEMMA ErasedType ==
    ASSUME data \in Tables, NEW S
    PROVE  /\ Erased(S) \in Tables /\ Erased(S).identity = data.identity
           /\ Erased(S).media = [r \in Ref |-> IF r \in S THEN 0 ELSE data.media[r]]
<1>1. [r \in Ref |-> IF r \in S THEN 0 ELSE data.media[r]] \in [Ref -> Nat]
  BY TablesAre
<1>2. {a \in data.owned : Row(a) \notin S} \subseteq Account
  BY TablesAre
<1> QED
  BY <1>1, <1>2, TablesAre DEF Erased, Tables

LEMMA IdentifiedType ==
    ASSUME data \in Tables, NEW a \in Account, NEW u \in Nat
    PROVE  /\ Identified(a, u) \in Tables /\ Identified(a, u).media = data.media
           /\ \A b \in Account : Known(b) => Eldest(Identified(a, u).identity[b]) = Identity(b)
<1>1. \A b \in Account : data.identity[b] \in Seq(Nat)
  BY TablesAre
<1>2. Append(data.identity[a], u) \in Seq(Nat)
  BY <1>1
<1> DEFINE grown == [data.identity EXCEPT ![a] = Append(data.identity[a], u)]
<1>3. grown \in [Account -> Seq(Nat)]
  BY <1>2, TablesAre
<1>4. ASSUME NEW b \in Account, Known(b) PROVE Eldest(grown[b]) = Identity(b)
  BY <1>1, <1>4, TablesAre, EldestAppend DEF Known, Identity
<1>5. CASE Identified(a, u) = data
  BY <1>5 DEF Identity
<1>6. CASE Identified(a, u) = [data EXCEPT !.identity[a] = Append(@, u)]
  <2>1. [data EXCEPT !.identity[a] = Append(@, u)] = [data EXCEPT !.identity = grown]
    BY TablesAre
  <2>2. [data EXCEPT !.identity = grown] \in Tables
    BY <1>3, TablesAre DEF Tables
  <2>3. /\ [data EXCEPT !.identity = grown].media = data.media
        /\ [data EXCEPT !.identity = grown].identity = grown
    BY TablesAre
  <2> QED
    BY <1>4, <1>6, <2>1, <2>2, <2>3
<1> QED
  BY <1>5, <1>6 DEF Identified

LEMMA ForgottenType ==
    ASSUME NEW d \in Tables, NEW u
    PROVE  /\ Forgotten(d, u) \in Tables /\ Forgotten(d, u).media = d.media
           /\ Forgotten(d, u).identity = [a \in Account |-> Without(d.identity[a], u)]
<1>1. [d.person EXCEPT ![u] = Nobody] \in Seq(People)
  <2>1. Nobody \in People
    BY PersonType DEF Names
  <2>2. d.person \in Seq(People)
    BY TablesAre
  <2>3. Len(d.person) \in Nat /\ d.person \in [1..Len(d.person) -> People]
    BY <2>2
  <2>4. [d.person EXCEPT ![u] = Nobody] \in [1..Len(d.person) -> People]
    BY <2>1, <2>3
  <2> QED
    BY <2>3, <2>4
<1>2. [a \in Account |-> Without(d.identity[a], u)] \in [Account -> Seq(Nat)]
  BY TablesAre, WithoutType
<1> QED
  BY <1>1, <1>2, TablesAre DEF Forgotten, Tables

\* What becomes of those at work.
LEMMA TasksAre ==
    ASSUME NEW w \in Tasks
    PROVE  /\ w.task \in {None, "plex", "jellyfin", "import"} /\ w.todo \subseteq Account
           /\ w.a \in Names /\ w.u \in Nat /\ w.seen \in Slot /\ w.pending \in Slot
           /\ w = [task |-> w.task, step |-> w.step, todo |-> w.todo, a |-> w.a, u |-> w.u,
                   seen |-> w.seen, pending |-> w.pending]
  BY DEF Tasks

LEMMA PagesAre ==
    ASSUME NEW w \in Pages
    PROVE  /\ w.a \in Names /\ w.u \in Nat /\ w.friend \in BOOLEAN /\ w.seen \in Slot
           /\ w = [step |-> w.step, a |-> w.a, u |-> w.u, friend |-> w.friend, seen |-> w.seen]
  BY DEF Pages

LEMMA FormsAre ==
    ASSUME NEW w \in Forms
    PROVE  /\ w.master \in Nat /\ w.other \in Nat /\ w.mail \in Names
           /\ w = [step |-> w.step, master |-> w.master, other |-> w.other, mail |-> w.mail]
  BY DEF Forms

LEMMA RestTypes ==
    /\ NoTask \in Tasks /\ NoTask.step = "rest" /\ NoPage \in Pages /\ NoPage.step = "rest"
    /\ NoForm \in Forms /\ NoForm.step = "rest" /\ NoSweep \in Sweeps
  BY DEF NoTask, NoPage, NoForm, NoSweep, Tasks, Pages, Forms, Sweeps, Names, Slot

Uploads == {None, "queued", "running", "over"}

LEMMA RestFine ==
    ASSUME WorldType, Rest PROVE WorkerType' /\ upload' \in Uploads
  BY RestTypes DEF Rest, WorkerType, WorldType, Uploads

LEMMA GoOnFine ==
    ASSUME WorldType, worker \in Tasks, NEW step, GoOn(step),
           step = "next" \/ (worker.a \in Account /\ step \in {"lastid", "place", "join", "rows", "write", "exempt"})
    PROVE  WorkerType' /\ upload' \in Uploads
<1>1. worker' = [worker EXCEPT !.step = step] /\ upload' = upload
  BY DEF GoOn
<1>2. worker' \in Tasks
  BY <1>1, TasksAre DEF Tasks
<1>3. worker'.step = step /\ worker'.a = worker.a
  BY <1>1, TasksAre
<1> QED
  BY <1>1, <1>2, <1>3 DEF WorkerType, WorldType, Uploads

LEMMA DoneFine == ASSUME WorldType, worker \in Tasks, Done PROVE WorkerType' /\ upload' \in Uploads
  BY RestFine, GoOnFine DEF Done

LEMMA FollowFine ==
    ASSUME PageType, NEW S, NEW r \in Slot, page' = Follow(page, S, r) PROVE PageType'
<1>1. page' = page \/ page' = [page EXCEPT !.seen = r]
  BY DEF Follow
<1>2. page' \in Pages /\ page'.step = page.step /\ page'.a = page.a
  BY <1>1, PagesAre DEF PageType, Pages
<1> QED
  BY <1>2 DEF PageType

LEMMA FollowBothFine ==
    ASSUME WorkerType, NEW S, NEW r \in Slot, worker' = FollowBoth(worker, S, r)
    PROVE  WorkerType'
<1> DEFINE w == Follow(worker, S, r)
<1>1. worker \in Tasks
  BY DEF WorkerType
<1>2. w = worker \/ w = [worker EXCEPT !.seen = r]
  BY DEF Follow
<1>3. w \in Tasks /\ w.step = worker.step /\ w.a = worker.a
  BY <1>1, <1>2, TasksAre DEF Tasks
<1>4. worker' = [w EXCEPT !.pending = IF w.pending \in S THEN r ELSE w.pending]
  BY DEF FollowBoth
<1> HIDE DEF w
<1>5. (IF w.pending \in S THEN r ELSE w.pending) \in Slot
  BY <1>3, TasksAre
<1>6. worker' \in Tasks /\ worker'.step = w.step /\ worker'.a = w.a
  BY <1>3, <1>4, <1>5, TasksAre DEF Tasks
<1> QED
  BY <1>3, <1>6 DEF WorkerType

LEMMA SetApartFine == ASSUME NEW S, SetApart(S) PROVE apart' \subseteq Account
  BY DEF SetApart

LEMMA TakeFine ==
    ASSUME NEW what \in {"requests", "mishaps"}, spare \in [requests : Nat, mishaps : Nat], Take(what)
    PROVE  spare' \in [requests : Nat, mishaps : Nat]
<1>1. spare' = [spare EXCEPT ![what] = spare[what] - 1] /\ spare[what] > 0
  BY DEF Take
<1>2. spare[what] \in Nat /\ spare[what] - 1 \in Nat
  BY <1>1
<1> QED
  BY <1>1, <1>2

\* The worker.
Pieces == WorldType /\ data \in Tables /\ worker \in Tasks /\ WorkerType /\ PageType /\ FormType
          /\ sweep \in Sweeps

LEMMA TypeParts == ASSUME AccountsType PROVE Pieces
  BY DEF AccountsType, WorkerType, Pieces

LEMMA WorkerBusy == ASSUME WorkerType, worker.step \notin {"rest", "next"} PROVE worker.a \in Account
  BY DEF WorkerType

LEMMA BeginFine ==
    ASSUME NEW task \in {"plex", "jellyfin", "import"}, NEW S \in SUBSET Account, Begin(task, S)
    PROVE  WorkerType'
<1>1. worker' = [NoTask EXCEPT !.task = task, !.step = "next", !.todo = S]
  BY DEF Begin
<1>2. worker' \in Tasks /\ worker'.step = "next"
  BY <1>1, RestTypes, TasksAre DEF Tasks
<1> QED
  BY <1>2 DEF WorkerType

LEMMA TakeUpFine ==
    ASSUME worker \in Tasks, NEW task, NEW a, NEW step, NEW u \in Nat, NEW seen \in Slot,
           step \in {"mail", "join", "insert", "identity", "place"}, TakeUp(task, a, step, u, seen)
    PROVE  WorkerType'
<1>1. a \in worker.todo /\ worker.todo \subseteq Account
  BY TasksAre DEF TakeUp
<1>2. worker' = [worker EXCEPT !.todo = worker.todo \ {a}, !.a = a, !.step = step, !.u = u, !.seen = seen]
  BY DEF TakeUp
<1>3. a \in Account /\ a \in Names /\ worker.todo \ {a} \subseteq Account
  BY <1>1 DEF Names
<1>4. worker' \in Tasks /\ worker'.a = a
  BY <1>2, <1>3, TasksAre DEF Tasks
<1> QED
  BY <1>3, <1>4 DEF WorkerType

LEMMA StepFine ==
    ASSUME WorkerType, worker.step \notin {"rest", "next"}, NEW step, NEW u \in Nat,
           step \in {"join", "insert", "claim", "lastid", "place"},
           worker' = [worker EXCEPT !.step = step, !.u = u]
    PROVE  WorkerType'
<1>1. worker \in Tasks /\ worker.a \in Account
  BY DEF WorkerType
<1>2. worker' \in Tasks /\ worker'.a = worker.a
  BY <1>1, TasksAre DEF Tasks
<1> QED
  BY <1>1, <1>2 DEF WorkerType

LEMMA OnlyTheWorker ==
    ASSUME Pieces, WorkerType', UNCHANGED <<world, data, requests, upload, apart, spare>>
    PROVE  AccountsType'
  BY DEF Pieces, AccountsType, WorldType, PageType, FormType, world, requests

LEMMA FindingTypes ==
    ASSUME AccountsType,
           \/ RunPlexSync \/ RunJellyfinSync \/ FindByMail \/ FindJellyfinIdentity \/ FindRows
           \/ \E a \in Plex : FindPlexIdentity(a) \/ ImportFindsUser(a)
           \/ \E a \in Jellyfin : FindJellyfinRow(a)
    PROVE  AccountsType'
<1>1. Pieces /\ data \in Tables /\ worker \in Tasks /\ WorkerType /\ WorldType
  BY TypeParts DEF Pieces
<1> USE OnlyTheWorker, <1>1
<1>2. CASE RunPlexSync
  <2>1. native \cap Plex \in SUBSET Account
    BY DEF Account
  <2> QED
    BY <1>2, <2>1, BeginFine DEF RunPlexSync
<1>3. CASE RunJellyfinSync
  <2>1. native \cap Jellyfin \in SUBSET Account
    BY DEF Account
  <2> QED
    BY <1>3, <2>1, BeginFine DEF RunJellyfinSync
<1>4. CASE FindByMail
  <2> DEFINE found == WithMail(worker.a)
  <2>1. worker.u \in Nat /\ worker = [worker EXCEPT !.u = worker.u]
    BY TasksAre
  <2>2. found # {} => Oldest(found) \in Nat
    BY OldestUser DEF WithMail
  <2>3. worker.step = "mail" /\ UNCHANGED <<world, data, requests, upload, apart, spare>>
    BY <1>4 DEF FindByMail, Doing
  <2>4. \/ worker' = [worker EXCEPT !.step = "insert"]
        \/ found # {} /\ worker' = [worker EXCEPT !.step = "join", !.u = Oldest(found)]
    BY <1>4 DEF FindByMail
  <2>5. \/ worker' = [worker EXCEPT !.step = "insert", !.u = worker.u]
        \/ found # {} /\ worker' = [worker EXCEPT !.step = "join", !.u = Oldest(found)]
    BY <2>1, <2>4, TasksAre
  <2> QED
    BY <2>1, <2>2, <2>3, <2>5, StepFine
<1>5. CASE FindJellyfinIdentity
  <2>1. worker.u \in Nat
    BY TasksAre
  <2>2. worker.step = "identity" /\ UNCHANGED <<world, data, requests, upload, apart, spare>>
    BY <1>5 DEF FindJellyfinIdentity, Doing
  <2>3. worker.a \in Account /\ Identity(worker.a) \in Nat
    BY <2>2, WorkerBusy, IdentityType
  <2>4. \/ worker' = [worker EXCEPT !.step = "insert"]
        \/ worker' = [worker EXCEPT !.step = "join", !.u = Identity(worker.a)]
    BY <1>5 DEF FindJellyfinIdentity
  <2>5. \/ worker' = [worker EXCEPT !.step = "insert", !.u = worker.u]
        \/ worker' = [worker EXCEPT !.step = "join", !.u = Identity(worker.a)]
    BY <2>4, TasksAre
  <2> QED
    BY <2>1, <2>2, <2>3, <2>5, StepFine
<1>6. CASE FindRows
  <2>1. worker.step = "rows" /\ UNCHANGED <<world, data, requests, upload, apart, spare>>
    BY <1>6 DEF FindRows, Doing
  <2>2. worker.a \in Account
    BY <2>1, WorkerBusy
  <2> DEFINE rows == {Row(worker.a)} \cap {r \in Ref : There(r)}
             pending == IF worker.a \in owners THEN {} ELSE Invitations(worker.a, worker.u)
  <2>3. rows \subseteq Ref /\ pending \subseteq Ref
    BY DEF Invitations
  <2>4. PICK row \in IF rows = {} THEN {Nothing} ELSE rows,
             invitation \in IF pending = {} THEN {Nothing} ELSE pending :
           worker' = IF row # Nothing /\ invitation # Nothing
                     THEN [worker EXCEPT !.step = "fold", !.seen = row, !.pending = invitation]
                     ELSE [worker EXCEPT !.step = "write",
                                         !.seen = IF row # Nothing THEN row ELSE invitation]
    BY <1>6 DEF FindRows
  <2>5. row \in Slot /\ invitation \in Slot /\ (IF row # Nothing THEN row ELSE invitation) \in Slot
    <3> HIDE DEF rows, pending
    <3> QED
      BY <2>3 DEF Slot
  <2> HIDE DEF rows, pending
  <2>6. worker' \in Tasks /\ worker'.a = worker.a
    BY <2>4, <2>5, TasksAre DEF Tasks
  <2>7. WorkerType'
    BY <2>2, <2>6 DEF WorkerType
  <2> QED
    BY <2>1, <2>7
<1>7. ASSUME NEW a \in Plex, FindPlexIdentity(a) PROVE AccountsType'
  <2>1. Identity(a) \in Nat /\ Nothing \in Slot
    BY IdentityType DEF Account, Slot
  <2> QED
    BY <1>7, <2>1, TakeUpFine DEF FindPlexIdentity
<1>8. ASSUME NEW a \in Plex, ImportFindsUser(a) PROVE AccountsType'
  <2> DEFINE found == IF a \in emailed /\ WithMail(a) # {} THEN WithMail(a) ELSE Named(a)
  <2>1. found \subseteq Users
    BY DEF WithMail, Named
  <2>2. (IF found = {} THEN 0 ELSE Oldest(found)) \in Nat /\ Nothing \in Slot
    BY <2>1, OldestUser DEF Slot
  <2>3. /\ TakeUp("import", a, IF found = {} THEN "insert" ELSE "place",
                  IF found = {} THEN 0 ELSE Oldest(found), Nothing)
        /\ UNCHANGED <<world, data, requests, upload, apart, spare>>
    BY <1>8 DEF ImportFindsUser
  <2>4. (IF found = {} THEN "insert" ELSE "place") \in {"mail", "join", "insert", "identity", "place"}
    OBVIOUS
  <2> HIDE DEF found
  <2> QED
    BY <2>2, <2>3, <2>4, TakeUpFine
<1>9. ASSUME NEW a \in Jellyfin, FindJellyfinRow(a) PROVE AccountsType'
  <2>1. (IF There(Row(a)) THEN Row(a) ELSE Nothing) \in Slot
    BY SlotsDiffer DEF Account, Slot
  <2> QED
    BY <1>9, <2>1, TakeUpFine DEF FindJellyfinRow
<1> QED
  BY <1>2, <1>3, <1>4, <1>5, <1>6, <1>7, <1>8, <1>9

LEMMA WritingTypes ==
    ASSUME AccountsType,
           \/ InsertUser \/ ClaimIdentity \/ JoinIdentity \/ Fold \/ WriteRow \/ Exempt
           \/ RunImport \/ ReadOwnId \/ ImportPlacesRow \/ \E u \in DOMAIN data.person : ReadOthersId(u)
    PROVE  AccountsType'
<1>1. /\ data \in Tables /\ worker \in Tasks /\ WorkerType /\ WorldType /\ PageType /\ FormType
      /\ sweep \in Sweeps /\ worker.u \in Nat /\ worker.seen \in Slot /\ worker.task \in {None, "plex", "jellyfin", "import"}
  BY TypeParts, TasksAre DEF Pieces
<1>2. worker.step \notin {"rest", "next"} => worker.a \in Account
  BY <1>1, WorkerBusy
<1>3. ASSUME UNCHANGED <<world, form, sweep, spare>>, apart' \subseteq Account, data' \in Tables, WorkerType',
             PageType', upload' \in Uploads
      PROVE  AccountsType'
  BY <1>1, <1>3 DEF AccountsType, WorldType, FormType, world, Uploads
<1>4. page' = page => PageType'
  BY <1>1 DEF PageType
<1>5. upload' = upload => upload' \in Uploads
  BY <1>1 DEF WorldType, Uploads
<1>6. apart' = apart => apart' \subseteq Account
  BY <1>1 DEF WorldType
<1>7. Watch => apart' \subseteq Account
  BY SetApartFine DEF Watch
<1>8. CASE InsertUser
  <2> DEFINE a == worker.a
             mail == IF a \in emailed THEN a ELSE None
             person == [Person(a, mail) EXCEPT !.lapsed = worker.task = "import"]
             step == CASE worker.task = "plex" -> "join"
                       [] worker.task = "jellyfin" -> "claim"
                       [] OTHER -> "lastid"
  <2>1. worker.step = "insert" /\ a \in Account
    BY <1>2, <1>8 DEF InsertUser
  <2>2. a \in Names /\ mail \in Names /\ (worker.task = "import") \in BOOLEAN
    BY <2>1 DEF Names
  <2>3. person \in People
    BY <2>2, PersonType
  <2>4. data' = Inserted(person) /\ worker' = [worker EXCEPT !.u = Fresh, !.step = step]
    BY <1>8 DEF InsertUser
  <2>5. data' \in Tables
    BY <1>1, <2>3, <2>4, InsertedType
  <2>6. step \in {"join", "insert", "claim", "lastid", "place"}
    OBVIOUS
  <2>7. worker' = [worker EXCEPT !.step = step, !.u = Fresh] /\ Fresh \in Nat
    BY <1>1, <2>4, TasksAre, UsersAreNumbers
  <2>8. WorkerType'
    <3> HIDE DEF step
    <3> QED
      BY <1>1, <2>1, <2>6, <2>7, StepFine
  <2>9. UNCHANGED <<world, requests, upload, apart, spare>>
    BY <1>8 DEF InsertUser
  <2> QED
    BY <1>3, <1>4, <1>5, <1>6, <2>5, <2>8, <2>9 DEF requests
<1>9. CASE ClaimIdentity
  <2>1. worker.step = "claim" /\ worker.a \in Account
    BY <1>2, <1>9 DEF ClaimIdentity, Doing
  <2>2. Watch /\ UNCHANGED <<world, requests, spare>>
    BY <1>9 DEF ClaimIdentity
  <2>3. \/ data' = Identified(worker.a, worker.u) /\ GoOn("join")
        \/ Raise
    BY <1>9 DEF ClaimIdentity
  <2>4. data' \in Tables /\ WorkerType' /\ upload' \in Uploads
    BY <1>1, <2>1, <2>3, IdentifiedType, GoOnFine, RestFine DEF Raise
  <2> QED
    BY <1>3, <1>4, <1>7, <2>2, <2>4 DEF requests
<1>10. CASE JoinIdentity
  <2>1. worker.step = "join" /\ worker.a \in Account
    BY <1>2, <1>10 DEF JoinIdentity
  <2>2. Watch /\ UNCHANGED <<world, requests, spare>>
    BY <1>10 DEF JoinIdentity
  <2>3. \/ data' = Identified(worker.a, worker.u) /\ (GoOn("rows") \/ GoOn("write"))
        \/ Raise
    BY <1>10 DEF JoinIdentity
  <2>4. data' \in Tables /\ WorkerType' /\ upload' \in Uploads
    BY <1>1, <2>1, <2>3, IdentifiedType, GoOnFine, RestFine DEF Raise
  <2> QED
    BY <1>3, <1>4, <1>7, <2>2, <2>4 DEF requests
<1>11. CASE Fold
  <2>1. /\ UNCHANGED <<world, form, sweep, upload, apart, spare>>
        /\ data' = data \/ data' = Erased({worker.pending})
        /\ page' = Follow(page, {worker.pending}, Lost)
        /\ worker' = [worker EXCEPT !.step = "write", !.pending = Nothing]
        /\ worker.step = "fold"
    BY <1>11 DEF Fold, Doing
  <2>2. data' \in Tables
    <3>1. data \in Tables /\ Erased({worker.pending}) \in Tables
      BY <1>1, ErasedType
    <3>2. data' = data \/ data' = Erased({worker.pending})
      BY <2>1
    <3> QED
      BY <3>1, <3>2
  <2>3. PageType'
    BY <1>1, <2>1, FollowFine DEF Slot
  <2>4. worker' \in Tasks /\ worker'.a = worker.a
    BY <1>1, <2>1, TasksAre DEF Tasks, Slot
  <2>5. WorkerType'
    BY <1>2, <2>1, <2>4 DEF WorkerType
  <2> QED
    BY <1>3, <1>5, <1>6, <2>1, <2>2, <2>3, <2>5
<1>12. CASE WriteRow
  <2> DEFINE a == worker.a
             u == worker.u
             seen == worker.seen
             changed == IF seen = Nothing THEN Held(Row(a), u) ELSE Updated(seen, Row(a), u)
             fine == IF seen = Nothing THEN MayInsert(Row(a), u) ELSE MayUpdate(seen, Row(a), u)
             owned == IF a \in owners \cap Plex /\ seen # Lost THEN changed.owned \cup {a} ELSE changed.owned
  <2>1. a \in Account /\ Row(a) \in Ref
    BY <1>2, <1>12, SlotsDiffer DEF WriteRow
  <2>2. Watch /\ UNCHANGED <<world, form, sweep, spare>>
    BY <1>12 DEF WriteRow
  <2>3. \/ /\ fine /\ data' = [changed EXCEPT !.owned = owned]
           /\ page' = Follow(page, {seen} \ {Nothing, Lost}, Row(a))
           /\ GoOn("exempt") \/ Done
        \/ Raise /\ page' = page
    BY <1>12 DEF WriteRow
  <2>4. fine => changed \in Tables
    BY <1>1, <2>1, HeldType, UpdatedType
  <2>5. data' \in Tables
    <3> HIDE DEF changed, fine
    <3>1. fine => owned \subseteq Account
      BY <2>1, <2>4, TablesAre
    <3> HIDE DEF owned
    <3>2. fine => [changed EXCEPT !.owned = owned] \in Tables
      BY <2>4, <3>1, TablesAre DEF Tables
    <3> QED
      BY <1>1, <2>3, <3>2 DEF Raise
  <2>6. PageType'
    BY <1>1, <1>4, <2>1, <2>3, FollowFine DEF Slot
  <2>7. WorkerType' /\ upload' \in Uploads
    BY <1>1, <2>1, <2>3, GoOnFine, DoneFine, RestFine DEF Raise
  <2> QED
    BY <1>3, <1>7, <2>2, <2>5, <2>6, <2>7
<1>13. CASE Exempt
  <2> DEFINE a == worker.a
             u == worker.u
             granted == [data.person EXCEPT ![u].exempt = u \in Users]
             owned == IF There(Row(a)) THEN data.owned \cup {a} ELSE data.owned
  <2>1. worker.step = "exempt" /\ a \in Account /\ Done /\ UNCHANGED <<world, requests, apart, spare>>
    BY <1>2, <1>13 DEF Exempt
  <2>2. data' = data \/ data' = [data EXCEPT !.person = granted, !.owned = owned]
    <3>1. \/ data' = data
          \/ data' = [data EXCEPT !.person[u].exempt = u \in Users,
                                  !.owned = IF There(Row(a)) THEN @ \cup {a} ELSE @]
      BY <1>13 DEF Exempt
    <3>2. [data EXCEPT !.person[u].exempt = u \in Users,
                       !.owned = IF There(Row(a)) THEN @ \cup {a} ELSE @]
            = [data EXCEPT !.person = granted, !.owned = owned]
      BY <1>1, TablesAre
    <3> QED
      BY <3>1, <3>2
  <2>3. granted \in Seq(People)
    <3>1. Len(data.person) \in Nat /\ data.person \in [1..Len(data.person) -> People]
      BY <1>1, TablesAre
    <3>2. u \in DOMAIN data.person => [data.person[u] EXCEPT !.exempt = u \in Users] \in People
      <4>1. u \in DOMAIN data.person => data.person[u] \in People
        BY <3>1
      <4>2. ASSUME NEW q \in People PROVE [q EXCEPT !.exempt = u \in Users] \in People
        <5>1. \A b \in BOOLEAN : [q EXCEPT !.exempt = b] \in People
          BY DEF People
        <5>2. (u \in Users) \in BOOLEAN
          OBVIOUS
        <5> QED
          BY <5>1, <5>2
      <4> QED
        BY <4>1, <4>2
    <3>3. granted \in [1..Len(data.person) -> People]
      BY <3>1, <3>2
    <3> QED
      BY <3>1, <3>3
  <2>4. owned \subseteq Account
    BY <1>1, <2>1, TablesAre
  <2>5. data' \in Tables
    <3> HIDE DEF owned, granted
    <3>1. data \in Tables /\ (data' = data \/ data' = [data EXCEPT !.person = granted, !.owned = owned])
      BY <1>1, <2>2
    <3>2. [data EXCEPT !.person = granted, !.owned = owned] \in Tables
      BY <1>1, <2>3, <2>4, TablesAre DEF Tables
    <3> QED
      BY <3>1, <3>2
  <2>6. WorkerType' /\ upload' \in Uploads
    BY <1>1, <2>1, DoneFine
  <2> QED
    BY <1>3, <1>4, <1>6, <2>1, <2>5, <2>6 DEF requests
<1>14. CASE RunImport
  <2>1. UNCHANGED <<world, data, requests, apart, spare>>
    BY <1>14 DEF RunImport
  <2>2. \/ upload' = "over" /\ worker' = worker
        \/ upload' = "running" /\ \E S \in SUBSET Unmatched : Begin("import", S)
    BY <1>14 DEF RunImport
  <2>3. \A S \in SUBSET Unmatched : S \in SUBSET Account
    BY DEF Unmatched, Account
  <2>4. WorkerType' /\ upload' \in Uploads
    BY <1>1, <2>2, <2>3, BeginFine DEF WorkerType, Uploads
  <2> QED
    BY <1>1, <1>3, <1>4, <1>6, <2>1, <2>4 DEF requests
<1>15. CASE ReadOwnId
  <2>1. GoOn("place") /\ worker.a \in Account /\ UNCHANGED <<world, data, requests, apart, spare>>
    BY <1>2, <1>15 DEF ReadOwnId, Doing
  <2>2. WorkerType' /\ upload' \in Uploads
    BY <1>1, <2>1, GoOnFine
  <2> QED
    BY <1>1, <1>3, <1>4, <1>6, <2>1, <2>2 DEF requests
<1>16. CASE ImportPlacesRow
  <2>1. /\ worker.a \in Account /\ Watch /\ UNCHANGED <<world, requests, spare>>
        /\ \/ Done /\ data' = data
           \/ Raise
           \/ Done /\ MayInsert(Row(worker.a), worker.u) /\ data' = Held(Row(worker.a), worker.u)
    BY <1>2, <1>16 DEF ImportPlacesRow, Doing
  <2>2. WorkerType' /\ upload' \in Uploads /\ data' \in Tables
    BY <1>1, <2>1, DoneFine, RestFine, HeldType DEF Raise
  <2> QED
    BY <1>3, <1>4, <1>7, <2>1, <2>2 DEF requests
<1>17. ASSUME NEW u \in DOMAIN data.person, ReadOthersId(u) PROVE AccountsType'
  <2>1. /\ worker.step = "lastid" /\ Take("mishaps") /\ UNCHANGED <<world, data, requests, upload, apart>>
        /\ worker' = [worker EXCEPT !.step = "place", !.u = u]
    BY <1>17 DEF ReadOthersId, Doing
  <2>2. u \in Nat
    BY <1>1, UsersAreNumbers
  <2>3. WorkerType'
    BY <1>1, <2>1, <2>2, StepFine
  <2>4. spare' \in [requests : Nat, mishaps : Nat]
    BY <1>1, <2>1, TakeFine DEF WorldType
  <2> QED
    BY <1>1, <2>1, <2>3, <2>4 DEF AccountsType, WorldType, FormType, PageType, world, requests
<1> QED
  BY <1>8, <1>9, <1>10, <1>11, <1>12, <1>13, <1>14, <1>15, <1>16, <1>17

\* Pages and threads.
LEMMA TurnFine ==
    ASSUME page \in Pages, page.a \in Account, NEW step \in {"insert", "identify"}, Turn(step)
    PROVE  PageType'
<1>1. page' = [page EXCEPT !.step = step]
  BY DEF Turn
<1>2. page' \in Pages /\ page'.a = page.a /\ page'.step = step
  BY <1>1, PagesAre DEF Pages
<1> QED
  BY <1>2 DEF PageType

LEMMA AnswerFine == ASSUME Answer PROVE PageType'
  BY RestTypes DEF Answer, PageType

LEMMA CreatingTypes ==
    ASSUME AccountsType,
           \/ Provision \/ InsertJellyfinRow \/ FindPlexRow \/ WritePlexRow \/ Identify \/ ProvisionFails
           \/ \E a \in Account : CreateUser(a) \/ Accept(a)
    PROVE  AccountsType'
<1>1. /\ data \in Tables /\ page \in Pages /\ WorkerType /\ WorldType /\ PageType /\ FormType
      /\ sweep \in Sweeps /\ page.u \in Nat /\ page.seen \in Slot
  BY TypeParts, PagesAre DEF Pieces, PageType
<1>2. page.step # "rest" => page.a \in Account
  BY <1>1 DEF PageType
<1>3. ASSUME UNCHANGED <<emailed, owners, form, sweep, upload>>, native' \subseteq Account,
             apart' \subseteq Account, spare' \in [requests : Nat, mishaps : Nat],
             data' \in Tables, WorkerType', PageType'
      PROVE  AccountsType'
  BY <1>1, <1>3 DEF AccountsType, WorldType, FormType
<1>4. worker' = worker => WorkerType'
  BY <1>1 DEF WorkerType
<1>5. /\ native' = native => native' \subseteq Account
      /\ spare' = spare => spare' \in [requests : Nat, mishaps : Nat]
      /\ apart' = apart => apart' \subseteq Account
      /\ Watch => apart' \subseteq Account
  BY <1>1, SetApartFine DEF WorldType, Watch
<1>6. \A what \in {"requests", "mishaps"} : Take(what) => spare' \in [requests : Nat, mishaps : Nat]
  BY <1>1, TakeFine DEF WorldType
<1>7. CASE Provision
  <2>1. /\ page.step = "provision" /\ UNCHANGED <<emailed, owners, data, worker, form, sweep, upload, apart, spare>>
        /\ MakeAccount(page.a) \/ InviteOrShare(page.a)
    BY <1>7 DEF Provision
  <2>2. page.a \in Account
    BY <1>2, <2>1
  <2>3. CASE MakeAccount(page.a)
    <3>1. \/ Answer /\ native' = native
          \/ native' = native \cup {page.a} /\ Turn("insert")
      BY <2>3 DEF MakeAccount
    <3>2. PageType' /\ native' \subseteq Account
      BY <1>1, <1>5, <2>2, <3>1, AnswerFine, TurnFine DEF WorldType
    <3> QED
      BY <1>1, <1>3, <1>4, <1>5, <2>1, <3>2
  <2>4. CASE InviteOrShare(page.a)
    <3>1. page' = [page EXCEPT !.step = "look", !.friend = page.a \in native] /\ native' = native
      BY <2>4 DEF InviteOrShare
    <3>2. \A b \in BOOLEAN : /\ [page EXCEPT !.step = "look", !.friend = b] \in Pages
                            /\ [page EXCEPT !.step = "look", !.friend = b].a = page.a
      BY <1>1, PagesAre DEF Pages
    <3>3. (page.a \in native) \in BOOLEAN
      OBVIOUS
    <3>4. page' \in Pages /\ page'.a = page.a
      BY <3>1, <3>2, <3>3
    <3>5. PageType'
      BY <2>2, <2>4, <3>4 DEF PageType, InviteOrShare
    <3> QED
      BY <1>1, <1>3, <1>4, <1>5, <2>1, <3>1, <3>5
  <2> QED
    BY <2>1, <2>3, <2>4
<1>8. CASE InsertJellyfinRow
  <2>1. /\ page.step = "insert" /\ Watch /\ UNCHANGED <<world, worker, form, sweep, upload, spare>>
        /\ \/ /\ MayInsert(Row(page.a), page.u) /\ data' = Held(Row(page.a), page.u) /\ Turn("identify")
           \/ Answer /\ data' = data
    BY <1>8 DEF InsertJellyfinRow
  <2>2. page.a \in Account
    BY <1>2, <2>1
  <2>3. data' \in Tables /\ PageType'
    BY <1>1, <2>1, <2>2, HeldType, AnswerFine, TurnFine
  <2> QED
    BY <1>3, <1>4, <1>5, <2>1, <2>3 DEF world
<1>9. CASE FindPlexRow
  <2> DEFINE a == page.a
             found == {r \in RowsOf(page.u) : r[2] \in Plex}
             accepted == {Row(a)} \cap {r \in Ref : page.friend /\ There(r)}
             named == {r \in Ref : There(r) /\ r[2] = a}
             rows == CASE found # {} -> found [] accepted # {} -> accepted [] OTHER -> named
  <2>1. page.step = "look" /\ UNCHANGED <<world, data, worker, form, sweep, upload, apart, spare>>
    BY <1>9 DEF FindPlexRow
  <2>2. PICK r \in IF rows = {} THEN {Nothing} ELSE rows : page' = [page EXCEPT !.step = "write", !.seen = r]
    BY <1>9 DEF FindPlexRow
  <2>3. rows \subseteq Ref
    BY DEF RowsOf
  <2> HIDE DEF rows
  <2>4. r \in Slot
    BY <2>2, <2>3 DEF Slot
  <2>5. page' \in Pages /\ page'.a = page.a
    BY <1>1, <2>2, <2>4, PagesAre DEF Pages
  <2>6. PageType'
    BY <1>1, <2>1, <2>5 DEF PageType
  <2> QED
    BY <1>1, <1>3, <1>4, <1>5, <2>1, <2>6 DEF world
<1>10. CASE WritePlexRow
  <2> DEFINE a == page.a
             wanted == IF page.friend THEN Row(a) ELSE Invitation(a)
             r == IF page.friend \/ page.seen \in {Nothing, Lost} THEN wanted ELSE page.seen
             fine == IF page.seen = Nothing THEN MayInsert(r, page.u) ELSE MayUpdate(page.seen, r, page.u)
             changed == IF page.seen = Nothing THEN Held(r, page.u) ELSE Updated(page.seen, r, page.u)
  <2>1. page.step = "write" /\ Watch /\ UNCHANGED <<world, form, sweep, upload, spare>>
    BY <1>10 DEF WritePlexRow
  <2>2. \/ /\ fine /\ data' = changed /\ worker' = FollowBoth(worker, {page.seen} \ {Nothing, Lost}, r)
           /\ Turn("identify") \/ Answer
        \/ Answer /\ UNCHANGED <<data, worker>>
    BY <1>10 DEF WritePlexRow
  <2>3. page.a \in Account
    BY <1>2, <2>1
  <2>4. r \in Ref
    <3>1. page.a \in Plex
      BY <1>1, <2>1 DEF PageType
    <3>2. wanted \in Ref
      BY <2>3, <3>1, SlotsDiffer
    <3> QED
      BY <1>1, <3>2 DEF Slot
  <2>5. data' \in Tables
    <3> HIDE DEF r
    <3> QED
      BY <1>1, <2>2, <2>4, HeldType, UpdatedType
  <2>6. WorkerType'
    <3> HIDE DEF r, changed
    <3> QED
      BY <1>1, <1>4, <2>2, <2>4, FollowBothFine DEF Slot
  <2>7. PageType'
    BY <1>1, <2>2, <2>3, TurnFine, AnswerFine
  <2> QED
    BY <1>3, <1>5, <2>1, <2>5, <2>6, <2>7 DEF world
<1>11. CASE Identify
  <2>1. /\ page.step = "identify" /\ Watch /\ Answer /\ UNCHANGED <<world, worker, form, sweep, upload, spare>>
        /\ data' = Identified(page.a, page.u) \/ data' = data
    BY <1>11 DEF Identify
  <2>2. page.a \in Account
    BY <1>2, <2>1
  <2>3. data' \in Tables
    BY <1>1, <2>1, <2>2, IdentifiedType
  <2> QED
    BY <1>3, <1>4, <1>5, <2>1, <2>3, AnswerFine DEF world
<1>12. CASE ProvisionFails
  <2>1. /\ page.step = "provision" /\ Take("mishaps") /\ Answer
        /\ native' = native \/ native' = native \cup {page.a}
        /\ UNCHANGED <<emailed, owners, data, worker, form, sweep, upload, apart>>
    BY <1>12 DEF ProvisionFails, MakeHalf
  <2>2. native' \subseteq Account
    BY <1>1, <1>2, <2>1 DEF WorldType
  <2> QED
    BY <1>1, <1>3, <1>4, <1>5, <1>6, <2>1, <2>2, AnswerFine
<1>13. ASSUME NEW a \in Account, CreateUser(a) PROVE AccountsType'
  <2> DEFINE mail == IF a \in Plex THEN a ELSE None
  <2>1. /\ data' = Inserted(Person(a, mail)) /\ Take("requests")
        /\ page' = [NoPage EXCEPT !.step = "provision", !.a = a, !.u = Fresh]
        /\ UNCHANGED <<world, worker, form, sweep, upload, apart>>
    BY <1>13 DEF CreateUser
  <2>2. a \in Names /\ mail \in Names
    BY DEF Names
  <2>3. Person(a, mail) \in People
    BY <2>2, PersonType
  <2>4. data' \in Tables
    BY <1>1, <2>1, <2>3, InsertedType
  <2>5. page' \in Pages /\ page'.a = a /\ page'.step = "provision"
    BY <1>1, <2>1, <2>2, RestTypes, UsersAreNumbers, PagesAre DEF Pages
  <2>6. PageType'
    BY <2>5 DEF PageType
  <2> QED
    BY <1>3, <1>4, <1>5, <1>6, <2>1, <2>4, <2>6 DEF world
<1>14. ASSUME NEW a \in Account, Accept(a) PROVE AccountsType'
  <2>1. native' = native \cup {a} /\ UNCHANGED <<emailed, owners, data, worker, requests, upload, apart, spare>>
    BY <1>14 DEF Accept
  <2>2. native' \subseteq Account /\ PageType' /\ UNCHANGED <<form, sweep>>
    BY <1>1, <2>1 DEF WorldType, requests, PageType
  <2> QED
    BY <1>1, <1>3, <1>4, <1>5, <2>1, <2>2
<1> QED
  BY <1>7, <1>8, <1>9, <1>10, <1>11, <1>12, <1>13, <1>14

LEMMA SubmitFine ==
    ASSUME FormType, NEW step \in Merge, form.step \in {"rows"} \cup Merge, Submit(step)
    PROVE  FormType'
<1>1. form \in Forms /\ form' = [form EXCEPT !.step = step] /\ form.other # 0 /\ form.master # 0
  BY DEF Submit, FormType, Merge
<1>2. /\ form' \in Forms /\ form'.step = step /\ form'.other = form.other
      /\ form'.master = form.master
  BY <1>1, FormsAre DEF Forms
<1> QED
  BY <1>1, <1>2 DEF FormType

LEMMA ClosedFine == ASSUME form' = NoForm PROVE FormType'
  BY RestTypes DEF FormType, Merge

LEMMA EditingTypes ==
    ASSUME AccountsType,
           \/ MoveRows \/ DropDuplicates \/ MoveIdentities \/ MergeFields \/ DeleteOther \/ EraseUser
           \/ \E u \in Users : DeleteUser(u) \/ \E v \in Users : MergeUsers(u, v)
    PROVE  AccountsType'
<1>1. /\ data \in Tables /\ form \in Forms /\ WorkerType /\ WorldType /\ PageType /\ FormType
      /\ sweep \in Sweeps /\ form.master \in Nat /\ form.other \in Nat /\ form.mail \in Names
  BY TypeParts, FormsAre DEF Pieces, FormType
<1>2. ASSUME UNCHANGED <<world, sweep, upload>>, apart' \subseteq Account,
             spare' \in [requests : Nat, mishaps : Nat], data' \in Tables, WorkerType', PageType', FormType'
      PROVE  AccountsType'
  BY <1>1, <1>2 DEF AccountsType, WorldType, world
<1>3. /\ worker' = worker => WorkerType'
      /\ page' = page => PageType'
      /\ spare' = spare => spare' \in [requests : Nat, mishaps : Nat]
      /\ apart' = apart => apart' \subseteq Account
      /\ \A S : SetApart(S) => apart' \subseteq Account
  BY <1>1, SetApartFine DEF WorkerType, PageType, WorldType
<1>4. Take("requests") => spare' \in [requests : Nat, mishaps : Nat]
  BY <1>1, TakeFine DEF WorldType
<1>5. CASE MoveRows
  <2> DEFINE moved == [r \in Ref |-> IF r \in RowsOf(form.other) THEN form.master ELSE data.media[r]]
  <2>1. form.step = "rows" /\ UNCHANGED <<world, worker, page, sweep, upload, apart, spare>>
    BY <1>5 DEF MoveRows
  <2>2. \/ data' = [data EXCEPT !.media = moved] /\ Submit("duplicates")
        \/ form' = NoForm /\ data' = data
    BY <1>5 DEF MoveRows
  <2>3. moved \in [Ref -> Nat]
    BY <1>1, TablesAre
  <2>4. data' \in Tables
    <3> HIDE DEF moved
    <3> QED
      BY <1>1, <2>2, <2>3, TablesAre DEF Tables
  <2>5. FormType'
    BY <1>1, <2>1, <2>2, SubmitFine, ClosedFine DEF Merge
  <2> QED
    BY <1>2, <1>3, <2>1, <2>4, <2>5
<1>6. CASE DropDuplicates
  <2> DEFINE left == [a \in Account |-> IF OfBoth(data.identity[a]) THEN Without(data.identity[a], form.other)
                                        ELSE data.identity[a]]
  <2>1. /\ form.step = "duplicates" /\ Submit("identities") /\ data' = [data EXCEPT !.identity = left]
        /\ UNCHANGED <<world, worker, page, sweep, upload, spare>> /\ \E S : SetApart(S)
    BY <1>6 DEF DropDuplicates
  <2>2. left \in [Account -> Seq(Nat)]
    BY <1>1, TablesAre, WithoutType
  <2>3. data' \in Tables
    <3> HIDE DEF left
    <3> QED
      BY <1>1, <2>1, <2>2, TablesAre DEF Tables
  <2>4. FormType'
    BY <1>1, <2>1, SubmitFine DEF Merge
  <2> QED
    BY <1>2, <1>3, <2>1, <2>3, <2>4
<1>7. CASE MoveIdentities
  <2> DEFINE moved == [a \in Account |-> [i \in DOMAIN data.identity[a] |-> Inherited(data.identity[a][i])]]
  <2>1. form.step = "identities" /\ UNCHANGED <<world, worker, page, sweep, upload, spare>>
    BY <1>7 DEF MoveIdentities
  <2>2. \/ data' = [data EXCEPT !.identity = moved] /\ Submit("fields") /\ apart' = apart
        \/ form' = NoForm /\ data' = data /\ SetApart(Account)
    BY <1>7 DEF MoveIdentities
  <2>3. moved \in [Account -> Seq(Nat)]
    BY <1>1, TablesAre, InheritedType
  <2>4. data' \in Tables
    <3> HIDE DEF moved
    <3> QED
      BY <1>1, <2>2, <2>3, TablesAre DEF Tables
  <2>5. FormType'
    BY <1>1, <2>1, <2>2, SubmitFine, ClosedFine DEF Merge
  <2> QED
    BY <1>2, <1>3, <2>1, <2>2, <2>4, <2>5
<1>8. CASE MergeFields
  <2> DEFINE x == form.master
             filled == [data.person EXCEPT ![x].mail = form.mail]
  <2>1. form.step = "fields" /\ Submit("delete") /\ UNCHANGED <<world, worker, page, sweep, upload, apart, spare>>
    BY <1>8 DEF MergeFields
  <2>2. data' = data \/ data' = [data EXCEPT !.person = filled]
    <3>1. data' = data \/ data' = [data EXCEPT !.person[x].mail = form.mail]
      BY <1>8 DEF MergeFields
    <3>2. [data EXCEPT !.person[x].mail = form.mail] = [data EXCEPT !.person = filled]
      BY <1>1, TablesAre
    <3> QED
      BY <3>1, <3>2
  <2>3. filled \in Seq(People)
    <3>1. Len(data.person) \in Nat /\ data.person \in [1..Len(data.person) -> People]
      BY <1>1, TablesAre
    <3>2. x \in DOMAIN data.person => [data.person[x] EXCEPT !.mail = form.mail] \in People
      <4>1. x \in DOMAIN data.person => data.person[x] \in People
        BY <3>1
      <4>2. ASSUME NEW q \in People, NEW mail \in Names PROVE [q EXCEPT !.mail = mail] \in People
        BY DEF People
      <4> QED
        BY <1>1, <4>1, <4>2
    <3>3. filled \in [1..Len(data.person) -> People]
      BY <3>1, <3>2
    <3> QED
      BY <3>1, <3>3
  <2>4. data' \in Tables
    <3> HIDE DEF filled
    <3> QED
      BY <1>1, <2>2, <2>3, TablesAre DEF Tables
  <2>5. FormType'
    BY <1>1, <2>1, SubmitFine DEF Merge
  <2> QED
    BY <1>2, <1>3, <2>1, <2>4, <2>5
<1>9. CASE DeleteOther
  <2>1. /\ form' = NoForm /\ UNCHANGED <<world, worker, page, sweep, upload, spare>>
        /\ \/ data' = Forgotten(data, form.other) /\ apart' = apart
           \/ data' = data /\ SetApart(Account)
    BY <1>9 DEF DeleteOther
  <2>2. data' \in Tables /\ FormType'
    BY <1>1, <2>1, ForgottenType, ClosedFine
  <2> QED
    BY <1>2, <1>3, <2>1, <2>2
<1>10. CASE EraseUser
  <2> DEFINE rows == RowsOf(form.other)
  <2>1. /\ form' = NoForm /\ data' = Forgotten(Erased(rows), form.other)
        /\ worker' = FollowBoth(worker, rows, Lost) /\ page' = Follow(page, rows, Lost)
        /\ UNCHANGED <<world, sweep, upload, apart, spare>>
    BY <1>10 DEF EraseUser
  <2> HIDE DEF rows
  <2>2. data' \in Tables /\ FormType'
    BY <1>1, <2>1, ErasedType, ForgottenType, ClosedFine
  <2>3. WorkerType' /\ PageType'
    BY <1>1, <2>1, FollowFine, FollowBothFine DEF Slot
  <2> QED
    BY <1>2, <1>3, <2>1, <2>2, <2>3
<1>11. ASSUME NEW u \in Users, DeleteUser(u) PROVE AccountsType'
  <2>1. /\ form' = [NoForm EXCEPT !.step = "erase", !.other = u] /\ Take("requests")
        /\ UNCHANGED <<world, data, worker, page, sweep, upload, apart>>
    BY <1>11 DEF DeleteUser
  <2>2. u \in Nat \ {0}
    BY <1>1, UsersAreNumbers
  <2>3. form' \in Forms /\ form'.step = "erase" /\ form'.other # 0
    BY <2>1, <2>2, RestTypes, FormsAre DEF Forms
  <2>4. FormType'
    BY <2>3 DEF FormType, Merge
  <2> QED
    BY <1>1, <1>2, <1>3, <1>4, <2>1, <2>4
<1>12. ASSUME NEW u \in Users, NEW v \in Users, MergeUsers(u, v) PROVE AccountsType'
  <2> DEFINE mail == IF data.person[u].mail = None THEN data.person[v].mail ELSE data.person[u].mail
  <2>1. /\ form' = [step |-> "rows", master |-> u, other |-> v, mail |-> mail] /\ Take("requests")
        /\ UNCHANGED <<world, data, worker, page, sweep, upload, apart>>
    BY <1>12 DEF MergeUsers
  <2>2. u \in Nat \ {0} /\ v \in Nat \ {0} /\ u \in DOMAIN data.person /\ v \in DOMAIN data.person
    BY <1>1, UsersAreNumbers
  <2>3. data.person[u] \in People /\ data.person[v] \in People
    BY <1>1, <2>2, TablesAre
  <2>4. mail \in Names
    BY <2>3 DEF People
  <2> HIDE DEF mail
  <2>5. form' \in Forms /\ form'.other # 0 /\ form'.master # 0
    BY <2>1, <2>2, <2>4 DEF Forms
  <2>6. FormType'
    BY <2>5 DEF FormType
  <2> QED
    BY <1>1, <1>2, <1>3, <1>4, <2>1, <2>6
<1> QED
  BY <1>5, <1>6, <1>7, <1>8, <1>9, <1>10, <1>11, <1>12

LEMMA SweepingTypes ==
    ASSUME AccountsType,
           \/ SweepIdentities \/ SweepRows \/ SweepServer \/ Upload \/ AccountsDeath
           \/ \E s \in data.up : DeleteServer(s)
    PROVE  AccountsType'
<1>1. /\ data \in Tables /\ WorkerType /\ WorldType /\ PageType /\ FormType /\ sweep \in Sweeps
  BY TypeParts DEF Pieces
<1>2. ASSUME UNCHANGED world, upload' \in Uploads, apart' \subseteq Account,
             spare' \in [requests : Nat, mishaps : Nat], data' \in Tables, WorkerType', PageType', FormType',
             sweep' \in Sweeps
      PROVE  AccountsType'
  BY <1>1, <1>2 DEF AccountsType, WorldType, world, Uploads
<1>3. /\ worker' = worker => WorkerType'
      /\ page' = page => PageType'
      /\ form' = form => FormType'
      /\ upload' = upload => upload' \in Uploads
      /\ spare' = spare => spare' \in [requests : Nat, mishaps : Nat]
      /\ apart' = apart => apart' \subseteq Account
      /\ \A S : SetApart(S) => apart' \subseteq Account
  BY <1>1, SetApartFine DEF WorkerType, PageType, FormType, WorldType, Uploads
<1>4. \A what \in {"requests", "mishaps"} : Take(what) => spare' \in [requests : Nat, mishaps : Nat]
  BY <1>1, TakeFine DEF WorldType
<1>5. CASE SweepIdentities
  <2> DEFINE left == [a \in Account |-> IF a \in Jellyfin /\ ServerOf(a) = sweep.server THEN <<>> ELSE data.identity[a]]
  <2>1. /\ sweep' = [sweep EXCEPT !.step = "rows"] /\ data' = [data EXCEPT !.identity = left]
        /\ UNCHANGED <<world, worker, page, form, upload, spare>> /\ \E S : SetApart(S)
    BY <1>5 DEF SweepIdentities
  <2>2. left \in [Account -> Seq(Nat)]
    BY <1>1, TablesAre
  <2>3. data' \in Tables
    <3> HIDE DEF left
    <3> QED
      BY <1>1, <2>1, <2>2, TablesAre DEF Tables
  <2>4. sweep' \in Sweeps
    BY <1>1, <2>1 DEF Sweeps
  <2> QED
    BY <1>2, <1>3, <2>1, <2>3, <2>4
<1>6. CASE SweepRows
  <2> DEFINE rows == RowsAt(sweep.server)
  <2>1. /\ sweep' = [sweep EXCEPT !.step = "server"] /\ data' = Erased(rows)
        /\ worker' = FollowBoth(worker, rows, Lost) /\ page' = Follow(page, rows, Lost)
        /\ UNCHANGED <<world, form, upload, apart, spare>>
    BY <1>6 DEF SweepRows
  <2> HIDE DEF rows
  <2>2. data' \in Tables /\ WorkerType' /\ PageType'
    BY <1>1, <2>1, ErasedType, FollowFine, FollowBothFine DEF Slot
  <2>3. sweep' \in Sweeps
    BY <1>1, <2>1 DEF Sweeps
  <2> QED
    BY <1>2, <1>3, <2>1, <2>2, <2>3
<1>7. CASE SweepServer
  <2> DEFINE left == [a \in Account |-> IF a \in Jellyfin /\ sweep.server = "jellyfin" THEN <<>> ELSE data.identity[a]]
             up == data.up \ {sweep.server}
  <2>1. /\ sweep' = NoSweep /\ UNCHANGED <<world, worker, page, form, upload, apart, spare>>
        /\ data' = data \/ data' = [data EXCEPT !.up = up, !.identity = left]
    BY <1>7 DEF SweepServer
  <2>2. left \in [Account -> Seq(Nat)] /\ up \subseteq {"plex", "jellyfin"}
    BY <1>1, TablesAre
  <2>3. data' \in Tables
    <3> HIDE DEF left, up
    <3>1. [data EXCEPT !.up = up, !.identity = left] \in Tables
      BY <1>1, <2>2, TablesAre DEF Tables
    <3>2. data' = data \/ data' = [data EXCEPT !.up = up, !.identity = left]
      BY <2>1
    <3> QED
      BY <1>1, <3>1, <3>2
  <2> QED
    BY <1>2, <1>3, <2>1, <2>3, RestTypes
<1>8. CASE Upload
  <2>1. Take("requests") /\ upload' = "queued" /\ UNCHANGED <<world, data, worker, requests, apart>>
    BY <1>8 DEF Upload
  <2>2. UNCHANGED <<page, form, sweep>> /\ upload' \in Uploads
    BY <2>1 DEF requests, Uploads
  <2> QED
    BY <1>1, <1>2, <1>3, <1>4, <2>1, <2>2
<1>9. CASE AccountsDeath
  <2>1. /\ Take("mishaps") /\ worker' = NoTask /\ page' = NoPage /\ form' = NoForm /\ sweep' = NoSweep
        /\ UNCHANGED <<world, data, upload>> /\ (SetApart(Account) \/ apart' = apart)
    BY <1>9 DEF AccountsDeath
  <2>2. WorkerType' /\ PageType' /\ FormType'
    BY <2>1, RestTypes, ClosedFine DEF WorkerType, PageType
  <2> QED
    BY <1>1, <1>2, <1>3, <1>4, <2>1, <2>2, RestTypes
<1>10. ASSUME NEW s \in data.up, DeleteServer(s) PROVE AccountsType'
  <2>1. /\ sweep' = [step |-> "identities", server |-> s] /\ Take("requests")
        /\ UNCHANGED <<world, data, worker, page, form, upload, apart>>
    BY <1>10 DEF DeleteServer
  <2>2. s \in {"plex", "jellyfin"}
    BY <1>1, TablesAre
  <2>3. sweep' \in Sweeps
    BY <2>1, <2>2 DEF Sweeps
  <2> QED
    BY <1>1, <1>2, <1>3, <1>4, <2>1, <2>3
<1> QED
  BY <1>5, <1>6, <1>7, <1>8, <1>9, <1>10

\* Whatever the process does, its tables and its hands hold what the code
\* puts there: an account where a row or an identity is written, a user where
\* one is merged or deleted.
THEOREM AccountsTypeCorrect == AccountsSpec => []AccountsType
<1>1. AccountsInit => AccountsType
  <2> SUFFICES ASSUME AccountsInit PROVE AccountsType
    OBVIOUS
  <2>1. /\ native \subseteq Account /\ emailed \subseteq Plex /\ owners \subseteq Account /\ upload = None
        /\ apart = {} /\ spare \in [requests : 0..MaxRequests, mishaps : 0..MaxMishaps]
        /\ worker = NoTask /\ page = NoPage /\ form = NoForm /\ sweep = NoSweep
    BY DEF AccountsInit
  <2>2. 0..MaxRequests \subseteq Nat /\ 0..MaxMishaps \subseteq Nat
    BY AccountBounds
  <2>3. WorldType
    BY <2>1, <2>2 DEF WorldType
  <2>4. data \in Tables
    <3>1. <<>> \in Seq(People) /\ [r \in Ref |-> 0] \in [Ref -> Nat] /\ [a \in Account |-> <<>>] \in [Account -> Seq(Nat)]
      OBVIOUS
    <3> QED
      BY <3>1 DEF AccountsInit, Tables
  <2>5. WorkerType /\ PageType /\ FormType /\ sweep \in Sweeps
    BY <2>1, RestTypes DEF WorkerType, PageType, FormType, Merge
  <2> QED
    BY <2>3, <2>4, <2>5 DEF AccountsType
<1>2. AccountsType /\ [AccountsNext]_accountVars => AccountsType'
  <2> SUFFICES ASSUME AccountsType, [AccountsNext]_accountVars PROVE AccountsType'
    OBVIOUS
  <2>1. CASE UNCHANGED accountVars
    BY <2>1 DEF accountVars, world, requests, AccountsType, WorldType, WorkerType, PageType, FormType
  <2>2. CASE RunPlexSync \/ RunJellyfinSync
    BY <2>2, FindingTypes
  <2>3. CASE RunImport
    BY <2>3, WritingTypes
  <2>4. CASE Working
    BY <2>4, FindingTypes, WritingTypes DEF Working
  <2>5. CASE Creating
    BY <2>5, CreatingTypes DEF Creating
  <2>6. CASE Editing
    BY <2>6, EditingTypes DEF Editing
  <2>7. CASE Sweeping
    BY <2>7, SweepingTypes DEF Sweeping
  <2>8. CASE Elsewhere
    BY <2>8, WritingTypes, CreatingTypes, EditingTypes, SweepingTypes DEF Elsewhere
  <2> QED
    BY <2>1, <2>2, <2>3, <2>4, <2>5, <2>6, <2>7, <2>8 DEF AccountsNext
<1> QED
  BY <1>1, <1>2, PTL DEF AccountsSpec

----------------------------------------------------------------------------
(***************************************************************************)
(* Rows and identities.                                                     *)
(***************************************************************************)
\* The oldest identity h of an account and the holder m of its row are those
\* of one user; the first statements of a merge move the rows, or the last
\* statement but one the identities, before the other.
Agrees(h, m, f) ==
    m # 0 => /\ h # 0
             /\ \/ h = m
                \/ f.step \in {"duplicates", "identities"} /\ h = f.other /\ m = f.master
                \/ f.step \in {"identities", "fields", "delete"} /\ h = f.master /\ m = f.other

Agreement == \A a \in Account \ apart : Agrees(Identity(a), Holder(Row(a)), form)

\* h and m after a step.
NewIdentity(a) == Eldest(data'.identity[a])
NewHolder(a) == data'.media[Row(a)]

LEMMA AgreesAfter ==
    ASSUME \A a \in Account \ apart' : Agrees(NewIdentity(a), NewHolder(a), form')
    PROVE  Agreement'
  BY DEF Agreement, Agrees, NewIdentity, NewHolder, Identity, Holder

LEMMA ApartAgrees ==
    ASSUME NEW S, SetApart(S),
           \A a \in Account \ (apart \cup S) : Agrees(NewIdentity(a), NewHolder(a), form')
    PROVE  Agreement'
<1>1. ASSUME NEW a \in Account \ apart' PROVE Agrees(NewIdentity(a), NewHolder(a), form')
  <2>1. CASE Apart(data', a)
    <3>1. a \notin apart \cup S
      BY <1>1, <2>1 DEF SetApart
    <3> QED
      BY <3>1
  <2>2. CASE ~Apart(data', a)
    <3>1. NewHolder(a) = 0 \/ NewHolder(a) = NewIdentity(a)
      BY <2>2 DEF Apart, NewHolder, NewIdentity
    <3> QED
      BY <3>1 DEF Agrees
  <2> QED
    BY <2>1, <2>2
<1> QED
  BY <1>1, AgreesAfter

LEMMA WatchAgrees ==
    ASSUME Agreement, Watch, form' = form,
           \A a \in Account : Known(a) => NewIdentity(a) = Identity(a)
    PROVE  Agreement'
<1> DEFINE S == {a \in Account : data'.media[Row(a)] # Holder(Row(a))}
<1>1. ASSUME NEW a \in Account \ (apart \cup S) PROVE Agrees(NewIdentity(a), NewHolder(a), form')
  <2>1. NewHolder(a) = Holder(Row(a)) /\ Agrees(Identity(a), Holder(Row(a)), form)
    BY <1>1 DEF Agreement, NewHolder
  <2> QED
    BY <2>1 DEF Agrees, Known
<1>2. SetApart(S)
  BY DEF Watch
<1> HIDE DEF S
<1> QED
  BY <1>1, <1>2, ApartAgrees

\* A step that changes neither, or that takes rows away.
LEMMA UnmovedAgrees ==
    ASSUME Agreement, apart' = apart, form' = form,
           \A a \in Account : /\ NewHolder(a) = 0 \/ NewHolder(a) = Holder(Row(a))
                             /\ NewIdentity(a) = Identity(a)
    PROVE  Agreement'
<1>1. ASSUME NEW a \in Account \ apart' PROVE Agrees(NewIdentity(a), NewHolder(a), form')
  <2>1. Agrees(Identity(a), Holder(Row(a)), form)
    BY DEF Agreement
  <2> QED
    BY <2>1 DEF Agrees
<1> QED
  BY <1>1, AgreesAfter

LEMMA SameData ==
    ASSUME data'.media = data.media /\ data'.identity = data.identity
    PROVE  \A a \in Account : NewHolder(a) = Holder(Row(a)) /\ NewIdentity(a) = Identity(a)
  BY DEF NewHolder, Holder, NewIdentity, Identity

LEMMA SameIdentities ==
    ASSUME data'.identity = data.identity PROVE \A a \in Account : NewIdentity(a) = Identity(a)
  BY DEF NewIdentity, Identity

LEMMA ErasedLooks ==
    ASSUME data \in Tables, NEW S, data' = Erased(S)
    PROVE  \A a \in Account : /\ NewHolder(a) = 0 \/ NewHolder(a) = Holder(Row(a))
                             /\ NewIdentity(a) = Identity(a)
<1>1. /\ data'.identity = data.identity
      /\ data'.media = [r \in Ref |-> IF r \in S THEN 0 ELSE data.media[r]]
  BY ErasedType
<1> QED
  BY <1>1, SlotsDiffer, SameIdentities DEF NewHolder, Holder

LEMMA WorkingAgrees ==
    ASSUME AccountsType, Agreement,
           Working \/ RunPlexSync \/ RunJellyfinSync \/ RunImport
    PROVE  Agreement'
<1>1. /\ data \in Tables /\ WorkerType /\ worker.u \in Nat /\ worker.seen \in Slot
      /\ worker.step \notin {"rest", "next"} => worker.a \in Account
  BY TypeParts, TasksAre, WorkerBusy DEF Pieces
<1>2. ASSUME UNCHANGED <<data, apart, form>> PROVE Agreement'
  BY <1>2, UnmovedAgrees, SameData
<1>3. CASE RunPlexSync \/ RunJellyfinSync \/ RunImport
  BY <1>2, <1>3 DEF RunPlexSync, RunJellyfinSync, RunImport, requests
<1>4. CASE \E a \in Plex : FindPlexIdentity(a) \/ ImportFindsUser(a)
  BY <1>2, <1>4 DEF FindPlexIdentity, ImportFindsUser, requests
<1>5. CASE (\E a \in Jellyfin : FindJellyfinRow(a)) \/ FindByMail \/ FindJellyfinIdentity \/ FindRows
  BY <1>2, <1>5 DEF FindJellyfinRow, FindByMail, FindJellyfinIdentity, FindRows, requests
<1>6. CASE ReadOwnId
  BY <1>2, <1>6 DEF ReadOwnId, requests
<1>7. CASE InsertUser
  <2>1. PICK person : data' = Inserted(person)
    BY <1>7 DEF InsertUser
  <2>2. data'.media = data.media /\ data'.identity = data.identity
    BY <1>1, <2>1, TablesAre DEF Inserted
  <2>3. apart' = apart /\ form' = form
    BY <1>7 DEF InsertUser, requests
  <2> QED
    BY <2>2, <2>3, UnmovedAgrees, SameData
<1>8. CASE ClaimIdentity \/ JoinIdentity
  <2>1. worker.step \in {"claim", "join"} /\ Watch /\ form' = form
    BY <1>8 DEF ClaimIdentity, JoinIdentity, Doing, requests
  <2>2. data' = Identified(worker.a, worker.u) \/ data' = data
    BY <1>8 DEF ClaimIdentity, JoinIdentity, Raise
  <2>3. \A b \in Account : Known(b) => NewIdentity(b) = Identity(b)
    BY <1>1, <2>1, <2>2, IdentifiedType, SameIdentities DEF NewIdentity
  <2> QED
    BY <2>1, <2>3, WatchAgrees
<1>9. CASE Fold
  <2>1. apart' = apart /\ form' = form /\ (data' = data \/ data' = Erased({worker.pending}))
    BY <1>9 DEF Fold
  <2> QED
    BY <1>1, <1>2, <2>1, ErasedLooks, UnmovedAgrees
<1>10. CASE WriteRow
  <2> DEFINE r == Row(worker.a)
             seen == worker.seen
             changed == IF seen = Nothing THEN Held(r, worker.u) ELSE Updated(seen, r, worker.u)
             fine == IF seen = Nothing THEN MayInsert(r, worker.u) ELSE MayUpdate(seen, r, worker.u)
  <2>1. worker.step = "write" /\ Watch /\ form' = form
    BY <1>10 DEF WriteRow
  <2>2. data' = data \/ (fine /\ \E owned : data' = [changed EXCEPT !.owned = owned])
    BY <1>10 DEF WriteRow, Raise
  <2>3. r \in Ref
    BY <1>1, <2>1, SlotsDiffer
  <2>4. fine => changed \in Tables /\ changed.identity = data.identity
    BY <1>1, <2>3, HeldType, UpdatedType
  <2> HIDE DEF changed, fine
  <2>5. data'.identity = data.identity
    BY <2>2, <2>4, TablesAre
  <2> QED
    BY <2>1, <2>5, WatchAgrees, SameIdentities
<1>11. CASE Exempt
  <2>1. apart' = apart /\ form' = form
    BY <1>11 DEF Exempt, requests
  <2>2. \/ data' = data
        \/ data' = [data EXCEPT !.person[worker.u].exempt = worker.u \in Users,
                                !.owned = IF There(Row(worker.a)) THEN @ \cup {worker.a} ELSE @]
    BY <1>11 DEF Exempt
  <2>3. data'.media = data.media /\ data'.identity = data.identity
    BY <1>1, <2>2, TablesAre
  <2> QED
    BY <2>1, <2>3, UnmovedAgrees, SameData
<1>12. CASE ImportPlacesRow
  <2>1. Watch /\ form' = form /\ (data' = data \/ data' = Held(Row(worker.a), worker.u))
    BY <1>12 DEF ImportPlacesRow, Raise, requests
  <2>2. data'.identity = data.identity
    BY <1>1, <2>1, HeldType
  <2> QED
    BY <2>1, <2>2, WatchAgrees, SameIdentities
<1> QED
  BY <1>3, <1>4, <1>5, <1>6, <1>7, <1>8, <1>9, <1>10, <1>11, <1>12 DEF Working

LEMMA CreatingAgrees ==
    ASSUME AccountsType, Agreement,
           \/ Creating \/ ProvisionFails \/ Upload
           \/ \E a \in Account : CreateUser(a) \/ Accept(a)
           \/ \E u \in DOMAIN data.person : ReadOthersId(u)
    PROVE  Agreement'
<1>1. /\ data \in Tables /\ page \in Pages /\ PageType /\ page.u \in Nat /\ page.seen \in Slot
      /\ page.step # "rest" => page.a \in Account
  BY TypeParts, PagesAre DEF Pieces, PageType
<1>2. ASSUME UNCHANGED <<data, apart, form>> PROVE Agreement'
  BY <1>2, UnmovedAgrees, SameData
<1>3. CASE Provision \/ FindPlexRow \/ ProvisionFails
  BY <1>2, <1>3 DEF Provision, FindPlexRow, ProvisionFails
<1>4. CASE Upload \/ \E u \in DOMAIN data.person : ReadOthersId(u)
  BY <1>2, <1>4 DEF Upload, ReadOthersId, requests
<1>5. CASE \E a \in Account : Accept(a)
  BY <1>2, <1>5 DEF Accept, requests
<1>6. CASE InsertJellyfinRow
  <2>1. Watch /\ form' = form /\ (data' = data \/ data' = Held(Row(page.a), page.u))
    BY <1>6 DEF InsertJellyfinRow
  <2>2. data'.identity = data.identity
    BY <1>1, <2>1, HeldType
  <2> QED
    BY <2>1, <2>2, WatchAgrees, SameIdentities
<1>7. CASE WritePlexRow
  <2> DEFINE wanted == IF page.friend THEN Row(page.a) ELSE Invitation(page.a)
             r == IF page.friend \/ page.seen \in {Nothing, Lost} THEN wanted ELSE page.seen
  <2>1. page.step = "write" /\ Watch /\ form' = form
    BY <1>7 DEF WritePlexRow
  <2>2. \/ data' = data
        \/ data' = Held(r, page.u)
        \/ MayUpdate(page.seen, r, page.u) /\ data' = Updated(page.seen, r, page.u)
    BY <1>7 DEF WritePlexRow
  <2>3. page.a \in Plex /\ page.a \in Account
    BY <1>1, <2>1 DEF PageType
  <2>4. r \in Ref
    BY <1>1, <2>3, SlotsDiffer DEF Slot
  <2> HIDE DEF r
  <2>5. data'.identity = data.identity
    BY <1>1, <2>2, <2>4, HeldType, UpdatedType
  <2> QED
    BY <2>1, <2>5, WatchAgrees, SameIdentities
<1>8. CASE Identify
  <2>1. /\ page.step = "identify" /\ Watch /\ form' = form
        /\ data' = Identified(page.a, page.u) \/ data' = data
    BY <1>8 DEF Identify
  <2>2. \A b \in Account : Known(b) => NewIdentity(b) = Identity(b)
    BY <1>1, <2>1, IdentifiedType, SameIdentities DEF NewIdentity
  <2> QED
    BY <2>1, <2>2, WatchAgrees
<1>9. ASSUME NEW a \in Account, CreateUser(a) PROVE Agreement'
  <2>1. apart' = apart /\ form' = form /\ \E person : data' = Inserted(person)
    BY <1>9 DEF CreateUser
  <2>2. data'.media = data.media /\ data'.identity = data.identity
    BY <1>1, <2>1, TablesAre DEF Inserted
  <2> QED
    BY <2>1, <2>2, UnmovedAgrees, SameData
<1> QED
  BY <1>3, <1>4, <1>5, <1>6, <1>7, <1>8, <1>9 DEF Creating

LEMMA EditingAgrees ==
    ASSUME AccountsType, Agreement,
           \/ Editing
           \/ \E u \in Users : DeleteUser(u) \/ \E v \in Users : MergeUsers(u, v)
    PROVE  Agreement'
<1>1. /\ data \in Tables /\ form \in Forms /\ FormType /\ form.master \in Nat /\ form.other \in Nat
  BY TypeParts, FormsAre DEF Pieces, FormType
<1> DEFINE x == form.master
           o == form.other
<1>2. \A a \in Account : Row(a) \in Ref /\ data.identity[a] \in Seq(Nat)
  BY <1>1, SlotsDiffer, TablesAre
<1>3. \A a \in Account \ apart : Agrees(Identity(a), Holder(Row(a)), form)
  BY DEF Agreement
<1>4. \A step : Submit(step) => form'.step = step /\ form'.other = o /\ form'.master = x
  BY <1>1, FormsAre DEF Submit
<1>5. CASE MoveRows
  <2> DEFINE moved == [r \in Ref |-> IF r \in RowsOf(o) THEN x ELSE data.media[r]]
  <2>1. form.step = "rows" /\ apart' = apart /\ o # 0
    BY <1>1, <1>5 DEF MoveRows, FormType
  <2>2. \/ data' = [data EXCEPT !.media = moved] /\ Submit("duplicates")
        \/ data' = data
    BY <1>5 DEF MoveRows
  <2>3. \A a \in Account \ apart : Holder(Row(a)) # 0 => Known(a) /\ Identity(a) = Holder(Row(a))
    BY <1>3, <2>1 DEF Agrees, Known
  <2>4. CASE data' = data
    BY <2>1, <2>3, <2>4, SameData, AgreesAfter DEF Agrees, Known
  <2>5. CASE data' = [data EXCEPT !.media = moved] /\ Submit("duplicates")
    <3>1. data'.media = moved /\ data'.identity = data.identity
      BY <1>1, <2>5, TablesAre
    <3>2. form'.step = "duplicates" /\ form'.other = o /\ form'.master = x
      BY <1>4, <2>5
    <3>3. ASSUME NEW a \in Account \ apart' PROVE Agrees(NewIdentity(a), NewHolder(a), form')
      <4>1. NewIdentity(a) = Identity(a) /\ NewHolder(a) = IF Holder(Row(a)) = o THEN x ELSE Holder(Row(a))
        BY <1>2, <3>1, SameIdentities DEF NewHolder, Holder, RowsOf
      <4>2. Holder(Row(a)) # 0 => Known(a) /\ Identity(a) = Holder(Row(a))
        BY <2>1, <2>3
      <4> QED
        BY <2>1, <3>2, <4>1, <4>2 DEF Agrees, Known
    <3> QED
      BY <3>3, AgreesAfter
  <2> QED
    BY <2>2, <2>4, <2>5
<1>6. CASE DropDuplicates
  <2> DEFINE left == [a \in Account |-> IF OfBoth(data.identity[a]) THEN Without(data.identity[a], o)
                                        ELSE data.identity[a]]
             S == {a \in Account : Eldest(data'.identity[a]) \notin {Identity(a), x}}
  <2>1. /\ form.step = "duplicates" /\ Submit("identities") /\ data' = [data EXCEPT !.identity = left]
        /\ SetApart(S) /\ x # 0
    BY <1>1, <1>6 DEF DropDuplicates, FormType, Merge
  <2>2. form'.step = "identities" /\ form'.other = o /\ form'.master = x
    BY <1>4, <2>1
  <2>3. data'.identity = left /\ data'.media = data.media
    BY <1>1, <2>1, TablesAre
  <2>4. ASSUME NEW a \in Account \ (apart \cup S) PROVE Agrees(NewIdentity(a), NewHolder(a), form')
    <3>1. NewIdentity(a) \in {Identity(a), x} /\ NewHolder(a) = Holder(Row(a))
      BY <2>3, <2>4 DEF NewIdentity, NewHolder, Holder
    <3>2. NewIdentity(a) = Identity(a) \/ Identity(a) = o
      BY <1>2, <2>3, EldestWithout DEF NewIdentity, Identity
    <3>3. Agrees(Identity(a), Holder(Row(a)), form)
      BY <1>3, <2>4
    <3> QED
      BY <2>1, <2>2, <3>1, <3>2, <3>3 DEF Agrees
  <2> HIDE DEF S
  <2> QED
    BY <2>1, <2>4, ApartAgrees
<1>7. CASE MoveIdentities
  <2> DEFINE moved == [a \in Account |-> [i \in DOMAIN data.identity[a] |-> Inherited(data.identity[a][i])]]
  <2>1. form.step = "identities" /\ x \in Nat \ {0} /\ o # 0
    BY <1>1, <1>7 DEF MoveIdentities, FormType, Merge
  <2>2. \/ data' = [data EXCEPT !.identity = moved] /\ Submit("fields") /\ apart' = apart
        \/ SetApart(Account)
    BY <1>7 DEF MoveIdentities
  <2>3. CASE SetApart(Account)
    BY <2>3, ApartAgrees
  <2>4. CASE data' = [data EXCEPT !.identity = moved] /\ Submit("fields") /\ apart' = apart
    <3>1. data'.identity = moved /\ data'.media = data.media
      BY <1>1, <2>4, TablesAre
    <3>2. form'.step = "fields" /\ form'.other = o /\ form'.master = x
      BY <1>4, <2>4
    <3>3. ASSUME NEW a \in Account \ apart' PROVE Agrees(NewIdentity(a), NewHolder(a), form')
      <4>1. NewIdentity(a) = Inherited(Identity(a)) /\ NewHolder(a) = Holder(Row(a))
        BY <1>2, <2>1, <3>1, EldestInherited DEF NewIdentity, NewHolder, Holder, Identity
      <4>2. Agrees(Identity(a), Holder(Row(a)), form)
        BY <1>3, <2>4
      <4> QED
        BY <2>1, <3>2, <4>1, <4>2 DEF Agrees, Inherited
    <3> QED
      BY <3>3, AgreesAfter
  <2> QED
    BY <2>2, <2>3, <2>4
<1>8. CASE MergeFields
  <2>1. form.step = "fields" /\ Submit("delete") /\ apart' = apart
    BY <1>8 DEF MergeFields
  <2>2. data'.media = data.media /\ data'.identity = data.identity
    BY <1>1, <1>8, TablesAre DEF MergeFields
  <2>3. form'.step = "delete" /\ form'.other = o /\ form'.master = x
    BY <1>4, <2>1
  <2>4. ASSUME NEW a \in Account \ apart' PROVE Agrees(NewIdentity(a), NewHolder(a), form')
    BY <1>3, <2>1, <2>2, <2>3, SameData DEF Agrees
  <2> QED
    BY <2>4, AgreesAfter
<1>9. CASE DeleteOther
  <2>1. \/ RowsOf(o) = {} /\ data' = Forgotten(data, o) /\ apart' = apart
        \/ SetApart(Account)
    BY <1>9 DEF DeleteOther
  <2>2. CASE SetApart(Account)
    BY <2>2, ApartAgrees
  <2>3. CASE RowsOf(o) = {} /\ data' = Forgotten(data, o) /\ apart' = apart
    <3>1. data'.media = data.media /\ data'.identity = [a \in Account |-> Without(data.identity[a], o)]
      BY <1>1, <2>3, ForgottenType
    <3>2. ASSUME NEW a \in Account \ apart' PROVE Agrees(NewIdentity(a), NewHolder(a), form')
      <4>1. NewHolder(a) = Holder(Row(a)) /\ Holder(Row(a)) # o
        BY <1>2, <2>3, <3>1 DEF NewHolder, Holder, RowsOf
      <4>2. Identity(a) # o => NewIdentity(a) = Identity(a)
        BY <1>2, <3>1, EldestWithout DEF NewIdentity, Identity
      <4>3. form.step = "delete" /\ Agrees(Identity(a), Holder(Row(a)), form)
        BY <1>3, <1>9, <2>3 DEF DeleteOther
      <4>4. Holder(Row(a)) # 0 => Identity(a) # 0 /\ Identity(a) = Holder(Row(a))
        BY <4>1, <4>3 DEF Agrees
      <4> QED
        BY <4>1, <4>2, <4>4 DEF Agrees
    <3> QED
      BY <3>2, AgreesAfter
  <2> QED
    BY <2>1, <2>2, <2>3
<1>10. CASE EraseUser
  <2> DEFINE rows == RowsOf(o)
  <2>1. form.step = "erase" /\ apart' = apart /\ data' = Forgotten(Erased(rows), o)
    BY <1>10 DEF EraseUser
  <2>2. /\ Erased(rows) \in Tables /\ Erased(rows).identity = data.identity
        /\ Erased(rows).media = [r \in Ref |-> IF r \in rows THEN 0 ELSE data.media[r]]
    BY <1>1, ErasedType
  <2> HIDE DEF rows
  <2>3. /\ data'.media = [r \in Ref |-> IF r \in rows THEN 0 ELSE data.media[r]]
        /\ data'.identity = [a \in Account |-> Without(data.identity[a], o)]
    BY <2>1, <2>2, ForgottenType
  <2>4. ASSUME NEW a \in Account \ apart' PROVE Agrees(NewIdentity(a), NewHolder(a), form')
    <3>1. NewHolder(a) = IF Holder(Row(a)) = o THEN 0 ELSE Holder(Row(a))
      BY <1>2, <2>3 DEF NewHolder, Holder, rows, RowsOf
    <3>2. Identity(a) # o => NewIdentity(a) = Identity(a)
      BY <1>2, <2>3, EldestWithout DEF NewIdentity, Identity
    <3>3. Holder(Row(a)) # 0 => Identity(a) # 0 /\ Identity(a) = Holder(Row(a))
      BY <1>3, <2>1, <2>4 DEF Agrees
    <3> QED
      BY <3>1, <3>2, <3>3 DEF Agrees
  <2> QED
    BY <2>4, AgreesAfter
<1>11. CASE \E u \in Users : DeleteUser(u) \/ \E v \in Users : MergeUsers(u, v)
  <2>1. form.step = "rest" /\ UNCHANGED <<data, apart>>
    BY <1>11 DEF DeleteUser, MergeUsers
  <2>2. ASSUME NEW a \in Account \ apart' PROVE Agrees(NewIdentity(a), NewHolder(a), form')
    BY <1>3, <2>1, SameData DEF Agrees
  <2> QED
    BY <2>2, AgreesAfter
<1> QED
  BY <1>5, <1>6, <1>7, <1>8, <1>9, <1>10, <1>11 DEF Editing

LEMMA SweepingAgrees ==
    ASSUME AccountsType, Agreement,
           Sweeping \/ AccountsDeath \/ \E s \in data.up : DeleteServer(s)
    PROVE  Agreement'
<1>1. data \in Tables
  BY TypeParts DEF Pieces
<1>2. \A a \in Account \ apart : Agrees(Identity(a), Holder(Row(a)), form)
  BY DEF Agreement
<1>3. CASE SweepIdentities
  <2> DEFINE left == [a \in Account |-> IF a \in Jellyfin /\ ServerOf(a) = sweep.server THEN <<>> ELSE data.identity[a]]
             S == {a \in Account : data'.identity[a] # data.identity[a]}
  <2>1. data' = [data EXCEPT !.identity = left] /\ form' = form /\ SetApart(S)
    BY <1>3 DEF SweepIdentities
  <2>2. data'.media = data.media
    BY <1>1, <2>1, TablesAre
  <2>3. ASSUME NEW a \in Account \ (apart \cup S) PROVE Agrees(NewIdentity(a), NewHolder(a), form')
    <3>1. NewIdentity(a) = Identity(a) /\ NewHolder(a) = Holder(Row(a))
      BY <2>2, <2>3 DEF NewIdentity, Identity, NewHolder, Holder
    <3> QED
      BY <1>2, <2>1, <2>3, <3>1 DEF Agrees
  <2> HIDE DEF S
  <2> QED
    BY <2>1, <2>3, ApartAgrees
<1>4. CASE SweepRows
  <2>1. data' = Erased(RowsAt(sweep.server)) /\ UNCHANGED <<form, apart>>
    BY <1>4 DEF SweepRows
  <2> QED
    BY <1>1, <2>1, ErasedLooks, UnmovedAgrees
<1>5. CASE SweepServer
  <2> DEFINE left == [a \in Account |-> IF a \in Jellyfin /\ sweep.server = "jellyfin" THEN <<>> ELSE data.identity[a]]
  <2>1. /\ UNCHANGED <<form, apart>>
        /\ \/ data' = data
           \/ RowsAt(sweep.server) = {} /\ data' = [data EXCEPT !.up = @ \ {sweep.server}, !.identity = left]
    BY <1>5 DEF SweepServer
  <2>2. CASE data' = data
    BY <2>1, <2>2, UnmovedAgrees, SameData
  <2>3. CASE RowsAt(sweep.server) = {} /\ data' = [data EXCEPT !.up = @ \ {sweep.server}, !.identity = left]
    <3>1. data'.media = data.media /\ data'.identity = left
      BY <1>1, <2>3, TablesAre
    <3>2. ASSUME NEW a \in Account \ apart' PROVE Agrees(NewIdentity(a), NewHolder(a), form')
      <4>1. NewHolder(a) = Holder(Row(a))
        BY <3>1 DEF NewHolder, Holder
      <4>2. CASE a \in Jellyfin /\ sweep.server = "jellyfin"
        <5>1. Row(a) \in Ref /\ Row(a)[2] = a /\ ServerOf(a) = "jellyfin"
          BY <4>2, SlotsDiffer, ServersDiffer DEF Row, ServerOf
        <5>2. Holder(Row(a)) = 0
          BY <2>3, <4>2, <5>1 DEF RowsAt, There
        <5> QED
          BY <4>1, <5>2 DEF Agrees
      <4>3. CASE ~(a \in Jellyfin /\ sweep.server = "jellyfin")
        <5>1. NewIdentity(a) = Identity(a)
          BY <3>1, <4>3 DEF NewIdentity, Identity
        <5> QED
          BY <1>2, <2>1, <4>1, <5>1 DEF Agrees
      <4> QED
        BY <4>2, <4>3
    <3> QED
      BY <3>2, AgreesAfter
  <2> QED
    BY <2>1, <2>2, <2>3
<1>6. CASE AccountsDeath
  <2>1. data' = data /\ (SetApart(Account) \/ (apart' = apart /\ ~Merging))
    BY <1>6 DEF AccountsDeath
  <2>2. CASE SetApart(Account)
    BY <2>2, ApartAgrees
  <2>3. CASE apart' = apart /\ ~Merging
    <3>1. ASSUME NEW a \in Account \ apart' PROVE Agrees(NewIdentity(a), NewHolder(a), form')
      BY <1>2, <2>1, <2>3, SameData DEF Agrees, Merging
    <3> QED
      BY <3>1, AgreesAfter
  <2> QED
    BY <2>1, <2>2, <2>3
<1>7. CASE \E s \in data.up : DeleteServer(s)
  BY <1>7, UnmovedAgrees, SameData DEF DeleteServer
<1> QED
  BY <1>3, <1>4, <1>5, <1>6, <1>7 DEF Sweeping

\* At all times the oldest identity of an account names the user that holds
\* its row, but for the accounts set apart and within a merge.
THEOREM AccountsAgree == AccountsSpec => [](AccountsType /\ Agreement)
<1>1. AccountsInit => Agreement
  <2>1. ASSUME AccountsInit, NEW a \in Account PROVE Holder(Row(a)) = 0
    BY <2>1, SlotsDiffer DEF AccountsInit, Holder
  <2> QED
    BY <2>1 DEF Agreement, Agrees
<1>2. AccountsType /\ Agreement /\ [AccountsNext]_accountVars => Agreement'
  <2> SUFFICES ASSUME AccountsType, Agreement, [AccountsNext]_accountVars PROVE Agreement'
    OBVIOUS
  <2>1. CASE UNCHANGED accountVars
    <3>1. data' = data /\ apart' = apart /\ form' = form
      BY <2>1 DEF accountVars, requests
    <3> QED
      BY <3>1, UnmovedAgrees, SameData
  <2>2. CASE RunPlexSync \/ RunJellyfinSync \/ RunImport \/ Working
    BY <2>2, WorkingAgrees
  <2>3. CASE Creating
    BY <2>3, CreatingAgrees
  <2>4. CASE Editing
    BY <2>4, EditingAgrees
  <2>5. CASE Sweeping
    BY <2>5, SweepingAgrees
  <2>6. CASE Elsewhere
    BY <2>6, CreatingAgrees, EditingAgrees, SweepingAgrees DEF Elsewhere
  <2> QED
    BY <2>1, <2>2, <2>3, <2>4, <2>5, <2>6 DEF AccountsNext
<1> QED
  BY <1>1, <1>2, AccountsTypeCorrect, PTL DEF AccountsSpec

----------------------------------------------------------------------------
(***************************************************************************)
(* What may move an account.                                                *)
(***************************************************************************)
Moves(a) == There(Row(a)) /\ NewHolder(a) \notin {0, Holder(Row(a))}
Undisturbed == <<page.step, form, sweep>>' = <<page.step, form, sweep>>

LEMMA InsertMovesNothing ==
    ASSUME data \in Tables, NEW r, NEW u, ~There(r), data' = Held(r, u), NEW a \in Account
    PROVE  ~Moves(a)
<1>1. data'.media = [data.media EXCEPT ![r] = u]
  BY TablesAre DEF Held
<1> QED
  BY <1>1, TablesAre DEF Moves, There, Holder, NewHolder

LEMMA UpdateMoves ==
    ASSUME data \in Tables, NEW seen, NEW r \in Ref, NEW u, MayUpdate(seen, r, u),
           data'.media = Updated(seen, r, u).media, NEW a \in Account, Moves(a)
    PROVE  NewHolder(a) = u
<1>1. Row(a) \in Ref /\ data.media \in [Ref -> Nat]
  BY SlotsDiffer, TablesAre
<1>2. CASE seen = Lost
  BY <1>2, SlotsDiffer DEF Updated, Moves, NewHolder, Holder
<1>3. CASE seen = r
  <2>1. data'.media = [data.media EXCEPT ![r] = u]
    BY <1>3, SlotsDiffer, TablesAre DEF Updated, Held
  <2> QED
    BY <1>1, <2>1 DEF Moves, NewHolder, Holder
<1>4. CASE seen # Lost /\ seen # r
  <2>1. Updated(seen, r, u) = [data EXCEPT !.media[seen] = 0, !.media[r] = u]
    BY <1>4 DEF Updated
  <2>2. data'.media = [[data.media EXCEPT ![seen] = 0] EXCEPT ![r] = u]
    BY <2>1, TablesAre
  <2>3. ~There(r)
    BY <1>4 DEF MayUpdate
  <2> QED
    BY <1>1, <2>2, <2>3 DEF Moves, There, NewHolder, Holder
<1> QED
  BY <1>2, <1>3, <1>4

LEMMA OnlyWriteRowMoves ==
    ASSUME AccountsType, AccountsNext, Undisturbed, NEW a \in Account, Moves(a)
    PROVE  WriteRow /\ NewHolder(a) = worker.u
<1>1. /\ data \in Tables /\ WorkerType /\ form \in Forms /\ page \in Pages /\ sweep \in Sweeps
      /\ worker.seen \in Slot /\ worker.u \in Nat
      /\ worker.step \notin {"rest", "next"} => worker.a \in Account
  BY TypeParts, TasksAre, WorkerBusy DEF Pieces, FormType, PageType
<1>2. data'.media # data.media
  BY DEF Moves, NewHolder, Holder
<1>3. page'.step = page.step /\ form' = form /\ sweep' = sweep
  BY DEF Undisturbed
<1>4. ~(RunPlexSync \/ RunJellyfinSync \/ RunImport)
  BY <1>2 DEF RunPlexSync, RunJellyfinSync, RunImport
<1>5. Working => WriteRow
  <2>1. ~ \E b \in Plex : FindPlexIdentity(b) \/ ImportFindsUser(b)
    BY <1>2 DEF FindPlexIdentity, ImportFindsUser
  <2>2. ~((\E b \in Jellyfin : FindJellyfinRow(b)) \/ FindByMail \/ FindJellyfinIdentity \/ FindRows \/ ReadOwnId)
    BY <1>2 DEF FindJellyfinRow, FindByMail, FindJellyfinIdentity, FindRows, ReadOwnId
  <2>3. ~InsertUser
    BY <1>1, <1>2, TablesAre DEF InsertUser, Inserted
  <2>4. ~(ClaimIdentity \/ JoinIdentity)
    <3>1. \A b, u : Identified(b, u).media = data.media
      BY <1>1, TablesAre DEF Identified
    <3> QED
      BY <1>2, <3>1 DEF ClaimIdentity, JoinIdentity, Raise
  <2>5. ~Fold
    <3>1. \A S : data' = Erased(S) => ~Moves(a)
      BY <1>1, ErasedLooks DEF Moves
    <3> QED
      BY <1>2, <3>1 DEF Fold
  <2>6. ~Exempt
    <3> SUFFICES ASSUME Exempt PROVE FALSE
      OBVIOUS
    <3>1. \/ data' = data
          \/ data' = [data EXCEPT !.person[worker.u].exempt = worker.u \in Users,
                                  !.owned = IF There(Row(worker.a)) THEN @ \cup {worker.a} ELSE @]
      BY DEF Exempt
    <3> QED
      BY <1>1, <1>2, <3>1, TablesAre
  <2>7. ~ImportPlacesRow
    <3> SUFFICES ASSUME ImportPlacesRow PROVE FALSE
      OBVIOUS
    <3>1. \/ data' = data
          \/ MayInsert(Row(worker.a), worker.u) /\ data' = Held(Row(worker.a), worker.u)
      BY DEF ImportPlacesRow, Raise
    <3> QED
      BY <1>1, <1>2, <3>1, InsertMovesNothing DEF MayInsert
  <2> QED
    BY <2>1, <2>2, <2>3, <2>4, <2>5, <2>6, <2>7 DEF Working
<1>6. ~Creating
  <2>1. ~(Provision \/ FindPlexRow)
    BY <1>2 DEF Provision, FindPlexRow
  <2>2. ~InsertJellyfinRow
    BY <1>1, <1>2, InsertMovesNothing DEF InsertJellyfinRow, MayInsert
  <2>3. ~WritePlexRow
    <3> SUFFICES ASSUME WritePlexRow PROVE FALSE
      OBVIOUS
    <3>1. page.step = "write" /\ (Turn("identify") \/ Answer)
      BY <1>2 DEF WritePlexRow
    <3>2. page'.step \in {"identify", "rest"}
      BY <1>1, <3>1, PagesAre, RestTypes DEF Turn, Answer
    <3> QED
      BY <1>3, <3>1, <3>2
  <2>4. ~Identify
    <3>1. \A b, u : Identified(b, u).media = data.media
      BY <1>1, TablesAre DEF Identified
    <3> QED
      BY <1>2, <3>1 DEF Identify
  <2> QED
    BY <2>1, <2>2, <2>3, <2>4 DEF Creating
<1>7. ~Editing
  <2>1. \A step : Submit(step) => form'.step = step
    BY <1>1, FormsAre DEF Submit
  <2>2. form' = NoForm => form'.step = "rest"
    BY RestTypes
  <2> QED
    BY <1>3, <2>1, <2>2 DEF Editing, MoveRows, DropDuplicates, MoveIdentities, MergeFields, DeleteOther, EraseUser
<1>8. ~Sweeping
  <2>1. \A step : sweep' = [sweep EXCEPT !.step = step] => sweep'.step = step
    BY <1>1 DEF Sweeps
  <2>2. sweep' = NoSweep => sweep'.step = "rest"
    BY DEF NoSweep
  <2> QED
    BY <1>3, <2>1, <2>2 DEF Sweeping, SweepIdentities, SweepRows, SweepServer
<1>9. ~Elsewhere
  <2>1. ~(\E u \in DOMAIN data.person : ReadOthersId(u)) /\ ~ProvisionFails /\ ~Upload /\ ~AccountsDeath
    BY <1>2 DEF ReadOthersId, ProvisionFails, Upload, AccountsDeath
  <2>2. \A person : Inserted(person).media = data.media
    BY <1>1, TablesAre DEF Inserted
  <2>3. ~ \E b \in Account : CreateUser(b) \/ Accept(b)
    BY <1>2, <2>2 DEF CreateUser, Accept
  <2>4. ~ \E u \in Users : DeleteUser(u) \/ \E v \in Users : MergeUsers(u, v)
    BY <1>2 DEF DeleteUser, MergeUsers
  <2>5. ~ \E s \in data.up : DeleteServer(s)
    BY <1>2 DEF DeleteServer
  <2> QED
    BY <2>1, <2>3, <2>4, <2>5 DEF Elsewhere
<1>10. WriteRow
  BY <1>4, <1>5, <1>6, <1>7, <1>8, <1>9 DEF AccountsNext
<1>11. NewHolder(a) = worker.u
  <2> DEFINE r == Row(worker.a)
             seen == worker.seen
             changed == IF seen = Nothing THEN Held(r, worker.u) ELSE Updated(seen, r, worker.u)
             fine == IF seen = Nothing THEN MayInsert(r, worker.u) ELSE MayUpdate(seen, r, worker.u)
  <2>1. r \in Ref
    BY <1>1, <1>10, SlotsDiffer DEF WriteRow
  <2>2. fine /\ \E owned : data' = [changed EXCEPT !.owned = owned]
    BY <1>2, <1>10 DEF WriteRow, Raise
  <2>3. changed \in Tables
    BY <1>1, <2>1, <2>2, HeldType, UpdatedType
  <2>4. data'.media = changed.media
    <3> HIDE DEF changed, fine
    <3> QED
      BY <2>2, <2>3, TablesAre
  <2>5. CASE seen = Nothing
    <3>1. data'.media = [data.media EXCEPT ![r] = worker.u]
      BY <1>1, <2>4, <2>5, TablesAre DEF Held
    <3> QED
      BY <1>1, <2>1, <3>1, SlotsDiffer, TablesAre DEF Moves, NewHolder, Holder
  <2>6. CASE seen # Nothing
    BY <1>1, <2>1, <2>2, <2>4, <2>6, UpdateMoves
  <2> QED
    BY <2>5, <2>6
<1> QED
  BY <1>10, <1>11

\* No run of a synchronisation takes an account from the user that holds it,
\* but in the ways the property names: a holder changes while pages, merges
\* and deletions stand still only in WriteRow, to the user the run found for
\* the account, who is the oldest identity and by that the holder, unless the
\* account is set apart, or a merge goes on, or the identity has changed since.
THEOREM AccountsStay == AccountsSpec => SyncMovesNothing
<1>1. AccountsType /\ Agreement /\ [AccountsNext]_accountVars
        => [\A a \in Account :
              /\ There(Row(a)) /\ Holder(Row(a))' \notin {0, Holder(Row(a))}
              /\ <<page.step, form, sweep>>' = <<page.step, form, sweep>>
              => \/ a \in apart \/ Merging
                 \/ Known(a) /\ worker.u # Identity(a)]_accountVars
  <2> SUFFICES ASSUME AccountsType, Agreement, AccountsNext, NEW a \in Account,
                      There(Row(a)), Holder(Row(a))' \notin {0, Holder(Row(a))},
                      <<page.step, form, sweep>>' = <<page.step, form, sweep>>,
                      a \notin apart, ~Merging
               PROVE  Known(a) /\ worker.u # Identity(a)
    OBVIOUS
  <2>1. Moves(a) /\ Undisturbed
    BY DEF Moves, Undisturbed, NewHolder, Holder
  <2>2. NewHolder(a) = worker.u
    BY <2>1, OnlyWriteRowMoves
  <2>3. Known(a) /\ Identity(a) = Holder(Row(a))
    BY DEF Agreement, Agrees, Merging, There, Known
  <2> QED
    BY <2>1, <2>2, <2>3 DEF Moves
<1> QED
  BY <1>1, AccountsAgree, PTL DEF AccountsSpec, SyncMovesNothing

====
