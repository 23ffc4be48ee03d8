------------------------------ MODULE NodeUsers ------------------------------
(***************************************************************************)
(* The user cache of the Node web application (models.ts) and the handlers *)
(* that read, fill and clear it (router.ts).                               *)
(*                                                                         *)
(* JavaScript runs one handler at a time, up to its next await.  A handler *)
(* is a plan: the stages it awaits, each of which is a lookup in the cache *)
(* (which asks MySQL on a miss) or a statement of its own.  What a lookup  *)
(* asked for is read by MySQL in one step and put into the cache in a      *)
(* later one, so an answer can arrive after a clearUserCache() that was    *)
(* meant to forget it.                                                     *)
(***************************************************************************)
EXTENDS Sequences, FiniteSets

CONSTANTS
    Reqs,        \* request slots: the bound on requests in flight
    Ids, Names,  \* users.id and users.account_name
    Seed,        \* the ids <= 1000, which dbInitialize keeps
    SeedName,    \* their account names
    Admins,      \* the rows with authority = 1
    Fiftieth,    \* the ids divisible by 50
    FormField,   \* the field a ban form has its ids in: "uid" or "uid[]"
    Ops,         \* the handlers the clients of this instance call
    None

\* The stages of each handler, in the order it awaits them.
Plans ==
    [index      |-> <<"me", "posts", "authors">>,
     posts      |-> <<"posts", "me", "authors">>,
     post       |-> <<"authors", "me">>,
     page       |-> <<"name", "authors", "me">>,
     login      |-> <<"me", "name">>,
     register   |-> <<"me", "exists", "insert", "name">>,
     ban        |-> <<"me", "updates">>,
     initialize |-> <<"clear", "statements", "reban">>]

AllOps == DOMAIN Plans

ASSUME NoneAssumption == None \notin Ids \cup Names
ASSUME StatementAssumption == {"delete", "unban"} \cap Ids = {}
ASSUME SeedAssumption ==
    /\ Seed \subseteq Ids /\ Admins \subseteq Seed /\ Fiftieth \subseteq Ids
    /\ SeedName \in [Seed -> Names]
    /\ \A i, j \in Seed : SeedName[i] = SeedName[j] => i = j
ASSUME InputAssumption == FormField \in {"uid", "uid[]"} /\ Ops \subseteq AllOps

VARIABLES
    rows,       \* users table: the account name of each id, None without a row
    banned,     \* the rows with del_flg = 1
    named,      \* the name each id was inserted with; AUTO_INCREMENT gives
                \* no id out twice, and no statement renames a user
    byId,       \* usersById
    byName,     \* usersByAccountName
    req,        \* the requests in flight
    raced,      \* cached ids MySQL answered for before the last clear, or
                \* while an /initialize had statements to run
    orphaned,   \* ids of a ban whose UPDATE ran and whose clear did not
    gone        \* ids whose ban has been acknowledged, and not lifted since

vars == <<rows, banned, named, byId, byName, req, raced, orphaned, gone>>

allocated == {i \in Ids : named[i] # None}

User == [id : Ids, name : Names, del : BOOLEAN]
Live == {i \in Ids : rows[i] # None}
Row(i) == [id |-> i, name |-> rows[i], del |-> i \in banned]

Stages == {"me", "posts", "authors", "name", "exists", "insert", "updates",
           "clear", "statements", "reban"}

Request ==
    [op : AllOps,
     plan : Seq(Stages),              \* the stages still to go, first the next
     phase : {"idle", "run", "asked", "answered"},    \* of the lookup
     name : Names \cup {None},        \* the account name in the URL or form
     user : Ids \cup {None},          \* session.userId
     good : BOOLEAN,                  \* password, form and CSRF token are right
     ids : SUBSET Ids,                \* who is banned, looked up or inserted
     todo : SUBSET (Ids \cup {"delete", "unban"}),    \* statements running,
                                                     \* even after the reply
     users : SUBSET User,             \* found in the cache
     rows : SUBSET User,              \* MySQL's answer
     stale : BOOLEAN,                 \* the answer has raced, as in `raced'
     me : Ids \cup {None},
     shown : SUBSET Ids,              \* whose page or posts the reply shows
     ok : BOOLEAN,                    \* replied, and not with an error
     dead : SUBSET Ids,               \* gone when the request was sent
     lifted : BOOLEAN]                \* an /initialize lifted all bans since

Idle == [op |-> "index", plan |-> <<>>, phase |-> "idle", name |-> None,
         user |-> None, good |-> FALSE, ids |-> {}, todo |-> {}, users |-> {},
         rows |-> {}, stale |-> FALSE, me |-> None, shown |-> {}, ok |-> FALSE,
         dead |-> {}, lifted |-> FALSE]

\* Type invariant; the cache holds rows under their own id and name.
TypeOK ==
    /\ rows \in [Ids -> Names \cup {None}]
    /\ banned \subseteq Live /\ Live \subseteq allocated
    /\ named \in [Ids -> Names \cup {None}]
    /\ byId \in [Ids -> User \cup {None}]
    /\ byName \in [Names -> User \cup {None}]
    /\ \A i \in Ids : byId[i] # None => byId[i].id = i
    /\ \A n \in Names : byName[n] # None => byName[n].name = n
    /\ req \in [Reqs -> Request]
    /\ raced \subseteq Ids /\ orphaned \subseteq Ids /\ gone \subseteq Ids

Init ==
    /\ rows = [i \in Ids |-> IF i \in Seed THEN SeedName[i] ELSE None]
    /\ banned = Seed \cap Fiftieth
    /\ named = rows
    /\ byId = [i \in Ids |-> None]
    /\ byName = [n \in Names |-> None]
    /\ req = [r \in Reqs |-> Idle]
    /\ raced = {} /\ orphaned = {} /\ gone = {}

-----------------------------------------------------------------------------
At(r, stage, phase) ==
    /\ req[r].phase = phase
    /\ req[r].plan # <<>> /\ Head(req[r].plan) = stage

\* The next stage, the reply, or an error thrown out of the handler.
Next1(q) == [q EXCEPT !.plan = Tail(@), !.phase = "run",
                      !.ok = Tail(q.plan) = <<>>]
End(q) == [q EXCEPT !.plan = <<>>, !.phase = "run", !.ok = TRUE]
Throw(q) == [q EXCEPT !.plan = <<>>, !.phase = "run", !.shown = {}]

Becomes(r, q) == req' = [req EXCEPT ![r] = q]

UnchangedDB == UNCHANGED <<rows, banned, named>>
UnchangedCache == UNCHANGED <<byId, byName, raced>>

\* ensureStringArray(body.uid): parseBody has a field "uid" under that name (the
\* last one, if it is repeated), but the fields "uid[]" of the ban form under
\* theirs.
BodyUid(ids) == IF FormField = "uid" THEN ids ELSE {}

(***************************************************************************)
(* A client sends a request, an /initialize beside any other one too: no   *)
(* handler knows of the others.  A slot is free when its statements are    *)
(* done, which may be after the reply.                                     *)
(* A commenter stands for those of a page, and is looked up like each of   *)
(* them; the page of a user without posts has none, and no author to look  *)
(* up (the commenter of posts without comments is their author).           *)
(***************************************************************************)
Busy == {r \in Reqs : req[r].phase # "idle" \/ req[r].todo # {}}

NameInputs(op) == IF op \in {"page", "login", "register"} THEN Names ELSE {None}

IdInputs(op) ==
    CASE op = "ban"  -> IF FormField = "uid" THEN {{i} : i \in allocated}
                        ELSE SUBSET allocated
      [] op = "post" -> {{i} : i \in allocated}                  \* its author
      [] op \in {"index", "posts", "page"} ->
           {{}} \cup {{i} : i \in allocated}                     \* a commenter
      [] OTHER       -> {{}}

Send(r, op) ==
    /\ r \notin Busy
    /\ \E name \in NameInputs(op), ids \in IdInputs(op),
          user \in IF op = "initialize" THEN {None} ELSE Live \cup {None},
          good \in IF op \in {"login", "register", "ban"} THEN BOOLEAN
                                                         ELSE {TRUE} :
         Becomes(r, [Idle EXCEPT
             !.op = op, !.plan = Plans[op], !.phase = "run", !.name = name,
             !.user = user, !.ids = ids, !.good = good,
             !.shown = IF op = "post" THEN ids ELSE {}, !.dead = gone])
    /\ UnchangedDB /\ UnchangedCache /\ UNCHANGED <<orphaned, gone>>

-----------------------------------------------------------------------------
(***************************************************************************)
(* What a handler does with the users a lookup found, up to its next       *)
(* await.                                                                  *)
(***************************************************************************)
FoundMe(q, users) ==
    LET me == IF users = {} THEN None ELSE q.user
        p == [q EXCEPT !.me = me]
        stop == \/ q.op \in {"login", "register"} /\ me # None
                \/ q.op = "register" /\ ~ q.good
                \/ q.op = "ban" /\ ~ (me \in Admins /\ q.good)
    IN  IF stop THEN End(p)
        ELSE IF q.op = "ban" THEN [Next1(p) EXCEPT !.todo = BodyUid(q.ids)]
        ELSE Next1(p)

Actives(users) == {u \in users : ~ u.del}

FoundName(q, users) ==
    CASE q.op = "page" /\ Actives(users) = {} -> End(q)                \* 404
      [] q.op = "page" /\ Actives(users) # {} ->
           LET owner == {u.id : u \in users}
           IN  [Next1(q) EXCEPT !.shown = owner,
                                !.ids = IF @ = {} THEN {} ELSE @ \cup owner]
      [] q.op = "login" ->
           [End(q) EXCEPT !.me = IF q.good /\ Actives(users) # {}
                                 THEN (CHOOSE u \in users : TRUE).id ELSE None]
      [] q.op = "register" ->
           IF users = {} THEN Throw(q)
           ELSE [End(q) EXCEPT !.me = (CHOOSE u \in users : TRUE).id]

\* hydratePosts leaves out the posts of authors the cache has as banned.
FoundAuthors(q, users) ==
    LET kept == {u.id : u \in Actives(users)}
        p == [q EXCEPT !.shown = IF q.op = "page" THEN @ ELSE @ \cap kept]
    IN  IF q.op = "post" /\ p.shown = {} THEN End(p) ELSE Next1(p)

Found(q, users) ==
    CASE Head(q.plan) = "me"      -> FoundMe(q, users)
      [] Head(q.plan) = "name"    -> FoundName(q, users)
      [] Head(q.plan) = "authors" -> FoundAuthors(q, users)

(***************************************************************************)
(* getUser, getUsersByIds and getUserByAccountName                         *)
(***************************************************************************)
LookupStages == {"me", "authors", "name"}

WantedIds(q) == IF Head(q.plan) = "me" THEN {q.user} \ {None} ELSE q.ids

Cached(q) ==
    (IF Head(q.plan) = "name" THEN {byName[q.name]}
     ELSE {byId[i] : i \in WantedIds(q)}) \ {None}

Complete(q) ==
    IF Head(q.plan) = "name" THEN Cached(q) # {}
    ELSE WantedIds(q) = {u.id : u \in Cached(q)}

Selected(q) ==
    LET found == {u.id : u \in q.users}
    IN  {Row(i) : i \in {j \in Live : IF Head(q.plan) = "name"
                                      THEN rows[j] = q.name
                                      ELSE j \in WantedIds(q) \ found}}

\* All users are cached: no await in between.  Otherwise ask MySQL ...
Lookup(r) ==
    /\ \E stage \in LookupStages : At(r, stage, "run")
    /\ Becomes(r, IF Complete(req[r]) THEN Found(req[r], Cached(req[r]))
                  ELSE [req[r] EXCEPT !.users = Cached(req[r]),
                                      !.phase = "asked"])
    /\ UnchangedDB /\ UnchangedCache /\ UNCHANGED <<orphaned, gone>>

\* dbInitialize has cleared the cache and has statements to run, which it may
\* have left running when one of them failed.
Changing(q) ==
    \/ q.plan # <<>> /\ Head(q.plan) \in {"statements", "reban"}
    \/ {"delete", "unban"} \cap q.todo # {}
Initializing == \E r \in Reqs : Changing(req[r])

\* ... which reads the rows at some time ...
Answer(r) ==
    /\ req[r].phase = "asked"
    /\ Becomes(r, [req[r] EXCEPT !.rows = Selected(req[r]), !.phase = "answered",
                                 !.stale = Initializing])
    /\ UnchangedDB /\ UnchangedCache /\ UNCHANGED <<orphaned, gone>>

\* ... and cacheUser puts into both maps what arrives at another.
CacheById(users) ==
    byId' = [i \in Ids |-> IF \E u \in users : u.id = i
                           THEN CHOOSE u \in users : u.id = i ELSE byId[i]]
CacheUnderAnyName(users) ==                       \* mutant of CacheByName
    byName' = [n \in Names |-> IF users # {} THEN CHOOSE u \in users : TRUE
                               ELSE byName[n]]
CacheByName(users) ==
    byName' = [n \in Names |-> IF \E u \in users : u.name = n
                               THEN CHOOSE u \in users : u.name = n
                               ELSE byName[n]]

Forget(q) == [q EXCEPT !.users = {}, !.rows = {}, !.stale = FALSE]

Resume(r) ==
    LET q == req[r]
        got == {u.id : u \in q.rows}
    IN  /\ q.phase = "answered"
        /\ CacheById(q.rows) /\ CacheByName(q.rows)
        /\ raced' = IF q.stale THEN raced \cup got ELSE raced \ got
        /\ Becomes(r, Forget(Found(q, q.users \cup q.rows)))
        /\ UnchangedDB /\ UNCHANGED <<orphaned, gone>>

\* A SELECT or INSERT fails: it throws, and nothing is cached.
QueryFails(r) ==
    /\ \/ req[r].phase = "asked"
       \/ \E stage \in {"posts", "exists", "insert"} : At(r, stage, "run")
    /\ Becomes(r, Forget(Throw(req[r])))
    /\ UnchangedDB /\ UnchangedCache /\ UNCHANGED <<orphaned, gone>>

-----------------------------------------------------------------------------
\* The posts of GET / and GET /posts: an INNER JOIN with the users that are
\* not banned.
ShowAll == Live                                   \* mutant of JoinedAuthors
JoinedAuthors == Live \ banned

SelectPosts(r) ==
    /\ At(r, "posts", "run")
    /\ Becomes(r, [Next1(req[r]) EXCEPT !.shown = JoinedAuthors,
                                        !.ids = @ \cup JoinedAuthors])
    /\ UnchangedDB /\ UnchangedCache /\ UNCHANGED <<orphaned, gone>>

\* POST /register: is the name taken?
SelectExists(r) ==
    /\ At(r, "exists", "run")
    /\ Becomes(r, IF \E i \in Live : rows[i] = req[r].name THEN End(req[r])
                                                           ELSE Next1(req[r]))
    /\ UnchangedDB /\ UnchangedCache /\ UNCHANGED <<orphaned, gone>>

InsertUser(r) ==
    /\ At(r, "insert", "run")
    /\ \A i \in Live : rows[i] # req[r].name
    /\ \E i \in Ids \ allocated :
         /\ rows' = [rows EXCEPT ![i] = req[r].name]
         /\ named' = [named EXCEPT ![i] = req[r].name]
         /\ \E q \in {Next1(req[r]), Throw(req[r])} :      \* the answer is lost
              Becomes(r, [q EXCEPT !.ids = {i}])
    /\ UNCHANGED <<banned, orphaned, gone>> /\ UnchangedCache

(***************************************************************************)
(* Statements: the UPDATE of a ban and the first four of dbInitialize, of  *)
(* which two are about users, and run side by side.  If one fails, before  *)
(* or after MySQL ran it, the handler throws and replies, and the others   *)
(* go on.                                                                  *)
(***************************************************************************)
Without(q, statement) == [q EXCEPT !.todo = @ \ {statement}]
Rejected(q) == IF q.phase = "idle" THEN q ELSE Throw(q)

BanOne(r, i) ==
    /\ i \in req[r].todo
    /\ banned' = banned \cup ({i} \cap Live)
    /\ \/ Becomes(r, Without(req[r], i)) /\ orphaned' = orphaned
       \/ Becomes(r, Without(Throw(req[r]), i)) /\ orphaned' = orphaned \cup {i}
    /\ UNCHANGED <<rows, named, gone>> /\ UnchangedCache

DeleteNewUsers(r) ==
    /\ "delete" \in req[r].todo
    /\ rows' = [i \in Ids |-> IF i \in Seed THEN rows[i] ELSE None]
    /\ banned' = banned \cap Seed
    /\ Becomes(r, Without(req[r], "delete"))
    /\ UNCHANGED <<named, orphaned, gone>> /\ UnchangedCache

Lift(q) == [q EXCEPT !.lifted = q.phase # "idle"]

UnbanAll(r) ==
    /\ "unban" \in req[r].todo
    /\ banned' = {} /\ gone' = {}
    /\ req' = [p \in Reqs |-> Lift(IF p = r THEN Without(req[r], "unban")
                                            ELSE req[p])]
    /\ UNCHANGED <<rows, named, orphaned>> /\ UnchangedCache

StatementFails(r) ==
    /\ \E statement \in req[r].todo :
         Becomes(r, Without(Rejected(req[r]), statement))
    /\ UnchangedDB /\ UnchangedCache /\ UNCHANGED <<orphaned, gone>>

\* One of the DELETEs of posts or comments fails, or the answer of another is
\* lost.
OtherStatementFails(r) ==
    /\ At(r, "statements", "run")
    /\ Becomes(r, Throw(req[r]))
    /\ UnchangedDB /\ UnchangedCache /\ UNCHANGED <<orphaned, gone>>

\* clearUserCache: answers on their way are not forgotten by it.
ClearIds ==                                       \* mutant of ClearUserCache
    /\ byId' = [i \in Ids |-> None] /\ byName' = byName
    /\ raced' = {} /\ orphaned' = {}
ClearNothing ==                                   \* mutant of ClearUserCache
    byId' = byId /\ byName' = byName /\ raced' = {} /\ orphaned' = {}
ClearUserCache ==
    /\ byId' = [i \in Ids |-> None]
    /\ byName' = [n \in Names |-> None]
    /\ raced' = {} /\ orphaned' = {}

ClearAndBecome(r, q) ==
    /\ ClearUserCache
    /\ req' = [p \in Reqs |->
                IF p = r THEN q
                ELSE [req[p] EXCEPT !.stale = req[p].phase = "answered"]]

\* POST /admin/banned: the UPDATE is done, clear the cache, redirect.
FinishBan(r) ==
    /\ At(r, "updates", "run") /\ req[r].todo = {}
    /\ ClearAndBecome(r, Next1(req[r]))
    /\ gone' = IF req[r].lifted THEN gone ELSE gone \cup req[r].ids
    /\ UnchangedDB

\* dbInitialize: clear the cache, run four statements, then ban again.
StartInitialize(r) ==
    /\ At(r, "clear", "run")
    /\ ClearAndBecome(r, [Next1(req[r]) EXCEPT !.todo = {"delete", "unban"}])
    /\ UnchangedDB /\ UNCHANGED gone

JoinStatements(r) ==
    /\ At(r, "statements", "run") /\ req[r].todo = {}
    /\ Becomes(r, Next1(req[r]))
    /\ UnchangedDB /\ UnchangedCache /\ UNCHANGED <<orphaned, gone>>

BanFiftieth(r) ==
    /\ At(r, "reban", "run")
    /\ \/ /\ banned' = banned \cup (Fiftieth \cap Live)
          /\ Becomes(r, Next1(req[r]))
       \/ /\ banned' \in {banned, banned \cup (Fiftieth \cap Live)}
          /\ Becomes(r, Throw(req[r]))
    /\ UNCHANGED <<rows, named, orphaned, gone>> /\ UnchangedCache

-----------------------------------------------------------------------------
Done(r) == req[r].phase = "run" /\ req[r].plan = <<>>

\* The client has its reply; statements left behind go on.
Reply(r) ==
    /\ Done(r)
    /\ Becomes(r, [Idle EXCEPT !.todo = req[r].todo])
    /\ UnchangedDB /\ UnchangedCache /\ UNCHANGED <<orphaned, gone>>

Client == \E r \in Reqs, op \in Ops : Send(r, op)

Server ==
    \E r \in Reqs :
      \/ Lookup(r) \/ Answer(r) \/ Resume(r) \/ QueryFails(r)
      \/ SelectPosts(r) \/ SelectExists(r) \/ InsertUser(r)
      \/ \E i \in Ids : BanOne(r, i)
      \/ DeleteNewUsers(r) \/ UnbanAll(r)
      \/ StatementFails(r) \/ OtherStatementFails(r)
      \/ FinishBan(r) \/ StartInitialize(r) \/ JoinStatements(r)
      \/ BanFiftieth(r) \/ Reply(r)

Next == Client \/ Server

Spec == Init /\ [][Next]_vars

-----------------------------------------------------------------------------
(***************************************************************************)
(* Properties                                                              *)
(***************************************************************************)
\* The two maps never contradict each other: a user found by name is the one
\* found by id (models.ts:29-38 keep them side by side without a check).
MapsAgree ==
    \A n \in Names : byName[n] # None => byId[byName[n].id] = byName[n]

\* A ban that has updated the row of its user and has yet to clear the cache.
Banning(i) ==
    \E r \in Reqs : /\ At(r, "updates", "run")
                    /\ i \in BodyUid(req[r].ids) \ req[r].todo

\* A cached user differs from its row for four reasons only.  MySQL answered the
\* lookup before a clear that it outlived, or while an /initialize that had
\* cleared the cache was still to change the rows (models.ts:79-87, which clears
\* first and never again): only then may the row be gone altogether.  Or an
\* UPDATE has banned the user, and the clear that follows its answer has yet to
\* run, or never will because the answer was lost (router.ts:364-365).
StaleOnlyByRace ==
    \A i \in Ids :
      byId[i] # None /\ i \notin raced =>
        i \in Live /\ (i \in orphaned \/ Banning(i) \/ byId[i] = Row(i))

\* Once a ban is acknowledged, GET / and GET /posts show no post of the user
\* until an /initialize lifts it, however stale the cache is: the JOIN of
\* router.ts:203 decides.
IndexHonoursBan ==
    \A r \in Reqs :
      Done(r) /\ req[r].op \in {"index", "posts"} /\ ~ req[r].lifted =>
        req[r].shown \cap req[r].dead = {}

\* router.ts:187-189 reads the inserted user back by name and logs it in.  That
\* is the account the registration inserted unless an /initialize has deleted
\* the row in the meantime, or an earlier user of that name is in the cache who
\* was looked up in the race of `raced': models.ts:79-87 then deletes the row
\* and leaves the cache.
LogsIn(r) ==
    /\ Lookup(r) \/ Resume(r)
    /\ req[r].op = "register" /\ Head(req[r].plan) = "name" /\ req'[r].ok

RegisterLogsInNewUser ==
    [][\A r \in Reqs :
         LogsIn(r) => \/ req'[r].me \in req[r].ids \cup raced
                      \/ ~ (req[r].ids \subseteq Live)]_vars

\* public_manual.md:47: POSTed data "即座に関連するURI GETのレスポンスデータに
\* 反映されていること".  A user whose ban was acknowledged before the request
\* was sent has no page, no post page and no login.
BanHonoured ==
    \A r \in Reqs :
      Done(r) /\ req[r].ok /\ ~ req[r].lifted =>
        /\ req[r].op \in {"page", "post"} => req[r].shown \cap req[r].dead = {}
        /\ req[r].op = "login" /\ req[r].user = None => req[r].me \notin req[r].dead

\* scenario.go:584 "ユーザーの禁止ができること": the users of an acknowledged
\* ban are banned in the database until /initialize.
BanApplied == gone \cap Live \subseteq banned
=============================================================================
