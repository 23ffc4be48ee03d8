----------------------------- MODULE GoSessions -----------------------------
(***************************************************************************)
(* Accounts, sessions and cookies of the Go web application                *)
(* (src/webapp/golang/app.go), with any number of requests in flight.      *)
(*                                                                         *)
(* A request is a sequence of calls to services that other requests share: *)
(* the session is loaded from memcached once, `me' is selected from        *)
(* MySQL, the handler runs its own statements, and Save writes the WHOLE   *)
(* session back and sets the cookie.  Every such call is one action here,  *)
(* so everything the handler learnt from an earlier call may be stale when *)
(* it uses it.  Each call may fail; the code ignores or absorbs the error. *)
(***************************************************************************)
EXTENDS FiniteSets

CONSTANTS
    Browsers,     \* cookie jars
    Reqs,         \* request slots: the bound on requests in flight
    Names,        \* account names
    Uids,         \* users.id values (AUTO_INCREMENT: an id is given out once)
    Seed,         \* the ids <= 1000, which dbInitialize keeps
    SeedName,     \* their account names
    Admins,       \* the rows with authority = 1
    Fiftieth,     \* the ids divisible by 50, which dbInitialize bans
    Sids,         \* session ids: the keys of memcached
    Tokens,       \* values of secureRandomStr(16)
    Ops,          \* the handlers the clients of this instance call
    None          \* a missing row, cookie, key or value

AllOps == {"initialize", "getLogin", "postLogin", "postRegister", "logout",
           "getIndex", "postIndex", "postComment", "postAdminBanned"}

LoginOps == {"postLogin", "postRegister"}

ASSUME NoneAssumption ==
    None \notin Names \cup Uids \cup Sids \cup Tokens \cup Browsers
ASSUME SeedAssumption ==
    /\ Seed \subseteq Uids
    /\ Admins \subseteq Seed
    /\ Fiftieth \subseteq Uids
    /\ SeedName \in [Seed -> Names]
    /\ \A u, v \in Seed : SeedName[u] = SeedName[v] => u = v
ASSUME OpsAssumption == Ops \subseteq AllOps

VARIABLES
    rows,       \* users table: the account name of each id, None without a row
    banned,     \* the rows with del_flg = 1
    allocated,  \* ids AUTO_INCREMENT has given out
    store,      \* memcached: session id -> session, Empty when absent
    owner,      \* the browser a session id was first issued to
    ended,      \* how the session was logged out: "open" (not yet), "closed",
                \* or "raced" by pages its browser was loading meanwhile
    mintedFor,  \* the account each CSRF token was drawn for
    cookie,     \* each browser's session cookie
    authed,     \* account names each browser has given the credentials of
    req         \* the requests in flight

vars == <<rows, banned, allocated, store, owner, ended, mintedFor, cookie,
          authed, req>>

Live == {u \in Uids : rows[u] # None}

\* AUTO_INCREMENT: an id is given out once, even when its row is deleted.
ReusableIds == Uids \ Live                    \* mutant of FreshIds
FreshIds == Uids \ allocated

\* UNIQUE KEY (account_name): the names an INSERT may use.
UniqueName(name) == \A u \in Live : rows[u] # name

Issued == {s \in Sids : owner[s] # None}
Minted == {t \in Tokens : mintedFor[t] # None}

(***************************************************************************)
(* session.Values.  A missing memcached entry is loaded as Empty.          *)
(***************************************************************************)
Session == [user_id : Uids \cup {None}, csrf_token : Tokens \cup {None},
            notice : BOOLEAN]
Empty == [user_id |-> None, csrf_token |-> None, notice |-> FALSE]

\* postLogin and postRegister: the session is u's, with a token of its own.
LoginKeepsToken(vals, u, t) ==                \* mutant of LoginVals
    [vals EXCEPT !.user_id = u,
                 !.csrf_token = IF @ = None THEN t ELSE @]
LoginByName(vals, u, t) ==                     \* mutant of LoginVals
    [vals EXCEPT !.user_id = rows[u], !.csrf_token = t]
LoginVals(vals, u, t) == [vals EXCEPT !.user_id = u, !.csrf_token = t]

\* getLogout
LogoutDropsToken(vals) == [vals EXCEPT !.csrf_token = None] \* mutant of LogoutVals
LogoutVals(vals) == [vals EXCEPT !.user_id = None]

\* What a client may send: the form's account name, whether the form is
\* acceptable (right password, valid name, an image, an integer post_id), its
\* csrf_token field and its uid[] fields.
Form(op, name, good, token, targets) ==
    [op |-> op, name |-> name, good |-> good, token |-> token,
     targets |-> targets]

Forms ==
    {Form(op, None, TRUE, None, {}) :
        op \in {"initialize", "getLogin", "logout", "getIndex"}}
    \cup {Form(op, n, good, None, {}) :
        op \in LoginOps, n \in Names, good \in BOOLEAN}
    \cup {Form(op, None, good, t, {}) :
        op \in {"postIndex", "postComment"}, good \in BOOLEAN,
        t \in Minted \cup {None}}
    \cup {Form("postAdminBanned", None, TRUE, t, ids) :
        t \in Minted \cup {None}, ids \in SUBSET Uids}

PCs == {"idle", "load", "me", "work", "write", "clean", "unban", "reban",
        "save", "reply"}

Request ==
    [pc : PCs,
     op : AllOps,
     from : Browsers \cup {None},
     sid : Sids \cup {None},                   \* session.ID
     vals : Session,                           \* session.Values
     me : Uids \cup {None},                    \* User.ID, None for User{}
     name : Names \cup {None},
     good : BOOLEAN,
     token : Tokens \cup {None},
     targets : SUBSET Uids,
     setCookie : {"keep", "set", "delete"},    \* the Set-Cookie header
     overlaps : SUBSET AllOps] \* what its browser sent while this logout ran

Idle == [pc |-> "idle", op |-> "initialize", from |-> None, sid |-> None,
         vals |-> Empty, me |-> None, name |-> None, good |-> FALSE,
         token |-> None, targets |-> {}, setCookie |-> "keep",
         overlaps |-> {}]

\* Type invariant.  Besides the types: del_flg belongs to a row, and a cookie
\* always names a session id that was saved before the cookie was sent.
TypeOK ==
    /\ rows \in [Uids -> Names \cup {None}]
    /\ banned \subseteq Live
    /\ allocated \subseteq Uids
    /\ store \in [Sids -> Session]
    /\ owner \in [Sids -> Browsers \cup {None}]
    /\ ended \in [Sids -> {"open", "closed", "raced"}]
    /\ mintedFor \in [Tokens -> Uids \cup {None}]
    /\ cookie \in [Browsers -> Issued \cup {None}]
    /\ authed \in [Browsers -> SUBSET Names]
    /\ req \in [Reqs -> Request]

Init ==
    /\ rows = [u \in Uids |-> IF u \in Seed THEN SeedName[u] ELSE None]
    /\ banned = Seed \cap Fiftieth
    /\ allocated = Seed
    /\ store = [s \in Sids |-> Empty]
    /\ owner = [s \in Sids |-> None]
    /\ ended = [s \in Sids |-> "open"]
    /\ mintedFor = [t \in Tokens |-> None]
    /\ cookie = [b \in Browsers |-> None]
    /\ authed = [b \in Browsers |-> {}]
    /\ req = [r \in Reqs |-> Idle]

-----------------------------------------------------------------------------
(***************************************************************************)
(* The request's own state.                                                *)
(***************************************************************************)
At(r, pc, ops) == req[r].pc = pc /\ req[r].op \in ops

Goto(r, pc) == req' = [req EXCEPT ![r].pc = pc]

\* http.Redirect, WriteHeader or a bare return: all that is left of the
\* request is the reply, and in it the Set-Cookie header for session id s.
AnswerWith(r, s, setCookie) ==
    req' = [req EXCEPT ![r] =
              [Idle EXCEPT !.pc = "reply", !.from = req[r].from,
                           !.op = req[r].op, !.overlaps = req[r].overlaps,
                           !.sid = s, !.setCookie = setCookie]]
Answer(r) == AnswerWith(r, None, "keep")

\* Change session.Values and call Save.
SaveWith(r, vals) ==
    req' = [req EXCEPT ![r].vals = vals, ![r].pc = "save"]

Notice(r) == SaveWith(r, [req[r].vals EXCEPT !.notice = TRUE])

\* getFlash: reading the notice deletes it, and so saves the session.
Flash(r) ==
    \/ /\ req[r].vals.notice
       /\ SaveWith(r, [req[r].vals EXCEPT !.notice = FALSE])
    \/ /\ ~ req[r].vals.notice
       /\ Answer(r)

UnchangedTables == UNCHANGED <<rows, banned, allocated>>
UnchangedSessions == UNCHANGED <<store, owner, ended, cookie>>
UnchangedAuth == UNCHANGED <<mintedFor, authed>>

-----------------------------------------------------------------------------
(***************************************************************************)
(* A browser sends a request with its cookie; it need not wait for others. *)
(***************************************************************************)
InFlight(b) == {q \in Reqs : req[q].from = b}

NewRequest(f, b) ==
    [pc |-> IF f.op = "initialize" THEN "clean" ELSE "load",
     op |-> f.op, from |-> b, sid |-> cookie[b], vals |-> Empty,
     me |-> None, name |-> f.name, good |-> f.good, token |-> f.token,
     targets |-> f.targets, setCookie |-> "keep",
     overlaps |-> IF f.op = "logout" THEN {req[p].op : p \in InFlight(b)}
                                     ELSE {}]

Send(r, b) ==
    /\ req[r].pc = "idle"
    /\ \E f \in Forms :
         /\ f.op \in Ops
         /\ req' = [q \in Reqs |->
              IF q = r THEN NewRequest(f, b)
              ELSE IF q \in InFlight(b) /\ req[q].op = "logout"
              THEN [req[q] EXCEPT !.overlaps = @ \cup {f.op}]
              ELSE req[q]]
    /\ UnchangedTables /\ UnchangedSessions /\ UnchangedAuth

\* getSession: an absent cookie, a missing entry and a memcached error all
\* give an empty session (its id is kept).  getLogout does not ask for `me'.
Load(r) ==
    /\ req[r].pc = "load"
    /\ \E vals \in {Empty} \cup {store[s] : s \in {req[r].sid} \cap Sids} :
         req' = [req EXCEPT ![r].vals = vals,
                            ![r].pc = IF req[r].op = "logout" THEN "work"
                                                              ELSE "me"]
    /\ UnchangedTables /\ UnchangedSessions /\ UnchangedAuth

\* getSessionUser: no user_id, no row and a database error all give User{}.
SelectMe(r) ==
    /\ req[r].pc = "me"
    /\ \E me \in {None} \cup ({req[r].vals.user_id} \cap Live) :
         req' = [req EXCEPT ![r].me = me, ![r].pc = "work"]
    /\ UnchangedTables /\ UnchangedSessions /\ UnchangedAuth

-----------------------------------------------------------------------------
\* getLogin and getRegister: redirect a user who is logged in, or show the
\* form with the notice.
GetLogin(r) ==
    /\ At(r, "work", {"getLogin"})
    /\ IF req[r].me # None THEN Answer(r) ELSE Flash(r)
    /\ UnchangedTables /\ UnchangedSessions /\ UnchangedAuth

\* getIndex: a failed query returns before the notice is taken.
GetIndex(r) ==
    /\ At(r, "work", {"getIndex"})
    /\ Answer(r) \/ Flash(r)
    /\ UnchangedTables /\ UnchangedSessions /\ UnchangedAuth

\* The rows tryLogin accepts.
LoginRows(r) ==
    {u \in Live \ banned : rows[u] = req[r].name /\ req[r].good}

\* postLogin, the credentials are right: a new token, and the session is of u.
PostLoginOK(r) ==
    /\ At(r, "work", {"postLogin"}) /\ req[r].me = None
    /\ \E u \in LoginRows(r), t \in Tokens \ Minted :
         /\ mintedFor' = [mintedFor EXCEPT ![t] = u]
         /\ SaveWith(r, LoginVals(req[r].vals, u, t))
    /\ authed' = [authed EXCEPT ![req[r].from] = @ \cup {req[r].name}]
    /\ UnchangedTables /\ UnchangedSessions

\* postLogin otherwise; tryLogin returns nil after a database error too.
PostLoginFail(r) ==
    /\ At(r, "work", {"postLogin"})
    /\ IF req[r].me # None THEN Answer(r) ELSE Notice(r)
    /\ UnchangedTables /\ UnchangedSessions /\ UnchangedAuth

\* postRegister up to its SELECT: the check that the name is free.  An error
\* of the SELECT leaves exists = 0, as if the name were free.
PostRegister(r) ==
    /\ At(r, "work", {"postRegister"})
    /\ \/ req[r].me # None /\ Answer(r)
       \/ req[r].me = None /\ ~ req[r].good /\ Notice(r)
       \/ /\ req[r].me = None /\ req[r].good
          /\ \E u \in Live : rows[u] = req[r].name
          /\ Notice(r)
       \/ req[r].me = None /\ req[r].good /\ Goto(r, "write")
    /\ UnchangedTables /\ UnchangedSessions /\ UnchangedAuth

\* postRegister's INSERT, which the UNIQUE key of account_name may refuse.
InsertUser(r) ==
    /\ At(r, "write", {"postRegister"})
    /\ UniqueName(req[r].name)
    /\ \E u \in FreshIds, t \in Tokens \ Minted :
         /\ rows' = [rows EXCEPT ![u] = req[r].name]
         /\ allocated' = allocated \cup {u}
         /\ mintedFor' = [mintedFor EXCEPT ![t] = u]
         /\ SaveWith(r, LoginVals(req[r].vals, u, t))
    /\ authed' = [authed EXCEPT ![req[r].from] = @ \cup {req[r].name}]
    /\ UNCHANGED banned
    /\ UnchangedSessions

\* The INSERT of postRegister, postIndex or postComment fails (a duplicate
\* name, a database error), or it adds a post or a comment of req[r].me.
InsertOther(r) ==
    /\ At(r, "write", {"postRegister", "postIndex", "postComment"})
    /\ Answer(r)
    /\ UnchangedTables /\ UnchangedSessions /\ UnchangedAuth

\* getLogout
GetLogout(r) ==
    /\ At(r, "work", {"logout"})
    /\ SaveWith(r, LogoutVals(req[r].vals))
    /\ UnchangedTables /\ UnchangedSessions /\ UnchangedAuth

MayWriteNoToken(r) ==                         \* mutant of MayWrite
    /\ req[r].me # None
    /\ req[r].op = "postAdminBanned" => req[r].me \in Admins

\* The checks postIndex, postComment and postAdminBanned start with.
MayWrite(r) ==
    /\ req[r].me # None
    /\ req[r].op = "postAdminBanned" => req[r].me \in Admins
    /\ req[r].token = req[r].vals.csrf_token

\* Refused; or the form has no image (a notice) or no integer post_id; or on
\* to the database.
PostForm(r) ==
    /\ At(r, "work", {"postIndex", "postComment", "postAdminBanned"})
    /\ \/ ~ MayWrite(r) /\ Answer(r)
       \/ /\ MayWrite(r) /\ ~ req[r].good
          /\ IF req[r].op = "postIndex" THEN Notice(r) ELSE Answer(r)
       \/ MayWrite(r) /\ req[r].good /\ Goto(r, "write")
    /\ UnchangedTables /\ UnchangedSessions /\ UnchangedAuth

\* postAdminBanned: one UPDATE per uid[], errors ignored.
BanUsers(r) ==
    /\ At(r, "write", {"postAdminBanned"})
    /\ \/ /\ req[r].targets = {} /\ Answer(r)
          /\ UNCHANGED banned
       \/ \E u \in req[r].targets :
            /\ banned' \in {banned, banned \cup ({u} \cap Live)}
            /\ req' = [req EXCEPT ![r].targets = @ \ {u}]
    /\ UNCHANGED <<rows, allocated>>
    /\ UnchangedSessions /\ UnchangedAuth

(***************************************************************************)
(* dbInitialize: one statement at a time, each of which may fail (the      *)
(* client may be gone, and with it the statements' context).               *)
(***************************************************************************)
DeleteNewUsers(r) ==
    /\ req[r].pc = "clean"
    /\ \/ /\ rows' = [u \in Uids |-> IF u \in Seed THEN rows[u] ELSE None]
          /\ banned' = banned \cap Seed
       \/ UNCHANGED <<rows, banned>>
    /\ Goto(r, "unban")
    /\ UNCHANGED allocated
    /\ UnchangedSessions /\ UnchangedAuth

UnbanAll(r) ==
    /\ req[r].pc = "unban"
    /\ banned' \in {banned, {}}
    /\ Goto(r, "reban")
    /\ UNCHANGED <<rows, allocated>>
    /\ UnchangedSessions /\ UnchangedAuth

BanFiftieth(r) ==
    /\ req[r].pc = "reban"
    /\ banned' \in {banned, banned \cup (Fiftieth \cap Live)}
    /\ Answer(r)
    /\ UNCHANGED <<rows, allocated>>
    /\ UnchangedSessions /\ UnchangedAuth

-----------------------------------------------------------------------------
(***************************************************************************)
(* session.Save: the whole session goes to memcached, under a new id when  *)
(* the request had none, and the cookie into the reply; getLogout's        *)
(* MaxAge = -1 makes that cookie a deletion, and the entry is rewritten or *)
(* erased.                                                                 *)
(***************************************************************************)
SaveIds(r) == IF req[r].sid = None THEN Sids \ Issued ELSE {req[r].sid}

SaveSession(r) ==
    /\ req[r].pc = "save"
    /\ \E s \in SaveIds(r) :
         /\ \E vals \in IF req[r].op = "logout" THEN {req[r].vals, Empty}
                                                ELSE {req[r].vals} :
              store' = [store EXCEPT ![s] = vals]
         /\ owner' = [owner EXCEPT ![s] = req[r].from]
         /\ \/ AnswerWith(r, s, IF req[r].op = "logout" THEN "delete"
                                                        ELSE "set")
            \/ Answer(r)        \* written, but memcached's answer was lost
    /\ UNCHANGED <<ended, cookie>>
    /\ UnchangedTables /\ UnchangedAuth

\* Save fails: no entry, no cookie, and the handler goes on regardless.
SaveFails(r) ==
    /\ req[r].pc = "save"
    /\ Answer(r)
    /\ UnchangedTables /\ UnchangedSessions /\ UnchangedAuth

\* The reply arrives, and its Set-Cookie header takes effect ...
Reply(r) ==
    /\ req[r].pc = "reply"
    /\ \/ /\ req[r].setCookie = "keep"
          /\ UNCHANGED <<cookie, ended>>
       \/ /\ req[r].setCookie = "set"
          /\ cookie' = [cookie EXCEPT ![req[r].from] = req[r].sid]
          /\ UNCHANGED ended
       \/ /\ req[r].setCookie = "delete"
          /\ cookie' = [cookie EXCEPT ![req[r].from] = None]
          /\ ended' = [ended EXCEPT ![req[r].sid] =
                CASE req[r].overlaps = {} -> "closed"
                  [] req[r].overlaps \in SUBSET (AllOps \ LoginOps) \ {{}} ->
                       "raced"
                  [] OTHER -> @]
    /\ req' = [req EXCEPT ![r] = Idle]
    /\ UNCHANGED <<store, owner>>
    /\ UnchangedTables /\ UnchangedAuth

\* ... or the client has given up and it is lost.
LoseReply(r) ==
    /\ req[r].pc = "reply"
    /\ req' = [req EXCEPT ![r] = Idle]
    /\ UnchangedTables /\ UnchangedSessions /\ UnchangedAuth

\* memcached drops an entry, or all of them when it restarts.
Evict(s) ==
    /\ store[s] # Empty
    /\ store' = [store EXCEPT ![s] = Empty]
    /\ UNCHANGED <<owner, ended, cookie, req>>
    /\ UnchangedTables /\ UnchangedAuth

Handle(r) ==
    \/ GetLogin(r) \/ GetIndex(r) \/ PostLoginOK(r) \/ PostLoginFail(r)
    \/ PostRegister(r) \/ InsertUser(r) \/ InsertOther(r) \/ GetLogout(r)
    \/ PostForm(r) \/ BanUsers(r)
    \/ DeleteNewUsers(r) \/ UnbanAll(r) \/ BanFiftieth(r)

Server ==
    \/ \E r \in Reqs : Load(r) \/ SelectMe(r) \/ Handle(r) \/ SaveSession(r)
                       \/ SaveFails(r) \/ Reply(r) \/ LoseReply(r)
    \/ \E s \in Sids : Evict(s)

Client == \E r \in Reqs, b \in Browsers : Send(r, b)

Next == Client \/ Server

Spec == Init /\ [][Next]_vars

-----------------------------------------------------------------------------
(***************************************************************************)
(* Properties                                                              *)
(***************************************************************************)
\* A CSRF token v stands for the account u it was drawn for.
Coherent(vals) ==
    vals.user_id # None => /\ vals.csrf_token # None
                           /\ mintedFor[vals.csrf_token] = vals.user_id

\* Whatever concurrent requests write over each other's sessions, a session
\* that names a user holds the token drawn at that user's login or
\* registration, in memcached as in a handler's memory (app.go:301-303,
\* 375-377 change both values and Save writes both).
TokenCoherence ==
    /\ \A s \in Sids : Coherent(store[s])
    /\ \A r \in Reqs : Coherent(req[r].vals)

\* A post, comment or ban that reaches the database was sent with the token
\* of the very account it is written for, drawn when this browser gave that
\* account's credentials -- although session, row and token were read at
\* different times (app.go:607-616, 721-730, 780-794).
WritersAuthorized ==
    \A r \in Reqs :
      At(r, "write", {"postIndex", "postComment", "postAdminBanned"}) =>
        /\ req[r].token # None
        /\ mintedFor[req[r].token] = req[r].me
        /\ rows[req[r].me] \in authed[req[r].from] \cup {None}

\* A browser is only ever taken for an account whose credentials it gave,
\* even when /initialize deletes accounts behind live sessions and others
\* register meanwhile (app.go:84, 147-163): the ids in sessions outlive rows.
NoForeignLogin ==
    \A b \in Browsers :
      cookie[b] # None =>
        LET u == store[cookie[b]].user_id
        IN  u # None => rows[u] \in authed[b] \cup {None}

\* When no other request of the browser overlaps its logout, the session
\* never names a user again and no cookie leads to it (app.go:382-389).
LogoutSticks ==
    \A s \in Sids :
      ended[s] = "closed" => /\ store[s].user_id = None
                             /\ \A b \in Browsers : cookie[b] # s

\* The same of the cookie for every logout that no login or registration
\* overlaps, whatever pages the browser was loading meanwhile: what the
\* benchmarker's scenario.go:461 says,
\* "ログアウトするとユーザー名が表示されないこと".
LogoutAlwaysSticks ==
    \A s \in Sids :
      ended[s] # "open" => \A b \in Browsers :
                             cookie[b] = s => store[s].user_id = None
=============================================================================
