---------------------------- MODULE NodeSessions ----------------------------
(***************************************************************************)
(* Sessions of the Node web application (src/webapp/node/src/session.ts,   *)
(* and what router.ts and models.ts do to c.get('session')).               *)
(*                                                                         *)
(* The middleware loads the session before the handler, lets the handler   *)
(* change a private copy, and after it writes the WHOLE copy back if the   *)
(* Proxy saw it change.  Nothing locks the entry in between, and an error  *)
(* of memcached is logged and forgotten.  This is one browser's view: two  *)
(* browsers share no session id, so none disturbs the other's.             *)
(***************************************************************************)
EXTENDS FiniteSets

CONSTANTS
    Users,        \* user ids
    Sids,         \* values of generateSessionId()
    Tokens,       \* values of crypto.randomBytes(16) given out as csrfToken
    Reqs,         \* request slots: the bound on requests in flight
    None          \* undefined, a missing entry or cookie

VARIABLES
    store,        \* memcached: session id -> session, None when absent
    issued,       \* the session ids generated so far
    mintedFor,    \* the user each csrfToken was drawn for
    cookie,       \* the browser's sid cookie
    req,          \* the requests in flight
    writes,       \* history: <<user, token field>> of each INSERT or UPDATE
    expect,       \* history: the user the browser may rely on being
    ended         \* history: session ids it may rely on being logged out

vars == <<store, issued, mintedFor, cookie, req, writes, expect, ended>>

SessionData == [userId : Users \cup {None}, csrfToken : Tokens \cup {None},
                flashNotice : BOOLEAN]
Empty == [userId |-> None, csrfToken |-> None, flashNotice |-> FALSE]

ASSUME NoneAssumption == None \notin Users \cup Sids \cup Tokens \cup SessionData

\* asset: a static file, which app.ts serves behind the middleware.
\* page: any GET.  signIn: POST /login, /register.  write: the other POSTs.
Ops == {"asset", "page", "signIn", "write", "logout"}

(***************************************************************************)
(* Two fields are history.  disturbed: while this request ran, something   *)
(* else changed the session or the cookie, or its own call to memcached    *)
(* failed.  old: a sign-in or a logout was answered while this request     *)
(* ran, so what it loaded may be from before.                              *)
(***************************************************************************)
Request ==
    [pc : {"idle", "load", "handle", "save", "reply"},
     op : Ops,
     token : Tokens \cup {None},             \* the form's csrf_token
     from : Sids \cup {None},                \* the cookie it was sent with
     sid : Sids \cup {None},                 \* sessionId
     session : SessionData,
     isSessionDirty : BOOLEAN,
     setCookie : {"no", "set", "delete"},
     disturbed : BOOLEAN,
     old : BOOLEAN]

Idle == [pc |-> "idle", op |-> "asset", token |-> None, from |-> None,
         sid |-> None, session |-> Empty, isSessionDirty |-> FALSE,
         setCookie |-> "no", disturbed |-> FALSE, old |-> FALSE]

\* Type invariant.  Besides the types: an entry, a cookie and a request only
\* name session ids that were generated.
TypeOK ==
    /\ store \in [Sids -> SessionData \cup {None}]
    /\ issued \subseteq Sids
    /\ mintedFor \in [Tokens -> Users \cup {None}]
    /\ cookie \in issued \cup {None}
    /\ req \in [Reqs -> Request]
    /\ writes \subseteq Users \X (Tokens \cup {None})
    /\ expect \in Users \cup {None}
    /\ ended \subseteq issued
    /\ \A s \in Sids \ issued : store[s] = None
    /\ \A r \in Reqs :
        /\ req[r].from \in issued \cup {None}
        /\ IF req[r].pc \in {"idle", "load"} THEN req[r].sid = None
           ELSE req[r].sid \in issued

Init ==
    /\ store = [s \in Sids |-> None]
    /\ issued = {}
    /\ mintedFor = [t \in Tokens |-> None]
    /\ cookie = None
    /\ req = [r \in Reqs |-> Idle]
    /\ writes = {}
    /\ expect = None
    /\ ended = {}

Minted == {t \in Tokens : mintedFor[t] # None}

-----------------------------------------------------------------------------
(***************************************************************************)
(* Steps of a request.                                                     *)
(***************************************************************************)
Step(r, q) == req' = [req EXCEPT ![r] = q]

\* As Step, when the step changes the session or the cookie.
Change(r, q) ==
    /\ req' = [x \in Reqs |->
                  IF x = r THEN q
                  ELSE IF req[x].pc = "idle" THEN req[x]
                  ELSE [req[x] EXCEPT !.disturbed = TRUE]]
    /\ expect' = IF q.old THEN None ELSE expect
    /\ ended' = IF q.old THEN ended \ {q.sid} ELSE ended

Send(r, op, token) ==
    /\ req[r].pc = "idle"
    /\ op = "write" \/ token = None
    /\ Step(r, [Idle EXCEPT !.pc = "load", !.op = op, !.token = token,
                            !.from = cookie])
    /\ expect' = IF op \in {"signIn", "logout"} THEN None ELSE expect
    /\ UNCHANGED <<store, issued, mintedFor, cookie, writes, ended>>

Stored(sid) == IF sid = None THEN None ELSE store[sid]

\* sessionMiddleware: the cookie's entry is there.
LoadFound(r) ==
    /\ req[r].pc = "load"
    /\ Stored(req[r].from) # None
    /\ Step(r, [req[r] EXCEPT !.pc = "handle", !.sid = req[r].from,
                              !.session = Stored(req[r].from)])
    /\ UNCHANGED <<store, issued, mintedFor, cookie, writes, expect, ended>>

\* sessionMiddleware: a session of its own, to be saved whatever the handler
\* does, and a cookie for it.
FreshUnderOldSid(q, s, old) ==                  \* mutant of Fresh
    [q EXCEPT !.pc = "handle", !.sid = q.from, !.session = Empty,
              !.isSessionDirty = TRUE, !.setCookie = "set", !.old = old]
Fresh(q, s, old) ==
    [q EXCEPT !.pc = "handle", !.sid = s, !.session = Empty,
              !.isSessionDirty = TRUE, !.setCookie = "set", !.old = old]

Generate(r, old) ==
    \E s \in Sids \ issued :
        /\ issued' = issued \cup {s}
        /\ Step(r, Fresh(req[r], s, old))
        /\ UNCHANGED <<store, mintedFor, cookie, writes, expect, ended>>

LoadMissing(r) ==
    /\ req[r].pc = "load"
    /\ Stored(req[r].from) = None
    /\ Generate(r, req[r].old)

\* getSessionFromStore: an error of memcached.get or of JSON.parse is taken
\* for a missing session.  What the request does may now undo a sign-in.
LoadFails(r) ==
    /\ req[r].pc = "load"
    /\ Stored(req[r].from) # None
    /\ Generate(r, TRUE)

\* The Proxy's set trap: the session is dirty once a property has changed.
NeverDirty(q, new) == [q EXCEPT !.session = new] \* mutant of Assign
Assign(q, new) ==
    [q EXCEPT !.session = new, !.isSessionDirty = @ \/ q.session # new]

\* The middleware's finally.
End(q) == [q EXCEPT !.pc = IF q.isSessionDirty THEN "save" ELSE "reply"]

Unchanged == UNCHANGED <<store, issued, mintedFor, cookie, writes, expect, ended>>

Handling(r, ops) == req[r].pc = "handle" /\ req[r].op \in ops

\* A static file, an early return (redirect, 404, 422, 403, post_id) or an
\* exception of the handler: the session object is left alone.
LeaveAlone(r) ==
    /\ Handling(r, Ops \ {"logout"})
    /\ Step(r, End(req[r]))
    /\ Unchanged

\* render() shows the notice and clears it.
RenderDropsSession(session) == Empty            \* mutant of Rendered
Rendered(session) == [session EXCEPT !.flashNotice = FALSE]

Render(r) ==
    /\ Handling(r, {"page"})
    /\ Step(r, End(Assign(req[r], Rendered(req[r].session))))
    /\ Unchanged

\* getSessionUser(): userId is set and the user still exists, or undefined.
Me(q) == {None} \cup {q.session.userId}

\* POST /login and /register of a client that is not signed in, with the
\* right credentials.
KeepToken(session, u, t) ==                     \* mutant of SignedIn
    [session EXCEPT !.userId = u, !.csrfToken = IF @ = None THEN t ELSE @]
SignedIn(session, u, t) == [session EXCEPT !.userId = u, !.csrfToken = t]

SignIn(r) ==
    /\ Handling(r, {"signIn"})
    /\ None \in Me(req[r])
    /\ \E u \in Users, t \in Tokens \ Minted :
        /\ mintedFor' = [mintedFor EXCEPT ![t] = u]
        /\ Step(r, End(Assign(req[r], SignedIn(req[r].session, u, t))))
    /\ UNCHANGED <<store, issued, cookie, writes, expect, ended>>

\* body.csrf_token !== session.csrfToken, where both may be undefined.
AnyToken(q) == TRUE                             \* mutant of TokenMatches
TokenMatches(q) == q.token = q.session.csrfToken

\* A refused sign-in, or a post without an acceptable file, leaves a notice.
Notice(r) ==
    /\ \/ Handling(r, {"signIn"}) /\ None \in Me(req[r])
       \/ /\ Handling(r, {"write"})
          /\ req[r].session.userId # None
          /\ TokenMatches(req[r])
    /\ Step(r, End(Assign(req[r], [req[r].session EXCEPT !.flashNotice = TRUE])))
    /\ Unchanged

\* POST /, /comment and /admin/banned reach their INSERT or UPDATE.
Write(r) ==
    /\ Handling(r, {"write"})
    /\ \E me \in Me(req[r]) \ {None} :
        /\ TokenMatches(req[r])
        /\ writes' = writes \cup {<<me, req[r].token>>}
    /\ Step(r, End(req[r]))
    /\ UNCHANGED <<store, issued, mintedFor, cookie, expect, ended>>

\* GET /logout: destroySession deletes the entry and the cookie.  The session
\* object is not touched, so it is saved only if it is fresh.
LogoutClearsNotice(q) ==                        \* mutant of LoggedOut
    [Assign(q, Rendered(q.session)) EXCEPT !.setCookie = "delete"]
LoggedOut(q) == [q EXCEPT !.setCookie = "delete"]

Logout(r) ==
    /\ Handling(r, {"logout"})
    /\ store' = [store EXCEPT ![req[r].sid] = None]
    /\ Change(r, End(LoggedOut(req[r])))
    /\ UNCHANGED <<issued, mintedFor, cookie, writes>>

\* deleteSessionFromStore: an error is logged, the client is told it is out.
LogoutFails(r) ==
    /\ Handling(r, {"logout"})
    /\ Step(r, [End(LoggedOut(req[r])) EXCEPT !.disturbed = TRUE])
    /\ Unchanged

\* saveSessionToStore: the whole session, over whatever is there by now.
SaveNothing(q) == Stored(q.sid)                 \* mutant of Saved
Saved(q) == q.session

Save(r) ==
    /\ req[r].pc = "save"
    /\ store' = [store EXCEPT ![req[r].sid] = Saved(req[r])]
    /\ Change(r, [req[r] EXCEPT !.pc = "reply"])
    /\ UNCHANGED <<issued, mintedFor, cookie, writes>>

\* An error of memcached.set is logged, the client gets its answer.
SaveFails(r) ==
    /\ req[r].pc = "save"
    /\ Step(r, [req[r] EXCEPT !.pc = "reply", !.disturbed = TRUE])
    /\ Unchanged

\* The answer arrives.  That of an undisturbed sign-in or logout is what the
\* browser relies on from then on; the requests still in flight become old.
CookieAfter(q) ==
    CASE q.setCookie = "set" -> q.sid
      [] q.setCookie = "delete" -> None
      [] OTHER -> cookie

Reply(r) ==
    LET q == req[r] IN
    /\ q.pc = "reply"
    /\ cookie' = CookieAfter(q)
    /\ expect' = IF q.op = "signIn" /\ ~q.disturbed THEN q.session.userId
                 ELSE IF q.old /\ q.setCookie # "no" THEN None
                 ELSE expect
    /\ ended' = IF q.op = "logout" /\ ~q.disturbed THEN ended \cup {q.sid}
                ELSE IF q.old /\ q.setCookie # "no" THEN ended \ {q.sid}
                ELSE ended
    /\ req' = [x \in Reqs |->
                  IF x = r THEN Idle
                  ELSE IF req[x].pc = "idle" THEN req[x]
                  ELSE [req[x] EXCEPT
                          !.disturbed = @ \/ q.setCookie # "no",
                          !.old = @ \/ q.op \in {"signIn", "logout"}]]
    /\ UNCHANGED <<store, issued, mintedFor, writes>>

\* The client gives up on a request, or its answer is lost.
LoseReply(r) ==
    /\ req[r].pc = "reply"
    /\ Step(r, Idle)
    /\ UNCHANGED <<store, issued, mintedFor, cookie, writes, expect, ended>>

\* memcached drops an entry: SESSION_TTL, or a lack of memory.
Evict(s) ==
    /\ store[s] # None
    /\ store' = [store EXCEPT ![s] = None]
    /\ req' = [x \in Reqs |-> IF req[x].pc = "idle" THEN req[x]
                              ELSE [req[x] EXCEPT !.disturbed = TRUE]]
    /\ expect' = None
    /\ UNCHANGED <<issued, mintedFor, cookie, writes, ended>>

Client == \E r \in Reqs, op \in Ops, token \in Minted \cup {None} : Send(r, op, token)

Server ==
    \/ \E r \in Reqs :
        \/ LoadFound(r) \/ LoadMissing(r) \/ LoadFails(r)
        \/ LeaveAlone(r) \/ Render(r) \/ SignIn(r) \/ Notice(r) \/ Write(r)
        \/ Logout(r) \/ LogoutFails(r)
        \/ Save(r) \/ SaveFails(r) \/ Reply(r) \/ LoseReply(r)
    \/ \E s \in Sids : Evict(s)

Next == Client \/ Server

Spec == Init /\ [][Next]_vars

-----------------------------------------------------------------------------
UserOf(session) == IF session = None THEN None ELSE session.userId

\* A session that names a user holds a csrfToken that was drawn for that very
\* user, through every overlap of whole-session writes: a token of the
\* previous user or of no one never comes to stand beside another userId.
TokenCoherence ==
    \A s \in Sids :
        UserOf(store[s]) # None =>
            /\ store[s].csrfToken # None
            /\ mintedFor[store[s].csrfToken] = store[s].userId

\* No form is acted on without a token drawn for the user it is acted on for,
\* although a missing field equals a missing csrfToken in the comparison.
WritersAuthorized ==
    \A w \in writes : w[2] # None /\ mintedFor[w[2]] = w[1]

\* A sign-in that nothing disturbed lasts: until the browser signs in or out
\* again, memcached fails or evicts the entry, or a request from before the
\* answer writes back what it had loaded, the browser's cookie leads to a
\* session of that user - whatever pages, refused forms and posts overlap.
LoginSticks == expect # None => UserOf(Stored(cookie)) = expect

\* A logout that nothing disturbed lasts: only a request that was in flight
\* when it was answered can write its session back.
LogoutSticks == \A s \in ended : UserOf(store[s]) = None
=============================================================================
