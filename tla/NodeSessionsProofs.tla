------------------------- MODULE NodeSessionsProofs -------------------------
(***************************************************************************)
(* The safety properties of NodeSessions, proved for any number of         *)
(* requests in flight, users, session ids and tokens.                      *)
(***************************************************************************)
EXTENDS NodeSessions, TLAPS

-----------------------------------------------------------------------------
(***************************************************************************)
(* The inductive invariant the properties follow from.                     *)
(***************************************************************************)
Coherent(session) ==
    session.userId # None =>
        /\ session.csrfToken # None
        /\ mintedFor[session.csrfToken] = session.userId

\* Where a request is, and what it has loaded.
StageInv(q) ==
    /\ q.pc \in {"idle", "load"} => q.setCookie = "no" /\ ~q.isSessionDirty
    /\ q.pc \notin {"idle", "load"} /\ q.setCookie = "no" => q.sid = q.from
    /\ q.pc = "save" => q.isSessionDirty
    /\ q.setCookie = "delete" <=> q.op = "logout" /\ q.pc \in {"save", "reply"}
    /\ q.op = "logout" /\ q.isSessionDirty => q.session = Empty
    /\ Coherent(q.session)

\* The cookie is still the one an undisturbed request was sent with, and what
\* it has loaded or saved is still there; so is what a logout has deleted.
UndisturbedInv(q) ==
    ~q.disturbed /\ q.pc # "idle" =>
        /\ q.from = cookie
        /\ q.op # "logout" /\ (q.pc = "reply" \/ (q.pc = "handle" /\ ~q.isSessionDirty))
           => UserOf(store[q.sid]) = q.session.userId
        /\ q.op = "logout" /\ q.pc \in {"save", "reply"}
           => UserOf(store[q.sid]) = None

\* A request that is not old only knows the session the browser relies on,
\* and none of those it relies on being logged out.
CurrentInv(q) ==
    q.pc # "idle" /\ ~q.old =>
        /\ expect # None =>
             /\ q.op \notin {"signIn", "logout"}
             /\ q.from = cookie
             /\ q.pc # "load" =>
                  q.setCookie = "no" /\ q.session.userId = expect
        /\ {q.from, q.sid} \cap ended = {}

RequestInv(q) == StageInv(q) /\ UndisturbedInv(q) /\ CurrentInv(q)

IInv ==
    /\ TypeOK
    /\ TokenCoherence
    /\ WritersAuthorized
    /\ LoginSticks
    /\ LogoutSticks
    /\ cookie \notin ended
    /\ \A r \in Reqs : RequestInv(req[r])

\* A request of which only the history fields may differ.
SameButHistory(q, p) ==
    /\ p.pc = q.pc /\ p.op = q.op /\ p.from = q.from /\ p.sid = q.sid
    /\ p.session = q.session /\ p.isSessionDirty = q.isSessionDirty
    /\ p.setCookie = q.setCookie

\* Session ids are generated and tokens drawn, none is taken back.
OnlyGrows ==
    /\ issued \subseteq issued' /\ issued' \subseteq Sids
    /\ mintedFor' \in [Tokens -> Users \cup {None}]
    /\ \A t \in Tokens : mintedFor[t] # None => mintedFor'[t] = mintedFor[t]

\* What the browser relies on is forgotten, or stands with its cookie.
ReliesOnNoMore ==
    /\ ended' \subseteq ended
    /\ expect' = None \/ UNCHANGED <<expect, cookie>>

\* The session ids a request names were generated.
NamesIssued(q) ==
    /\ q.from \in issued \cup {None}
    /\ IF q.pc \in {"idle", "load"} THEN q.sid = None ELSE q.sid \in issued

\* Nothing is stored, sent or relied on at first.
LEMMA InitInv == Init => IInv
<1> SUFFICES ASSUME Init PROVE IInv
  OBVIOUS
<1> USE NoneAssumption DEF Init
<1>1. Empty \in SessionData /\ Idle \in Request
  BY DEF Empty, Idle, SessionData, Request, Ops
<1>2. TypeOK
  BY <1>1 DEF TypeOK, Idle
<1>3. TokenCoherence /\ WritersAuthorized
  BY DEF TokenCoherence, WritersAuthorized, UserOf
<1>4. LoginSticks /\ LogoutSticks /\ cookie \notin ended
  BY DEF LoginSticks, LogoutSticks
<1>5. \A r \in Reqs : RequestInv(req[r])
  BY DEF RequestInv, StageInv, UndisturbedInv, CurrentInv, Coherent, Idle, Empty
<1> QED
  BY <1>2, <1>3, <1>4, <1>5 DEF IInv

\* A coherent session stays so: the token it holds has been drawn.
LEMMA CoherentStays ==
  ASSUME OnlyGrows, NEW session \in SessionData, Coherent(session)
  PROVE  Coherent(session)'
BY NoneAssumption DEF OnlyGrows, Coherent, SessionData

\* A request that a step of another one leaves as it is, or marks as
\* disturbed or old, stays in order.
LEMMA OtherRequest ==
  ASSUME NEW x \in Reqs, req[x] \in Request, RequestInv(req[x]),
         SameButHistory(req[x], req'[x]), OnlyGrows,
         \/ req[x].pc = "idle"
         \/ /\ req'[x].disturbed \/ (~req[x].disturbed /\ UNCHANGED <<store, cookie>>)
            /\ req'[x].old \/ (~req[x].old /\ ReliesOnNoMore)
  PROVE  RequestInv(req[x])'
<1>1. StageInv(req[x])'
  <2>1. req[x].session \in SessionData /\ Coherent(req[x].session)
    BY DEF RequestInv, StageInv, Request
  <2>2. PICK session \in SessionData : session = req[x].session
    BY <2>1
  <2>3. Coherent(session)'
    BY <2>1, <2>2, CoherentStays
  <2>4. Coherent(req[x].session)'
    BY <2>2, <2>3 DEF SameButHistory, Coherent
  <2> QED
    BY <2>4 DEF RequestInv, StageInv, SameButHistory, Empty
<1>2. UndisturbedInv(req[x])'
  BY DEF RequestInv, UndisturbedInv, SameButHistory, UserOf
<1>3. CurrentInv(req[x])'
  BY DEF RequestInv, CurrentInv, SameButHistory, ReliesOnNoMore
<1> QED
  BY <1>1, <1>2, <1>3 DEF RequestInv

\* A step that writes neither to memcached nor to the cookie.
LEMMA LocalStep ==
  ASSUME IInv, NEW r \in Reqs,
         UNCHANGED <<store, cookie, ended>>, OnlyGrows,
         expect' \in {expect, None},
         writes' \subseteq Users \X (Tokens \cup {None}), WritersAuthorized',
         req' \in [Reqs -> Request],
         \A x \in Reqs \ {r} : req'[x] = req[x],
         NamesIssued(req[r])', RequestInv(req[r])'
  PROVE  IInv'
<1> USE NoneAssumption DEF IInv
<1>1. TypeOK'
  <2>1. \A x \in Reqs : NamesIssued(req[x])'
    BY DEF TypeOK, OnlyGrows, NamesIssued
  <2>2. \A s \in Sids \ issued' : store'[s] = None
    BY DEF TypeOK, OnlyGrows
  <2>3. ended' \subseteq issued' /\ cookie' \in issued' \cup {None}
    BY DEF TypeOK, OnlyGrows
  <2> QED
    BY <2>1, <2>2, <2>3 DEF TypeOK, OnlyGrows, NamesIssued
<1>2. TokenCoherence'
  BY DEF TokenCoherence, TypeOK, OnlyGrows, UserOf, SessionData
<1>3. LoginSticks' /\ LogoutSticks' /\ (cookie \notin ended)'
  BY DEF LoginSticks, LogoutSticks, Stored, UserOf
<1>4. ASSUME NEW x \in Reqs \ {r} PROVE RequestInv(req[x])'
  <2>1. req[x] \in Request /\ RequestInv(req[x])
    BY DEF TypeOK
  <2>2. SameButHistory(req[x], req'[x])
    BY DEF SameButHistory
  <2>3. ReliesOnNoMore
    BY DEF ReliesOnNoMore
  <2>4. /\ req'[x].disturbed \/ (~req[x].disturbed /\ UNCHANGED <<store, cookie>>)
        /\ req'[x].old \/ (~req[x].old /\ ReliesOnNoMore)
    BY <2>3
  <2> HIDE DEF IInv
  <2> QED
    BY <2>1, <2>2, <2>4, OtherRequest
<1> QED
  BY <1>1, <1>2, <1>3, <1>4

-----------------------------------------------------------------------------
(***************************************************************************)
(* Sending, and the middleware before the handler.                         *)
(***************************************************************************)
\* A request starts with the browser's cookie, whatever it relies on.
LEMMA SendStep ==
  ASSUME IInv, NEW r \in Reqs, NEW op \in Ops, NEW token \in Minted \cup {None},
         Send(r, op, token)
  PROVE  IInv'
<1> USE NoneAssumption DEF IInv
<1> DEFINE q == [Idle EXCEPT !.pc = "load", !.op = op, !.token = token,
                             !.from = cookie]
<1>1. req' = [req EXCEPT ![r] = q] /\ req \in [Reqs -> Request]
  BY DEF Send, Step, TypeOK
<1>2. /\ q.pc = "load" /\ q.op = op /\ q.from = cookie /\ q.sid = None
      /\ q.session = Empty /\ q.isSessionDirty = FALSE /\ q.setCookie = "no"
      /\ q.disturbed = FALSE /\ q.old = FALSE
  BY DEF Idle
<1>3. q \in Request
  BY DEF Idle, Request, Empty, SessionData, Minted, TypeOK, Ops
<1>4. /\ UNCHANGED <<store, cookie, ended, issued, mintedFor, writes>>
      /\ expect' = IF op \in {"signIn", "logout"} THEN None ELSE expect
  BY DEF Send
<1>5. OnlyGrows /\ expect' \in {expect, None}
  BY <1>4 DEF OnlyGrows, TypeOK
<1>6. WritersAuthorized' /\ writes' \subseteq Users \X (Tokens \cup {None})
  BY <1>4 DEF WritersAuthorized, TypeOK
<1>7. req'[r] = q
  BY <1>1
<1>8. NamesIssued(req[r])'
  BY <1>2, <1>4, <1>7 DEF NamesIssued, TypeOK
<1>9. RequestInv(req[r])'
  <2>1. (StageInv(req[r]) /\ UndisturbedInv(req[r]))'
    BY <1>2, <1>4, <1>7 DEF StageInv, UndisturbedInv, Coherent, Empty
  <2>2. CurrentInv(req[r])'
    BY <1>2, <1>4, <1>7 DEF CurrentInv, TypeOK
  <2> QED
    BY <2>1, <2>2 DEF RequestInv
<1>10. req' \in [Reqs -> Request] /\ \A x \in Reqs \ {r} : req'[x] = req[x]
  BY <1>1, <1>3
<1> HIDE DEF IInv, q
<1> QED
  BY <1>4, <1>5, <1>6, <1>8, <1>9, <1>10, LocalStep

\* What is loaded is coherent, and undisturbed it is what the cookie leads to.
LEMMA LoadFoundStep == ASSUME IInv, NEW r \in Reqs, LoadFound(r) PROVE IInv'
<1> USE NoneAssumption DEF IInv
<1> DEFINE q == [req[r] EXCEPT !.pc = "handle", !.sid = req[r].from,
                               !.session = Stored(req[r].from)]
<1>1. req' = [req EXCEPT ![r] = q] /\ req \in [Reqs -> Request] /\ req[r] \in Request
  BY DEF LoadFound, Step, TypeOK
<1>2. /\ q.pc = "handle" /\ q.op = req[r].op /\ q.from = req[r].from
      /\ q.sid = req[r].from /\ q.session = Stored(req[r].from)
      /\ q.isSessionDirty = req[r].isSessionDirty /\ q.setCookie = req[r].setCookie
      /\ q.disturbed = req[r].disturbed /\ q.old = req[r].old
  BY <1>1 DEF Request
<1>3. /\ req[r].pc = "load" /\ RequestInv(req[r])
      /\ req[r].from \in issued /\ Stored(req[r].from) = store[req[r].from]
      /\ store[req[r].from] \in SessionData
  BY DEF LoadFound, Stored, TypeOK
<1>4. q \in Request
  BY <1>1, <1>3 DEF Request, TypeOK
<1>5. UNCHANGED <<store, cookie, ended, issued, mintedFor, writes, expect>>
  BY DEF LoadFound
<1>6. OnlyGrows /\ expect' \in {expect, None}
  BY <1>5 DEF OnlyGrows, TypeOK
<1>7. WritersAuthorized' /\ writes' \subseteq Users \X (Tokens \cup {None})
  BY <1>5 DEF WritersAuthorized, TypeOK
<1>8. req'[r] = q
  BY <1>1
<1>9. NamesIssued(req[r])'
  BY <1>2, <1>3, <1>5, <1>8 DEF NamesIssued
<1>10. RequestInv(req[r])'
  <2>1. Coherent(store[req[r].from])
    BY <1>3 DEF TokenCoherence, UserOf, Coherent, SessionData, TypeOK
  <2>2. UserOf(store[req[r].from]) = store[req[r].from].userId
    BY <1>3 DEF UserOf
  <2>3. StageInv(req[r])'
    BY <1>2, <1>3, <1>5, <1>8, <2>1 DEF StageInv, RequestInv, Coherent
  <2>4. UndisturbedInv(req[r])'
    BY <1>2, <1>3, <1>5, <1>8, <2>2 DEF UndisturbedInv, RequestInv, UserOf
  <2>5. CurrentInv(req[r])'
    BY <1>2, <1>3, <1>5, <1>8, <2>2
       DEF CurrentInv, RequestInv, StageInv, LoginSticks
  <2> QED
    BY <2>3, <2>4, <2>5 DEF RequestInv
<1>11. req' \in [Reqs -> Request] /\ \A x \in Reqs \ {r} : req'[x] = req[x]
  BY <1>1, <1>4
<1> HIDE DEF IInv, q
<1> QED
  BY <1>5, <1>6, <1>7, <1>9, <1>10, <1>11, LocalStep

\* A session of its own: its id was never given out, so nobody relies on it.
LEMMA GenerateStep ==
  ASSUME IInv, NEW r \in Reqs, NEW old \in BOOLEAN,
         req[r].pc = "load", Generate(r, old),
         old \/ (~req[r].old /\ Stored(req[r].from) = None)
  PROVE  IInv'
<1> USE NoneAssumption DEF IInv
<1>1. PICK s \in Sids \ issued :
        /\ issued' = issued \cup {s}
        /\ Step(r, Fresh(req[r], s, old))
        /\ UNCHANGED <<store, mintedFor, cookie, writes, expect, ended>>
  BY DEF Generate
<1> DEFINE q == Fresh(req[r], s, old)
<1>2. req' = [req EXCEPT ![r] = q] /\ req \in [Reqs -> Request] /\ req[r] \in Request
  BY <1>1 DEF Step, TypeOK
<1>3. /\ q.pc = "handle" /\ q.op = req[r].op /\ q.from = req[r].from
      /\ q.sid = s /\ q.session = Empty /\ q.isSessionDirty = TRUE
      /\ q.setCookie = "set" /\ q.disturbed = req[r].disturbed /\ q.old = old
  BY <1>2 DEF Request, Fresh
<1>4. q \in Request
  BY <1>2 DEF Request, Fresh, Empty, SessionData
<1>5. RequestInv(req[r]) /\ req[r].from \in issued \cup {None}
  BY DEF TypeOK
<1>6. OnlyGrows /\ expect' \in {expect, None}
  BY <1>1 DEF OnlyGrows, TypeOK
<1>7. WritersAuthorized' /\ writes' \subseteq Users \X (Tokens \cup {None})
  BY <1>1 DEF WritersAuthorized, TypeOK
<1>8. req'[r] = q
  BY <1>2
<1>9. NamesIssued(req[r])'
  BY <1>1, <1>3, <1>5, <1>8 DEF NamesIssued
<1>10. RequestInv(req[r])'
  <2>1. StageInv(req[r])'
    BY <1>3, <1>8 DEF StageInv, Coherent, Empty
  <2>2. UndisturbedInv(req[r])'
    BY <1>1, <1>3, <1>5, <1>8 DEF UndisturbedInv, RequestInv
  <2>3. CurrentInv(req[r])'
    <3>1. CASE old
      BY <1>3, <1>8, <3>1 DEF CurrentInv
    <3>2. CASE ~old
      <4>1. ~req[r].old /\ Stored(req[r].from) = None
        BY <3>2
      <4>2. expect # None => req[r].from = cookie
        BY <1>5, <4>1 DEF RequestInv, CurrentInv
      <4>3. expect = None
        BY <4>1, <4>2 DEF LoginSticks, UserOf
      <4>4. {req[r].from, s} \cap ended = {}
        BY <1>1, <1>5, <4>1 DEF RequestInv, CurrentInv, TypeOK
      <4>5. expect' = None /\ ended' = ended
        BY <1>1, <4>3
      <4> HIDE DEF q, IInv
      <4> QED
        BY <1>3, <1>8, <4>4, <4>5 DEF CurrentInv
    <3> QED
      BY <3>1, <3>2
  <2> QED
    BY <2>1, <2>2, <2>3 DEF RequestInv
<1>11. req' \in [Reqs -> Request] /\ \A x \in Reqs \ {r} : req'[x] = req[x]
  BY <1>2, <1>4
<1> HIDE DEF IInv, q
<1> QED
  BY <1>1, <1>6, <1>7, <1>9, <1>10, <1>11, LocalStep

\* A cookie that leads nowhere is not one the browser relies on.
LEMMA LoadMissingStep == ASSUME IInv, NEW r \in Reqs, LoadMissing(r) PROVE IInv'
<1>1. PICK old \in BOOLEAN : old = req[r].old
  BY DEF IInv, TypeOK, Request
<1>2. req[r].pc = "load" /\ Generate(r, old) /\ Stored(req[r].from) = None
  BY <1>1 DEF LoadMissing
<1> QED
  BY <1>1, <1>2, GenerateStep

\* A session that cannot be loaded makes the request an old one.
LEMMA LoadFailsStep == ASSUME IInv, NEW r \in Reqs, LoadFails(r) PROVE IInv'
BY GenerateStep DEF LoadFails

-----------------------------------------------------------------------------
(***************************************************************************)
(* The handlers that leave memcached alone.                                *)
(***************************************************************************)
\* What a handler other than logout does to the session object is saved or,
\* if it changed nothing, not: either way the request stays in order.
LEMMA HandlerStep ==
  ASSUME IInv, NEW r \in Reqs, req[r].pc = "handle", req[r].op # "logout",
         NEW new \in SessionData, Coherent(new)',
         UNCHANGED <<store, cookie, ended, issued, expect>>, OnlyGrows,
         writes' \subseteq Users \X (Tokens \cup {None}), WritersAuthorized',
         Step(r, End(Assign(req[r], new))),
         req[r].op # "signIn" => new.userId = req[r].session.userId
  PROVE  IInv'
<1> USE NoneAssumption DEF IInv
<1> DEFINE q == End(Assign(req[r], new))
<1>1. req' = [req EXCEPT ![r] = q] /\ req \in [Reqs -> Request] /\ req[r] \in Request
  BY DEF Step, TypeOK
<1>2. PICK dirty \in BOOLEAN : dirty = (req[r].isSessionDirty \/ req[r].session # new)
  OBVIOUS
<1>3. Assign(req[r], new)
        = [req[r] EXCEPT !.session = new, !.isSessionDirty = dirty]
  BY <1>1, <1>2 DEF Assign, Request
<1>4. /\ q.pc = IF dirty THEN "save" ELSE "reply"
      /\ q.op = req[r].op /\ q.from = req[r].from
      /\ q.sid = req[r].sid /\ q.session = new /\ q.isSessionDirty = dirty
      /\ q.setCookie = req[r].setCookie
      /\ q.disturbed = req[r].disturbed /\ q.old = req[r].old
  BY <1>1, <1>3 DEF Request, End
<1>5. q \in Request
  BY <1>1, <1>3 DEF Request, End
<1>6. RequestInv(req[r]) /\ req[r].sid \in issued /\ req[r].from \in issued \cup {None}
  BY DEF TypeOK
<1>7. req'[r] = q
  BY <1>1
<1> HIDE DEF q
<1>8. NamesIssued(req[r])'
  BY <1>4, <1>6, <1>7 DEF NamesIssued
<1>9. RequestInv(req[r])'
  <2>1. StageInv(req[r])'
    <3>1. req[r].setCookie = "no" => req[r].sid = req[r].from
      BY <1>6 DEF RequestInv, StageInv
    <3>2. req[r].setCookie # "delete"
      BY <1>6 DEF RequestInv, StageInv
    <3> QED
      BY <1>2, <1>4, <1>7, <3>1, <3>2 DEF StageInv, Coherent
  <2>2. UndisturbedInv(req[r])'
    BY <1>2, <1>4, <1>6, <1>7 DEF UndisturbedInv, RequestInv, UserOf
  <2>3. CurrentInv(req[r])'
    BY <1>4, <1>6, <1>7 DEF CurrentInv, RequestInv
  <2> QED
    BY <2>1, <2>2, <2>3 DEF RequestInv
<1>10. req' \in [Reqs -> Request] /\ \A x \in Reqs \ {r} : req'[x] = req[x]
  BY <1>1, <1>5
<1> HIDE DEF IInv
<1> QED
  BY <1>8, <1>9, <1>10, LocalStep

\* A handler that touches nothing of the session, like one that assigns it
\* what it is.
LEMMA AssignSame ==
  ASSUME NEW q \in Request
  PROVE  Assign(q, q.session) = q
<1>1. PICK dirty \in BOOLEAN : dirty = q.isSessionDirty
  BY DEF Request
<1>2. Assign(q, q.session) = [q EXCEPT !.session = q.session, !.isSessionDirty = dirty]
  BY <1>1 DEF Assign, Request
<1> QED
  BY <1>1, <1>2 DEF Request

\* What a request has loaded is a coherent session.
LEMMA LoadedCoherent ==
  ASSUME IInv, NEW r \in Reqs
  PROVE  /\ req[r] \in Request /\ req[r].session \in SessionData
         /\ Coherent(req[r].session)
BY DEF IInv, TypeOK, Request, RequestInv, StageInv

\* Nothing generated, drawn or written.
LEMMA NothingNew ==
  ASSUME IInv, UNCHANGED <<issued, mintedFor, writes>>
  PROVE  /\ OnlyGrows /\ WritersAuthorized'
         /\ writes' \subseteq Users \X (Tokens \cup {None})
BY DEF IInv, TypeOK, OnlyGrows, WritersAuthorized

\* An answer that leaves the session alone.
LEMMA LeaveAloneStep == ASSUME IInv, NEW r \in Reqs, LeaveAlone(r) PROVE IInv'
<1>1. req[r].pc = "handle" /\ req[r].op # "logout" /\ Unchanged
  BY DEF LeaveAlone, Handling
<1>2. PICK new \in SessionData : new = req[r].session
  BY LoadedCoherent
<1>3. Step(r, End(Assign(req[r], new)))
  BY <1>2, LoadedCoherent, AssignSame DEF LeaveAlone
<1>4. Coherent(new)'
  BY <1>1, <1>2, LoadedCoherent DEF Unchanged, Coherent
<1> QED
  BY <1>1, <1>2, <1>3, <1>4, NothingNew, HandlerStep DEF Unchanged

\* Clearing the notice leaves the user and the token.
LEMMA RenderStep == ASSUME IInv, NEW r \in Reqs, Render(r) PROVE IInv'
<1>1. req[r].pc = "handle" /\ req[r].op # "logout" /\ Unchanged
  BY DEF Render, Handling
<1>2. PICK new \in SessionData : new = Rendered(req[r].session)
  BY LoadedCoherent DEF Rendered, SessionData
<1>3. /\ new.userId = req[r].session.userId
      /\ new.csrfToken = req[r].session.csrfToken
  BY <1>2, LoadedCoherent DEF Rendered, SessionData
<1>4. Coherent(new)'
  BY <1>1, <1>3, LoadedCoherent DEF Unchanged, Coherent
<1>5. Step(r, End(Assign(req[r], new)))
  BY <1>2 DEF Render
<1> QED
  BY <1>1, <1>3, <1>4, <1>5, NothingNew, HandlerStep DEF Unchanged

\* Setting the notice leaves them too.
LEMMA NoticeStep == ASSUME IInv, NEW r \in Reqs, Notice(r) PROVE IInv'
<1>1. req[r].pc = "handle" /\ req[r].op # "logout" /\ Unchanged
  BY DEF Notice, Handling
<1>2. PICK new \in SessionData : new = [req[r].session EXCEPT !.flashNotice = TRUE]
  BY LoadedCoherent DEF SessionData
<1>3. /\ new.userId = req[r].session.userId
      /\ new.csrfToken = req[r].session.csrfToken
  BY <1>2, LoadedCoherent DEF SessionData
<1>4. Coherent(new)'
  BY <1>1, <1>3, LoadedCoherent DEF Unchanged, Coherent
<1>5. Step(r, End(Assign(req[r], new)))
  BY <1>2 DEF Notice
<1> QED
  BY <1>1, <1>3, <1>4, <1>5, NothingNew, HandlerStep DEF Unchanged

\* The token of a sign-in was never drawn before, so no session or write
\* refers to it.
LEMMA SignInStep == ASSUME IInv, NEW r \in Reqs, SignIn(r) PROVE IInv'
<1> USE NoneAssumption
<1>1. req[r].pc = "handle" /\ req[r].op = "signIn"
  BY DEF SignIn, Handling
<1>2. PICK u \in Users, t \in Tokens \ Minted :
        /\ mintedFor' = [mintedFor EXCEPT ![t] = u]
        /\ Step(r, End(Assign(req[r], SignedIn(req[r].session, u, t))))
  BY DEF SignIn
<1>3. UNCHANGED <<store, issued, cookie, writes, expect, ended>>
  BY DEF SignIn
<1>4. PICK new \in SessionData : new = SignedIn(req[r].session, u, t)
  BY LoadedCoherent DEF SignedIn, SessionData
<1>5. new.userId = u /\ new.csrfToken = t
  BY <1>4, LoadedCoherent DEF SignedIn, SessionData
<1>6. OnlyGrows
  BY <1>2, <1>3 DEF IInv, TypeOK, OnlyGrows, Minted
<1>7. Coherent(new)'
  BY <1>2, <1>5 DEF Coherent, IInv, TypeOK
<1>8. WritersAuthorized' /\ writes' \subseteq Users \X (Tokens \cup {None})
  BY <1>3, <1>6 DEF IInv, TypeOK, WritersAuthorized, OnlyGrows
<1>9. Step(r, End(Assign(req[r], new)))
  BY <1>2, <1>4
<1> QED
  BY <1>1, <1>3, <1>6, <1>7, <1>8, <1>9, HandlerStep

\* A form with the token of a coherent session bears one drawn for its user.
LEMMA WriteStep == ASSUME IInv, NEW r \in Reqs, Write(r) PROVE IInv'
<1> USE NoneAssumption
<1>1. req[r].pc = "handle" /\ req[r].op # "logout"
  BY DEF Write, Handling
<1>2. PICK me \in Me(req[r]) \ {None} :
        /\ TokenMatches(req[r])
        /\ writes' = writes \cup {<<me, req[r].token>>}
  BY DEF Write
<1>3. UNCHANGED <<store, issued, mintedFor, cookie, expect, ended>>
  BY DEF Write
<1>4. PICK new \in SessionData : new = req[r].session
  BY LoadedCoherent
<1>5. me = new.userId /\ me # None /\ req[r].token = new.csrfToken
  BY <1>2, <1>4 DEF Me, TokenMatches
<1>6. new.csrfToken # None /\ mintedFor[new.csrfToken] = me
  BY <1>4, <1>5, LoadedCoherent DEF Coherent
<1>7. writes' \subseteq Users \X (Tokens \cup {None})
  BY <1>2, <1>5 DEF IInv, TypeOK, SessionData
<1>8. WritersAuthorized'
  BY <1>2, <1>3, <1>5, <1>6 DEF IInv, WritersAuthorized
<1>9. Step(r, End(Assign(req[r], new)))
  BY <1>4, LoadedCoherent, AssignSame DEF Write
<1>10. Coherent(new)' /\ OnlyGrows
  BY <1>3, <1>4, LoadedCoherent DEF Coherent, OnlyGrows, IInv, TypeOK
<1> QED
  BY <1>1, <1>3, <1>4, <1>7, <1>8, <1>9, <1>10, HandlerStep

-----------------------------------------------------------------------------
(***************************************************************************)
(* The steps that write to memcached.                                      *)
(***************************************************************************)
\* The steps that write an entry: the requests it may surprise are disturbed,
\* and an old request leaves the browser nothing to rely on.
LEMMA ChangeStep ==
  ASSUME IInv, NEW r \in Reqs, NEW q \in Request,
         NEW session \in SessionData \cup {None},
         store' = [store EXCEPT ![req[r].sid] = session],
         Change(r, q), UNCHANGED <<issued, mintedFor, cookie, writes>>,
         req[r].pc \notin {"idle", "load"}, q.pc \notin {"idle", "load"},
         q.sid = req[r].sid, q.from = req[r].from, q.old = req[r].old,
         session # None => Coherent(session),
         ~q.old => /\ expect # None => q.sid = cookie /\ UserOf(session) = expect
                   /\ q.sid \notin ended,
         RequestInv(req[r])'
  PROVE  IInv'
<1> USE NoneAssumption DEF IInv
<1>1. /\ req \in [Reqs -> Request] /\ req[r].sid \in issued /\ issued \subseteq Sids
      /\ store \in [Sids -> SessionData \cup {None}]
  BY DEF TypeOK
<1>2. /\ req'[r] = q
      /\ \A x \in Reqs \ {r} :
            req'[x] = IF req[x].pc = "idle" THEN req[x]
                      ELSE [req[x] EXCEPT !.disturbed = TRUE]
      /\ expect' = IF q.old THEN None ELSE expect
      /\ ended' = IF q.old THEN ended \ {q.sid} ELSE ended
  BY DEF Change
<1>3. OnlyGrows /\ ReliesOnNoMore
  BY <1>2 DEF OnlyGrows, ReliesOnNoMore, TypeOK
<1>4. ASSUME NEW x \in Reqs \ {r}
      PROVE  req'[x] \in Request /\ NamesIssued(req[x])' /\ RequestInv(req[x])'
  <2>1. /\ req[x] \in Request /\ RequestInv(req[x]) /\ NamesIssued(req[x])
        /\ req[x].old \in BOOLEAN
    BY <1>1 DEF TypeOK, NamesIssued, Request
  <2>2. CASE req[x].pc = "idle"
    <3>1. req'[x] = req[x] /\ SameButHistory(req[x], req'[x])
      BY <1>2, <2>2 DEF SameButHistory
    <3>2. NamesIssued(req[x])'
      BY <2>1, <3>1 DEF NamesIssued
    <3> HIDE DEF IInv
    <3> QED
      BY <1>3, <2>1, <2>2, <3>1, <3>2, OtherRequest
  <2>3. CASE req[x].pc # "idle"
    <3>1. req'[x] = [req[x] EXCEPT !.disturbed = TRUE]
      BY <1>2, <2>3
    <3>2. /\ SameButHistory(req[x], req'[x]) /\ req'[x] \in Request
          /\ req'[x].disturbed /\ req'[x].old = req[x].old
      BY <2>1, <3>1 DEF SameButHistory, Request
    <3>3. NamesIssued(req[x])'
      BY <2>1, <3>2 DEF NamesIssued, SameButHistory
    <3> HIDE DEF IInv
    <3> QED
      BY <1>3, <2>1, <3>2, <3>3, OtherRequest
  <2> QED
    BY <2>2, <2>3
<1>5. NamesIssued(req[r])'
  BY <1>1, <1>2 DEF NamesIssued, TypeOK
<1>6. TypeOK'
  <2>1. req' \in [Reqs -> Request]
    BY <1>2, <1>4 DEF Change
  <2>2. \A x \in Reqs : NamesIssued(req[x])'
    BY <1>4, <1>5
  <2>3. \A s \in Sids \ issued' : store'[s] = None
    BY <1>1 DEF TypeOK
  <2>4. expect' \in Users \cup {None} /\ ended' \subseteq issued'
    BY <1>2 DEF TypeOK
  <2>5. store' \in [Sids -> SessionData \cup {None}]
    BY <1>1
  <2> QED
    BY <2>1, <2>2, <2>3, <2>4, <2>5 DEF TypeOK, NamesIssued
<1>7. \A s \in Sids : store'[s] = IF s = req[r].sid THEN session ELSE store[s]
  BY <1>1
<1>8. TokenCoherence' /\ WritersAuthorized'
  BY <1>7 DEF TokenCoherence, UserOf, Coherent, WritersAuthorized
<1>9. LoginSticks'
  BY <1>1, <1>2, <1>7 DEF LoginSticks, Stored, UserOf, TypeOK
<1>10. LogoutSticks'
  BY <1>1, <1>2, <1>7 DEF LogoutSticks, UserOf, TypeOK
<1>11. cookie' \notin ended'
  BY <1>2
<1> QED
  BY <1>4, <1>6, <1>8, <1>9, <1>10, <1>11

\* The session a logout deletes is not one the browser relies on.
LEMMA LogoutStep == ASSUME IInv, NEW r \in Reqs, Logout(r) PROVE IInv'
<1> USE NoneAssumption DEF IInv
<1> DEFINE q == End(LoggedOut(req[r]))
<1>1. /\ req[r].pc = "handle" /\ req[r].op = "logout" /\ req[r] \in Request
      /\ RequestInv(req[r]) /\ req[r].sid \in Sids
  BY DEF Logout, Handling, TypeOK
<1>2. q = [req[r] EXCEPT !.setCookie = "delete",
                         !.pc = IF req[r].isSessionDirty THEN "save" ELSE "reply"]
  BY <1>1 DEF End, LoggedOut, Request
<1>3. /\ q \in Request /\ q.op = "logout" /\ q.from = req[r].from
      /\ q.sid = req[r].sid /\ q.session = req[r].session /\ q.setCookie = "delete"
      /\ q.isSessionDirty = req[r].isSessionDirty
      /\ q.disturbed = req[r].disturbed /\ q.old = req[r].old
      /\ q.pc = IF req[r].isSessionDirty THEN "save" ELSE "reply"
  BY <1>1, <1>2 DEF Request
<1>4. /\ store' = [store EXCEPT ![req[r].sid] = None] /\ Change(r, q)
      /\ UNCHANGED <<issued, mintedFor, cookie, writes>>
  BY DEF Logout
<1> HIDE DEF q
<1>5. ~req[r].old => expect = None /\ {req[r].from, req[r].sid} \cap ended = {}
  BY <1>1 DEF RequestInv, CurrentInv
<1>6. /\ req'[r] = q
      /\ expect' = IF q.old THEN None ELSE expect
      /\ ended' = IF q.old THEN ended \ {q.sid} ELSE ended
  BY <1>4 DEF Change
<1>7. RequestInv(req[r])'
  <2>1. StageInv(req[r])'
    BY <1>1, <1>3, <1>4, <1>6 DEF RequestInv, StageInv, Coherent
  <2>2. UserOf(store'[req[r].sid]) = None
    BY <1>1, <1>4 DEF UserOf, TypeOK
  <2>3. UndisturbedInv(req[r])'
    BY <1>1, <1>3, <1>4, <1>6, <2>2 DEF RequestInv, UndisturbedInv, UserOf
  <2>4. CurrentInv(req[r])'
    BY <1>3, <1>5, <1>6 DEF CurrentInv
  <2> QED
    BY <2>1, <2>3, <2>4 DEF RequestInv
<1> HIDE DEF IInv
<1> QED
  BY <1>1, <1>3, <1>4, <1>5, <1>7, ChangeStep

\* The store may refuse the deletion: the request counts as disturbed.
LEMMA LogoutFailsStep == ASSUME IInv, NEW r \in Reqs, LogoutFails(r) PROVE IInv'
<1> USE NoneAssumption DEF IInv
<1> DEFINE q == [End(LoggedOut(req[r])) EXCEPT !.disturbed = TRUE]
<1>1. /\ req[r].pc = "handle" /\ req[r].op = "logout" /\ req[r] \in Request
      /\ RequestInv(req[r]) /\ req[r].sid \in issued /\ req[r].from \in issued \cup {None}
      /\ Unchanged
  BY DEF LogoutFails, Handling, TypeOK
<1>2. q = [req[r] EXCEPT !.setCookie = "delete", !.disturbed = TRUE,
                         !.pc = IF req[r].isSessionDirty THEN "save" ELSE "reply"]
  BY <1>1 DEF End, LoggedOut, Request
<1>3. /\ q \in Request /\ q.op = "logout" /\ q.from = req[r].from
      /\ q.sid = req[r].sid /\ q.session = req[r].session /\ q.setCookie = "delete"
      /\ q.isSessionDirty = req[r].isSessionDirty
      /\ q.disturbed = TRUE /\ q.old = req[r].old
      /\ q.pc = IF req[r].isSessionDirty THEN "save" ELSE "reply"
  BY <1>1, <1>2 DEF Request
<1>4. req' = [req EXCEPT ![r] = q] /\ req \in [Reqs -> Request]
  BY DEF LogoutFails, Step, TypeOK
<1> HIDE DEF q
<1>5. req'[r] = q /\ req' \in [Reqs -> Request] /\ \A x \in Reqs \ {r} : req'[x] = req[x]
  BY <1>3, <1>4
<1>6. NamesIssued(req[r])'
  BY <1>1, <1>3, <1>5 DEF NamesIssued, Unchanged
<1>7. RequestInv(req[r])'
  <2>1. StageInv(req[r])'
    BY <1>1, <1>3, <1>5 DEF RequestInv, StageInv, Coherent, Unchanged
  <2>2. UndisturbedInv(req[r])'
    BY <1>3, <1>5 DEF UndisturbedInv
  <2>3. CurrentInv(req[r])'
    BY <1>1, <1>3, <1>5 DEF RequestInv, CurrentInv, Unchanged
  <2> QED
    BY <2>1, <2>2, <2>3 DEF RequestInv
<1> HIDE DEF IInv
<1> QED
  BY <1>1, <1>5, <1>6, <1>7, NothingNew, LocalStep DEF Unchanged

\* Only an old request can write back what the browser no longer relies on;
\* what another one writes is the session of the user it relies on being.
LEMMA SaveStep == ASSUME IInv, NEW r \in Reqs, Save(r) PROVE IInv'
<1> USE NoneAssumption DEF IInv
<1> DEFINE q == [req[r] EXCEPT !.pc = "reply"]
<1>1. /\ req[r].pc = "save" /\ req[r] \in Request
      /\ RequestInv(req[r]) /\ req[r].sid \in Sids
  BY DEF Save, TypeOK
<1>2. /\ q \in Request /\ q.op = req[r].op /\ q.from = req[r].from
      /\ q.sid = req[r].sid /\ q.session = req[r].session
      /\ q.setCookie = req[r].setCookie
      /\ q.isSessionDirty = req[r].isSessionDirty
      /\ q.disturbed = req[r].disturbed /\ q.old = req[r].old /\ q.pc = "reply"
  BY <1>1 DEF Request
<1>3. PICK session \in SessionData : session = req[r].session /\ Coherent(session)
  BY LoadedCoherent
<1>4. /\ store' = [store EXCEPT ![req[r].sid] = session] /\ Change(r, q)
      /\ UNCHANGED <<issued, mintedFor, cookie, writes>>
  BY <1>3 DEF Save, Saved
<1> HIDE DEF q
<1>5. /\ req'[r] = q
      /\ expect' = IF q.old THEN None ELSE expect
      /\ ended' = IF q.old THEN ended \ {q.sid} ELSE ended
  BY <1>4 DEF Change
<1>6. UserOf(session) = session.userId
  BY <1>3 DEF UserOf
<1>7. ~q.old => /\ expect # None => q.sid = cookie /\ UserOf(session) = expect
                /\ {q.from, q.sid} \cap ended = {}
  BY <1>1, <1>2, <1>3, <1>6 DEF RequestInv, CurrentInv, StageInv
<1>8. RequestInv(req[r])'
  <2>1. StageInv(req[r])'
    BY <1>1, <1>2, <1>4, <1>5 DEF RequestInv, StageInv, Coherent
  <2>2. store'[q.sid] = session
    BY <1>1, <1>2, <1>4 DEF TypeOK
  <2>3. q.op = "logout" => session.userId = None
    BY <1>1, <1>2, <1>3 DEF RequestInv, StageInv, Empty
  <2>4. UndisturbedInv(req[r])'
    BY <1>1, <1>2, <1>3, <1>4, <1>5, <2>2, <2>3
       DEF RequestInv, UndisturbedInv, UserOf
  <2>5. CurrentInv(req[r])'
    BY <1>1, <1>2, <1>4, <1>5 DEF RequestInv, CurrentInv
  <2> QED
    BY <2>1, <2>4, <2>5 DEF RequestInv
<1> HIDE DEF IInv
<1> QED
  BY <1>1, <1>2, <1>3, <1>4, <1>7, <1>8, ChangeStep

\* A save that fails counts as a disturbance.
LEMMA SaveFailsStep == ASSUME IInv, NEW r \in Reqs, SaveFails(r) PROVE IInv'
<1> USE NoneAssumption DEF IInv
<1> DEFINE q == [req[r] EXCEPT !.pc = "reply", !.disturbed = TRUE]
<1>1. /\ req[r].pc = "save" /\ req[r] \in Request
      /\ RequestInv(req[r]) /\ req[r].sid \in issued /\ req[r].from \in issued \cup {None}
      /\ Unchanged
  BY DEF SaveFails, TypeOK
<1>2. /\ q \in Request /\ q.op = req[r].op /\ q.from = req[r].from
      /\ q.sid = req[r].sid /\ q.session = req[r].session
      /\ q.setCookie = req[r].setCookie
      /\ q.isSessionDirty = req[r].isSessionDirty
      /\ q.disturbed = TRUE /\ q.old = req[r].old /\ q.pc = "reply"
  BY <1>1 DEF Request
<1>3. req' = [req EXCEPT ![r] = q] /\ req \in [Reqs -> Request]
  BY DEF SaveFails, Step, TypeOK
<1> HIDE DEF q
<1>4. req'[r] = q /\ req' \in [Reqs -> Request] /\ \A x \in Reqs \ {r} : req'[x] = req[x]
  BY <1>2, <1>3
<1>5. NamesIssued(req[r])'
  BY <1>1, <1>2, <1>4 DEF NamesIssued, Unchanged
<1>6. RequestInv(req[r])'
  <2>1. StageInv(req[r])'
    BY <1>1, <1>2, <1>4 DEF RequestInv, StageInv, Coherent, Unchanged
  <2>2. UndisturbedInv(req[r])'
    BY <1>2, <1>4 DEF UndisturbedInv
  <2>3. CurrentInv(req[r])'
    BY <1>1, <1>2, <1>4 DEF RequestInv, CurrentInv, Unchanged
  <2> QED
    BY <2>1, <2>2, <2>3 DEF RequestInv
<1> HIDE DEF IInv
<1> QED
  BY <1>1, <1>4, <1>5, <1>6, NothingNew, LocalStep DEF Unchanged

\* An entry memcached drops disturbs every request in flight.
LEMMA EvictStep == ASSUME IInv, NEW s \in Sids, Evict(s) PROVE IInv'
<1> USE NoneAssumption DEF IInv
<1>1. /\ store' = [store EXCEPT ![s] = None] /\ expect' = None
      /\ UNCHANGED <<issued, mintedFor, cookie, writes, ended>>
      /\ store \in [Sids -> SessionData \cup {None}]
  BY DEF Evict, TypeOK
<1>2. OnlyGrows /\ ReliesOnNoMore
  BY <1>1 DEF OnlyGrows, ReliesOnNoMore, TypeOK
<1>3. ASSUME NEW x \in Reqs
      PROVE  req'[x] \in Request /\ NamesIssued(req[x])' /\ RequestInv(req[x])'
  <2>1. /\ req[x] \in Request /\ RequestInv(req[x]) /\ NamesIssued(req[x])
        /\ req[x].old \in BOOLEAN
    BY DEF TypeOK, NamesIssued, Request
  <2>2. CASE req[x].pc = "idle"
    <3>1. req'[x] = req[x] /\ SameButHistory(req[x], req'[x])
      BY <2>2 DEF SameButHistory, Evict
    <3>2. NamesIssued(req[x])'
      BY <1>1, <2>1, <3>1 DEF NamesIssued
    <3> HIDE DEF IInv
    <3> QED
      BY <1>2, <2>1, <2>2, <3>1, <3>2, OtherRequest
  <2>3. CASE req[x].pc # "idle"
    <3>1. req'[x] = [req[x] EXCEPT !.disturbed = TRUE]
      BY <2>3 DEF Evict
    <3>2. /\ SameButHistory(req[x], req'[x]) /\ req'[x] \in Request
          /\ req'[x].disturbed /\ req'[x].old = req[x].old
      BY <2>1, <3>1 DEF SameButHistory, Request
    <3>3. NamesIssued(req[x])'
      BY <1>1, <2>1, <3>2 DEF NamesIssued, SameButHistory
    <3> HIDE DEF IInv
    <3> QED
      BY <1>2, <2>1, <3>2, <3>3, OtherRequest
  <2> QED
    BY <2>2, <2>3
<1>4. TypeOK'
  <2>1. req' \in [Reqs -> Request]
    BY <1>3 DEF Evict
  <2>2. store' \in [Sids -> SessionData \cup {None}]
        /\ \A i \in Sids \ issued' : store'[i] = None
    BY <1>1 DEF TypeOK
  <2> QED
    BY <1>1, <1>3, <2>1, <2>2 DEF TypeOK, NamesIssued
<1>5. TokenCoherence' /\ WritersAuthorized'
  BY <1>1 DEF TokenCoherence, UserOf, WritersAuthorized
<1>6. LoginSticks' /\ LogoutSticks' /\ (cookie \notin ended)'
  BY <1>1 DEF LoginSticks, LogoutSticks, UserOf, TypeOK
<1> QED
  BY <1>3, <1>4, <1>5, <1>6

-----------------------------------------------------------------------------
(***************************************************************************)
(* The answers.                                                            *)
(***************************************************************************)
\* A slot without a request knows nothing that could be wrong.
LEMMA IdleInOrder ==
  ASSUME NEW r \in Reqs, req'[r] = Idle
  PROVE  NamesIssued(req[r])' /\ RequestInv(req[r])' /\ req'[r] \in Request
<1> USE NoneAssumption
<1>1. NamesIssued(req[r])'
  BY DEF NamesIssued, Idle
<1>2. RequestInv(req[r])'
  BY DEF RequestInv, StageInv, UndisturbedInv, CurrentInv, Coherent, Idle, Empty
<1>3. Idle \in Request
  BY DEF Idle, Empty, Request, SessionData, Ops
<1> QED
  BY <1>1, <1>2, <1>3

\* An answer that is lost changes nothing the browser relies on.
LEMMA LoseReplyStep == ASSUME IInv, NEW r \in Reqs, LoseReply(r) PROVE IInv'
<1>1. req' = [req EXCEPT ![r] = Idle] /\ req \in [Reqs -> Request]
  BY DEF LoseReply, Step, IInv, TypeOK
<1>2. req'[r] = Idle /\ \A x \in Reqs \ {r} : req'[x] = req[x]
  BY <1>1
<1>3. NamesIssued(req[r])' /\ RequestInv(req[r])' /\ Idle \in Request
  BY <1>2, IdleInOrder
<1>4. req' \in [Reqs -> Request]
  BY <1>1, <1>3
<1>5. UNCHANGED <<store, issued, mintedFor, cookie, writes, expect, ended>>
  BY DEF LoseReply
<1> QED
  BY <1>2, <1>3, <1>4, <1>5, NothingNew, LocalStep

\* The answer to an undisturbed sign-in leads the browser to that user, the
\* answer to a logout to no session; any other cookie comes with a session the
\* browser has no expectation of.
LEMMA ReplyStep == ASSUME IInv, NEW r \in Reqs, Reply(r) PROVE IInv'
<1> USE NoneAssumption DEF IInv
<1> DEFINE q == req[r]
           asked == q.op \in {"signIn", "logout"}
           sets == q.setCookie # "no"
<1>1. /\ q.pc = "reply" /\ q \in Request /\ RequestInv(q)
      /\ q.sid \in issued /\ q.from \in issued \cup {None}
      /\ req \in [Reqs -> Request] /\ issued \subseteq Sids
      /\ q.setCookie \in {"no", "set", "delete"}
  BY DEF Reply, TypeOK, Request
<1>2. /\ req'[r] = Idle
      /\ \A x \in Reqs \ {r} :
            req'[x] = IF req[x].pc = "idle" THEN req[x]
                      ELSE [req[x] EXCEPT !.disturbed = @ \/ sets,
                                          !.old = @ \/ asked]
      /\ UNCHANGED <<store, issued, mintedFor, writes>>
      /\ cookie' = CookieAfter(q)
  BY DEF Reply
<1>3. /\ cookie' = IF q.setCookie = "set" THEN q.sid
                   ELSE IF q.setCookie = "delete" THEN None ELSE cookie
      /\ expect' = IF q.op = "signIn" /\ ~q.disturbed THEN q.session.userId
                   ELSE IF q.old /\ sets THEN None ELSE expect
      /\ ended' = IF q.op = "logout" /\ ~q.disturbed THEN ended \cup {q.sid}
                  ELSE IF q.old /\ sets THEN ended \ {q.sid} ELSE ended
  <2>1. cookie' = IF q.setCookie = "set" THEN q.sid
                  ELSE IF q.setCookie = "delete" THEN None ELSE cookie
    BY <1>1, <1>2 DEF CookieAfter
  <2> QED
    BY <2>1 DEF Reply
<1>4. /\ ~sets => q.sid = q.from
      /\ q.op = "logout" <=> q.setCookie = "delete"
      /\ sets /\ ~q.old => expect = None
      /\ ~q.old => q.sid \notin ended
  BY <1>1 DEF RequestInv, StageInv, CurrentInv
<1>5. ~q.disturbed =>
        /\ q.from = cookie
        /\ q.op # "logout" => UserOf(store[q.sid]) = q.session.userId
        /\ q.op = "logout" => UserOf(store[q.sid]) = None
  BY <1>1 DEF RequestInv, UndisturbedInv
<1>6. ~sets => cookie' = cookie
  BY <1>3
<1>7. ~asked => ReliesOnNoMore
  BY <1>3, <1>4, <1>6 DEF ReliesOnNoMore
<1>8. OnlyGrows
  BY <1>1, <1>2 DEF OnlyGrows, TypeOK
<1>9. ASSUME NEW x \in Reqs \ {r}
       PROVE  req'[x] \in Request /\ NamesIssued(req[x])' /\ RequestInv(req[x])'
  <2>1. /\ req[x] \in Request /\ RequestInv(req[x]) /\ NamesIssued(req[x])
        /\ req[x].old \in BOOLEAN /\ req[x].disturbed \in BOOLEAN
    BY <1>1 DEF TypeOK, NamesIssued, Request
  <2>2. CASE req[x].pc = "idle"
    <3>1. req'[x] = req[x] /\ SameButHistory(req[x], req'[x])
      BY <1>2, <2>2 DEF SameButHistory
    <3>2. NamesIssued(req[x])'
      BY <1>2, <2>1, <3>1 DEF NamesIssued
    <3> HIDE DEF IInv
    <3> QED
      BY <1>8, <2>1, <2>2, <3>1, <3>2, OtherRequest
  <2>3. CASE req[x].pc # "idle"
    <3>1. req'[x] = [req[x] EXCEPT !.disturbed = @ \/ sets, !.old = @ \/ asked]
      BY <1>2, <2>3
    <3>2. PICK d \in BOOLEAN, o \in BOOLEAN :
            d = (req[x].disturbed \/ sets) /\ o = (req[x].old \/ asked)
      OBVIOUS
    <3>3. req'[x] = [req[x] EXCEPT !.disturbed = d, !.old = o]
      BY <3>1, <3>2
    <3>4. /\ SameButHistory(req[x], req'[x]) /\ req'[x] \in Request
          /\ req'[x].disturbed = d /\ req'[x].old = o
      BY <2>1, <3>3 DEF SameButHistory, Request
    <3>5. NamesIssued(req[x])'
      BY <1>2, <2>1, <3>4 DEF NamesIssued, SameButHistory
    <3>6. req'[x].disturbed \/ (~req[x].disturbed /\ UNCHANGED <<store, cookie>>)
      BY <1>2, <1>6, <3>2, <3>4
    <3>7. req'[x].old \/ (~req[x].old /\ ReliesOnNoMore)
      BY <1>7, <3>2, <3>4
    <3> HIDE DEF IInv
    <3> QED
      BY <1>8, <2>1, <3>4, <3>5, <3>6, <3>7, OtherRequest
  <2> QED
    BY <2>2, <2>3
<1>10. req'[r] \in Request /\ NamesIssued(req[r])' /\ RequestInv(req[r])'
  BY <1>2, IdleInOrder
<1>11. TypeOK'
  <2>1. req' \in [Reqs -> Request]
    BY <1>9, <1>10 DEF Reply
  <2>2. \A x \in Reqs : NamesIssued(req[x])'
    BY <1>9, <1>10
  <2>3. q.session.userId \in Users \cup {None}
    BY <1>1 DEF Request, SessionData
  <2>4. /\ cookie' \in issued' \cup {None} /\ expect' \in Users \cup {None}
        /\ ended' \subseteq issued'
    BY <1>1, <1>2, <1>3, <2>3 DEF TypeOK
  <2> QED
    BY <1>2, <2>1, <2>2, <2>4 DEF TypeOK, NamesIssued
<1>12. TokenCoherence' /\ WritersAuthorized'
  BY <1>2 DEF TokenCoherence, UserOf, WritersAuthorized
<1>13. LoginSticks'
  <2>1. CASE q.op = "signIn" /\ ~q.disturbed
    <3>1. cookie' = q.sid /\ q.sid # None
      BY <1>1, <1>3, <1>4, <1>5, <2>1
    <3>2. expect' = q.session.userId /\ UserOf(store[q.sid]) = q.session.userId
      BY <1>3, <1>5, <2>1
    <3> QED
      BY <1>2, <3>1, <3>2 DEF LoginSticks, Stored, UserOf
  <2>2. CASE ~(q.op = "signIn" /\ ~q.disturbed)
    <3>1. expect' = None \/ (expect' = expect /\ cookie' = cookie)
      BY <1>3, <1>4, <1>6, <2>2
    <3>2. Stored(cookie)' = IF cookie' = None THEN None ELSE store[cookie']
      BY <1>2 DEF Stored
    <3>3. expect' # None => Stored(cookie)' = Stored(cookie)
      BY <3>1, <3>2 DEF Stored
    <3> QED
      BY <3>1, <3>3 DEF LoginSticks, UserOf
  <2> QED
    BY <2>1, <2>2
<1>14. LogoutSticks'
  BY <1>2, <1>3, <1>5 DEF LogoutSticks, UserOf
<1>15. cookie' \notin ended'
  <2>1. None \notin ended /\ q.sid # None
    BY <1>1 DEF TypeOK
  <2>2. CASE q.op = "logout"
    BY <1>3, <1>4, <2>1, <2>2
  <2>3. CASE q.op # "logout"
    BY <1>3, <1>4, <2>1, <2>3
  <2> QED
    BY <2>2, <2>3
<1> QED
  BY <1>9, <1>10, <1>11, <1>12, <1>13, <1>14, <1>15

-----------------------------------------------------------------------------
(***************************************************************************)
(* The theorems.                                                           *)
(***************************************************************************)
\* Every step of the browser, the server and memcached keeps the invariant.
LEMMA NextInv == ASSUME IInv, [Next]_vars PROVE IInv'
<1>1. CASE UNCHANGED vars
  BY <1>1 DEF vars, IInv, TypeOK, TokenCoherence, WritersAuthorized, LoginSticks,
              LogoutSticks, Stored, UserOf, RequestInv, StageInv, UndisturbedInv,
              CurrentInv, Coherent
<1>2. CASE Client
  BY <1>2, SendStep DEF Client
<1>3. ASSUME NEW r \in Reqs,
             \/ LoadFound(r) \/ LoadMissing(r) \/ LoadFails(r)
             \/ LeaveAlone(r) \/ Render(r) \/ SignIn(r) \/ Notice(r) \/ Write(r)
      PROVE  IInv'
  BY <1>3, LoadFoundStep, LoadMissingStep, LoadFailsStep, LeaveAloneStep,
     RenderStep, SignInStep, NoticeStep, WriteStep
<1>4. ASSUME NEW r \in Reqs,
             \/ Logout(r) \/ LogoutFails(r)
             \/ Save(r) \/ SaveFails(r) \/ Reply(r) \/ LoseReply(r)
      PROVE  IInv'
  BY <1>4, LogoutStep, LogoutFailsStep, SaveStep, SaveFailsStep, ReplyStep,
     LoseReplyStep
<1>5. ASSUME NEW s \in Sids, Evict(s) PROVE IInv'
  BY <1>5, EvictStep
<1> QED
  BY <1>1, <1>2, <1>3, <1>4, <1>5 DEF Next, Server

\* The invariant holds in every reachable state.
THEOREM Invariance == Spec => []IInv
<1>1. Init => IInv
  BY InitInv
<1>2. IInv /\ [Next]_vars => IInv'
  BY NextInv
<1> QED
  BY <1>1, <1>2, PTL DEF Spec

\* Every variable keeps its type, and only generated session ids are named by
\* an entry, a cookie or a request.
THEOREM TypeCorrect == Spec => []TypeOK
<1>1. IInv => TypeOK
  BY DEF IInv
<1> QED
  BY <1>1, Invariance, PTL

\* A stored session's csrfToken was drawn for the very user it names.
THEOREM TokensCohere == Spec => []TokenCoherence
<1>1. IInv => TokenCoherence
  BY DEF IInv
<1> QED
  BY <1>1, Invariance, PTL

\* Nothing is written without a token drawn for the user it is written for.
THEOREM WritesAreAuthorized == Spec => []WritersAuthorized
<1>1. IInv => WritersAuthorized
  BY DEF IInv
<1> QED
  BY <1>1, Invariance, PTL

\* An undisturbed sign-in lasts, whatever else the browser has in flight.
THEOREM SignInsLast == Spec => []LoginSticks
<1>1. IInv => LoginSticks
  BY DEF IInv
<1> QED
  BY <1>1, Invariance, PTL

\* An undisturbed logout lasts, unless an older request undoes it.
THEOREM LogoutsLast == Spec => []LogoutSticks
<1>1. IInv => LogoutSticks
  BY DEF IInv
<1> QED
  BY <1>1, Invariance, PTL
=============================================================================
