------------------------------ MODULE BenchRun -------------------------------
(***************************************************************************)
(* One run of the benchmarker (cli.go): /initialize, the sequential        *)
(* pre-check, the load phase that keeps a bounded number of scenarios of   *)
(* each kind going, and the report; with the score and the failure log     *)
(* they share (package score).                                             *)
(*                                                                         *)
(* What a page or an image must look like is left out: a request succeeds  *)
(* or fails.  Words torn by a racing read of a slice header or of an       *)
(* interface value are left out too.                                       *)
(***************************************************************************)
EXTENDS Integers, Sequences, FiniteSets

CONSTANTS
    Workers,     \* goroutines: the bound on scenarios in flight
    Main,        \* the main goroutine, which plays the pre-check
    Offered,     \* the kinds of scenarios this instance has in its load phase
    Errs,        \* failure messages, ordered as strings are
    Exceptions,  \* those of a request without a response
    None

ASSUME WorkersAssumption == IsFiniteSet(Workers) /\ Main \notin Workers
ASSUME ErrsAssumption == Errs \subseteq Nat /\ Exceptions \subseteq Errs
ASSUME NoneAssumption == None \notin Errs

(***************************************************************************)
(* The scenarios, as the requests they play.  A failed "asset" is ignored, *)
(* any other failure returns from the scenario.  "assets", "pages" and     *)
(* "comment" stand for requests whose number depends on the pages.         *)
(* banScenario tests imageURLs before it plays the upload that would fill  *)
(* it, and so ends with the registration (scenario.go:532-534).            *)
(***************************************************************************)
Browse == <<"get", "asset", "assets", "pages">>
indexMoreAndMoreScenario == Browse
loadIndexScenario == Browse
userAndPostPageScenario == Browse
commentScenario == <<"post", "get", "comment">>
postImageScenario == <<"post", "upload", "asset">>
cannotLoginNonexistentUserScenario == <<"post">>
cannotLoginWrongPasswordScenario == <<"post">>
cannotAccessAdminScenario == <<"post", "get">>
cannotPostWrongCSRFTokenScenario == <<"post", "upload">>
loginScenario == <<"post", "asset", "assets", "get", "asset", "assets">>
banScenario == <<"post">>

Precheck ==
    <<commentScenario, postImageScenario, cannotLoginNonexistentUserScenario,
      cannotLoginWrongPasswordScenario, cannotAccessAdminScenario,
      cannotPostWrongCSRFTokenScenario, loginScenario, banScenario>>

\* What a goroutine of each kind plays, and how many of them there may be.
Chain ==
    [indexMoreAndMore |-> <<indexMoreAndMoreScenario>>,
     loadIndex        |-> <<loadIndexScenario>>,
     userAndPostPage  |-> <<userAndPostPageScenario>>,
     comment          |-> <<commentScenario>>,
     postImage        |-> <<postImageScenario, cannotPostWrongCSRFTokenScenario>>,
     login            |-> <<loginScenario, cannotLoginNonexistentUserScenario,
                            cannotLoginWrongPasswordScenario>>,
     ban              |-> <<banScenario, cannotAccessAdminScenario>>]

Limit ==
    [indexMoreAndMore |-> 2, loadIndex |-> 2, userAndPostPage |-> 2,
     comment |-> 1, postImage |-> 1, login |-> 2, ban |-> 1]

Kinds == DOMAIN Limit

ASSUME KindsAssumption == Offered \subseteq Kinds /\ None \notin Kinds

\* The points of a request that succeeds: a POST and an upload count twice.
Points == [get |-> <<1>>, asset |-> <<1>>, post |-> <<1, 2>>, upload |-> <<5, 1>>]
Requests == DOMAIN Points
Repeated == {"assets", "pages", "comment"}

Penalty(e) == IF e \in Exceptions THEN 20 ELSE 10

VARIABLES
    initialize, \* what /initialize answered
    phase,      \* how far Run has come
    tokens,     \* tokens in the channel of each kind
    crew,       \* what the main goroutine and the workers are playing
    score, sucesses, fails,    \* package score
    errs,       \* the failure log
    sort,       \* its length when the sort began, and whether it was torn since
    debug,      \* the -debug flag
    pass, msgs, rep,           \* the report: msgs are indexes into errs
    clean       \* no request of the pre-check has failed

vars == <<initialize, phase, tokens, crew, score, sucesses, fails, errs, sort,
          debug, pass, msgs, rep, clean>>

counts == <<score, sucesses, fails>>
report == <<pass, msgs, rep>>

Crew == Workers \cup {Main}
Steps == Requests \cup Repeated

Worker ==
    [kind : Kinds \cup {None},      \* whose token it holds
     plan : Seq(Seq(Steps)),        \* scenarios to go, with the steps to go
     owed : {0, 1, 2},              \* the second of two points
     err : Errs \cup {None}]        \* counted, and not logged yet

Resting == [kind |-> None, plan |-> <<>>, owed |-> 0, err |-> None]

Phases == {"prepare", "await", "precheck", "select", "sleep", "log", "sorting",
           "collect", "score", "sucesses", "fails", "print", "exited"}

\* Type invariant; the report's messages are entries of the log.
TypeOK ==
    /\ initialize \in {"pending", "finished", "headers", "failed"}
    /\ phase \in Phases
    /\ tokens \in [Kinds -> Nat]
    /\ crew \in [Crew -> Worker]
    /\ score \in Int /\ sucesses \in Nat /\ fails \in Nat
    /\ errs \in Seq(Errs)
    /\ sort \in [length : Nat, torn : BOOLEAN] /\ sort.length <= Len(errs)
    /\ debug \in BOOLEAN /\ pass \in BOOLEAN /\ clean \in BOOLEAN
    /\ msgs \subseteq DOMAIN errs
    /\ rep \in [score : Nat, sucesses : Nat, fails : Nat]

Init ==
    /\ initialize = "pending"
    /\ phase = "prepare"
    /\ tokens = [k \in Kinds |-> 0]
    /\ crew = [w \in Crew |-> Resting]
    /\ score = 0 /\ sucesses = 0 /\ fails = 0
    /\ errs = <<>>
    /\ sort = [length |-> 0, torn |-> FALSE]
    /\ debug \in BOOLEAN /\ pass = FALSE /\ clean = TRUE
    /\ msgs = {}
    /\ rep = [score |-> 0, sucesses |-> 0, fails |-> 0]

-----------------------------------------------------------------------------
(***************************************************************************)
(* A goroutine plays its scenarios.  Score and log are locked one by one:  *)
(* a failure is counted first and logged later.                            *)
(***************************************************************************)
\* The steps to go in the scenario w plays.
Step(w) == Head(Head(crew[w].plan))
Playing(w) ==
    /\ phase # "exited"
    /\ crew[w].plan # <<>> /\ Head(crew[w].plan) # <<>>
    /\ crew[w].owed = 0 /\ crew[w].err = None

\* The plan of w after the step, and after a return from the scenario.
Goes(w, steps) == [crew[w] EXCEPT !.plan = <<steps>> \o Tail(@)]
Advanced(w) == Goes(w, Tail(Head(crew[w].plan)))

Becomes(w, worker) == crew' = [crew EXCEPT ![w] = worker]

UnchangedRun == UNCHANGED <<initialize, phase, tokens, debug>>

\* Session.Success, of the first or only point of a request.
Succeed(w) ==
    /\ Playing(w) /\ Step(w) \in Requests
    /\ score' = score + Points[Step(w)][1]
    /\ sucesses' = sucesses + 1
    /\ Becomes(w, [Advanced(w) EXCEPT
                     !.owed = IF Len(Points[Step(w)]) = 2
                              THEN Points[Step(w)][2] ELSE 0])
    /\ UnchangedRun /\ UNCHANGED <<fails, errs, sort, report, clean>>

\* ... and of the second.
SucceedAgain(w) ==
    /\ phase # "exited" /\ crew[w].owed # 0
    /\ score' = score + crew[w].owed
    /\ sucesses' = sucesses + 1
    /\ Becomes(w, [crew[w] EXCEPT !.owed = 0])
    /\ UnchangedRun /\ UNCHANGED <<fails, errs, sort, report, clean>>

\* Session.Fail counts ...
CountedUnlessTimeout(e) ==                                  \* mutant of Counted
    IF e \in Exceptions THEN fails ELSE fails + 1
Counted(e) == fails + 1

Fail(w) ==
    /\ Playing(w) /\ Step(w) \in Requests
    /\ \E e \in Errs :
         /\ score' = score - Penalty(e)
         /\ fails' = Counted(e)
         /\ Becomes(w, [IF Step(w) = "asset" THEN Advanced(w) ELSE Goes(w, <<>>)
                        EXCEPT !.err = e])
    /\ clean' = (clean /\ w # Main)
    /\ UnchangedRun /\ UNCHANGED <<sucesses, errs, sort, report>>

\* ... and then logs.
LogFailure(w) ==
    /\ phase # "exited" /\ crew[w].err # None
    /\ errs' = Append(errs, crew[w].err)
    /\ sort' = [sort EXCEPT !.torn = @ \/ phase = "sorting"]
    /\ Becomes(w, [crew[w] EXCEPT !.err = None])
    /\ UnchangedRun /\ UNCHANGED <<counts, report, clean>>

\* One more image, page or comment, or none.
Again ==
    [assets  |-> <<"asset", "assets">>,
     pages   |-> <<"get", "asset", "assets", "pages">>,
     comment |-> <<"post">>]

More(w) ==
    /\ Playing(w) /\ Step(w) \in Repeated
    /\ Becomes(w, Goes(w, Again[Step(w)] \o Tail(Head(crew[w].plan))))
    /\ UnchangedRun /\ UNCHANGED <<counts, errs, sort, report, clean>>

Enough(w) ==
    /\ Playing(w) /\ Step(w) \in Repeated
    /\ Becomes(w, Advanced(w))
    /\ UnchangedRun /\ UNCHANGED <<counts, errs, sort, report, clean>>

EndScenario(w) ==
    /\ phase # "exited"
    /\ crew[w].plan # <<>> /\ Head(crew[w].plan) = <<>>
    /\ crew[w].owed = 0 /\ crew[w].err = None
    /\ Becomes(w, [crew[w] EXCEPT !.plan = Tail(@)])
    /\ UnchangedRun /\ UNCHANGED <<counts, errs, sort, report, clean>>

Play(w) ==
    \/ Succeed(w) \/ SucceedAgain(w) \/ Fail(w) \/ LogFailure(w)
    \/ Enough(w) \/ EndScenario(w)

\* The token goes back to its channel, if there is room for it.
CommentChannel(k) == "comment"                              \* mutant of Channel
Channel(k) == k

GiveBack(w) ==
    /\ phase # "exited"
    /\ crew[w].kind # None /\ crew[w].plan = <<>>
    /\ LET k == Channel(crew[w].kind)
       IN  tokens[k] < Limit[k] /\ tokens' = [tokens EXCEPT ![k] = @ + 1]
    /\ Becomes(w, Resting)
    /\ UNCHANGED <<initialize, phase, counts, errs, sort, debug, report, clean>>

-----------------------------------------------------------------------------
(***************************************************************************)
(* Run                                                                     *)
(***************************************************************************)
\* setupInitialize: a response, whatever its status, is a success, and its
\* body is not waited for.
InitializeAnswers ==
    /\ phase # "exited" /\ initialize = "pending"
    /\ initialize' \in {"finished", "headers", "failed"}
    /\ UNCHANGED <<phase, tokens, crew, counts, errs, sort, debug, report, clean>>

\* prepareUserdata, which may fail while /initialize is under way.
Prepare ==
    /\ phase = "prepare"
    /\ phase' \in {"await", "score"}
    /\ UNCHANGED <<initialize, tokens, crew, counts, errs, sort, debug, report,
                   clean>>

Receive ==
    /\ phase = "await" /\ initialize # "pending"
    /\ IF initialize = "failed"
       THEN phase' = "score" /\ crew' = crew
       ELSE /\ phase' = "precheck"
            /\ Becomes(Main, [Resting EXCEPT !.plan = Precheck])
    /\ UNCHANGED <<initialize, tokens, counts, errs, sort, debug, report, clean>>

\* The gate after the pre-check: report a failure, or fill the channels.
FailedTwice == fails > 1                                    \* mutant of Failed
Failed == fails > 0

Gate ==
    /\ phase = "precheck" /\ crew[Main].plan = <<>>
    /\ IF Failed
       THEN phase' = "log" /\ UNCHANGED <<tokens, pass>>
       ELSE /\ phase' = "select"
            /\ tokens' = Limit
            /\ pass' = TRUE
    /\ UNCHANGED <<initialize, crew, counts, errs, sort, debug, msgs, rep, clean>>

Start(w, k) ==
    /\ phase = "select"
    /\ w \in Workers /\ crew[w].kind = None
    /\ k \in Offered /\ tokens[k] > 0
    /\ tokens' = [tokens EXCEPT ![k] = @ - 1]
    /\ Becomes(w, [Resting EXCEPT !.kind = k, !.plan = Chain[k]])
    /\ UNCHANGED <<initialize, phase, counts, errs, sort, debug, report, clean>>

Timeout ==
    /\ phase = "select"
    /\ phase' = "sleep"
    /\ UNCHANGED <<initialize, tokens, crew, counts, errs, sort, debug, report,
                   clean>>

ScenariosDone == \A w \in Workers : crew[w].kind = None     \* mutant of Slept
Slept == TRUE       \* it waits for a time, not for the scenarios in flight

Wake ==
    /\ phase = "sleep" /\ Slept
    /\ phase' = "log"
    /\ UNCHANGED <<initialize, tokens, crew, counts, errs, sort, debug, report,
                   clean>>

(***************************************************************************)
(* GetFailErrors sorts the log without a lock and drops neighbours that    *)
(* are equal.  A failure logged meanwhile moves the log to a new array,    *)
(* and a swap in the old one may be lost or half seen.  With -debug the    *)
(* log is taken as it is.                                                  *)
(***************************************************************************)
Log ==
    /\ phase = "log"
    /\ IF pass /\ debug
       THEN phase' = "score" /\ msgs' = DOMAIN errs /\ sort' = sort
       ELSE /\ phase' = "sorting" /\ msgs' = msgs
            /\ sort' = [length |-> Len(errs), torn |-> FALSE]
    /\ UNCHANGED <<initialize, tokens, crew, counts, errs, debug, pass, rep, clean>>

Unsorted(s) == TRUE                                         \* mutant of Sorted
Sorted(s) == \A i, j \in DOMAIN s : i < j => s[i] <= s[j]
Rearranged(s, t) ==
    \A e \in Errs : Cardinality({i \in DOMAIN s : s[i] = e})
                  = Cardinality({i \in DOMAIN t : t[i] = e})

Sort ==
    /\ phase = "sorting"
    /\ \E s \in [1 .. sort.length -> {errs[i] : i \in 1 .. sort.length}] :
         /\ sort.torn \/ (Sorted(s) /\ Rearranged(s, SubSeq(errs, 1, sort.length)))
         /\ errs' = [i \in DOMAIN errs |-> IF i <= sort.length THEN s[i] ELSE errs[i]]
    /\ phase' = "collect"
    /\ UNCHANGED <<initialize, tokens, crew, counts, sort, debug, report, clean>>

Heads == {i \in DOMAIN errs : i = 1 \/ errs[i] # errs[i - 1]}

Collect ==
    /\ phase = "collect"
    /\ msgs' = Heads
    /\ phase' = "score"
    /\ UNCHANGED <<initialize, tokens, crew, counts, errs, sort, debug, pass, rep,
                   clean>>

\* outputResultJSON reads the counters one by one.
BelowZero(n) == n                                           \* mutant of Floor
Floor(n) == IF n <= 0 THEN 0 ELSE n

ReadScore ==
    /\ phase = "score"
    /\ rep' = [rep EXCEPT !.score = Floor(score)]
    /\ phase' = "sucesses"
    /\ UNCHANGED <<initialize, tokens, crew, counts, errs, sort, debug, pass, msgs,
                   clean>>

ReadSucesses ==
    /\ phase = "sucesses"
    /\ rep' = [rep EXCEPT !.sucesses = sucesses]
    /\ phase' = "fails"
    /\ UNCHANGED <<initialize, tokens, crew, counts, errs, sort, debug, pass, msgs,
                   clean>>

ReadFails ==
    /\ phase = "fails"
    /\ rep' = [rep EXCEPT !.fails = fails]
    /\ phase' = "print"
    /\ UNCHANGED <<initialize, tokens, crew, counts, errs, sort, debug, pass, msgs,
                   clean>>

\* The report is printed and the process exits, with its goroutines.
Exit ==
    /\ phase = "print"
    /\ phase' = "exited"
    /\ UNCHANGED <<initialize, tokens, crew, counts, errs, sort, debug, report,
                   clean>>

MainStep ==
    \/ Prepare \/ Receive \/ Gate \/ Timeout \/ Wake \/ Log \/ Sort \/ Collect
    \/ ReadScore \/ ReadSucesses \/ ReadFails \/ Exit

Exited == phase = "exited" /\ UNCHANGED vars

\* Requests and goroutines that add to the load; instances bound these.
Load == (\E w \in Workers, k \in Kinds : Start(w, k)) \/ \E w \in Crew : More(w)

Unload == InitializeAnswers \/ MainStep \/ \E w \in Crew : Play(w) \/ GiveBack(w)

Next == Load \/ Unload \/ Exited

\* Every request ends within its timeout and a page has finitely many images;
\* select chooses among its ready cases at random, and so the timeout in the
\* end.  Scenarios of the load phase need not make any progress.
Fairness ==
    /\ WF_vars(InitializeAnswers) /\ WF_vars(MainStep)
    /\ WF_vars(Play(Main)) /\ SF_vars(Enough(Main))

Spec == Init /\ [][Next]_vars /\ Fairness

-----------------------------------------------------------------------------
(***************************************************************************)
(* Properties                                                              *)
(***************************************************************************)
Running(k) == {w \in Workers : crew[w].kind = k}
Loaded == pass          \* the channels have been filled

\* A token is in its channel or held by a goroutine: so many scenarios of a
\* kind run as its channel has room for, and giving one back never blocks.
TokensConserved ==
    \A k \in Kinds :
        tokens[k] + Cardinality(Running(k)) = IF Loaded THEN Limit[k] ELSE 0

\* The report is put together while scenarios still count and log: yet it has
\* no more messages than failures, and no more score than its successes earn,
\* because each is read before what bounds it (cli.go:190-207) and a failure is
\* counted before it is logged (session.go:172-177).
ReportCoherent ==
    /\ phase \in {"print", "exited"} => Cardinality(msgs) <= rep.fails
    /\ phase \in {"fails", "print", "exited"} => rep.score <= 5 * rep.sucesses

\* Unless a failure is logged during the sort, the report names every message
\* logged by then, and none of them twice.
MessagesExact ==
    phase \in {"score", "sucesses", "fails", "print", "exited"}
      /\ sort.length > 0 /\ ~ sort.torn =>
        /\ \A i \in 1 .. sort.length : \E j \in msgs : errs[j] = errs[i]
        /\ \A i, j \in msgs : i < j /\ j <= sort.length => errs[i] # errs[j]

\* The score of a passing run is that of an application that answered
\* /initialize and failed no request of the pre-check.
PassMeansClean == pass => clean /\ initialize \in {"finished", "headers"}

\* Every run ends with a report, even if /initialize or every scenario of the
\* load phase hangs until its timeout.
RunReports == <>(phase = "exited")
=============================================================================
