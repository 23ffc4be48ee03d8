--------------------------- MODULE BenchRunProofs ----------------------------
(***************************************************************************)
(* Safety of BenchRun, proved for any number of goroutines and messages.   *)
(***************************************************************************)
EXTENDS BenchRun, FiniteSetTheorems, NaturalsInduction, WellFoundedInduction, TLAPS

-----------------------------------------------------------------------------
(***************************************************************************)
(* The inductive invariant the safety properties follow from.              *)
(***************************************************************************)
\* A goroutine logs what it has counted before it comes to the end of its plan.
CrewInv ==
    \A w \in Crew :
      /\ crew[w].plan = <<>> => crew[w].err = None
      /\ w \in Workers /\ crew[w].kind = None => crew[w].plan = <<>>

Pending == {w \in Crew : crew[w].err # None}

\* Every failure counted is logged, or about to be.
LogInv ==
    /\ Len(errs) + Cardinality(Pending) = fails
    /\ score <= 5 * sucesses
    /\ phase = "sucesses" => rep.score <= 5 * sucesses

\* What Run has established when it comes to a phase.
PhaseInv ==
    /\ crew[Main].kind = None
    /\ phase # "precheck" => crew[Main].plan = <<>>
    /\ pass => phase \notin {"prepare", "await", "precheck"}
    /\ phase \in {"select", "sleep"} => pass
    /\ phase = "precheck" => initialize \in {"finished", "headers"}
    /\ clean \/ fails > 0

IInv ==
    /\ TypeOK
    /\ CrewInv
    /\ TokensConserved
    /\ LogInv
    /\ PhaseInv
    /\ ReportCoherent
    /\ PassMeansClean

(***************************************************************************)
(* Plans.                                                                  *)
(***************************************************************************)
\* Taking a step, a scenario, or a return off a plan leaves a plan.
LEMMA PlanFacts ==
  ASSUME NEW plan \in Seq(Seq(Steps)), plan # <<>>
  PROVE  /\ Head(plan) \in Seq(Steps)
         /\ Tail(plan) \in Seq(Seq(Steps))
         /\ \A steps \in Seq(Steps) : <<steps>> \o Tail(plan) \in Seq(Seq(Steps))
         /\ Head(plan) # <<>> => /\ Head(Head(plan)) \in Steps
                                 /\ Tail(Head(plan)) \in Seq(Steps)
<1> DEFINE S == Seq(Steps)
<1>1. plan \in Seq(S) /\ plan # <<>>
  OBVIOUS
<1> HIDE DEF S
<1>2. Head(plan) \in S /\ Tail(plan) \in Seq(S)
  BY <1>1
<1>3. \A steps \in S : <<steps>> \o Tail(plan) \in Seq(S)
  BY <1>2
<1>4. ASSUME NEW s \in S, s # <<>> PROVE Head(s) \in Steps /\ Tail(s) \in S
  BY <1>4 DEF S
<1> QED
  BY <1>2, <1>3, <1>4 DEF S

\* The steps of the code's scenarios, and of their repetitions.
LEMMA ScenarioFacts ==
  /\ Precheck \in Seq(Seq(Steps))
  /\ \A k \in Kinds : Chain[k] \in Seq(Seq(Steps)) /\ Limit[k] \in Nat
  /\ \A s \in Repeated : Again[s] \in Seq(Steps)
  /\ \A s \in Requests : /\ Points[s][1] \in 1 .. 5
                         /\ Len(Points[s]) = 2 => Points[s][2] \in {1, 2}
<1>1. Requests = {"get", "asset", "post", "upload"}
  BY DEF Requests, Points
<1>2. /\ "get" \in Steps /\ "asset" \in Steps /\ "post" \in Steps
      /\ "upload" \in Steps /\ "assets" \in Steps /\ "pages" \in Steps
      /\ "comment" \in Steps
  BY <1>1 DEF Steps, Repeated
<1> DEFINE S == Seq(Steps)
<1>3. Browse \in S
  BY <1>2 DEF Browse
<1>4. commentScenario \in S /\ postImageScenario \in S
  BY <1>2 DEF commentScenario, postImageScenario
<1>5. cannotLoginNonexistentUserScenario \in S /\ cannotLoginWrongPasswordScenario \in S
  BY <1>2 DEF cannotLoginNonexistentUserScenario, cannotLoginWrongPasswordScenario
<1>6. cannotAccessAdminScenario \in S /\ cannotPostWrongCSRFTokenScenario \in S
  BY <1>2 DEF cannotAccessAdminScenario, cannotPostWrongCSRFTokenScenario
<1>7. loginScenario \in S /\ banScenario \in S
  BY <1>2 DEF loginScenario, banScenario
<1>8. /\ indexMoreAndMoreScenario \in S /\ loadIndexScenario \in S
      /\ userAndPostPageScenario \in S
  BY <1>3 DEF indexMoreAndMoreScenario, loadIndexScenario, userAndPostPageScenario
<1>9. \A s \in Repeated : Again[s] \in S
  <2>1. Again["assets"] \in S
    BY <1>2 DEF Again
  <2>2. Again["pages"] \in S
    BY <1>2 DEF Again
  <2>3. Again["comment"] \in S
    BY <1>2 DEF Again
  <2> QED
    BY <2>1, <2>2, <2>3 DEF Repeated
<1> HIDE DEF S
<1>10. Precheck \in Seq(S)
  BY <1>4, <1>5, <1>6, <1>7 DEF Precheck
<1>11. Kinds = {"indexMoreAndMore", "loadIndex", "userAndPostPage", "comment",
                "postImage", "login", "ban"}
  BY DEF Kinds, Limit
<1>12. \A k \in Kinds : Chain[k] \in Seq(S)
  <2>1. /\ Chain["indexMoreAndMore"] \in Seq(S) /\ Chain["loadIndex"] \in Seq(S)
        /\ Chain["userAndPostPage"] \in Seq(S)
    BY <1>8 DEF Chain
  <2>2. Chain["comment"] \in Seq(S) /\ Chain["postImage"] \in Seq(S)
    BY <1>4, <1>6 DEF Chain
  <2>3. Chain["login"] \in Seq(S) /\ Chain["ban"] \in Seq(S)
    BY <1>5, <1>6, <1>7 DEF Chain
  <2> QED
    BY <1>11, <2>1, <2>2, <2>3
<1>13. \A k \in Kinds : Limit[k] \in Nat
  BY <1>11 DEF Limit
<1>14. \A s \in Requests : /\ Points[s][1] \in 1 .. 5
                           /\ Len(Points[s]) = 2 => Points[s][2] \in {1, 2}
  BY <1>1 DEF Points
<1> QED
  BY <1>9, <1>10, <1>12, <1>13, <1>14 DEF S

(***************************************************************************)
(* Type correctness.                                                       *)
(***************************************************************************)
\* What a goroutine becomes by moving along its plan.
LEMMA WorkerFacts ==
  ASSUME TypeOK, NEW w \in Crew
  PROVE  /\ crew[w] \in Worker
         /\ Resting \in Worker
         /\ \A e \in Errs \cup {None} : [crew[w] EXCEPT !.err = e] \in Worker
         /\ [crew[w] EXCEPT !.owed = 0] \in Worker
         /\ crew[w].plan # <<>> =>
              /\ [crew[w] EXCEPT !.plan = Tail(@)] \in Worker
              /\ \A steps \in Seq(Steps) : Goes(w, steps) \in Worker
         /\ Playing(w) => /\ Step(w) \in Steps
                          /\ Tail(Head(crew[w].plan)) \in Seq(Steps)
                          /\ Advanced(w) \in Worker
<1> DEFINE P == Seq(Seq(Steps))
<1>1. crew[w] \in Worker
  BY DEF TypeOK
<1>2. crew[w].plan \in P
  BY <1>1 DEF Worker
<1>3. crew[w].plan # <<>> =>
        /\ Tail(crew[w].plan) \in P
        /\ \A steps \in Seq(Steps) : <<steps>> \o Tail(crew[w].plan) \in P
        /\ Head(crew[w].plan) # <<>> =>
             /\ Head(Head(crew[w].plan)) \in Steps
             /\ Tail(Head(crew[w].plan)) \in Seq(Steps)
  BY <1>2, PlanFacts
<1>4. <<>> \in P
  OBVIOUS
<1> HIDE DEF P
<1>5. Worker = [kind : Kinds \cup {None}, plan : P, owed : {0, 1, 2},
                err : Errs \cup {None}]
  BY DEF Worker, P
<1>6. Resting \in Worker
  BY <1>4, <1>5 DEF Resting
<1>7. \A e \in Errs \cup {None} : [crew[w] EXCEPT !.err = e] \in Worker
  BY <1>1, <1>5
<1>8. [crew[w] EXCEPT !.owed = 0] \in Worker
  BY <1>1, <1>5
<1>9. ASSUME crew[w].plan # <<>>
      PROVE  /\ [crew[w] EXCEPT !.plan = Tail(@)] \in Worker
             /\ \A steps \in Seq(Steps) : Goes(w, steps) \in Worker
  BY <1>1, <1>3, <1>5, <1>9 DEF Goes
<1>10. Playing(w) => /\ Step(w) \in Steps
                     /\ Tail(Head(crew[w].plan)) \in Seq(Steps)
                     /\ Advanced(w) \in Worker
  BY <1>3, <1>9 DEF Playing, Step, Advanced
<1> QED
  BY <1>1, <1>6, <1>7, <1>8, <1>9, <1>10

\* A step of one goroutine leaves the crew well-typed.
LEMMA CrewStep ==
  ASSUME TypeOK, NEW w \in Crew, NEW q \in Worker, Becomes(w, q)
  PROVE  /\ crew' \in [Crew -> Worker]
         /\ crew'[w] = q
         /\ \A v \in Crew \ {w} : crew'[v] = crew[v]
BY DEF TypeOK, Becomes

\* The initial state is well-typed.
LEMMA InitTyped == Init => TypeOK
<1> SUFFICES ASSUME Init PROVE TypeOK
  OBVIOUS
<1>1. Resting \in Worker
  BY DEF Resting, Worker
<1>2. crew \in [Crew -> Worker] /\ tokens \in [Kinds -> Nat]
  BY <1>1 DEF Init
<1>3. /\ errs \in Seq(Errs) /\ Len(errs) = 0
      /\ sort \in [length : Nat, torn : BOOLEAN] /\ sort.length = 0
  BY DEF Init
<1>4. rep \in [score : Nat, sucesses : Nat, fails : Nat]
  BY DEF Init
<1>5. sort.length <= Len(errs) /\ msgs \subseteq DOMAIN errs
  BY <1>3 DEF Init
<1>6. debug \in BOOLEAN /\ pass \in BOOLEAN /\ clean \in BOOLEAN
  BY DEF Init
<1>7. /\ initialize \in {"pending", "finished", "headers", "failed"}
      /\ phase \in Phases
      /\ score \in Int /\ sucesses \in Nat /\ fails \in Nat
  BY DEF Init, Phases
<1> QED
  BY <1>2, <1>3, <1>4, <1>5, <1>6, <1>7 DEF TypeOK

\* A step of a goroutine keeps the types.
LEMMA PlayTyped ==
  ASSUME TypeOK, NEW w \in Crew, Play(w) \/ More(w) \/ GiveBack(w)
  PROVE  TypeOK'
<1>1. CASE Succeed(w)
  <2> DEFINE q == [Advanced(w) EXCEPT
                     !.owed = IF Len(Points[Step(w)]) = 2
                              THEN Points[Step(w)][2] ELSE 0]
  <2>0. /\ Points[Step(w)][1] \in 1 .. 5
        /\ Len(Points[Step(w)]) = 2 => Points[Step(w)][2] \in {1, 2}
        /\ Advanced(w) \in Worker
    BY <1>1, ScenarioFacts, WorkerFacts DEF Succeed
  <2>1. q \in Worker
    BY <2>0 DEF Worker
  <2>2. crew' \in [Crew -> Worker]
    BY <1>1, <2>1, CrewStep DEF Succeed
  <2>3. score' \in Int /\ sucesses' \in Nat
    BY <1>1, <2>0 DEF Succeed, TypeOK
  <2> QED
    BY <1>1, <2>2, <2>3 DEF Succeed, TypeOK, UnchangedRun, report
<1>2. CASE SucceedAgain(w)
  <2>0. crew[w] \in Worker /\ [crew[w] EXCEPT !.owed = 0] \in Worker
    BY WorkerFacts
  <2>1. crew' \in [Crew -> Worker]
    BY <1>2, <2>0, CrewStep DEF SucceedAgain
  <2>2. score' \in Int /\ sucesses' \in Nat
    BY <1>2, <2>0 DEF SucceedAgain, TypeOK, Worker
  <2> QED
    BY <1>2, <2>1, <2>2 DEF SucceedAgain, TypeOK, UnchangedRun, report
<1>3. CASE Fail(w)
  <2>1. PICK e \in Errs :
          /\ score' = score - Penalty(e)
          /\ fails' = Counted(e)
          /\ Becomes(w, [IF Step(w) = "asset" THEN Advanced(w) ELSE Goes(w, <<>>)
                         EXCEPT !.err = e])
    BY <1>3 DEF Fail
  <2>2. [IF Step(w) = "asset" THEN Advanced(w) ELSE Goes(w, <<>>)
         EXCEPT !.err = e] \in Worker
    <3>1. <<>> \in Seq(Steps) /\ crew[w].plan # <<>>
      BY <1>3 DEF Fail, Playing
    <3>2. Advanced(w) \in Worker /\ Goes(w, <<>>) \in Worker
      BY <1>3, <3>1, WorkerFacts DEF Fail
    <3> QED
      BY <3>2 DEF Worker
  <2>3. crew' \in [Crew -> Worker]
    BY <2>1, <2>2, CrewStep
  <2>4. score' \in Int /\ fails' \in Nat
    BY <2>1 DEF Penalty, Counted, TypeOK
  <2>5. clean' \in BOOLEAN
    BY <1>3 DEF Fail
  <2> QED
    BY <1>3, <2>3, <2>4, <2>5 DEF Fail, TypeOK, UnchangedRun, report
<1>4. CASE LogFailure(w)
  <2>1. crew' \in [Crew -> Worker]
    BY <1>4, CrewStep, WorkerFacts DEF LogFailure
  <2>2. crew[w].err \in Errs
    BY <1>4, WorkerFacts DEF LogFailure, Worker
  <2>3. errs' \in Seq(Errs) /\ Len(errs') = Len(errs) + 1
    BY <1>4, <2>2 DEF LogFailure, TypeOK
  <2>4. sort' \in [length : Nat, torn : BOOLEAN] /\ sort'.length <= Len(errs')
    <3>1. (sort.torn \/ phase = "sorting") \in BOOLEAN
      OBVIOUS
    <3>2. /\ sort \in [length : Nat, torn : BOOLEAN]
          /\ sort' = [sort EXCEPT !.torn = (sort.torn \/ phase = "sorting")]
          /\ sort.length <= Len(errs) /\ Len(errs) \in Nat
      BY <1>4 DEF LogFailure, TypeOK
    <3>3. /\ sort' \in [length : Nat, torn : BOOLEAN]
          /\ sort'.length = sort.length
      BY <3>1, <3>2
    <3> QED
      BY <2>3, <3>2, <3>3
  <2>5. msgs \subseteq DOMAIN errs'
    BY <2>3 DEF TypeOK
  <2> QED
    BY <1>4, <2>1, <2>3, <2>4, <2>5
    DEF LogFailure, TypeOK, UnchangedRun, report, counts
<1>5. CASE More(w)
  <2>1. Again[Step(w)] \o Tail(Head(crew[w].plan)) \in Seq(Steps)
    <3>1. Step(w) \in Repeated /\ Playing(w)
      BY <1>5 DEF More
    <3>2. Again[Step(w)] \in Seq(Steps)
      BY <3>1, ScenarioFacts
    <3>3. Tail(Head(crew[w].plan)) \in Seq(Steps)
      BY <3>1, WorkerFacts
    <3> QED
      BY <3>2, <3>3
  <2>2. crew' \in [Crew -> Worker]
    BY <1>5, <2>1, CrewStep, WorkerFacts DEF More, Playing
  <2> QED
    BY <1>5, <2>2 DEF More, TypeOK, UnchangedRun, report, counts
<1>6. CASE Enough(w)
  <2>1. crew' \in [Crew -> Worker]
    BY <1>6, CrewStep, WorkerFacts DEF Enough
  <2> QED
    BY <1>6, <2>1 DEF Enough, TypeOK, UnchangedRun, report, counts
<1>7. CASE EndScenario(w)
  <2>1. crew' \in [Crew -> Worker]
    BY <1>7, CrewStep, WorkerFacts DEF EndScenario
  <2> QED
    BY <1>7, <2>1 DEF EndScenario, TypeOK, UnchangedRun, report, counts
<1>8. CASE GiveBack(w)
  <2>1. crew' \in [Crew -> Worker]
    BY <1>8, CrewStep, WorkerFacts DEF GiveBack
  <2>2. crew[w].kind \in Kinds
    BY <1>8, WorkerFacts DEF GiveBack, Worker
  <2>3. tokens' \in [Kinds -> Nat]
    BY <1>8, <2>2 DEF GiveBack, Channel, TypeOK
  <2> QED
    BY <1>8, <2>1, <2>3 DEF GiveBack, TypeOK, report, counts
<1> QED
  BY <1>1, <1>2, <1>3, <1>4, <1>5, <1>6, <1>7, <1>8 DEF Play

\* The main goroutine and setupInitialize keep the types.
LEMMA RunTyped ==
  ASSUME TypeOK, InitializeAnswers \/ MainStep
                 \/ \E w \in Workers, k \in Kinds : Start(w, k)
  PROVE  TypeOK'
<1>1. CASE InitializeAnswers
  BY <1>1 DEF InitializeAnswers, TypeOK, counts, report
<1>2. CASE Prepare
  BY <1>2 DEF Prepare, TypeOK, counts, report, Phases
<1>3. CASE Receive
  <2>1. crew' \in [Crew -> Worker]
    <3>1. Main \in Crew /\ [Resting EXCEPT !.plan = Precheck] \in Worker
      BY ScenarioFacts DEF Crew, Resting, Worker
    <3>2. CASE initialize = "failed"
      BY <1>3, <3>2 DEF Receive, TypeOK
    <3>3. CASE initialize # "failed"
      BY <1>3, <3>1, <3>3, CrewStep DEF Receive
    <3> QED
      BY <3>2, <3>3
  <2>2. phase' \in Phases
    BY <1>3 DEF Receive, Phases
  <2> QED
    BY <1>3, <2>1, <2>2 DEF Receive, TypeOK, counts, report
<1>4. CASE Gate
  <2>1. Limit \in [Kinds -> Nat]
    BY DEF Kinds, Limit
  <2>2. tokens' \in [Kinds -> Nat] /\ phase' \in Phases
    BY <1>4, <2>1 DEF Gate, TypeOK, Phases
  <2>3. pass' \in BOOLEAN
    BY <1>4 DEF Gate, TypeOK
  <2> QED
    BY <1>4, <2>2, <2>3 DEF Gate, TypeOK, counts
<1>5. ASSUME NEW w \in Workers, NEW k \in Kinds, Start(w, k) PROVE TypeOK'
  <2>1. w \in Crew /\ [Resting EXCEPT !.kind = k, !.plan = Chain[k]] \in Worker
    BY ScenarioFacts DEF Crew, Resting, Worker
  <2>2. crew' \in [Crew -> Worker]
    BY <1>5, <2>1, CrewStep DEF Start
  <2>3. tokens' \in [Kinds -> Nat]
    <3>1. tokens \in [Kinds -> Nat]
      BY DEF TypeOK
    <3>2. tokens[k] > 0 /\ tokens' = [tokens EXCEPT ![k] = @ - 1]
      BY <1>5 DEF Start
    <3> QED
      BY <3>1, <3>2
  <2> QED
    BY <1>5, <2>2, <2>3 DEF Start, TypeOK, counts, report
<1>6. CASE Timeout \/ Wake
  BY <1>6 DEF Timeout, Wake, TypeOK, counts, report, Phases
<1>7. CASE Log
  <2>1. sort' \in [length : Nat, torn : BOOLEAN] /\ sort'.length <= Len(errs)
    <3>1. Len(errs) \in Nat
      BY DEF TypeOK
    <3>2. sort' = sort \/ sort' = [length |-> Len(errs), torn |-> FALSE]
      BY <1>7 DEF Log
    <3>3. CASE sort' = sort
      BY <3>3 DEF TypeOK
    <3>4. CASE sort' = [length |-> Len(errs), torn |-> FALSE]
      BY <3>1, <3>4
    <3> QED
      BY <3>2, <3>3, <3>4
  <2>2. phase' \in Phases /\ msgs' \subseteq DOMAIN errs
    BY <1>7 DEF Log, TypeOK, Phases
  <2> QED
    BY <1>7, <2>1, <2>2 DEF Log, TypeOK, counts
<1>8. CASE Sort
  <2>1. errs' \in Seq(Errs) /\ DOMAIN errs' = DOMAIN errs /\ Len(errs') = Len(errs)
    <3>1. PICK s \in [1 .. sort.length -> {errs[i] : i \in 1 .. sort.length}] :
            errs' = [i \in DOMAIN errs |-> IF i <= sort.length THEN s[i]
                                                              ELSE errs[i]]
      BY <1>8 DEF Sort
    <3>2. /\ errs \in Seq(Errs) /\ DOMAIN errs = 1 .. Len(errs) /\ Len(errs) \in Nat
          /\ sort.length \in Nat /\ sort.length <= Len(errs)
      BY DEF TypeOK
    <3>3. \A i \in DOMAIN errs : errs[i] \in Errs
      BY <3>2
    <3>4. \A i \in DOMAIN errs : i <= sort.length => s[i] \in Errs
      BY <3>2, <3>3
    <3>5. errs' \in [1 .. Len(errs) -> Errs]
      BY <3>1, <3>2, <3>3, <3>4
    <3> QED
      BY <3>2, <3>5
  <2> QED
    BY <1>8, <2>1 DEF Sort, TypeOK, counts, report, Phases
<1>9. CASE Collect
  BY <1>9 DEF Collect, Heads, TypeOK, counts, Phases
<1>10. CASE ReadScore
  <2>1. Floor(score) \in Nat
    BY DEF Floor, TypeOK
  <2>2. rep' \in [score : Nat, sucesses : Nat, fails : Nat]
    BY <1>10, <2>1 DEF ReadScore, TypeOK
  <2> QED
    BY <1>10, <2>2 DEF ReadScore, TypeOK, counts, Phases
<1>11. CASE ReadSucesses
  BY <1>11 DEF ReadSucesses, TypeOK, counts, Phases
<1>12. CASE ReadFails
  BY <1>12 DEF ReadFails, TypeOK, counts, Phases
<1>13. CASE Exit
  BY <1>13 DEF Exit, TypeOK, counts, report, Phases
<1> QED
  BY <1>1, <1>2, <1>3, <1>4, <1>5, <1>6, <1>7, <1>8, <1>9, <1>10, <1>11, <1>12,
     <1>13 DEF MainStep

\* Every step keeps the types.
LEMMA NextTyped == TypeOK /\ [Next]_vars => TypeOK'
<1>1. ASSUME TypeOK, UNCHANGED vars PROVE TypeOK'
  BY <1>1 DEF TypeOK, vars
<1>2. ASSUME TypeOK, Load PROVE TypeOK'
  BY <1>2, PlayTyped, RunTyped DEF Load
<1>3. ASSUME TypeOK, Unload PROVE TypeOK'
  BY <1>3, PlayTyped, RunTyped DEF Unload
<1> QED
  BY <1>1, <1>2, <1>3 DEF Next, Exited

(***************************************************************************)
(* What the steps of a goroutine do to what the invariant speaks of.       *)
(***************************************************************************)
\* Progress along a plan keeps the rest of the goroutine's state; it is the
\* end of a scenario that can empty the plan.
LEMMA GoesFacts ==
  ASSUME TypeOK, NEW w \in Crew, crew[w].plan # <<>>, NEW steps \in Seq(Steps)
  PROVE  /\ Goes(w, steps).plan # <<>>
         /\ Goes(w, steps).kind = crew[w].kind
         /\ Goes(w, steps).err = crew[w].err
<1>1. crew[w] \in Worker /\ crew[w].plan \in Seq(Seq(Steps))
  BY WorkerFacts DEF Worker
<1>2. Tail(crew[w].plan) \in Seq(Seq(Steps))
  BY <1>1, PlanFacts
<1>3. <<steps>> \o Tail(crew[w].plan) # <<>>
  <2> DEFINE S == Seq(Steps)
  <2>1. steps \in S /\ Tail(crew[w].plan) \in Seq(S)
    BY <1>2
  <2> HIDE DEF S
  <2>2. Len(<<steps>> \o Tail(crew[w].plan)) = 1 + Len(Tail(crew[w].plan))
    BY <2>1
  <2> QED
    BY <2>1, <2>2
<1> QED
  BY <1>1, <1>3 DEF Goes, Worker

\* A step of a goroutine scores, counts a failure, logs one or does neither.
LEMMA PlayFacts ==
  ASSUME TypeOK, CrewInv, NEW w \in Crew, Play(w) \/ More(w)
  PROVE  /\ crew'[w].kind = crew[w].kind
         /\ \A v \in Crew \ {w} : crew'[v] = crew[v]
         /\ crew[w].plan = <<>> => crew'[w].plan = <<>>
         /\ crew'[w].plan = <<>> => crew'[w].err = None
         /\ \/ /\ crew'[w].err = crew[w].err
               /\ UNCHANGED <<fails, errs, clean>>
            \/ /\ crew[w].err = None /\ crew'[w].err # None
               /\ fails' = fails + 1 /\ errs' = errs
            \/ /\ crew[w].err # None /\ crew'[w].err = None
               /\ Len(errs') = Len(errs) + 1 /\ UNCHANGED <<fails, clean>>
         /\ \/ score' <= score /\ sucesses' = sucesses
            \/ score' <= score + 5 /\ sucesses' = sucesses + 1
         /\ UNCHANGED <<initialize, phase, tokens, pass, msgs, rep>>
<1>0. crew[w] \in Worker /\ score \in Int /\ sucesses \in Nat
  BY WorkerFacts DEF TypeOK
<1>1. CASE Succeed(w)
  <2> DEFINE q == [Advanced(w) EXCEPT
                     !.owed = IF Len(Points[Step(w)]) = 2
                              THEN Points[Step(w)][2] ELSE 0]
  <2>1. Playing(w) /\ Advanced(w) \in Worker /\ Becomes(w, q)
        /\ Step(w) \in Requests
    BY <1>1, WorkerFacts DEF Succeed
  <2>2. /\ Points[Step(w)][1] \in 1 .. 5
        /\ Len(Points[Step(w)]) = 2 => Points[Step(w)][2] \in {1, 2}
    BY <2>1, ScenarioFacts
  <2>3. q \in Worker
    BY <2>1, <2>2 DEF Worker
  <2>4. crew'[w] = q /\ \A v \in Crew \ {w} : crew'[v] = crew[v]
    BY <2>1, <2>3, CrewStep
  <2>5. Advanced(w).plan # <<>> /\ Advanced(w).kind = crew[w].kind
        /\ Advanced(w).err = crew[w].err /\ crew[w].err = None
        /\ crew[w].plan # <<>>
    BY <2>1, WorkerFacts, GoesFacts DEF Playing, Advanced
  <2>6. q.plan = Advanced(w).plan /\ q.kind = Advanced(w).kind
        /\ q.err = Advanced(w).err
    BY <2>1 DEF Worker
  <2>7. score' <= score + 5 /\ sucesses' = sucesses + 1
    BY <1>0, <1>1, <2>2 DEF Succeed
  <2>8. UNCHANGED <<fails, errs, clean, initialize, phase, tokens, pass, msgs, rep>>
    BY <1>1 DEF Succeed, UnchangedRun, report
  <2> HIDE DEF q
  <2> QED
    BY <2>4, <2>5, <2>6, <2>7, <2>8
<1>2. CASE SucceedAgain(w)
  <2>1. crew'[w] = [crew[w] EXCEPT !.owed = 0]
        /\ \A v \in Crew \ {w} : crew'[v] = crew[v]
    BY <1>2, WorkerFacts, CrewStep DEF SucceedAgain
  <2>2. score' <= score + 5 /\ sucesses' = sucesses + 1
    BY <1>0, <1>2 DEF SucceedAgain, Worker
  <2>3. crew'[w].kind = crew[w].kind /\ crew'[w].plan = crew[w].plan
        /\ crew'[w].err = crew[w].err
    BY <1>0, <2>1 DEF Worker
  <2> QED
    BY <1>2, <2>1, <2>2, <2>3 DEF SucceedAgain, UnchangedRun, report, CrewInv
<1>3. CASE Fail(w)
  <2>1. PICK e \in Errs :
          /\ score' = score - Penalty(e)
          /\ fails' = Counted(e)
          /\ Becomes(w, [IF Step(w) = "asset" THEN Advanced(w) ELSE Goes(w, <<>>)
                         EXCEPT !.err = e])
    BY <1>3 DEF Fail
  <2> DEFINE g == IF Step(w) = "asset" THEN Advanced(w) ELSE Goes(w, <<>>)
             q == [g EXCEPT !.err = e]
  <2>2. Playing(w) /\ crew[w].plan # <<>> /\ crew[w].err = None
    BY <1>3 DEF Fail, Playing
  <2>3. g \in Worker /\ g.plan # <<>> /\ g.kind = crew[w].kind
    <3>1. <<>> \in Seq(Steps)
      OBVIOUS
    <3>2. Goes(w, <<>>) \in Worker /\ Goes(w, <<>>).plan # <<>>
          /\ Goes(w, <<>>).kind = crew[w].kind
      BY <2>2, <3>1, WorkerFacts, GoesFacts
    <3>3. Advanced(w) \in Worker /\ Advanced(w).plan # <<>>
          /\ Advanced(w).kind = crew[w].kind
      BY <2>2, WorkerFacts, GoesFacts DEF Advanced
    <3> QED
      BY <3>2, <3>3
  <2>4. q \in Worker /\ q.plan = g.plan /\ q.kind = g.kind /\ q.err = e
    BY <2>3 DEF Worker
  <2>5. crew'[w] = q /\ \A v \in Crew \ {w} : crew'[v] = crew[v]
    BY <2>1, <2>4, CrewStep
  <2>6. score' <= score /\ sucesses' = sucesses /\ fails' = fails + 1
    BY <1>0, <1>3, <2>1 DEF Fail, Penalty, Counted
  <2>7. e # None
    BY NoneAssumption
  <2> HIDE DEF g, q
  <2> QED
    BY <1>3, <2>2, <2>3, <2>4, <2>5, <2>6, <2>7 DEF Fail, UnchangedRun, report
<1>4. CASE LogFailure(w)
  <2>1. crew'[w] = [crew[w] EXCEPT !.err = None]
        /\ \A v \in Crew \ {w} : crew'[v] = crew[v]
    BY <1>4, WorkerFacts, CrewStep DEF LogFailure
  <2>2. crew'[w].kind = crew[w].kind /\ crew'[w].plan = crew[w].plan
        /\ crew'[w].err = None
    BY <1>0, <2>1 DEF Worker
  <2>3. crew[w].err \in Errs /\ errs' = Append(errs, crew[w].err)
    BY <1>0, <1>4 DEF LogFailure, Worker
  <2>4. Len(errs') = Len(errs) + 1
    BY <2>3 DEF TypeOK
  <2> QED
    BY <1>0, <1>4, <2>1, <2>2, <2>4 DEF LogFailure, UnchangedRun, report, counts
<1>5. CASE More(w) \/ Enough(w)
  <2>1. Playing(w) /\ crew[w].plan # <<>> /\ crew[w].err = None
        /\ Step(w) \in Repeated
    BY <1>5 DEF More, Enough, Playing
  <2>2. Again[Step(w)] \in Seq(Steps) /\ Tail(Head(crew[w].plan)) \in Seq(Steps)
    BY <2>1, ScenarioFacts, WorkerFacts
  <2>3. PICK steps \in Seq(Steps) : Becomes(w, Goes(w, steps))
    <3>1. Again[Step(w)] \o Tail(Head(crew[w].plan)) \in Seq(Steps)
      BY <2>2
    <3> QED
      BY <1>5, <2>2, <3>1 DEF More, Enough, Advanced
  <2>4. crew'[w] = Goes(w, steps) /\ \A v \in Crew \ {w} : crew'[v] = crew[v]
    BY <2>1, <2>3, WorkerFacts, CrewStep
  <2>5. /\ Goes(w, steps).plan # <<>>
        /\ Goes(w, steps).kind = crew[w].kind
        /\ Goes(w, steps).err = crew[w].err
    BY <2>1, GoesFacts
  <2> QED
    BY <1>0, <1>5, <2>1, <2>4, <2>5
    DEF More, Enough, UnchangedRun, report, counts
<1>6. CASE EndScenario(w)
  <2>1. crew'[w] = [crew[w] EXCEPT !.plan = Tail(@)]
        /\ \A v \in Crew \ {w} : crew'[v] = crew[v]
    BY <1>6, WorkerFacts, CrewStep DEF EndScenario
  <2>2. crew'[w].kind = crew[w].kind /\ crew'[w].err = crew[w].err
    BY <1>0, <2>1 DEF Worker
  <2> QED
    BY <1>0, <1>6, <2>1, <2>2 DEF EndScenario, UnchangedRun, report, counts
<1> QED
  BY <1>1, <1>2, <1>3, <1>4, <1>5, <1>6 DEF Play

\* The rest of Run's steps change the crew only when the pre-check begins.
LEMMA RunFacts ==
  ASSUME TypeOK, PhaseInv, CrewInv, InitializeAnswers \/ MainStep
  PROVE  /\ \A v \in Workers : crew'[v] = crew[v]
         /\ crew'[Main].kind = None /\ crew'[Main].err = crew[Main].err
         /\ crew' = crew \/ (phase = "await" /\ phase' = "precheck"
                             /\ crew'[Main].plan # <<>>)
         /\ ~ Gate => UNCHANGED <<tokens, pass>>
         /\ UNCHANGED <<score, sucesses, fails, clean>>
         /\ Len(errs') = Len(errs)
<1>1. CASE Receive /\ initialize # "failed"
  <2> DEFINE q == [Resting EXCEPT !.plan = Precheck]
  <2>1. Main \in Crew /\ q \in Worker /\ Main \notin Workers
    BY ScenarioFacts, WorkersAssumption DEF Crew, Resting, Worker
  <2>2. crew'[Main] = q /\ \A v \in Crew \ {Main} : crew'[v] = crew[v]
    BY <1>1, <2>1, CrewStep DEF Receive
  <2>3. q.kind = None /\ q.err = None /\ q.plan = Precheck
    BY DEF Resting
  <2>4. Precheck # <<>>
    BY DEF Precheck
  <2>5. crew[Main].err = None
    BY <1>1, <2>1 DEF Receive, PhaseInv, CrewInv
  <2> QED
    BY <1>1, <2>1, <2>2, <2>3, <2>4, <2>5 DEF Receive, counts, report, Crew
<1>2. CASE Sort
  <2>1. errs \in Seq(Errs)
    BY DEF TypeOK
  <2>2. DOMAIN errs' = DOMAIN errs /\ errs' \in Seq(Errs)
    BY <1>2, RunTyped DEF Sort, MainStep, TypeOK
  <2>3. Len(errs') = Len(errs)
    BY <2>1, <2>2
  <2>4. UNCHANGED <<crew, tokens, pass, score, sucesses, fails, clean>>
    BY <1>2 DEF Sort, counts, report
  <2> QED
    BY <2>3, <2>4 DEF PhaseInv
<1>3. CASE ~ Sort /\ ~ (Receive /\ initialize # "failed")
  <2>1. UNCHANGED <<crew, score, sucesses, fails, errs, clean>>
    BY <1>3
    DEF InitializeAnswers, MainStep, Prepare, Receive, Gate, Timeout, Wake, Log,
        Collect, ReadScore, ReadSucesses, ReadFails, Exit, counts
  <2>2. ~ Gate => UNCHANGED <<tokens, pass>>
    BY <1>3
    DEF InitializeAnswers, MainStep, Prepare, Receive, Timeout, Wake, Log,
        Collect, ReadScore, ReadSucesses, ReadFails, Exit, report
  <2> QED
    BY <2>1, <2>2 DEF PhaseInv
<1> QED
  BY <1>1, <1>2, <1>3

(***************************************************************************)
(* Tokens.                                                                 *)
(***************************************************************************)
\* Taking a token, or giving one back, moves one goroutine in or out of those
\* that run scenarios of its kind.
LEMMA RunningFacts ==
  ASSUME TypeOK, TypeOK'
  PROVE  /\ \A k \in Kinds : IsFiniteSet(Running(k)) /\ Cardinality(Running(k)) \in Nat
         /\ (\A v \in Workers : crew'[v].kind = crew[v].kind) =>
              \A k \in Kinds : Running(k)' = Running(k)
         /\ \A w \in Workers, k \in Kinds :
              crew[w].kind = None /\ crew'[w].kind = k
              /\ (\A v \in Workers \ {w} : crew'[v].kind = crew[v].kind) =>
                /\ Cardinality(Running(k)') = Cardinality(Running(k)) + 1
                /\ \A j \in Kinds \ {k} : Running(j)' = Running(j)
         /\ \A w \in Workers, k \in Kinds :
              crew[w].kind = k /\ crew'[w].kind = None
              /\ (\A v \in Workers \ {w} : crew'[v].kind = crew[v].kind) =>
                /\ Cardinality(Running(k)') = Cardinality(Running(k)) - 1
                /\ \A j \in Kinds \ {k} : Running(j)' = Running(j)
<1>1. \A k \in Kinds : IsFiniteSet(Running(k)) /\ Cardinality(Running(k)) \in Nat
  BY WorkersAssumption, FS_Subset, FS_CardinalityType DEF Running
<1>2. (\A v \in Workers : crew'[v].kind = crew[v].kind) =>
        \A k \in Kinds : Running(k)' = Running(k)
  BY DEF Running
<1>3. ASSUME NEW w \in Workers, NEW k \in Kinds,
             crew[w].kind = None, crew'[w].kind = k,
             \A v \in Workers \ {w} : crew'[v].kind = crew[v].kind
      PROVE  /\ Cardinality(Running(k)') = Cardinality(Running(k)) + 1
             /\ \A j \in Kinds \ {k} : Running(j)' = Running(j)
  <2>1. None \notin Kinds
    BY KindsAssumption
  <2>2. Running(k)' = Running(k) \cup {w} /\ w \notin Running(k)
    BY <1>3, <2>1 DEF Running
  <2>3. \A j \in Kinds \ {k} : Running(j)' = Running(j)
    BY <1>3, <2>1 DEF Running
  <2> QED
    BY <1>1, <2>2, <2>3, FS_AddElement
<1>4. ASSUME NEW w \in Workers, NEW k \in Kinds,
             crew[w].kind = k, crew'[w].kind = None,
             \A v \in Workers \ {w} : crew'[v].kind = crew[v].kind
      PROVE  /\ Cardinality(Running(k)') = Cardinality(Running(k)) - 1
             /\ \A j \in Kinds \ {k} : Running(j)' = Running(j)
  <2>1. None \notin Kinds
    BY KindsAssumption
  <2>2. Running(k)' = Running(k) \ {w} /\ w \in Running(k)
    BY <1>4, <2>1 DEF Running
  <2>3. \A j \in Kinds \ {k} : Running(j)' = Running(j)
    BY <1>4, <2>1 DEF Running
  <2> QED
    BY <1>1, <2>2, <2>3, FS_RemoveElement
<1> QED
  BY <1>1, <1>2, <1>3, <1>4

\* Tokens move between their channel and the goroutines.
LEMMA TokensStep ==
  ASSUME IInv, TypeOK', [Next]_vars
  PROVE  TokensConserved'
<1> USE DEF IInv
<1>1. ASSUME \A v \in Workers : crew'[v].kind = crew[v].kind,
             UNCHANGED <<tokens, pass>>
      PROVE  TokensConserved'
  BY <1>1, RunningFacts DEF TokensConserved, Loaded
<1>2. CASE UNCHANGED vars
  BY <1>1, <1>2 DEF vars
<1>3. ASSUME NEW w \in Crew, Play(w) \/ More(w) PROVE TokensConserved'
  <2>1. \A v \in Workers : crew'[v].kind = crew[v].kind
    BY <1>3, PlayFacts DEF Crew
  <2> QED
    BY <1>1, <1>3, <2>1, PlayFacts
<1>4. ASSUME InitializeAnswers \/ MainStep, ~ Gate PROVE TokensConserved'
  BY <1>1, <1>4, RunFacts
<1>5. CASE Gate
  <2>1. \A k \in Kinds : /\ Running(k)' = Running(k)
                         /\ Cardinality(Running(k)) \in Nat
    BY <1>5, RunningFacts DEF Gate
  <2>2. pass = FALSE /\ \A k \in Kinds : tokens[k] \in Nat
    BY <1>5 DEF Gate, PhaseInv, TypeOK
  <2>3. CASE UNCHANGED <<tokens, pass>>
    BY <1>1, <1>5, <2>3 DEF Gate
  <2>4. CASE tokens' = Limit /\ pass' = TRUE
    <3>1. \A k \in Kinds : Cardinality(Running(k)) = 0 /\ Limit[k] \in Nat
      BY <2>1, <2>2, ScenarioFacts DEF TokensConserved, Loaded
    <3> QED
      BY <2>1, <2>4, <3>1 DEF TokensConserved, Loaded
  <2> QED
    BY <1>5, <2>3, <2>4 DEF Gate
<1>6. ASSUME NEW w \in Workers, NEW k \in Kinds, Start(w, k)
      PROVE  TokensConserved'
  <2> DEFINE q == [Resting EXCEPT !.kind = k, !.plan = Chain[k]]
  <2>1. w \in Crew /\ q \in Worker /\ q.kind = k
    BY ScenarioFacts DEF Crew, Resting, Worker
  <2>2. crew'[w].kind = k /\ \A v \in Workers \ {w} : crew'[v].kind = crew[v].kind
    BY <1>6, <2>1, CrewStep DEF Start, Crew
  <2>3. /\ Cardinality(Running(k)') = Cardinality(Running(k)) + 1
        /\ \A j \in Kinds \ {k} : Running(j)' = Running(j)
        /\ Cardinality(Running(k)) \in Nat
    BY <1>6, <2>2, RunningFacts DEF Start
  <2>4. /\ tokens'[k] = tokens[k] - 1 /\ tokens[k] \in Nat
        /\ \A j \in Kinds \ {k} : tokens'[j] = tokens[j]
        /\ pass' = pass
    BY <1>6 DEF Start, TypeOK, report
  <2> QED
    BY <2>3, <2>4 DEF TokensConserved, Loaded
<1>7. ASSUME NEW w \in Crew, GiveBack(w) PROVE TokensConserved'
  <2>1. PICK k \in Kinds : crew[w].kind = k
    BY <1>7, WorkerFacts DEF GiveBack, Worker
  <2>2. w \in Workers
    BY <1>7 DEF GiveBack, PhaseInv, Crew
  <2>3. Resting \in Worker /\ Resting.kind = None /\ Becomes(w, Resting)
    BY <1>7, WorkerFacts DEF GiveBack, Resting
  <2>4. crew'[w].kind = None /\ \A v \in Workers \ {w} : crew'[v].kind = crew[v].kind
    BY <2>3, CrewStep DEF Crew
  <2>5. /\ Cardinality(Running(k)') = Cardinality(Running(k)) - 1
        /\ \A j \in Kinds \ {k} : Running(j)' = Running(j)
        /\ Cardinality(Running(k)) \in Nat
    BY <2>1, <2>2, <2>4, RunningFacts
  <2>6. /\ tokens'[k] = tokens[k] + 1 /\ tokens[k] \in Nat
        /\ \A j \in Kinds \ {k} : tokens'[j] = tokens[j]
        /\ pass' = pass
    BY <1>7, <2>1 DEF GiveBack, Channel, TypeOK, report
  <2> QED
    BY <2>5, <2>6 DEF TokensConserved, Loaded
<1> QED
  BY <1>2, <1>3, <1>4, <1>5, <1>6, <1>7 DEF Next, Load, Unload, Exited

(***************************************************************************)
(* The crew and the phases.                                                *)
(***************************************************************************)
\* Starting a goroutine and ending one both leave it with nothing to log.
LEMMA StartFacts ==
  ASSUME TypeOK, CrewInv, PhaseInv, NEW w \in Crew,
         GiveBack(w) \/ \E k \in Kinds : Start(w, k)
  PROVE  /\ w \in Workers
         /\ \A v \in Crew \ {w} : crew'[v] = crew[v]
         /\ crew[w].err = None /\ crew'[w].err = None
         /\ crew'[w].kind = None => crew'[w].plan = <<>>
         /\ UNCHANGED <<initialize, phase, score, sucesses, fails, errs, pass,
                        msgs, rep, clean>>
<1>1. CASE GiveBack(w)
  <2>1. Resting \in Worker /\ Becomes(w, Resting)
    BY <1>1, WorkerFacts DEF GiveBack
  <2>2. crew'[w] = Resting /\ \A v \in Crew \ {w} : crew'[v] = crew[v]
    BY <2>1, CrewStep
  <2>3. Resting.kind = None /\ Resting.plan = <<>> /\ Resting.err = None
    BY DEF Resting
  <2>4. w \in Workers /\ crew[w].err = None
    BY <1>1 DEF GiveBack, PhaseInv, CrewInv, Crew
  <2> QED
    BY <1>1, <2>2, <2>3, <2>4 DEF GiveBack, counts, report
<1>2. ASSUME NEW k \in Kinds, Start(w, k)
      PROVE  /\ w \in Workers
             /\ \A v \in Crew \ {w} : crew'[v] = crew[v]
             /\ crew[w].err = None /\ crew'[w].err = None
             /\ crew'[w].kind # None
             /\ UNCHANGED <<initialize, phase, score, sucesses, fails, errs, pass,
                            msgs, rep, clean>>
  <2> DEFINE q == [Resting EXCEPT !.kind = k, !.plan = Chain[k]]
  <2>1. q \in Worker /\ q.kind = k /\ q.err = None
    BY ScenarioFacts DEF Resting, Worker
  <2>2. crew'[w] = q /\ \A v \in Crew \ {w} : crew'[v] = crew[v]
    BY <1>2, <2>1, CrewStep DEF Start
  <2>3. w \in Workers /\ crew[w].err = None
    BY <1>2 DEF Start, CrewInv
  <2>4. k # None
    BY KindsAssumption
  <2>5. UNCHANGED <<initialize, phase, score, sucesses, fails, errs, pass, msgs, rep,
                    clean>>
    BY <1>2 DEF Start, counts, report
  <2> HIDE DEF q
  <2> QED
    BY <2>1, <2>2, <2>3, <2>4, <2>5
<1> QED
  BY <1>1, <1>2

\* A goroutine that has come to the end of its plan has logged its failures.
LEMMA CrewInvStep ==
  ASSUME IInv, TypeOK', [Next]_vars
  PROVE  CrewInv'
<1> USE DEF IInv
<1>1. CASE UNCHANGED vars
  BY <1>1 DEF vars, CrewInv
<1>2. ASSUME NEW w \in Crew, Play(w) \/ More(w) PROVE CrewInv'
  BY <1>2, PlayFacts DEF CrewInv, Crew
<1>3. ASSUME InitializeAnswers \/ MainStep PROVE CrewInv'
  <2>1. CASE crew' = crew
    BY <2>1 DEF CrewInv
  <2>2. CASE crew'[Main].plan # <<>>
    BY <1>3, <2>2, RunFacts, WorkersAssumption DEF CrewInv, Crew
  <2> QED
    BY <1>3, <2>1, <2>2, RunFacts
<1>4. ASSUME NEW w \in Crew, GiveBack(w) \/ \E k \in Kinds : Start(w, k)
      PROVE  CrewInv'
  BY <1>4, StartFacts DEF CrewInv
<1> QED
  BY <1>1, <1>2, <1>3, <1>4 DEF Next, Load, Unload, Exited, Crew

\* Run's phases, and what the pre-check leaves to the gate.
LEMMA PhaseInvStep ==
  ASSUME IInv, TypeOK', [Next]_vars
  PROVE  PhaseInv'
<1> USE DEF IInv
<1>1. CASE UNCHANGED vars
  BY <1>1 DEF vars, PhaseInv
<1>2. ASSUME NEW w \in Crew, Play(w) \/ More(w) PROVE PhaseInv'
  <2>1. crew'[Main].kind = None
        /\ (crew[Main].plan = <<>> => crew'[Main].plan = <<>>)
    BY <1>2, PlayFacts DEF PhaseInv, Crew
  <2>2. clean' \/ fails' > 0
    BY <1>2, PlayFacts DEF PhaseInv, TypeOK
  <2> QED
    BY <1>2, <2>1, <2>2, PlayFacts DEF PhaseInv
<1>3. ASSUME NEW w \in Crew, GiveBack(w) \/ \E k \in Kinds : Start(w, k)
      PROVE  PhaseInv'
  BY <1>3, StartFacts, WorkersAssumption DEF PhaseInv, Crew
<1>4. ASSUME InitializeAnswers \/ MainStep PROVE PhaseInv'
  <2>1. crew'[Main].kind = None /\ (clean' \/ fails' > 0)
    BY <1>4, RunFacts DEF PhaseInv
  <2>2. CASE InitializeAnswers
    BY <2>2, <2>1 DEF InitializeAnswers, PhaseInv, report
  <2>3. CASE Prepare
    BY <2>3, <2>1 DEF Prepare, PhaseInv, report
  <2>4. CASE Receive
    BY <2>4, <2>1 DEF Receive, PhaseInv, report, TypeOK
  <2>5. CASE Gate
    BY <2>5, <2>1 DEF Gate, PhaseInv
  <2>6. CASE Timeout \/ Wake \/ Log \/ Sort \/ Collect
    BY <2>6, <2>1 DEF Timeout, Wake, Log, Sort, Collect, PhaseInv, report
  <2>7. CASE ReadScore \/ ReadSucesses \/ ReadFails \/ Exit
    BY <2>7, <2>1 DEF ReadScore, ReadSucesses, ReadFails, Exit, PhaseInv, report
  <2> QED
    BY <1>4, <2>2, <2>3, <2>4, <2>5, <2>6, <2>7 DEF MainStep
<1> QED
  BY <1>1, <1>2, <1>3, <1>4 DEF Next, Load, Unload, Exited, Crew

(***************************************************************************)
(* Score and log.                                                          *)
(***************************************************************************)
\* The goroutines that have counted a failure and not logged it.
LEMMA PendingFacts ==
  ASSUME TypeOK, TypeOK'
  PROVE  /\ IsFiniteSet(Pending) /\ Cardinality(Pending) \in Nat
         /\ (\A v \in Crew : crew'[v].err = crew[v].err) => Pending' = Pending
         /\ \A w \in Crew :
              crew[w].err = None /\ crew'[w].err # None
              /\ (\A v \in Crew \ {w} : crew'[v].err = crew[v].err) =>
                Cardinality(Pending') = Cardinality(Pending) + 1
         /\ \A w \in Crew :
              crew[w].err # None /\ crew'[w].err = None
              /\ (\A v \in Crew \ {w} : crew'[v].err = crew[v].err) =>
                Cardinality(Pending') = Cardinality(Pending) - 1
<1>1. IsFiniteSet(Crew)
  BY WorkersAssumption, FS_AddElement DEF Crew
<1>2. IsFiniteSet(Pending) /\ Cardinality(Pending) \in Nat
  BY <1>1, FS_Subset, FS_CardinalityType DEF Pending
<1>3. (\A v \in Crew : crew'[v].err = crew[v].err) => Pending' = Pending
  BY DEF Pending
<1>4. ASSUME NEW w \in Crew, crew[w].err = None, crew'[w].err # None,
             \A v \in Crew \ {w} : crew'[v].err = crew[v].err
      PROVE  Cardinality(Pending') = Cardinality(Pending) + 1
  <2>1. Pending' = Pending \cup {w} /\ w \notin Pending
    BY <1>4 DEF Pending
  <2> QED
    BY <1>2, <2>1, FS_AddElement
<1>5. ASSUME NEW w \in Crew, crew[w].err # None, crew'[w].err = None,
             \A v \in Crew \ {w} : crew'[v].err = crew[v].err
      PROVE  Cardinality(Pending') = Cardinality(Pending) - 1
  <2>1. Pending' = Pending \ {w} /\ w \in Pending
    BY <1>5 DEF Pending
  <2> QED
    BY <1>2, <2>1, FS_RemoveElement
<1> QED
  BY <1>2, <1>3, <1>4, <1>5

\* Every failure is counted before it is logged, and no success scores more
\* than five.
LEMMA LogInvStep ==
  ASSUME IInv, TypeOK', [Next]_vars
  PROVE  LogInv'
<1> USE DEF IInv
<1>0. /\ Len(errs) \in Nat /\ fails \in Nat /\ score \in Int /\ sucesses \in Nat
      /\ rep.score \in Nat
  BY DEF TypeOK
<1>1. CASE UNCHANGED vars
  <2>1. Pending' = Pending
    BY <1>1 DEF vars, Pending
  <2> QED
    BY <1>1, <2>1 DEF vars, LogInv
<1>2. ASSUME NEW w \in Crew, Play(w) \/ More(w) PROVE LogInv'
  <2>1. Len(errs') + Cardinality(Pending') = fails'
    <3>1. CASE crew'[w].err = crew[w].err /\ UNCHANGED <<fails, errs>>
      <4>1. Pending' = Pending
        BY <1>2, <3>1, PlayFacts, PendingFacts
      <4> QED
        BY <3>1, <4>1 DEF LogInv
    <3>2. CASE crew[w].err = None /\ crew'[w].err # None
               /\ fails' = fails + 1 /\ errs' = errs
      <4>1. Cardinality(Pending') = Cardinality(Pending) + 1
            /\ Cardinality(Pending) \in Nat
        BY <1>2, <3>2, PlayFacts, PendingFacts
      <4> QED
        BY <1>0, <3>2, <4>1 DEF LogInv
    <3>3. CASE crew[w].err # None /\ crew'[w].err = None
               /\ Len(errs') = Len(errs) + 1 /\ fails' = fails
      <4>1. Cardinality(Pending') = Cardinality(Pending) - 1
            /\ Cardinality(Pending) \in Nat
        BY <1>2, <3>3, PlayFacts, PendingFacts
      <4> QED
        BY <1>0, <3>3, <4>1 DEF LogInv
    <3> QED
      BY <1>2, <3>1, <3>2, <3>3, PlayFacts
  <2>2. /\ \/ score' <= score /\ sucesses' = sucesses
           \/ score' <= score + 5 /\ sucesses' = sucesses + 1
        /\ score' \in Int
        /\ phase' = phase /\ rep' = rep
    BY <1>2, PlayFacts DEF TypeOK
  <2>3. score' <= 5 * sucesses'
    BY <1>0, <2>2 DEF LogInv
  <2>4. phase' = "sucesses" => rep'.score <= 5 * sucesses'
    BY <1>0, <2>2 DEF LogInv
  <2> QED
    BY <2>1, <2>3, <2>4 DEF LogInv
<1>3. ASSUME NEW w \in Crew, GiveBack(w) \/ \E k \in Kinds : Start(w, k)
      PROVE  LogInv'
  <2>1. Pending' = Pending
    BY <1>3, StartFacts, PendingFacts
  <2> QED
    BY <1>3, <2>1, StartFacts DEF LogInv
<1>4. ASSUME InitializeAnswers \/ MainStep PROVE LogInv'
  <2>1. Pending' = Pending
    BY <1>4, RunFacts, PendingFacts DEF Crew
  <2>2. Len(errs') + Cardinality(Pending') = fails' /\ score' <= 5 * sucesses'
    BY <1>4, <2>1, RunFacts DEF LogInv
  <2>3. phase' = "sucesses" => rep'.score <= 5 * sucesses'
    <3>1. CASE ReadScore
      <4>1. rep'.score = Floor(score) /\ sucesses' = sucesses
        BY <3>1 DEF ReadScore, TypeOK, counts
      <4> QED
        BY <1>0, <4>1 DEF Floor, LogInv
    <3>2. CASE ~ ReadScore
      <4>1. phase' = "sucesses" => phase = "sucesses" /\ InitializeAnswers
        BY <1>4, <3>2
        DEF MainStep, InitializeAnswers, Prepare, Receive, Gate, Timeout, Wake, Log,
            Sort, Collect, ReadSucesses, ReadFails, Exit
      <4> QED
        BY <4>1 DEF InitializeAnswers, LogInv, counts, report
    <3> QED
      BY <3>1, <3>2
  <2> QED
    BY <2>2, <2>3 DEF LogInv
<1> QED
  BY <1>1, <1>2, <1>3, <1>4 DEF Next, Load, Unload, Exited, Crew

(***************************************************************************)
(* The report.                                                             *)
(***************************************************************************)
\* The messages are read before the number of failures, and the score before
\* that of the successes.
LEMMA ReportStep ==
  ASSUME IInv, TypeOK', [Next]_vars
  PROVE  ReportCoherent'
<1> USE DEF IInv
<1>1. CASE UNCHANGED <<phase, msgs, rep>>
  BY <1>1 DEF ReportCoherent
<1>2. CASE ReadFails
  <2>1. Len(errs) \in Nat /\ fails \in Nat /\ msgs \subseteq 1 .. Len(errs)
    BY DEF TypeOK
  <2>2. Cardinality(1 .. Len(errs)) = Len(errs) /\ IsFiniteSet(1 .. Len(errs))
    BY <2>1, FS_Interval
  <2>3. Cardinality(msgs) <= Len(errs) /\ Cardinality(msgs) \in Nat
    BY <2>1, <2>2, FS_Subset, FS_CardinalityType
  <2>4. Len(errs) <= fails
    BY <2>1, PendingFacts DEF LogInv
  <2>5. rep'.fails = fails /\ rep'.score = rep.score /\ rep'.sucesses = rep.sucesses
        /\ msgs' = msgs
    BY <1>2 DEF ReadFails, TypeOK
  <2>6. Cardinality(msgs') <= rep'.fails
    BY <2>1, <2>3, <2>4, <2>5
  <2> QED
    BY <1>2, <2>5, <2>6 DEF ReadFails, ReportCoherent
<1>3. CASE ReadSucesses
  <2>1. rep'.sucesses = sucesses /\ rep'.score = rep.score
    BY <1>3 DEF ReadSucesses, TypeOK
  <2> QED
    BY <1>3, <2>1 DEF ReadSucesses, ReportCoherent, LogInv
<1>4. CASE Exit
  BY <1>4 DEF Exit, ReportCoherent, report
<1>5. ASSUME MainStep, ~ ReadFails, ~ ReadSucesses, ~ Exit PROVE ReportCoherent'
  <2>1. phase' \notin {"fails", "print", "exited"}
    BY <1>5
    DEF MainStep, Prepare, Receive, Gate, Timeout, Wake, Log, Sort, Collect,
        ReadScore
  <2> QED
    BY <2>1 DEF ReportCoherent
<1>6. CASE ~ MainStep
  <2>1. CASE InitializeAnswers
    BY <2>1, <1>1 DEF InitializeAnswers, report
  <2>2. ASSUME NEW w \in Crew, Play(w) \/ More(w) PROVE ReportCoherent'
    BY <2>2, <1>1, PlayFacts
  <2>3. ASSUME NEW w \in Crew, GiveBack(w) \/ \E k \in Kinds : Start(w, k)
        PROVE  ReportCoherent'
    BY <2>3, <1>1, StartFacts
  <2> QED
    BY <1>1, <1>6, <2>1, <2>2, <2>3 DEF Next, Load, Unload, Exited, vars, report, Crew
<1> QED
  BY <1>2, <1>3, <1>4, <1>5, <1>6

\* Only a clean pre-check gets past the gate, and the main goroutine has played
\* all of its requests by then.
LEMMA PassStep ==
  ASSUME IInv, TypeOK', [Next]_vars
  PROVE  PassMeansClean'
<1> USE DEF IInv
<1>1. CASE UNCHANGED <<initialize, pass, clean>>
  BY <1>1 DEF PassMeansClean
<1>2. ASSUME NEW w \in Crew, Play(w) \/ More(w) PROVE PassMeansClean'
  <2>1. pass' = pass /\ initialize' = initialize
    BY <1>2, PlayFacts
  <2>2. CASE Fail(w)
    <3>1. pass => w # Main
      BY <2>2 DEF Fail, Playing, PhaseInv
    <3> QED
      BY <2>1, <2>2, <3>1 DEF Fail, PassMeansClean
  <2>3. CASE ~ Fail(w)
    <3>1. clean' = clean
      BY <1>2, <2>3
      DEF Play, Succeed, SucceedAgain, LogFailure, More, Enough, EndScenario
    <3> QED
      BY <1>1, <2>1, <3>1
  <2> QED
    BY <2>2, <2>3
<1>3. ASSUME NEW w \in Crew, GiveBack(w) \/ \E k \in Kinds : Start(w, k)
      PROVE  PassMeansClean'
  BY <1>1, <1>3, StartFacts
<1>4. CASE InitializeAnswers
  <2>1. ~ pass /\ pass' = pass
    BY <1>4 DEF InitializeAnswers, PassMeansClean, report
  <2> QED
    BY <2>1 DEF PassMeansClean
<1>5. CASE Gate
  <2>1. pass' => ~ Failed \/ pass
    BY <1>5 DEF Gate
  <2>2. initialize \in {"finished", "headers"} /\ (clean \/ Failed)
    BY <1>5 DEF Gate, PhaseInv, Failed
  <2>3. initialize' = initialize /\ clean' = clean
    BY <1>5 DEF Gate
  <2> QED
    BY <2>1, <2>2, <2>3 DEF PassMeansClean
<1>6. CASE MainStep /\ ~ Gate
  <2>1. pass' = pass /\ clean' = clean
    BY <1>6, RunFacts
  <2>2. initialize' = initialize
    BY <1>6
    DEF MainStep, Prepare, Receive, Timeout, Wake, Log, Sort, Collect, ReadScore,
        ReadSucesses, ReadFails, Exit
  <2> QED
    BY <1>1, <2>1, <2>2
<1> QED
  BY <1>1, <1>2, <1>3, <1>4, <1>5, <1>6
  DEF Next, Load, Unload, Exited, vars, report, Crew

(***************************************************************************)
(* The inductive invariant, and what follows from it.                      *)
(***************************************************************************)
\* Before Run does anything no token is out and nothing is counted or logged.
LEMMA InitInv == Init => IInv
<1> SUFFICES ASSUME Init PROVE IInv
  OBVIOUS
<1>1. TypeOK
  BY InitTyped
<1>2. \A w \in Crew : crew[w] = Resting
  BY DEF Init
<1>3. Resting.kind = None /\ Resting.plan = <<>> /\ Resting.err = None
  BY DEF Resting
<1>4. CrewInv
  BY <1>2, <1>3 DEF CrewInv
<1>5. TokensConserved
  <2>1. \A k \in Kinds : Running(k) = {}
    BY <1>2, <1>3, KindsAssumption DEF Running, Crew
  <2>2. \A k \in Kinds : tokens[k] = 0 /\ ~ pass
    BY DEF Init
  <2> QED
    BY <2>1, <2>2, FS_EmptySet DEF TokensConserved, Loaded
<1>6. LogInv
  <2>1. Pending = {}
    BY <1>2, <1>3 DEF Pending
  <2>2. Cardinality(Pending) = 0
    BY <2>1, FS_EmptySet
  <2> QED
    BY <2>2 DEF Init, LogInv
<1>7. PhaseInv
  BY <1>2, <1>3 DEF Init, PhaseInv, Crew
<1>8. ReportCoherent /\ PassMeansClean
  BY DEF Init, ReportCoherent, PassMeansClean
<1> QED
  BY <1>1, <1>4, <1>5, <1>6, <1>7, <1>8 DEF IInv

\* Every step preserves the inductive invariant.
LEMMA NextInv == IInv /\ [Next]_vars => IInv'
<1> SUFFICES ASSUME IInv, [Next]_vars PROVE IInv'
  OBVIOUS
<1>1. TypeOK'
  BY NextTyped DEF IInv
<1>2. CrewInv' /\ PhaseInv' /\ LogInv'
  BY <1>1, CrewInvStep, PhaseInvStep, LogInvStep
<1>3. TokensConserved'
  BY <1>1, TokensStep
<1>4. ReportCoherent' /\ PassMeansClean'
  BY <1>1, ReportStep, PassStep
<1> QED
  BY <1>1, <1>2, <1>3, <1>4 DEF IInv

\* Every reachable state of a run satisfies the inductive invariant.
THEOREM Invariance == Spec => []IInv
<1>1. Init => IInv
  BY InitInv
<1>2. IInv /\ [Next]_vars => IInv'
  BY NextInv
<1> QED
  BY <1>1, <1>2, PTL DEF Spec

\* Every value has its type, and the report names entries of the failure log.
THEOREM TypeCorrect == Spec => []TypeOK
<1>1. IInv => TypeOK
  BY DEF IInv
<1> QED
  BY <1>1, Invariance, PTL

\* However scenarios of the load phase begin and end, none of their tokens is
\* lost or given back twice.
THEOREM TokensAreConserved == Spec => []TokensConserved
<1>1. IInv => TokensConserved
  BY DEF IInv
<1> QED
  BY <1>1, Invariance, PTL

\* What the report says of score, successes, failures and messages fits
\* together, although they are read while scenarios go on.
THEOREM ReportsCohere == Spec => []ReportCoherent
<1>1. IInv => ReportCoherent
  BY DEF IInv
<1> QED
  BY <1>1, Invariance, PTL

\* A run that passes has seen /initialize answered and no request of the
\* pre-check fail.
THEOREM PassingIsClean == Spec => []PassMeansClean
<1>1. IInv => PassMeansClean
  BY DEF IInv
<1> QED
  BY <1>1, Invariance, PTL

(***************************************************************************)
(* The messages of the report.                                             *)
(***************************************************************************)
\* Until it sorts the log, Run has no messages; after the sort, and until it
\* has dropped the duplicates, those logged before it are in order.
MessagesInv ==
    /\ phase \in {"prepare", "await", "precheck", "select", "sleep", "log"} =>
          sort.length = 0
    /\ phase = "collect" /\ ~ sort.torn =>
          \A i, j \in 1 .. sort.length : i < j => errs[i] <= errs[j]
    /\ MessagesExact

\* A set of indexes has a least one.
LEMMA LeastIndex ==
  ASSUME NEW T, T \subseteq Nat, NEW i \in T
  PROVE  \E k \in T : \A m \in T : k <= m
<1> DEFINE R == OpToRel(<, Nat)
<1>1. IsWellFoundedOn(R, Nat)
  BY NatLessThanWellFounded
<1>2. \A x, y \in Nat : x < y => <<x, y>> \in R
  BY DEF OpToRel
<1> HIDE DEF R
<1>3. PICK k \in T : \A m \in T : ~ (<<m, k>> \in R)
  BY <1>1, WFMin
<1>4. ASSUME NEW m \in T PROVE k <= m
  <2>1. k \in Nat /\ m \in Nat
    OBVIOUS
  <2>2. ~ (m < k)
    BY <1>2, <1>3, <2>1, Zenon
  <2> QED
    BY <2>1, <2>2
<1> QED
  BY <1>4

\* Of a sorted log the heads are every message, once.
LEMMA HeadsExact ==
  ASSUME errs \in Seq(Errs), NEW n \in Nat, n <= Len(errs),
         \A i, j \in 1 .. n : i < j => errs[i] <= errs[j]
  PROVE  /\ \A i \in 1 .. n : \E j \in Heads : errs[j] = errs[i]
         /\ \A i, j \in Heads : i < j /\ j <= n => errs[i] # errs[j]
<1>1. DOMAIN errs = 1 .. Len(errs) /\ Len(errs) \in Nat /\ \A i \in 1 .. n : errs[i] \in Nat
  <2>1. DOMAIN errs = 1 .. Len(errs) /\ Len(errs) \in Nat
    OBVIOUS
  <2>2. ASSUME NEW i \in 1 .. n PROVE errs[i] \in Nat
    <3>1. i \in 1 .. Len(errs)
      BY <2>1
    <3>2. errs[i] \in Errs
      BY <3>1
    <3> QED
      BY <3>2, ErrsAssumption
  <2> QED
    BY <2>1, <2>2
<1>2. ASSUME NEW i \in 1 .. n PROVE \E j \in Heads : errs[j] = errs[i]
  <2> DEFINE T == {m \in 1 .. n : errs[m] = errs[i]}
  <2>1. PICK k \in T : \A m \in T : k <= m
    <3>1. T \subseteq Nat /\ i \in T
      OBVIOUS
    <3> QED
      BY <3>1, LeastIndex
  <2>2. k # 1 => errs[k] # errs[k - 1]
    <3> SUFFICES ASSUME k # 1, errs[k - 1] = errs[k] PROVE FALSE
      OBVIOUS
    <3>1. k - 1 \in T
      OBVIOUS
    <3> QED
      BY <2>1, <3>1
  <2>3. k \in DOMAIN errs
    BY <1>1
  <2> QED
    BY <2>2, <2>3 DEF Heads
<1>3. ASSUME NEW i \in Heads, NEW j \in Heads, i < j, j <= n, errs[i] = errs[j]
      PROVE  FALSE
  <2>1. i \in 1 .. n /\ j \in 1 .. n /\ j # 1 /\ j - 1 \in 1 .. n /\ i <= j - 1
    BY <1>1, <1>3 DEF Heads
  <2>2. errs[i] <= errs[j - 1] /\ errs[j - 1] <= errs[j]
    <3>1. CASE i = j - 1
      BY <1>1, <2>1, <3>1
    <3>2. CASE i < j - 1
      BY <1>1, <2>1, <3>2
    <3> QED
      BY <2>1, <3>1, <3>2
  <2>3. errs[j] # errs[j - 1]
    BY <2>1 DEF Heads
  <2> QED
    BY <1>1, <1>3, <2>1, <2>2, <2>3
<1> QED
  BY <1>2, <1>3

\* The goroutines only add to the log, and say so when it is being sorted.
LEMMA LogGrows ==
  ASSUME TypeOK, NEW w \in Crew,
         Play(w) \/ More(w) \/ GiveBack(w) \/ \E k \in Kinds : Start(w, k)
  PROVE  /\ UNCHANGED <<phase, msgs>>
         /\ sort'.length = sort.length
         /\ phase # "sorting" => sort' = sort
         /\ \A i \in DOMAIN errs : i \in DOMAIN errs' /\ errs'[i] = errs[i]
<1>1. CASE LogFailure(w)
  <2>1. crew[w].err \in Errs
    BY <1>1, WorkerFacts DEF LogFailure, Worker
  <2>2. errs' = Append(errs, crew[w].err) /\ errs \in Seq(Errs)
    BY <1>1 DEF LogFailure, TypeOK
  <2>3. \A i \in DOMAIN errs : i \in DOMAIN errs' /\ errs'[i] = errs[i]
    BY <2>1, <2>2
  <2>4. PICK t \in BOOLEAN : t = (sort.torn \/ phase = "sorting")
    OBVIOUS
  <2>5. sort' = [sort EXCEPT !.torn = t] /\ sort \in [length : Nat, torn : BOOLEAN]
    BY <1>1, <2>4 DEF LogFailure, TypeOK
  <2>6. phase # "sorting" => t = sort.torn
    BY <2>4, <2>5
  <2>7. UNCHANGED <<phase, msgs>>
    BY <1>1 DEF LogFailure, UnchangedRun, report
  <2> QED
    BY <2>3, <2>5, <2>6, <2>7
<1>2. CASE ~ LogFailure(w)
  BY <1>2 DEF Play, More, GiveBack, Start, Succeed, SucceedAgain, Fail, Enough, EndScenario,
              UnchangedRun, report, counts
<1> QED
  BY <1>1, <1>2

\* Every step keeps what is known of the messages.
LEMMA MessagesStep ==
  ASSUME TypeOK, TypeOK', MessagesInv, [Next]_vars
  PROVE  MessagesInv'
<1>1. /\ errs \in Seq(Errs) /\ Len(errs) \in Nat /\ DOMAIN errs = 1 .. Len(errs)
      /\ sort.length \in Nat /\ sort.length <= Len(errs)
      /\ msgs \subseteq DOMAIN errs
  BY DEF TypeOK
<1>2. CASE /\ UNCHANGED <<phase, msgs>>
           /\ sort'.length = sort.length
           /\ phase # "sorting" => sort' = sort
           /\ \A i \in DOMAIN errs : i \in DOMAIN errs' /\ errs'[i] = errs[i]
  <2>1. \A i \in 1 .. sort.length : i \in DOMAIN errs
    BY <1>1
  <2>2. \A i \in 1 .. sort.length : errs'[i] = errs[i]
    BY <1>2, <2>1
  <2>3. \A i \in msgs : errs'[i] = errs[i]
    BY <1>1, <1>2
  <2> QED
    BY <1>2, <2>2, <2>3 DEF MessagesInv, MessagesExact
<1>3. ASSUME NEW w \in Crew,
             Play(w) \/ More(w) \/ GiveBack(w) \/ \E k \in Kinds : Start(w, k)
      PROVE  MessagesInv'
  BY <1>2, <1>3, LogGrows
<1>4. CASE Log
  <2>1. sort.length = 0
    BY <1>4 DEF Log, MessagesInv
  <2> QED
    BY <1>4, <2>1 DEF Log, MessagesInv, MessagesExact
<1>5. CASE Sort
  <2>1. PICK s \in [1 .. sort.length -> {errs[i] : i \in 1 .. sort.length}] :
           /\ sort.torn \/ (Sorted(s) /\ Rearranged(s, SubSeq(errs, 1, sort.length)))
           /\ errs' = [i \in DOMAIN errs |-> IF i <= sort.length THEN s[i] ELSE errs[i]]
    BY <1>5 DEF Sort
  <2>2. phase' = "collect" /\ sort' = sort
    BY <1>5 DEF Sort
  <2>3. \A i \in 1 .. sort.length : errs'[i] = s[i]
    BY <1>1, <2>1
  <2>4. ~ sort.torn => \A i, j \in 1 .. sort.length : i < j => s[i] <= s[j]
    BY <2>1 DEF Sorted
  <2> QED
    BY <2>2, <2>3, <2>4 DEF MessagesInv, MessagesExact
<1>6. CASE Collect
  <2>1. phase = "collect" /\ phase' = "score" /\ msgs' = Heads /\ UNCHANGED <<errs, sort>>
    BY <1>6 DEF Collect
  <2>2. ~ sort.torn =>
          /\ \A i \in 1 .. sort.length : \E j \in Heads : errs[j] = errs[i]
          /\ \A i, j \in Heads : i < j /\ j <= sort.length => errs[i] # errs[j]
    BY <1>1, <2>1, HeadsExact DEF MessagesInv
  <2> QED
    BY <2>1, <2>2 DEF MessagesInv, MessagesExact
<1>7. CASE Prepare \/ Receive \/ Gate \/ Timeout \/ Wake
  <2>1. sort.length = 0 /\ sort' = sort
    BY <1>7 DEF Prepare, Receive, Gate, Timeout, Wake, MessagesInv
  <2>2. phase' # "collect"
    BY <1>7 DEF Prepare, Receive, Gate, Timeout, Wake
  <2> QED
    BY <2>1, <2>2 DEF MessagesInv, MessagesExact
<1>8. CASE ReadScore \/ ReadSucesses \/ ReadFails \/ Exit
  <2>1. UNCHANGED <<errs, sort, msgs>>
    BY <1>8 DEF ReadScore, ReadSucesses, ReadFails, Exit, report
  <2>2. /\ phase \in {"score", "sucesses", "fails", "print"}
        /\ phase' \in {"sucesses", "fails", "print", "exited"}
    BY <1>8 DEF ReadScore, ReadSucesses, ReadFails, Exit
  <2> QED
    BY <2>1, <2>2 DEF MessagesInv, MessagesExact
<1>9. CASE InitializeAnswers \/ UNCHANGED vars
  <2>1. UNCHANGED <<phase, errs, sort, msgs>>
    BY <1>9 DEF InitializeAnswers, vars, report
  <2> QED
    BY <1>2, <2>1
<1> QED
  BY <1>3, <1>4, <1>5, <1>6, <1>7, <1>8, <1>9
  DEF Next, Load, Unload, MainStep, Exited, Crew

\* Unless a failure is logged while the log is sorted, the report names each
\* message logged before it, once: for any messages and any number of them.
THEOREM MessagesAreExact == Spec => []MessagesExact
<1>1. Init => MessagesInv
  BY DEF Init, MessagesInv, MessagesExact
<1>2. TypeOK /\ TypeOK' /\ MessagesInv /\ [Next]_vars => MessagesInv'
  BY MessagesStep
<1>3. MessagesInv => MessagesExact
  BY DEF MessagesInv
<1> QED
  BY <1>1, <1>2, <1>3, TypeCorrect, PTL DEF Spec

\* A sort that no failure is logged during only moves the messages: what was
\* logged before it is what the report is made of after it.
SortKeepsMessages ==
    Sort /\ ~ sort.torn =>
        {errs'[i] : i \in 1 .. sort.length} = {errs[i] : i \in 1 .. sort.length}

\* The log is sorted, but never rewritten, unless somebody logs meanwhile.
THEOREM SortLosesNothing == Spec => [][SortKeepsMessages]_vars
<1>1. ASSUME TypeOK, Sort, ~ sort.torn
      PROVE  {errs'[i] : i \in 1 .. sort.length} = {errs[i] : i \in 1 .. sort.length}
  <2> DEFINE n == sort.length
             t == SubSeq(errs, 1, n)
  <2>1. /\ errs \in Seq(Errs) /\ Len(errs) \in Nat /\ DOMAIN errs = 1 .. Len(errs)
        /\ n \in Nat /\ n <= Len(errs)
    BY <1>1 DEF TypeOK
  <2>2. PICK s \in [1 .. n -> {errs[i] : i \in 1 .. n}] :
           /\ Rearranged(s, t)
           /\ errs' = [i \in DOMAIN errs |-> IF i <= n THEN s[i] ELSE errs[i]]
    BY <1>1 DEF Sort
  <2>3. \A i \in 1 .. n : errs'[i] = s[i]
    BY <2>1, <2>2
  <2>4. DOMAIN t = 1 .. n /\ \A i \in 1 .. n : t[i] = errs[i] /\ errs[i] \in Errs
    BY <2>1
  <2>5. DOMAIN s = 1 .. n /\ \A i \in 1 .. n : s[i] \in {errs[k] : k \in 1 .. n}
    BY <2>2
  <2> HIDE DEF t, n
  <2>6. ASSUME NEW i \in 1 .. n PROVE \E k \in 1 .. n : s[k] = errs[i]
    <3> PICK e \in Errs : e = errs[i]
      BY <2>4
    <3> DEFINE A == {k \in DOMAIN s : s[k] = e}
               B == {k \in DOMAIN t : t[k] = e}
    <3>1. Cardinality(A) = Cardinality(B)
      BY <2>2 DEF Rearranged
    <3>2. B # {} /\ A \subseteq 1 .. n /\ B \subseteq 1 .. n
      BY <2>4, <2>5
    <3> HIDE DEF A, B
    <3>3. IsFiniteSet(A) /\ IsFiniteSet(B)
      <4>1. IsFiniteSet(1 .. n)
        BY <2>1, FS_Interval
      <4> QED
        BY <3>2, <4>1, FS_Subset
    <3>4. A # {}
      BY <3>1, <3>2, <3>3, FS_EmptySet
    <3> QED
      BY <2>5, <3>4 DEF A
  <2>7. \A i \in 1 .. n : \E k \in 1 .. n : errs[i] = errs'[k]
    BY <2>3, <2>6
  <2>8. \A i \in 1 .. n : \E k \in 1 .. n : errs'[i] = errs[k]
    BY <2>3, <2>5
  <2>9. {errs'[i] : i \in 1 .. n} = {errs[i] : i \in 1 .. n}
    <3>1. {errs'[i] : i \in 1 .. n} \subseteq {errs[i] : i \in 1 .. n}
      BY <2>8
    <3>2. {errs[i] : i \in 1 .. n} \subseteq {errs'[i] : i \in 1 .. n}
      BY <2>7
    <3> QED
      BY <3>1, <3>2
  <2> QED
    BY <2>9 DEF n
<1>2. TypeOK /\ [Next]_vars => [SortKeepsMessages]_vars
  BY <1>1 DEF SortKeepsMessages
<1> QED
  BY <1>2, TypeCorrect, PTL DEF Spec
=============================================================================
