------------------------------ MODULE Flaky_proofs ------------------------------
(* What the analysis of a flaky test concludes, for any number of revisions,  *)
(* runs, attempts and artifacts; and one issue for a test and one comment for *)
(* a pull request, for any number of analyses, tests, issues and comments.    *)
(*                                                                            *)
(* The history rests on the order of time: the attempts of a run follow each  *)
(* other, a run begins no earlier than those before it, and an artifact is    *)
(* made while its attempt runs (RunsInv).  So windows that overlap at most at *)
(* their ends attribute it to the right attempt, or to the last one listed    *)
(* where a later one made it (OneWindow), and a pass that is counted after a  *)
(* failure did follow it, unless the failure is of an older run that was run  *)
(* again (InTurnIfEarlier).                                                   *)
(*                                                                            *)
(* An issue is among those updated last, or known to the search, or the       *)
(* analyses that looked for it on neither list are noted (missed).  Apart from *)
(* these, an analysis that has found none in the listing leaves only issues   *)
(* that the search will find (Unseen), and one that is about to create an     *)
(* issue, or a comment, knows that there is none (Unseen, Unposted), unless   *)
(* another has created it since: the race that the properties leave out.      *)
EXTENDS FlakyHistory, FlakyIssues, FiniteSetTheorems, WellFoundedInduction, TLAPS

-------------------------------------------------------------------------------
(* FlakyHistory: the runs.                                                    *)

CiRun == [sha : 0 .. LastSha, attempt : 0 .. LastAttempt, open : BOOLEAN,
          from : [Attempts -> Moment], to : [Attempts -> Moment]]

\* Attempt a of a run is over.
Over(x, a) == a < x.attempt \/ (a = x.attempt /\ ~x.open)

\* What may become of a run while the time is t.
Moves(x, y, t) ==
  /\ y \in CiRun
  /\ y.attempt > 0 => y.sha \in Sha
  /\ y.open => y.attempt > 0
  /\ x.attempt \leq y.attempt /\ (x.attempt > 0 => y.sha = x.sha)
  /\ \A a \in Attempts :
       /\ a \leq x.attempt => y.from[a] = x.from[a]
       /\ Over(x, a) => Over(y, a) /\ y.to[a] = x.to[a]
       /\ x.attempt < a /\ a \leq y.attempt => y.from[a] = t
       /\ Over(y, a) /\ ~Over(x, a) => y.to[a] = t

\* Attempts take place one after the other, and none in the future.
Ordered(x, t) ==
  /\ x.attempt > 0 => x.sha \in Sha
  /\ x.open => x.attempt > 0
  /\ \A a \in Attempts :
       /\ a \leq x.attempt => x.from[a] \leq t
       /\ Over(x, a) => x.from[a] \leq x.to[a] /\ x.to[a] \leq t
  /\ \A a, b \in Attempts : a < b /\ b \leq x.attempt => x.to[a] \leq x.from[b]

\* An artifact is made by an attempt of its run, while that runs.
Made(q, x, t) ==
  /\ q.attempt \leq x.attempt
  /\ x.from[q.attempt] \leq q.at /\ q.at \leq t
  /\ Over(x, q.attempt) => q.at \leq x.to[q.attempt]

\* Runs are numbered as they began.
Numbered ==
  \A p, r \in Run : p < r /\ Begun(r) => Begun(p) /\ ci[p].from[1] \leq ci[r].from[1]

RunsInv ==
  /\ HistoryTypeOK /\ Numbered
  /\ \A r \in Run : Ordered(ci[r], second)
  /\ \A q \in reports : Made(q, ci[q.run], second)

LEMMA CiRunTyped ==
  ASSUME NEW x \in CiRun
  PROVE  /\ x.attempt \in Nat
         /\ \A a \in Attempts : a \in Nat /\ x.from[a] \in Nat /\ x.to[a] \in Nat
         /\ \A t \in Moment : t \in Nat
BY HistoryAssumption DEF CiRun, Attempts, Moment

LEMMA MovesKeepOrder ==
  ASSUME NEW x \in CiRun, NEW y, NEW t \in Moment, Ordered(x, t), Moves(x, y, t)
  PROVE  Ordered(y, t)
<1>0. y \in CiRun
  BY DEF Moves
<1>1. /\ y.attempt \in Nat /\ x.attempt \in Nat /\ t \in Nat
      /\ \A a \in Attempts : /\ a \in Nat /\ x.from[a] \in Nat /\ x.to[a] \in Nat
                             /\ y.from[a] \in Nat /\ y.to[a] \in Nat
  BY <1>0, CiRunTyped
<1>2. x.attempt \leq y.attempt
  BY DEF Moves
<1>3. ASSUME NEW a \in Attempts, a \leq y.attempt PROVE y.from[a] \leq t
  BY <1>1, <1>3 DEF Ordered, Moves
<1>4. ASSUME NEW a \in Attempts, Over(y, a) PROVE y.from[a] \leq y.to[a] /\ y.to[a] \leq t
  <2>1. a \leq y.attempt
    BY <1>1, <1>4 DEF Over
  <2>2. CASE Over(x, a)
    <3>1. a \leq x.attempt
      BY <1>1, <2>2 DEF Over
    <3> QED
      BY <2>2, <3>1 DEF Ordered, Moves
  <2>3. CASE ~Over(x, a)
    BY <1>1, <1>3, <1>4, <2>1, <2>3 DEF Moves
  <2> QED
    BY <2>2, <2>3
<1>5. ASSUME NEW a \in Attempts, NEW b \in Attempts, a < b, b \leq y.attempt
      PROVE  y.to[a] \leq y.from[b]
  <2>1. CASE b \leq x.attempt
    <3>1. Over(x, a)
      BY <1>1, <1>5, <2>1 DEF Over
    <3>2. y.to[a] = x.to[a] /\ y.from[b] = x.from[b]
      BY <2>1, <3>1 DEF Moves
    <3> QED
      BY <1>5, <2>1, <3>2 DEF Ordered
  <2>2. CASE x.attempt < b
    <3>1. Over(y, a)
      BY <1>1, <1>5 DEF Over
    <3>2. y.from[b] = t
      BY <1>5, <2>2 DEF Moves
    <3> QED
      BY <1>4, <3>1, <3>2
  <2> QED
    BY <1>1, <2>1, <2>2
<1>6. (y.attempt > 0 => y.sha \in Sha) /\ (y.open => y.attempt > 0)
  BY DEF Moves
<1> QED
  BY <1>3, <1>4, <1>5, <1>6 DEF Ordered

LEMMA MovesKeepReports ==
  ASSUME NEW x \in CiRun, NEW y, NEW t \in Moment, Ordered(x, t), Moves(x, y, t),
         NEW q \in Report, Made(q, x, t)
  PROVE  Made(q, y, t)
<1>0. y \in CiRun
  BY DEF Moves
<1>1. q.attempt \in Attempts /\ q.at \in Nat /\ t \in Nat /\ q.attempt \leq x.attempt
  BY CiRunTyped DEF Report, Made
<1>2. /\ x.attempt \in Nat /\ y.attempt \in Nat /\ q.attempt \in Nat
      /\ y.to[q.attempt] \in Nat
  BY <1>0, <1>1, CiRunTyped
<1>3. q.attempt \leq y.attempt /\ y.from[q.attempt] = x.from[q.attempt]
  BY <1>1, <1>2 DEF Moves
<1>4. Over(y, q.attempt) => q.at \leq y.to[q.attempt]
  BY <1>1, <1>2 DEF Made, Moves
<1> QED
  BY <1>1, <1>3, <1>4 DEF Made

LEMMA OrderedLater ==
  ASSUME NEW x \in CiRun, NEW t \in Moment, NEW u \in Moment, t \leq u
  PROVE  /\ Ordered(x, t) => Ordered(x, u)
         /\ \A q \in Report : Made(q, x, t) => Made(q, x, u)
<1>1. /\ t \in Nat /\ u \in Nat
      /\ \A a \in Attempts : x.from[a] \in Nat /\ x.to[a] \in Nat
  BY CiRunTyped
<1>2. \A q \in Report : q.at \in Nat
  BY CiRunTyped DEF Report
<1> QED
  BY <1>1, <1>2 DEF Ordered, Made

\* How the runs may change in a step.
LEMMA CiSteps ==
  ASSUME RunsInv, NEW r \in Run,
         (\E v \in Sha : StartCi(r, v)) \/ FinishCi(r) \/ RerunCi(r)
  PROVE  /\ \A p \in Run : Moves(ci[p], ci'[p], second)
         /\ ci' \in [Run -> CiRun]
         /\ UNCHANGED <<second, naming, reports>>
<1>0. ci \in [Run -> CiRun] /\ second \in Moment /\ Ordered(ci[r], second)
  BY DEF RunsInv, HistoryTypeOK, CiRun
<1> DEFINE x == ci[r]
<1>1. x \in CiRun
  BY <1>0
<1>2. ASSUME NEW p \in Run PROVE Moves(ci[p], ci[p], second)
  <2>1. ci[p] \in CiRun /\ Ordered(ci[p], second)
    BY <1>0 DEF RunsInv
  <2>2. ci[p].attempt \in Nat /\ \A a \in Attempts : a \in Nat
    BY <2>1, CiRunTyped
  <2> QED
    BY <2>1, <2>2 DEF Moves, Ordered
<1>3. ASSUME NEW y, Moves(x, y, second), ci' = [ci EXCEPT ![r] = y],
             UNCHANGED <<second, naming, reports>>
      PROVE  /\ \A p \in Run : Moves(ci[p], ci'[p], second)
             /\ ci' \in [Run -> CiRun]
             /\ UNCHANGED <<second, naming, reports>>
  <2>1. y \in CiRun
    BY <1>3 DEF Moves
  <2>2. \A p \in Run : ci'[p] = IF p = r THEN y ELSE ci[p]
    BY <1>0, <1>3
  <2> HIDE DEF x
  <2>3. \A p \in Run : Moves(ci[p], ci'[p], second)
    BY <1>2, <1>3, <2>2 DEF x
  <2> QED
    BY <1>0, <1>3, <2>1, <2>3
<1>4. ASSUME NEW v \in Sha, StartCi(r, v)
      PROVE  \E y : Moves(x, y, second) /\ ci' = [ci EXCEPT ![r] = y]
  <2> DEFINE f == [x.from EXCEPT ![1] = second]
             y == [x EXCEPT !.sha = v, !.attempt = 1, !.open = TRUE, !.from = f]
  <2>1. ci' = [ci EXCEPT ![r] = [x EXCEPT !.sha = v, !.attempt = 1, !.open = TRUE,
                                          !.from[1] = second]]
        /\ ~(x.attempt > 0)
    BY <1>4 DEF StartCi, Begun
  <2> HIDE DEF x
  <2>2. x.attempt = 0
    BY <1>1, <2>1, CiRunTyped
  <2>3. ci' = [ci EXCEPT ![r] = y]
    BY <1>1, <2>1 DEF CiRun
  <2>4. x.from \in [Attempts -> Moment] /\ 1 \in Attempts
    BY <1>1, HistoryAssumption DEF CiRun, Attempts
  <2>5. f \in [Attempts -> Moment] /\ f[1] = second
    BY <1>0, <2>4
  <2>6. v \in Sha /\ v \in 0 .. LastSha /\ 1 \in 0 .. LastAttempt
    BY HistoryAssumption DEF Sha
  <2>7. \A a \in Attempts : a \in Nat /\ a > 0
    BY DEF Attempts
  <2> HIDE DEF f
  <2>8. y.sha = v /\ y.attempt = 1 /\ y.open = TRUE /\ y.from = f /\ y.to = x.to
    BY <1>1 DEF CiRun
  <2>9. y \in CiRun
    BY <1>1, <2>5, <2>6 DEF CiRun
  <2> HIDE DEF y
  <2>10. \A a \in Attempts : ~Over(x, a) /\ ~Over(y, a)
    BY <2>2, <2>7, <2>8 DEF Over
  <2>11. \A a \in Attempts : a > x.attempt /\ (a \leq y.attempt => y.from[a] = second)
    BY <2>2, <2>5, <2>7, <2>8
  <2>12. y.sha = v /\ y.attempt > 0 /\ x.attempt \leq y.attempt /\ ~(x.attempt > 0)
    BY <2>2, <2>8
  <2>13. Moves(x, y, second)
    BY <2>2, <2>6, <2>7, <2>9, <2>10, <2>11, <2>12 DEF Moves
  <2> QED
    BY <2>3, <2>13
<1>5. ASSUME FinishCi(r)
      PROVE  \E y : Moves(x, y, second) /\ ci' = [ci EXCEPT ![r] = y]
  <2> DEFINE g == [x.to EXCEPT ![x.attempt] = second]
             y == [x EXCEPT !.open = FALSE, !.to = g]
  <2>1. ci' = [ci EXCEPT ![r] = [x EXCEPT !.open = FALSE, !.to[x.attempt] = second]]
        /\ x.open
    BY <1>0, <1>5 DEF FinishCi
  <2>2. Ordered(x, second)
    BY <1>0
  <2> HIDE DEF x
  <2>3. ci' = [ci EXCEPT ![r] = y]
    BY <1>1, <2>1 DEF CiRun
  <2>4. g \in [Attempts -> Moment]
        /\ \A a \in Attempts : g[a] = IF a = x.attempt THEN second ELSE x.to[a]
    BY <1>0, <1>1 DEF CiRun
  <2> HIDE DEF g
  <2>5. /\ y.sha = x.sha /\ y.attempt = x.attempt /\ y.open = FALSE
        /\ y.from = x.from /\ y.to = g
    BY <1>1 DEF CiRun
  <2>6. y \in CiRun
    BY <1>1, <2>4 DEF CiRun
  <2> HIDE DEF y
  <2>7. x.attempt \in Nat /\ \A a \in Attempts : a \in Nat
    BY <1>1, CiRunTyped
  <2>8. ASSUME NEW a \in Attempts
        PROVE  /\ y.from[a] = x.from[a]
               /\ Over(x, a) => Over(y, a) /\ y.to[a] = x.to[a]
               /\ ~(x.attempt < a /\ a \leq y.attempt)
               /\ Over(y, a) /\ ~Over(x, a) => y.to[a] = second
    BY <2>1, <2>4, <2>5, <2>7 DEF Over
  <2>9. x.attempt \leq y.attempt /\ y.sha = x.sha /\ (y.attempt > 0 => y.sha \in Sha)
        /\ ~y.open
    BY <2>2, <2>5, <2>7 DEF Ordered
  <2>10. Moves(x, y, second)
    BY <2>6, <2>8, <2>9 DEF Moves
  <2> QED
    BY <2>3, <2>10
<1>6. ASSUME RerunCi(r)
      PROVE  \E y : Moves(x, y, second) /\ ci' = [ci EXCEPT ![r] = y]
  <2> DEFINE n == x.attempt + 1
             f == [x.from EXCEPT ![n] = second]
             y == [x EXCEPT !.attempt = n, !.open = TRUE, !.from = f]
  <2>1. ci' = [ci EXCEPT ![r] = [x EXCEPT !.attempt = x.attempt + 1, !.open = TRUE,
                                          !.from[x.attempt + 1] = second]]
        /\ ~x.open /\ x.attempt > 0 /\ x.attempt < LastAttempt
    BY <1>0, <1>6 DEF RerunCi, Begun
  <2>2. Ordered(x, second)
    BY <1>0
  <2> HIDE DEF x
  <2>3. x.attempt \in Nat /\ \A a \in Attempts : a \in Nat
    BY <1>1, CiRunTyped
  <2>4. n \in Attempts /\ n \in 0 .. LastAttempt /\ n > 0 /\ x.attempt < n
        /\ \A a \in Attempts : x.attempt < a /\ a \leq n => a = n
    BY <2>1, <2>3, HistoryAssumption DEF Attempts
  <2>5. ci' = [ci EXCEPT ![r] = y]
    BY <1>1, <2>1 DEF CiRun
  <2>6. f \in [Attempts -> Moment]
        /\ \A a \in Attempts : f[a] = IF a = n THEN second ELSE x.from[a]
    BY <1>0, <1>1 DEF CiRun
  <2>7. n \in Nat
    BY <2>3
  <2>8. \A a \in Attempts : a < n => a = x.attempt \/ a < x.attempt
    BY <2>3
  <2> HIDE DEF f, n
  <2>9. /\ y.sha = x.sha /\ y.attempt = n /\ y.open = TRUE
        /\ y.from = f /\ y.to = x.to
    BY <1>1 DEF CiRun
  <2>10. y \in CiRun
    BY <1>1, <2>4, <2>6 DEF CiRun
  <2> HIDE DEF y
  <2>11. ASSUME NEW a \in Attempts
         PROVE  /\ a \leq x.attempt => y.from[a] = x.from[a]
                /\ Over(x, a) => Over(y, a) /\ y.to[a] = x.to[a]
                /\ x.attempt < a /\ a \leq y.attempt => y.from[a] = second
                /\ Over(y, a) => Over(x, a)
    BY <2>1, <2>3, <2>4, <2>6, <2>7, <2>8, <2>9 DEF Over
  <2>12. y.attempt > 0 /\ x.attempt \leq y.attempt /\ y.sha = x.sha /\ x.sha \in Sha
    BY <2>1, <2>2, <2>3, <2>4, <2>7, <2>9 DEF Ordered
  <2>13. Moves(x, y, second)
    BY <2>10, <2>11, <2>12 DEF Moves
  <2> QED
    BY <2>5, <2>13
<1>7. UNCHANGED <<second, naming, reports>>
  BY DEF StartCi, FinishCi, RerunCi
<1> QED
  BY <1>3, <1>4, <1>5, <1>6, <1>7

LEMMA NumberedStays ==
  ASSUME RunsInv, NEW r \in Run,
         (\E v \in Sha : StartCi(r, v)) \/ FinishCi(r) \/ RerunCi(r)
  PROVE  Numbered'
<1>0. /\ second \in Nat /\ 1 \in Attempts
      /\ \A p \in Run : ci[p] \in CiRun /\ ci'[p] \in CiRun /\ Moves(ci[p], ci'[p], second)
                      /\ Ordered(ci[p], second) /\ p \in Nat
  <2>1. second \in Moment /\ ci \in [Run -> CiRun] /\ ci' \in [Run -> CiRun] /\ 1 \in Attempts
    BY CiSteps, HistoryAssumption DEF RunsInv, HistoryTypeOK, CiRun, Attempts
  <2> QED
    BY <2>1, CiSteps DEF RunsInv, Moment, Run
<1>1. \A p \in Run : /\ ci[p].attempt \in Nat /\ ci'[p].attempt \in Nat
                    /\ ci[p].from[1] \in Nat /\ ci'[p].from[1] \in Nat
  BY <1>0, CiRunTyped
<1>2. \A p \in Run : ci[p].attempt > 0 =>
        /\ ci'[p].attempt > 0 /\ ci'[p].from[1] = ci[p].from[1] /\ ci[p].from[1] \leq second
  BY <1>0, <1>1 DEF Moves, Ordered
<1>3. ASSUME NEW p \in Run, ci'[p].attempt > 0, ~(ci[p].attempt > 0)
      PROVE  /\ ci'[p].from[1] = second
             /\ \A q \in Run : q < p => ci[q].attempt > 0
  <2>1. ci'[p].from[1] = second
    BY <1>0, <1>1, <1>3 DEF Moves
  <2>2. p = r
    BY <1>3 DEF StartCi, FinishCi, RerunCi, RunsInv, HistoryTypeOK
  <2>3. ~FinishCi(r) /\ ~RerunCi(r)
    BY <1>0, <1>3, <2>2 DEF FinishCi, RerunCi, Begun, Ordered
  <2>4. \A q \in Run : q < r => ci[q].attempt > 0
    BY <2>3 DEF StartCi, Begun
  <2> QED
    BY <2>1, <2>2, <2>4
<1>4. ASSUME NEW p \in Run, NEW q \in Run, p < q, ci'[q].attempt > 0
      PROVE  ci'[p].attempt > 0 /\ ci'[p].from[1] \leq ci'[q].from[1]
  <2>1. CASE ci[q].attempt > 0
    <3>1. ci[p].attempt > 0 /\ ci[p].from[1] \leq ci[q].from[1]
      BY <1>4, <2>1 DEF RunsInv, Numbered, Begun
    <3> QED
      BY <1>2, <2>1, <3>1
  <2>2. CASE ~(ci[q].attempt > 0)
    <3>1. ci'[q].from[1] = second /\ ci[p].attempt > 0
      BY <1>3, <1>4, <2>2
    <3> QED
      BY <1>2, <3>1
  <2> QED
    BY <2>1, <2>2
<1> QED
  BY <1>4 DEF Numbered, Begun

LEMMA RunsStay == RunsInv /\ [HistoryNext]_historyVars => RunsInv'
<1> SUFFICES ASSUME RunsInv, [HistoryNext]_historyVars PROVE RunsInv'
  OBVIOUS
<1>0. /\ ci \in [Run -> CiRun] /\ second \in Moment /\ naming \subseteq Sha
      /\ reports \subseteq Report
      /\ \A r \in Run : ci[r] \in CiRun /\ Ordered(ci[r], second)
      /\ \A q \in reports : q \in Report /\ q.run \in Run /\ Made(q, ci[q.run], second)
  BY DEF RunsInv, HistoryTypeOK, CiRun, Report
<1>n. Numbered /\ (UNCHANGED ci => Numbered')
  BY DEF RunsInv, Numbered, Begun
<1>1. CASE NextSecond
  <2>1. second' \in Moment /\ second \leq second'
    BY <1>0, <1>1, HistoryAssumption DEF NextSecond, Moment
  <2>2. UNCHANGED <<ci, naming, reports>>
    BY <1>1 DEF NextSecond
  <2>3. \A r \in Run : Ordered(ci[r], second')
    BY <1>0, <2>1, OrderedLater
  <2>4. \A q \in reports : Made(q, ci[q.run], second')
    BY <1>0, <2>1, OrderedLater
  <2> QED
    BY <1>0, <1>n, <2>1, <2>2, <2>3, <2>4 DEF RunsInv, HistoryTypeOK, CiRun
<1>2. ASSUME NEW r \in Run, (\E v \in Sha : StartCi(r, v)) \/ FinishCi(r) \/ RerunCi(r)
      PROVE  RunsInv'
  <2>1. /\ \A p \in Run : Moves(ci[p], ci'[p], second)
        /\ ci' \in [Run -> CiRun]
        /\ UNCHANGED <<second, naming, reports>>
    BY <1>2, CiSteps
  <2>2. \A p \in Run : Ordered(ci'[p], second)
    BY <1>0, <2>1, MovesKeepOrder
  <2>3. \A q \in reports : Made(q, ci'[q.run], second)
    BY <1>0, <2>1, MovesKeepReports
  <2>4. Numbered'
    BY <1>2, NumberedStays
  <2> QED
    BY <1>0, <2>1, <2>2, <2>3, <2>4 DEF RunsInv, HistoryTypeOK, CiRun
<1>3. ASSUME NEW r \in Run, NEW s \in {"pass", "fail"}, Upload(r, s)
      PROVE  RunsInv'
  <2> DEFINE x == ci[r]
             q == [run |-> r, attempt |-> x.attempt, at |-> second, status |-> s]
  <2>1. reports' = reports \cup {q} /\ UNCHANGED <<second, ci, naming>> /\ x.open
    BY <1>3 DEF Upload
  <2>2. x \in CiRun /\ Ordered(x, second)
    BY <1>0
  <2>3. second \in Nat /\ x.attempt \in Nat /\ x.attempt > 0
    BY <1>0, <2>1, <2>2, CiRunTyped DEF Ordered
  <2>4. x.attempt \in Attempts
    BY <2>2, <2>3 DEF CiRun, Attempts
  <2>5. q \in Report
    BY <1>0, <2>4 DEF Report
  <2> HIDE DEF x
  <2>6. q.attempt = x.attempt /\ q.at = second /\ q.run = r
    OBVIOUS
  <2> HIDE DEF q
  <2>7. Made(q, x, second)
    BY <2>1, <2>2, <2>3, <2>4, <2>6 DEF Made, Ordered, Over
  <2>8. \A p \in reports \cup {q} : Made(p, ci[p.run], second)
    BY <1>0, <2>6, <2>7 DEF x
  <2>9. reports \cup {q} \subseteq Report
    BY <1>0, <2>5
  <2> QED
    BY <1>0, <1>n, <2>1, <2>8, <2>9 DEF RunsInv, HistoryTypeOK, CiRun
<1>4. CASE UNCHANGED <<second, ci, naming, reports>>
  BY <1>4, <1>n DEF RunsInv, HistoryTypeOK
<1>5. \A r \in Run : ListRuns(r) => UNCHANGED <<second, ci, naming, reports>>
  BY DEF ListRuns
<1>6. \A k, u, e : Analyse(k, u, e) \/ Enforce(k, e) => UNCHANGED <<second, ci, naming, reports>>
  BY DEF Analyse, Enforce
<1> QED
  BY <1>1, <1>2, <1>3, <1>4, <1>5, <1>6 DEF HistoryNext, historyVars

-------------------------------------------------------------------------------
(* FlakyHistory: the analysis.                                                *)

Fields == {"step", "subject", "listed", "obs", "quiet", "entries", "states", "at", "masked"}

\* Runs are listed with their last attempts, as long as none is run again; only
\* that of the run analysed may not be over.
Listing ==
  /\ analysis.subject \in Run
  /\ \A r \in Run :
       LET k == analysis.listed[r]
       IN  /\ k \in Nat
           /\ k > 0 => /\ k \in Attempts /\ k \leq ci[r].attempt
                       /\ Over(ci[r], k) \/ r = analysis.subject
                       /\ analysis.quiet => ci[r].attempt = k

\* The attempt that an artifact of attempt a of run x is attributed to, among the
\* first k: another one only if it was made later than all of these.
AttributedTo(x, a, k) == IF x.sha \in naming \/ a \leq k THEN a ELSE k

\* An observation is what an artifact says of its run, and of an attempt of it.
Sound(o) ==
  LET q == o.report
      x == ci[q.run]
      k == analysis.listed[q.run]
  IN  /\ q \in reports /\ k > 0
      /\ o.run = q.run /\ o.status = q.status /\ o.sha = x.sha
      /\ o.attempt = AttributedTo(x, q.attempt, k)
      /\ o.dated = x.from[IF x.sha \notin naming /\ k > 1 THEN o.attempt ELSE k]

Findings ==
  /\ \A o \in analysis.obs : Sound(o)
  /\ "ACTIVE" \in analysis.states =>
       \E e \in Manifest :
         /\ analysis.entries = {e} /\ e.from \leq analysis.at /\ analysis.at < e.to
         /\ Candidate(analysis.obs)
  /\ "RELEASED_HEALTHY" \in analysis.states =>
       \E e \in Manifest :
         analysis.entries = {e} /\ Cardinality(Streak(After(analysis.obs, e))) >= CleanShas
  /\ analysis.masked # {} => analysis.masked = {"tracked"} /\ "ACTIVE" \in analysis.states

AnalysisInv ==
  /\ DOMAIN analysis = Fields
  /\ analysis.step \in {"none", "listed", "analysed"}
  /\ analysis.step # "none" => Listing
  /\ IF analysis.step = "analysed" THEN Findings
     ELSE analysis.obs = {} /\ analysis.states = {} /\ analysis.masked = {}

HistoryInv == RunsInv /\ AnalysisInv

LEMMA FieldsOf == DOMAIN NoAnalysis = Fields
BY DEF NoAnalysis, Fields

LEMMA ListingStays ==
  ASSUME RunsInv, AnalysisInv, analysis.step = "listed", NEW r \in Run,
         FinishCi(r) \/ RerunCi(r)
  PROVE  Listing'
<1>0. ci \in [Run -> CiRun] /\ \A p \in Run : Moves(ci[p], ci'[p], second)
  BY CiSteps DEF RunsInv, HistoryTypeOK, CiRun
<1>1. Listing
  BY DEF AnalysisInv
<1>2. \A p \in Run, k \in Attempts : /\ Over(ci[p], k) => Over(ci'[p], k)
                                     /\ k \leq ci[p].attempt => k \leq ci'[p].attempt
  <2>1. \A p \in Run : ci[p] \in CiRun /\ ci'[p] \in CiRun
    BY <1>0, CiSteps
  <2>2. \A p \in Run : ci[p].attempt \in Nat /\ ci'[p].attempt \in Nat
    BY <2>1, CiRunTyped
  <2>3. \A k \in Attempts : k \in Nat
    BY DEF Attempts
  <2> QED
    BY <1>0, <2>2, <2>3 DEF Moves
<1>3. CASE FinishCi(r)
  <2>1. ci'[r].attempt = ci[r].attempt
    <3> DEFINE x == ci[r]
    <3>1. x \in CiRun
      BY <1>0
    <3>2. ci'[r] = [x EXCEPT !.open = FALSE, !.to[x.attempt] = second]
      BY <1>0, <1>3 DEF FinishCi
    <3> HIDE DEF x
    <3>3. ci'[r].attempt = x.attempt
      BY <3>1, <3>2 DEF CiRun
    <3> QED
      BY <3>3 DEF x
  <2>2. \A p \in Run : ci'[p].attempt = ci[p].attempt
    BY <1>0, <1>3, <2>1 DEF FinishCi
  <2> QED
    BY <1>1, <1>2, <1>3, <2>2 DEF FinishCi, Listing
<1>4. CASE RerunCi(r)
  <2>1. analysis'.subject = analysis.subject /\ analysis'.listed = analysis.listed
        /\ ~analysis'.quiet
    BY <1>4 DEF RerunCi, AnalysisInv, Fields
  <2> QED
    BY <1>1, <1>2, <2>1 DEF Listing
<1> QED
  BY <1>3, <1>4

\* Of the windows of the first k attempts, only that of its own attempt contains
\* the time of an artifact; if it was made by a later attempt, only the last does.
LEMMA OneWindow ==
  ASSUME NEW x \in CiRun, NEW t \in Moment, Ordered(x, t),
         NEW q \in Report, Made(q, x, t), x = ci[q.run],
         NEW k \in Attempts, k \leq x.attempt,
         NEW until \in Nat, (x.open /\ k = x.attempt) => x.from[k] \leq until,
         Unambiguous(Containing(q, k, until))
  PROVE  LastOf(Containing(q, k, until)) = IF q.attempt \leq k THEN q.attempt ELSE k
<1>1. /\ q.attempt \in Attempts /\ q.at \in Nat /\ x.attempt \in Nat
      /\ \A a \in Attempts : a \in Nat /\ x.from[a] \in Nat /\ x.to[a] \in Nat
  BY CiRunTyped DEF Report
<1>2. /\ q.attempt \in Nat /\ k \in Nat
      /\ k \leq x.attempt /\ q.attempt \leq x.attempt
  BY <1>1 DEF Made
<1>3. k \leq LastAttempt /\ LastAttempt \in Nat
  BY HistoryAssumption DEF Attempts
<1> DEFINE w == Containing(q, k, until)
<1>4. \A a \in 1 .. k : a \in Attempts /\ a \in Nat /\ a \leq k
  BY <1>2, <1>3 DEF Attempts
<1>5. \A a \in Attempts : a \leq k => a \in 1 .. k
  BY <1>2 DEF Attempts
<1>6. \A a \in Attempts : a \in w <=> a \leq k /\ x.from[a] \leq q.at /\ q.at \leq End(x, a, until)
  BY <1>4, <1>5 DEF Containing
<1>7. w \subseteq 1 .. k /\ IsFiniteSet(w)
  <2>1. w \subseteq 1 .. k /\ IsFiniteSet(1 .. k)
    BY <1>2, FS_Interval DEF Containing
  <2> QED
    BY <2>1, FS_Subset
<1>8. PICK z : w = {z}
  BY <1>7, FS_Singleton DEF Unambiguous
<1>9. LastOf(w) = z /\ z \in Attempts /\ z \in Nat
  <2>1. z \in w
    BY <1>8
  <2>2. z \in Attempts /\ z \in Nat /\ z \leq z
    BY <1>4, <1>7, <2>1
  <2>3. LastOf(w) = z
    BY <1>8, <2>2 DEF LastOf
  <2> QED
    BY <2>2, <2>3
<1> HIDE DEF w
<1>10. \A a \in Attempts :
         /\ End(x, a, until) \in Nat
         /\ Over(x, a) => End(x, a, until) = x.to[a]
         /\ a < x.attempt => Over(x, a)
  BY <1>1, <1>2 DEF Over, End
<1>13. CASE q.attempt \leq k
  <2>1. CASE Over(x, q.attempt)
    <3>1. q.attempt \in w
      BY <1>1, <1>6, <1>10, <1>13, <2>1 DEF Made
    <3> QED
      BY <1>8, <1>9, <1>13, <3>1 DEF w
  <2>2. CASE ~Over(x, q.attempt)
    <3>1. q.attempt = k /\ k = x.attempt /\ x.open
      BY <1>1, <1>2, <1>13, <2>2 DEF Over
    <3>2. x.from[k] \leq q.at /\ x.from[k] \leq until /\ End(x, k, until) = until
      BY <3>1 DEF Made, End
    <3>3. z \leq k /\ x.from[z] \leq q.at /\ q.at \leq End(x, z, until)
      BY <1>6, <1>8, <1>9
    <3>4. ASSUME z < k PROVE FALSE
      <4>1. q.at \leq x.to[z] /\ x.to[z] \leq x.from[k]
        BY <1>1, <1>2, <1>9, <1>10, <3>1, <3>3, <3>4 DEF Ordered
      <4>2. q.at \leq until
        BY <1>1, <1>9, <3>2, <4>1
      <4>3. k \in w
        BY <1>2, <1>6, <3>2, <4>2
      <4> QED
        BY <1>2, <1>8, <1>9, <3>4, <4>3
    <3> QED
      BY <1>2, <1>9, <1>13, <3>1, <3>3, <3>4 DEF w
  <2> QED
    BY <2>1, <2>2
<1>12. CASE ~(q.attempt \leq k)
  <2>0. \A a \in Attempts : a \leq k => Over(x, a)
    BY <1>1, <1>2, <1>10, <1>12
  <2>1. z \leq k /\ x.from[z] \leq q.at /\ q.at \leq x.to[z]
    BY <1>6, <1>8, <1>9, <1>10, <2>0
  <2>2. ASSUME z < k PROVE FALSE
    <3> DEFINE n == z + 1
    <3>1. n \in 1 .. k /\ n \in Nat /\ z < n /\ n # z
      BY <1>2, <1>9, <2>2
    <3> HIDE DEF n
    <3>2. n \in Attempts /\ n \leq k
      BY <1>4, <3>1
    <3>3. n \leq x.attempt /\ n < q.attempt
      BY <1>1, <1>2, <1>12, <3>1, <3>2
    <3>4. x.to[z] \leq x.from[n]
      BY <1>9, <3>1, <3>2, <3>3 DEF Ordered
    <3>5. x.from[n] \leq x.to[n]
      BY <2>0, <3>2 DEF Ordered
    <3>6. x.to[n] \leq x.from[q.attempt]
      BY <1>1, <1>2, <3>2, <3>3 DEF Ordered
    <3>7. x.from[q.attempt] \leq q.at
      BY DEF Made
    <3>8. x.to[z] \in Nat /\ x.from[n] \in Nat /\ x.to[n] \in Nat /\ x.from[q.attempt] \in Nat
      BY <1>1, <1>9, <3>2
    <3>9. x.from[n] \leq q.at /\ q.at \leq x.to[n]
      BY <1>1, <2>1, <3>4, <3>5, <3>6, <3>7, <3>8
    <3>10. n \in w
      BY <1>6, <1>10, <2>0, <3>2, <3>9
    <3> QED
      BY <1>8, <3>1, <3>10
  <2>3. z = k
    BY <1>2, <1>9, <2>1, <2>2
  <2> QED
    BY <1>9, <1>12, <2>3 DEF w
<1> QED
  BY <1>12, <1>13

\* What an artifact of a listed run is attributed to.
LEMMA AttributionOf ==
  ASSUME RunsInv, Listing, NEW known \in BOOLEAN, NEW until \in Nat, NEW q \in reports,
         LET x == ci[analysis.subject] IN x.open => x.from[x.attempt] \leq until,
         analysis.listed[q.run] > 0, Attributed(q, analysis.listed[q.run], known, until) > 0
  PROVE  Attributed(q, analysis.listed[q.run], known, until)
           = AttributedTo(ci[q.run], q.attempt, analysis.listed[q.run])
<1> DEFINE x == ci[q.run]
           k == analysis.listed[q.run]
<1>1. /\ x \in CiRun /\ Ordered(x, second) /\ second \in Moment
      /\ q \in Report /\ Made(q, x, second) /\ k \in Attempts /\ k \leq x.attempt
      /\ (x.open /\ k = x.attempt) => x.from[k] \leq until
  <2>1. q \in Report /\ q.run \in Run
    BY DEF RunsInv, HistoryTypeOK, Report
  <2> QED
    BY <2>1, CiRunTyped DEF RunsInv, HistoryTypeOK, CiRun, Listing, Over
<1>2. q.attempt \in Nat /\ q.attempt > 0
  BY <1>1 DEF Report, Attempts
<1>3. CASE x.sha \in naming
  BY <1>3 DEF Attributed, AttributedTo
<1>4. CASE x.sha \notin naming /\ k = 1
  BY <1>2, <1>4 DEF Attributed, AttributedTo
<1>5. CASE x.sha \notin naming /\ k # 1
  <2>1. Unambiguous(Containing(q, k, until))
        /\ Attributed(q, k, known, until) = LastOf(Containing(q, k, until))
    BY <1>5 DEF Attributed
  <2>2. LastOf(Containing(q, k, until)) = IF q.attempt \leq k THEN q.attempt ELSE k
    BY <1>1, <2>1, OneWindow
  <2> QED
    BY <1>5, <2>1, <2>2 DEF AttributedTo
<1> QED
  BY <1>3, <1>4, <1>5

LEMMA AnalysisStays == HistoryInv /\ [HistoryNext]_historyVars => AnalysisInv'
<1> SUFFICES ASSUME HistoryInv, [HistoryNext]_historyVars PROVE AnalysisInv'
  OBVIOUS
<1>0. RunsInv /\ AnalysisInv /\ DOMAIN analysis = Fields
  BY DEF HistoryInv, AnalysisInv
<1>1. ASSUME UNCHANGED <<ci, analysis>>, analysis.step # "analysed"
      PROVE  AnalysisInv'
  BY <1>0, <1>1 DEF AnalysisInv, Listing
<1>2. CASE NextSecond
  BY <1>1, <1>2 DEF NextSecond, Watched
<1>3. ASSUME NEW r \in Run, NEW v \in Sha, StartCi(r, v)
      PROVE  AnalysisInv'
  BY <1>0, <1>3 DEF StartCi, AnalysisInv
<1>4. ASSUME NEW r \in Run, NEW s \in {"pass", "fail"}, Upload(r, s)
      PROVE  AnalysisInv'
  BY <1>1, <1>4 DEF Upload, Watched
<1>5. ASSUME NEW r \in Run, FinishCi(r)
      PROVE  AnalysisInv'
  <2>1. analysis' = analysis /\ analysis.step \in {"none", "listed"}
    BY <1>5 DEF FinishCi, Watched
  <2>2. analysis.step = "listed" => Listing'
    BY <1>0, <1>5, ListingStays
  <2> QED
    BY <1>0, <2>1, <2>2 DEF AnalysisInv
<1>6. ASSUME NEW r \in Run, RerunCi(r)
      PROVE  AnalysisInv'
  <2>1. /\ DOMAIN analysis' = Fields /\ analysis'.step = analysis.step
        /\ analysis'.obs = analysis.obs /\ analysis'.states = analysis.states
        /\ analysis'.masked = analysis.masked
        /\ analysis.step \in {"none", "listed"}
    BY <1>0, <1>6 DEF RerunCi, Fields, Watched
  <2>2. analysis.step = "listed" => Listing'
    BY <1>0, <1>6, ListingStays
  <2> QED
    BY <1>0, <2>1, <2>2 DEF AnalysisInv
<1>7. ASSUME NEW r \in Run, ListRuns(r)
      PROVE  AnalysisInv'
  <2>1. /\ DOMAIN analysis' = Fields /\ analysis'.step = "listed"
        /\ analysis'.obs = {} /\ analysis'.states = {} /\ analysis'.masked = {}
        /\ analysis'.subject = r /\ ci' = ci
        /\ \A q \in Run :
             analysis'.listed[q] = 0
             \/ ((q \in Completed \/ q = r) /\ analysis'.listed[q] = ci[q].attempt)
    BY <1>7, FieldsOf DEF ListRuns, NoAnalysis, Fields, Scanned, Newest
  <2>2. ASSUME NEW q \in Run, q \in Completed \/ q = r
        PROVE  /\ ci[q].attempt \in Nat /\ ci[q].attempt \in Attempts
               /\ Over(ci[q], ci[q].attempt) \/ q = r
    <3>1. ci[q] \in CiRun /\ ci[q].attempt > 0 /\ (q # r => ~ci[q].open)
      BY <1>0, <1>7, <2>2 DEF Completed, Begun, ListRuns, RunsInv, HistoryTypeOK, CiRun
    <3>2. ci[q].attempt \in Nat /\ ci[q].attempt \in 0 .. LastAttempt
      BY <3>1, CiRunTyped DEF CiRun
    <3> QED
      BY <3>1, <3>2 DEF Over, Attempts
  <2>3. ASSUME NEW q \in Run
        PROVE  LET k == analysis'.listed[q]
               IN  /\ k \in Nat
                   /\ k > 0 => /\ k \in Attempts /\ k \leq ci[q].attempt /\ ci[q].attempt = k
                               /\ Over(ci[q], k) \/ q = r
    BY <2>1, <2>2
  <2>4. Listing'
    BY <2>1, <2>3 DEF Listing
  <2> QED
    BY <2>1, <2>4 DEF AnalysisInv
<1>8. ASSUME NEW known \in BOOLEAN, NEW until \in Moment,
             NEW entries \in {{}} \cup {{e} : e \in Manifest},
             Analyse(known, until, entries)
      PROVE  AnalysisInv'
  <2>1. /\ analysis.step = "listed" /\ UNCHANGED <<second, ci, naming, reports>>
        /\ DOMAIN analysis' = Fields /\ analysis'.step = "analysed"
        /\ analysis'.subject = analysis.subject /\ analysis'.listed = analysis.listed
        /\ analysis'.quiet = analysis.quiet /\ analysis'.masked = analysis.masked
        /\ analysis'.at = second /\ analysis'.entries = entries
    BY <1>0, <1>8 DEF Analyse, Fields
  <2>2. Listing /\ Listing' /\ analysis'.masked = {}
    BY <1>0, <2>1 DEF AnalysisInv, Listing
  <2>3. ASSUME NEW o \in analysis'.obs PROVE Sound(o)'
    <3>1. PICK q \in reports :
            /\ analysis.listed[q.run] > 0
            /\ Attributed(q, analysis.listed[q.run], known, until) > 0
            /\ o = Observed(q, analysis.listed[q.run], known, until)
      <4> DEFINE k == analysis.listed
                 read == {q \in reports : k[q.run] > 0 /\ Attributed(q, k[q.run], known, until) > 0}
      <4>1. analysis'.obs = {Observed(q, k[q.run], known, until) : q \in read}
        BY <1>0, <1>8 DEF Analyse, Fields
      <4> QED
        BY <2>3, <4>1
    <3>2. o.report = q /\ o.run = q.run /\ o.status = q.status /\ o.sha = ci[q.run].sha
          /\ o.attempt = Attributed(q, analysis.listed[q.run], known, until)
          /\ o.dated = Dated(q, analysis.listed[q.run], known, until)
      BY <3>1 DEF Observed
    <3>3. o.attempt = AttributedTo(ci[q.run], q.attempt, analysis.listed[q.run])
      <4>1. until \in Nat
        BY DEF Moment
      <4>2. LET x == ci[analysis.subject] IN x.open => x.from[x.attempt] \leq until
        BY <1>8 DEF Analyse
      <4> QED
        BY <1>0, <2>2, <3>1, <3>2, <4>1, <4>2, AttributionOf
    <3>4. Sound(o)
      BY <3>1, <3>2, <3>3 DEF Sound, Dated
    <3> QED
      BY <2>1, <3>4 DEF Sound, AttributedTo
  <2>4. analysis'.states = {LifecycleState(analysis'.obs, e) : e \in analysis'.entries}
    BY <1>0, <1>8 DEF Analyse, Fields
  <2>5. /\ analysis'.entries \subseteq Manifest
        /\ \A e \in analysis'.entries : analysis'.entries = {e}
    BY <2>1
  <2>6. ASSUME "ACTIVE" \in analysis'.states
        PROVE  \E e \in Manifest :
                 /\ analysis'.entries = {e} /\ e.from \leq second /\ second < e.to
                 /\ Candidate(analysis'.obs)
    <3>1. PICK e \in analysis'.entries : LifecycleState(analysis'.obs, e) = "ACTIVE"
      BY <2>4, <2>6
    <3>2. ~(second < e.from) /\ ~(second >= e.to) /\ Candidate(analysis'.obs)
      BY <3>1 DEF LifecycleState, Lapsed, Recommended
    <3>3. e \in Manifest /\ e.from \in Nat /\ e.to \in Nat /\ second \in Nat
      BY <1>0, <2>5, HistoryAssumption DEF Entry, Moment, RunsInv, HistoryTypeOK
    <3> QED
      BY <2>5, <3>2, <3>3
  <2>7. ASSUME "RELEASED_HEALTHY" \in analysis'.states
        PROVE  \E e \in Manifest :
                 /\ analysis'.entries = {e}
                 /\ Cardinality(Streak(After(analysis'.obs, e))) >= CleanShas
    <3>1. PICK e \in analysis'.entries : LifecycleState(analysis'.obs, e) = "RELEASED_HEALTHY"
      BY <2>4, <2>7
    <3>2. Cardinality(Streak(After(analysis'.obs, e))) >= CleanShas
      BY <3>1 DEF LifecycleState
    <3> QED
      BY <2>5, <3>2
  <2>8. Findings'
    BY <2>1, <2>2, <2>3, <2>6, <2>7 DEF Findings
  <2> QED
    BY <2>1, <2>2, <2>8 DEF AnalysisInv
<1>9. CASE analysis.step = "analysed" /\ UNCHANGED <<second, ci, naming, reports>>
           /\ (UNCHANGED analysis \/ \E f \in SUBSET Ids, b \in BOOLEAN : Enforce(f, b))
  <2>1. /\ DOMAIN analysis' = Fields
        /\ analysis'.step = "analysed" /\ analysis'.subject = analysis.subject
        /\ analysis'.listed = analysis.listed /\ analysis'.quiet = analysis.quiet
        /\ analysis'.obs = analysis.obs /\ analysis'.entries = analysis.entries
        /\ analysis'.states = analysis.states /\ analysis'.at = analysis.at
    BY <1>0, <1>9 DEF Enforce, Fields
  <2>2. analysis'.masked # {} =>
          analysis'.masked = {"tracked"} /\ "ACTIVE" \in analysis.states
    <3>1. CASE UNCHANGED analysis
      BY <1>0, <1>9, <3>1 DEF AnalysisInv, Findings
    <3>2. ASSUME NEW f \in SUBSET Ids, NEW b \in BOOLEAN, Enforce(f, b)
          PROVE  analysis'.masked # {} =>
                   analysis'.masked = {"tracked"} /\ "ACTIVE" \in analysis.states
      <4>1. analysis'.masked = f /\ f # {} /\ f \subseteq ActiveTests
        BY <1>0, <3>2 DEF Enforce, Excused, Fields
      <4> QED
        BY <4>1 DEF ActiveTests
    <3> QED
      BY <1>9, <3>1, <3>2
  <2>3. Listing /\ Listing' /\ Findings
    BY <1>0, <1>9, <2>1 DEF AnalysisInv, Listing
  <2>4. \A o \in analysis'.obs : Sound(o)'
    BY <1>9, <2>1, <2>3 DEF Findings, Sound, AttributedTo
  <2>5. Findings'
    BY <2>1, <2>2, <2>3, <2>4 DEF Findings
  <2> QED
    BY <2>1, <2>3, <2>5 DEF AnalysisInv
<1>10. CASE UNCHANGED historyVars
  <2>1. CASE analysis.step = "analysed"
    BY <1>9, <1>10, <2>1 DEF historyVars
  <2> QED
    BY <1>1, <1>10, <2>1 DEF historyVars
<1>11. ASSUME NEW f \in SUBSET Ids, NEW b \in BOOLEAN, Enforce(f, b)
       PROVE  AnalysisInv'
  BY <1>9, <1>11 DEF Enforce
<1> QED
  BY <1>2, <1>3, <1>4, <1>5, <1>6, <1>7, <1>8, <1>10, <1>11 DEF HistoryNext

LEMMA HistoryInvariance == HistorySpec => []HistoryInv
<1>1. HistoryInit => HistoryInv
  <2> SUFFICES ASSUME HistoryInit PROVE HistoryInv
    OBVIOUS
  <2>1. Unstarted \in CiRun
    BY HistoryAssumption DEF Unstarted, CiRun, Attempts, Moment
  <2>2. ci \in [Run -> CiRun] /\ \A r \in Run : ci[r] = Unstarted
    BY <2>1 DEF HistoryInit
  <2>3. Ordered(Unstarted, second)
    BY DEF Unstarted, Ordered, Over, Attempts
  <2>4. second \in Moment /\ naming \subseteq Sha /\ reports = {}
    BY HistoryAssumption DEF HistoryInit, Moment
  <2>n. Numbered
    BY <2>2 DEF Numbered, Begun, Unstarted
  <2>5. RunsInv
    BY <2>2, <2>3, <2>4, <2>n DEF RunsInv, HistoryTypeOK, CiRun
  <2>6. AnalysisInv
    BY FieldsOf DEF HistoryInit, AnalysisInv, NoAnalysis
  <2> QED
    BY <2>5, <2>6 DEF HistoryInv
<1>2. HistoryInv /\ [HistoryNext]_historyVars => HistoryInv'
  BY RunsStay, AnalysisStays DEF HistoryInv
<1> QED
  BY <1>1, <1>2, PTL DEF HistorySpec

\* What the analysis has of an artifact, and of the run that made it.
LEMMA ObservationOf ==
  ASSUME HistoryInv, NEW o \in analysis.obs
  PROVE  /\ Findings /\ Sound(o)
         /\ o.report \in reports /\ o.report \in Report
         /\ o.run \in Run /\ o.sha \in Sha /\ o.status \in {"pass", "fail"}
         /\ ci[o.run] \in CiRun /\ Ordered(ci[o.run], second)
         /\ Made(o.report, ci[o.run], second)
         /\ analysis.listed[o.run] \in Attempts
         /\ analysis.listed[o.run] \leq ci[o.run].attempt
<1> DEFINE q == o.report
<1>1. analysis.step = "analysed" /\ Findings /\ Listing
  BY DEF HistoryInv, AnalysisInv
<1>2. /\ Sound(o) /\ q \in reports /\ o.run = q.run /\ o.status = q.status
      /\ o.sha = ci[q.run].sha /\ analysis.listed[q.run] > 0
  BY <1>1 DEF Findings, Sound
<1>3. q \in Report /\ q.run \in Run /\ q.status \in {"pass", "fail"} /\ q.attempt \in Attempts
  BY <1>2 DEF HistoryInv, RunsInv, HistoryTypeOK, Report
<1>4. ci[q.run] \in CiRun /\ Ordered(ci[q.run], second) /\ Made(q, ci[q.run], second)
  BY <1>2, <1>3 DEF HistoryInv, RunsInv, HistoryTypeOK, CiRun
<1>5. analysis.listed[q.run] \in Attempts /\ analysis.listed[q.run] \leq ci[q.run].attempt
  BY <1>1, <1>2, <1>3 DEF Listing
<1>6. ci[q.run].attempt > 0
  <2>1. q.attempt \in Nat /\ q.attempt > 0 /\ ci[q.run].attempt \in Nat
    BY <1>3, <1>4, CiRunTyped DEF Attempts
  <2> QED
    BY <1>4, <2>1 DEF Made
<1>7. ci[q.run].sha \in Sha
  BY <1>4, <1>6 DEF Ordered
<1> HIDE DEF q
<1> QED
  BY <1>1, <1>2, <1>3, <1>4, <1>5, <1>7 DEF q

\* The order of two observations is the order of the executions, even if one of
\* them was attributed to an attempt that did not make it, unless the first is of
\* an older run that was run again.
LEMMA InTurnIfEarlier ==
  ASSUME HistoryInv, NEW f \in analysis.obs, NEW p \in analysis.obs, Earlier(f, p)
  PROVE  \/ InTurn(f.report, p.report)
         \/ f.report.run < p.report.run /\ f.report.attempt > 1
<1>1. /\ f.run = f.report.run /\ p.run = p.report.run
      /\ f.attempt = AttributedTo(ci[f.run], f.report.attempt, analysis.listed[f.run])
      /\ p.attempt = AttributedTo(ci[p.run], p.report.attempt, analysis.listed[p.run])
      /\ f.run \in Run /\ p.run \in Run /\ f.run \in Nat /\ p.run \in Nat
  BY ObservationOf DEF Sound, Run
<1> DEFINE a == f.report.attempt
           b == p.report.attempt
           k == analysis.listed[f.run]
           x == ci[f.run]
           y == ci[p.run]
<1>2. a \in Attempts /\ b \in Attempts /\ k \in Attempts
  <2>1. f.report \in Report /\ p.report \in Report /\ analysis.listed[f.run] \in Attempts
    BY ObservationOf
  <2> QED
    BY <2>1 DEF Report
<1>3. a \in Nat /\ a > 0 /\ b \in Nat /\ b > 0 /\ k \in Nat
  BY <1>2 DEF Attempts
<1>4. CASE f.run < p.run
  <2>1. /\ x \in CiRun /\ y \in CiRun /\ Ordered(y, second)
        /\ Made(p.report, y, second) /\ Numbered
    BY ObservationOf DEF HistoryInv, RunsInv
  <2>2. /\ y.attempt \in Nat /\ b \leq y.attempt
        /\ \A c \in Attempts : c \in Nat /\ x.from[c] \in Nat /\ y.from[c] \in Nat /\ y.to[c] \in Nat
    BY <2>1, CiRunTyped DEF Made
  <2>3. 1 \in Attempts
    BY HistoryAssumption DEF Attempts
  <2>4. x.from[1] \leq y.from[1]
    BY <1>1, <1>3, <1>4, <2>1, <2>2 DEF Numbered, Begun
  <2>5. y.from[1] \leq y.from[b]
    <3>1. CASE b = 1
      BY <2>2, <2>3, <3>1
    <3>2. CASE b > 1
      <4>1. Over(y, 1) /\ y.to[1] \leq y.from[b]
        BY <1>2, <1>3, <2>1, <2>2, <2>3, <3>2 DEF Ordered, Over
      <4>2. y.from[1] \leq y.to[1]
        BY <2>1, <2>2, <2>3, <4>1, <1>3, <3>2 DEF Ordered
      <4> QED
        BY <1>2, <2>2, <2>3, <4>1, <4>2
    <3> QED
      BY <1>3, <3>1, <3>2
  <2>6. ASSUME a = 1 PROVE InTurn(f.report, p.report)
    <3>1. x.from[a] \leq y.from[b]
      BY <1>2, <2>2, <2>3, <2>4, <2>5, <2>6
    <3>2. Began(f.report) \leq Began(p.report) /\ f.report.run # p.report.run
      BY <1>1, <1>4, <3>1 DEF Began
    <3> QED
      BY <3>2 DEF InTurn
  <2> HIDE DEF a
  <2>7. a = 1 \/ a > 1
    BY <1>3
  <2> QED
    BY <1>1, <1>4, <2>6, <2>7 DEF a
<1>5. CASE f.run = p.run /\ f.attempt < p.attempt
  <2>1. AttributedTo(x, a, k) < AttributedTo(x, b, k)
    BY <1>1, <1>5
  <2> HIDE DEF a, b, k, x
  <2>2. a < b
    BY <1>3, <2>1, SMTT(40) DEF AttributedTo
  <2> QED
    BY <1>1, <1>5, <2>2 DEF InTurn, a, b
<1> QED
  BY <1>4, <1>5 DEF Earlier

LEMMA RealOf ==
  ASSUME HistoryInv, NEW v, RecoveredAt(analysis.obs, v)
  PROVE  ReallyRecovered(v) \/ FailedAgain(v)
<1>1. PICK f \in analysis.obs, p \in analysis.obs :
        /\ f.status = "fail" /\ f.sha = v /\ p.status = "pass" /\ p.sha = v
        /\ Earlier(f, p)
  BY DEF RecoveredAt, Failures, Passes, At
<1>2. InTurn(f.report, p.report) \/ (f.report.run < p.report.run /\ f.report.attempt > 1)
  BY <1>1, InTurnIfEarlier
<1>3. f.report \in reports /\ p.report \in reports /\ Sound(f) /\ Sound(p)
  BY ObservationOf
<1>4. Recovery(f.report, p.report, v)
  BY <1>1, <1>3 DEF Recovery, Sound
<1> QED
  BY <1>2, <1>3, <1>4 DEF ReallyRecovered, FailedAgain

\* Two executions made every recovery that an analysis counts, a failing one and
\* a passing one that began no earlier (collect_flaky_history): an artifact is
\* attributed to its own attempt, or to the last one listed where it is of a later
\* one.  Only the failure of a run that was run again may have come after the
\* pass of a newer run (_same_sha_evidence orders by run and attempt).
THEOREM RecoveriesHappened == HistorySpec => []RecoveriesAreReal
<1>1. HistoryInv => RecoveriesAreReal
  BY RealOf DEF RecoveriesAreReal, Recoveries
<1> QED
  BY <1>1, HistoryInvariance, PTL

\* The runs, the artifacts and the time keep their types.
THEOREM HistoryTyping == HistorySpec => []HistoryTypeOK
<1>1. HistoryInv => HistoryTypeOK
  BY DEF HistoryInv, RunsInv
<1> QED
  BY <1>1, HistoryInvariance, PTL

\* A quarantine is active by two recoveries that happened, or were read from an
\* older run's late failure, while its approval lasts and no revision is known to
\* fail only (evaluate_lifecycle), and what makes a later command green is a
\* failure of that test alone (run_enforced).
THEOREM ActiveIsWarranted == HistorySpec => []ActiveIsEarned
<1>1. ASSUME HistoryInv PROVE ActiveIsEarned
  <2>1. /\ analysis.masked # {} =>
             analysis.masked = {"tracked"} /\ "ACTIVE" \in analysis.states
        /\ "ACTIVE" \in analysis.states =>
             \E e \in Manifest :
               /\ analysis.entries = {e} /\ e.from \leq analysis.at /\ analysis.at < e.to
               /\ Candidate(analysis.obs)
    BY <1>1 DEF HistoryInv, AnalysisInv, Findings
  <2>2. ASSUME "ACTIVE" \in analysis.states, Candidate(analysis.obs)
        PROVE  \E u, v \in Sha : u # v /\ \A z \in {u, v} : ReallyRecovered(z) \/ FailedAgain(z)
    <3> DEFINE w == Recoveries(analysis.obs)
    <3>1. \A v \in w : v \in Sha /\ (ReallyRecovered(v) \/ FailedAgain(v))
      BY <1>1, RealOf DEF Recoveries
    <3>2. IsFiniteSet(w)
      <4>1. w \subseteq 1 .. LastSha /\ IsFiniteSet(1 .. LastSha)
        BY HistoryAssumption, FS_Interval DEF Recoveries, Sha
      <4> QED
        BY <4>1, FS_Subset
    <3>3. Cardinality(w) >= 2
      BY <2>2 DEF Candidate
    <3> HIDE DEF w
    <3>4. w # {} /\ Cardinality(w) # 1
      BY <3>3, FS_EmptySet
    <3>5. ~\E u : w = {u}
      BY <3>2, <3>4, FS_Singleton
    <3>6. \E u, v \in w : u # v
      BY <3>4, <3>5
    <3> QED
      BY <3>1, <3>6
  <2>3. ASSUME Candidate(analysis.obs), NEW v \in Sha, Passes(At(analysis.obs, v)) = {}
        PROVE  Failures(At(analysis.obs, v)) = {}
    <3>1. v \notin Persistent(analysis.obs)
      BY <2>3 DEF Candidate
    <3>2. ~RecoveredAt(analysis.obs, v)
      BY <2>3 DEF RecoveredAt
    <3> QED
      BY <3>1, <3>2 DEF Persistent
  <2> QED
    BY <2>1, <2>2, <2>3 DEF ActiveIsEarned
<1> QED
  BY <1>1, HistoryInvariance, PTL

LEMMA NewestOf ==
  ASSUME NEW obs, obs # {}, \A o \in obs : o.run \in Run
  PROVE  /\ \E o \in obs : o.run = NewestRun(obs)
         /\ \A o \in obs : o.run \leq NewestRun(obs)
<1> DEFINE gaps == {LastCi - o.run : o \in obs}
<1>1. \A o \in obs : o.run \in Nat /\ o.run \leq LastCi /\ LastCi \in Nat
  BY HistoryAssumption DEF Run
<1>2. gaps \subseteq Nat /\ gaps # {}
  BY <1>1
<1>3. PICK g \in gaps : \A h \in gaps : ~(h < g)
  <2>1. \E g \in gaps : \A h \in gaps : <<h, g>> \notin OpToRel(<, Nat)
    BY <1>2, NatLessThanWellFounded, WFMin
  <2> QED
    BY <1>2, <2>1 DEF OpToRel
<1>4. PICK o \in obs : g = LastCi - o.run
  BY <1>3
<1>5. ASSUME NEW p \in obs PROVE p.run \leq o.run
  <2>1. ~(LastCi - p.run < LastCi - o.run)
    BY <1>3, <1>4
  <2> QED
    BY <1>1, <2>1
<1>6. \E r \in {p.run : p \in obs} : \A p \in obs : p.run \leq r
  BY <1>5
<1>7. /\ NewestRun(obs) \in {p.run : p \in obs}
      /\ \A p \in obs : p.run \leq NewestRun(obs)
  BY <1>6 DEF NewestRun
<1> QED
  BY <1>7

\* A quarantine that is released as healthy has its clean revisions: each was
\* tested by a run that came after the quarantine began, and nothing as new as
\* that run failed (clean_revision_streak).
THEOREM ReleaseIsEarned == HistorySpec => []ReleasedIsHealthy
<1>1. ASSUME HistoryInv, "RELEASED_HEALTHY" \in analysis.states
      PROVE  ReleasedIsHealthy
  <2>1. PICK e \in Manifest :
          /\ analysis.entries = {e}
          /\ Cardinality(Streak(After(analysis.obs, e))) >= CleanShas
    BY <1>1 DEF HistoryInv, AnalysisInv, Findings
  <2> DEFINE late == After(analysis.obs, e)
             clean == Streak(late)
  <2>2. e.since \in Nat
    BY HistoryAssumption DEF Entry
  <2>3. \A o \in analysis.obs : o.run \in Run /\ o.sha \in Sha /\ o.status \in {"pass", "fail"}
    BY <1>1, ObservationOf
  <2>4. \A o \in late : o \in analysis.obs /\ o.run \in Run /\ o.run > e.since
    BY <2>3 DEF After
  <2>5. ASSUME NEW v \in clean
        PROVE  \E r \in Run :
                 /\ r > e.since
                 /\ \E o \in At(analysis.obs, v) : o.run = r
                 /\ \A o \in analysis.obs : o.run >= r => o.status = "pass"
    <3> DEFINE r == NewestRun(At(late, v))
    <3>1. /\ At(late, v) # {}
          /\ \A u \in Sha : Failures(At(late, u)) # {} => NewestRun(At(late, u)) < r
      BY DEF Streak
    <3>2. PICK o \in At(late, v) : o.run = r
      <4>1. \A o \in At(late, v) : o.run \in Run
        BY <2>4 DEF At
      <4> QED
        BY <3>1, <4>1, NewestOf
    <3>3. r \in Run /\ r \in Nat /\ r > e.since /\ o \in At(analysis.obs, v)
      BY <2>4, <3>2 DEF At, Run
    <3> HIDE DEF r
    <3>4. ASSUME NEW p \in analysis.obs, p.run >= r, p.status # "pass"
          PROVE  FALSE
      <4> DEFINE u == p.sha
      <4>1. u \in Sha /\ p.status = "fail" /\ p.run \in Nat
        BY <2>3, <3>4 DEF Run
      <4>2. p \in At(late, u)
        BY <2>2, <3>3, <3>4, <4>1 DEF At, After
      <4>3. NewestRun(At(late, u)) < r
        BY <3>1, <4>1, <4>2 DEF Failures
      <4>4. \A o_1 \in At(late, u) : o_1.run \in Run
        BY <2>4 DEF At
      <4>5. /\ p.run \leq NewestRun(At(late, u))
            /\ \E o_1 \in At(late, u) : o_1.run = NewestRun(At(late, u))
        BY <4>2, <4>4, NewestOf
      <4>6. NewestRun(At(late, u)) \in Nat
        BY <4>4, <4>5 DEF Run
      <4> QED
        BY <3>3, <3>4, <4>1, <4>3, <4>5, <4>6
    <3> QED
      BY <3>2, <3>3, <3>4
  <2>6. clean \in SUBSET Sha
    BY DEF Streak
  <2> HIDE DEF clean
  <2> QED
    BY <2>1, <2>5, <2>6 DEF ReleasedIsHealthy, clean
<1>2. HistoryInv => ReleasedIsHealthy
  BY <1>1 DEF ReleasedIsHealthy
<1> QED
  BY <1>2, HistoryInvariance, PTL

\* As long as no run is run again, an artifact is attributed to the attempt that
\* made it, and dated no earlier than this attempt began.
LEMMA QuietObservation ==
  ASSUME HistoryInv, analysis.quiet, NEW o \in analysis.obs
  PROVE  /\ o.attempt = o.report.attempt
         /\ o.attempt \in Attempts /\ o.attempt \leq ci[o.run].attempt
         /\ ci[o.run].attempt = analysis.listed[o.run]
         /\ ci[o.run].from[o.attempt] \leq o.dated
         /\ o.attempt = analysis.listed[o.run] => o.dated = ci[o.run].from[o.attempt]
         /\ \A a, b \in Attempts : a \leq b /\ b \leq ci[o.run].attempt =>
              ci[o.run].from[a] \leq ci[o.run].from[b]
<1> DEFINE q == o.report
           x == ci[o.run]
           k == analysis.listed[o.run]
           a == q.attempt
<1>1. /\ Sound(o) /\ q \in Report /\ x \in CiRun /\ Ordered(x, second) /\ o.run \in Run
      /\ Made(q, x, second) /\ k \in Attempts
  BY ObservationOf
<1>2. analysis.step = "analysed" /\ Listing
  BY DEF HistoryInv, AnalysisInv
<1>3. /\ a \in Attempts /\ a \in Nat /\ k \in Nat /\ k > 0
      /\ \A b \in Attempts : x.from[b] \in Nat /\ x.to[b] \in Nat /\ b \in Nat
  BY <1>1, CiRunTyped DEF Report, Attempts
<1>4. x.attempt = k
  BY <1>1, <1>2, <1>3 DEF Listing
<1>5. a \leq k
  BY <1>1, <1>4 DEF Made
<1>6. /\ o.attempt = AttributedTo(x, a, k)
      /\ o.dated = x.from[IF x.sha \notin naming /\ k > 1 THEN o.attempt ELSE k]
  BY <1>1 DEF Sound
<1> HIDE DEF q, x, k, a
<1>7. o.attempt = a
  BY <1>5, <1>6 DEF AttributedTo
<1>8. ASSUME NEW b \in Attempts, NEW c \in Attempts, b \leq c, c \leq x.attempt
      PROVE  x.from[b] \leq x.from[c]
  <2>1. b \in Nat /\ c \in Nat
    BY <1>3
  <2>2. CASE b = c
    BY <1>3, <2>2
  <2>3. CASE b < c
    <3>1. Over(x, b) /\ x.to[b] \leq x.from[c]
      BY <1>1, <1>3, <1>4, <1>8, <2>1, <2>3 DEF Ordered, Over
    <3>2. x.from[b] \leq x.to[b]
      BY <1>1, <3>1 DEF Ordered
    <3>3. x.from[b] \in Nat /\ x.to[b] \in Nat /\ x.from[c] \in Nat
      BY <1>3
    <3> QED
      BY <3>1, <3>2, <3>3
  <2> QED
    BY <1>8, <2>1, <2>2, <2>3
<1>9. x.from[a] \leq o.dated
  <2>1. x.from[a] \leq x.from[k] /\ x.from[a] \leq x.from[a]
    BY <1>1, <1>3, <1>4, <1>5, <1>8
  <2> QED
    BY <1>6, <1>7, <2>1
<1>10. o.attempt = k => o.dated = x.from[o.attempt]
  BY <1>6
<1> QED
  BY <1>3, <1>4, <1>5, <1>7, <1>8, <1>9, <1>10 DEF q, x, k, a

\* What the shadow counts as prior to a failure started no later than the
\* execution that failed (historical_flakiness_shadow.py), as long as no run was
\* run again since the runs were listed.
THEOREM ShadowIsPrior == HistorySpec => []ShadowLooksBack
<1>1. ASSUME HistoryInv, analysis.quiet, NEW c \in Subject(analysis.obs),
             NEW o \in PriorTo(c)
      PROVE  ci[o.run].from[o.report.attempt] \leq ci[c.run].from[c.report.attempt]
  <2>1. c \in analysis.obs /\ c.attempt = analysis.listed[c.run] /\ o \in analysis.obs
        /\ Prior(o, c)
    BY <1>1 DEF Subject, Failures, PriorTo
  <2>2. /\ c.dated = ci[c.run].from[c.attempt] /\ c.attempt = c.report.attempt
        /\ c.attempt \in Attempts /\ c.attempt \leq ci[c.run].attempt
        /\ o.attempt = o.report.attempt /\ o.attempt \in Attempts
        /\ ci[o.run].from[o.attempt] \leq o.dated
    BY <1>1, <2>1, QuietObservation
  <2>3. CASE o.run = c.run
    <3>1. o.attempt < c.attempt
      BY <2>1, <2>3 DEF Prior
    <3>2. o.attempt \leq c.attempt
      BY <2>2, <3>1 DEF Attempts
    <3>3. ci[c.run].from[o.attempt] \leq ci[c.run].from[c.attempt]
      BY <1>1, <2>1, <2>2, <3>2, QuietObservation
    <3> QED
      BY <2>2, <2>3, <3>3
  <2>4. CASE o.run # c.run
    <3>1. o.dated < c.dated
      BY <2>1, <2>4 DEF Prior
    <3>2. /\ ci[o.run] \in CiRun /\ ci[c.run] \in CiRun
          /\ analysis.listed[o.run] \in Attempts /\ Sound(o)
      BY <1>1, <2>1, ObservationOf
    <3>3. /\ ci[o.run].from[o.attempt] \in Nat /\ ci[c.run].from[c.attempt] \in Nat
          /\ ci[o.run].from[analysis.listed[o.run]] \in Nat
      BY <2>2, <3>2, CiRunTyped
    <3>4. o.dated \in Nat
      <4>1. o.run = o.report.run
        BY <3>2 DEF Sound
      <4> QED
        BY <3>2, <3>3, <4>1 DEF Sound
    <3> QED
      BY <2>2, <3>1, <3>3, <3>4
  <2> QED
    BY <2>3, <2>4
<1>2. HistoryInv => ShadowLooksBack
  BY <1>1 DEF ShadowLooksBack
<1> QED
  BY <1>2, HistoryInvariance, PTL


-------------------------------------------------------------------------------
(* FlakyIssues.                                                               *)

Steps == {"idle", "looking", "commenting", "choosing", "listing", "searching", "writing",
          "done", "failed"}
JobType ==
  [step : Steps, todo : UNION {[R -> Verdict] : R \in SUBSET Test}, left : SUBSET Test,
   item : Test \cup {"none"}, seen : Nat, open : BOOLEAN, again : BOOLEAN, changes : Nat,
   alone : BOOLEAN]
IssueType == [test : Test, open : BOOLEAN, says : Verdict]

Types ==
  /\ issues \in Seq(IssueType)
  /\ recent \subseteq DOMAIN issues /\ indexed \subseteq DOMAIN issues
  /\ thread \in Seq({"ours", "other"})
  /\ job \in [Analyst -> JobType]

Busy(j) ==
  /\ j.left \subseteq DOMAIN j.todo
  /\ j.step \in {"listing", "searching", "writing"} => j.item \in DOMAIN j.todo
  /\ j.step \in {"looking", "choosing", "listing", "searching"} => j.seen = 0
  /\ j.step = "commenting" => j.seen \in {0, 1}
Seen(j) ==
  j.step = "writing" /\ j.seen # 0 =>
    j.seen \in DOMAIN issues /\ issues[j.seen].test = j.item
Unseen(j) ==
  j.item \notin Exempt =>
    /\ j.step = "searching" =>
         \A i \in DOMAIN issues : issues[i].test = j.item => i \in indexed
    /\ j.step = "writing" /\ j.seen = 0 =>
         \A i \in DOMAIN issues : issues[i].test # j.item
Unposted(j) ==
  j.step = "commenting" /\ j.seen = 0 /\ "comment" \notin raced =>
    \A i \in DOMAIN thread : i \leq Page => thread[i] # "ours"

Fine(j) == Busy(j) /\ Seen(j) /\ Unseen(j) /\ Unposted(j)

IssuesInv ==
  /\ Types
  /\ \A b \in Analyst : Fine(job[b])
  /\ IssuesUnique
  /\ CommentUnique

\* What Fine looks at.
Alike(j, k) ==
  /\ k.step = j.step /\ k.item = j.item /\ k.seen = j.seen
  /\ k.todo = j.todo /\ k.left = j.left

-------------------------------------------------------------------------------
(* The steps that create nothing.                                             *)

LEMMA Undisturbed ==
  ASSUME NEW j \in JobType
  PROVE  /\ [j EXCEPT !.alone = FALSE] \in JobType
         /\ Alike(j, [j EXCEPT !.alone = FALSE])
BY DEF JobType, Alike

LEMMA IdleJob == Idle \in JobType /\ Idle.step = "idle" /\ Idle.seen = 0 /\ Idle.left = {}
<1>1. <<>> \in [{} -> Verdict]
  OBVIOUS
<1>2. {} \in SUBSET Test
  OBVIOUS
<1>3. <<>> \in UNION {[R -> Verdict] : R \in SUBSET Test}
  BY <1>1, <1>2
<1>4. /\ Idle.step = "idle" /\ Idle.seen = 0 /\ Idle.left = {}
  BY DEF Idle
<1>5. Idle \in JobType
  BY <1>3 DEF Idle, JobType, Steps
<1> QED  BY <1>4, <1>5

LEMMA Kept ==
  ASSUME IssuesInv, Types',
         DOMAIN issues' = DOMAIN issues,
         \A i \in DOMAIN issues : issues'[i].test = issues[i].test,
         indexed \subseteq indexed', raced \subseteq raced', missed \subseteq missed',
         thread' = thread,
         \A b \in Analyst : Alike(job[b], job'[b]) \/ Fine(job[b])'
  PROVE  IssuesInv'
<1>1. ASSUME NEW b \in Analyst PROVE Fine(job[b])'
  <2>1. Fine(job[b])
    BY DEF IssuesInv
  <2>2. CASE Fine(job[b])'
    BY <2>2
  <2>3. CASE Alike(job[b], job'[b])
    BY <2>1, <2>3 DEF Alike, Fine, Busy, Seen, Unseen, Unposted, Exempt
  <2> QED  BY <2>2, <2>3
<1>2. IssuesUnique'
  BY DEF IssuesInv, IssuesUnique, Exempt
<1>3. CommentUnique'
  BY DEF IssuesInv, CommentUnique
<1> QED  BY <1>1, <1>2, <1>3 DEF IssuesInv

LEMMA JobStep ==
  ASSUME IssuesInv, NEW a \in Analyst, NEW j \in JobType, job' = [job EXCEPT ![a] = j],
         UNCHANGED <<issues, recent, indexed, thread, raced, missed>>, Fine(j)
  PROVE  IssuesInv'
<1>1. job \in [Analyst -> JobType]
  BY DEF IssuesInv, Types
<1>2. Types'
  BY <1>1 DEF IssuesInv, Types
<1>3. \A b \in Analyst : job'[b] = IF b = a THEN j ELSE job[b]
  BY <1>1
<1>4. Fine(job[a])'
  BY <1>3 DEF Fine, Busy, Seen, Unseen, Unposted, Exempt
<1>5. \A b \in Analyst : Alike(job[b], job'[b]) \/ Fine(job[b])'
  BY <1>3, <1>4 DEF Alike
<1> QED  BY <1>2, <1>5, Kept

\* The issues stay, or one is opened or closed; the views of them move on.
LEMMA Environment ==
  ASSUME IssuesInv, NEW i, Bury(i) \/ IndexIssue(i) \/ Toggle(i)
  PROVE  IssuesInv'
<1>1. /\ issues \in Seq(IssueType) /\ job \in [Analyst -> JobType]
      /\ recent \subseteq DOMAIN issues /\ indexed \subseteq DOMAIN issues
        /\ thread \in Seq({"ours", "other"})
  BY DEF IssuesInv, Types
<1>2. CASE Bury(i)
  <2>1. Types'
    BY <1>1, <1>2 DEF Types, Bury
  <2>2. \A b \in Analyst : Alike(job[b], job'[b])
    BY <1>2 DEF Bury, Alike
  <2> QED  BY <1>2, <2>1, <2>2, Kept DEF Bury
<1>3. CASE IndexIssue(i)
  <2>1. Types'
    BY <1>1, <1>3 DEF Types, IndexIssue
  <2>2. \A b \in Analyst : Alike(job[b], job'[b])
    BY <1>3 DEF IndexIssue, Alike
  <2> QED  BY <1>3, <2>1, <2>2, Kept DEF IndexIssue
<1>4. CASE Toggle(i)
  <2> DEFINE r == [issues[i] EXCEPT !.open = ~@]
  <2>1. i \in DOMAIN issues /\ issues[i] \in IssueType /\ issues' = [issues EXCEPT ![i] = r]
    BY <1>1, <1>4 DEF Toggle
  <2>2. r \in IssueType /\ r.test = issues[i].test
    BY <2>1 DEF IssueType
  <2> HIDE DEF r
  <2>3. /\ issues' \in Seq(IssueType) /\ DOMAIN issues' = DOMAIN issues
        /\ \A k \in DOMAIN issues : issues'[k].test = issues[k].test
    BY <1>1, <2>1, <2>2
  <2>4. \A b \in Analyst : job'[b] = [job[b] EXCEPT !.alone = FALSE] /\ job[b] \in JobType
    BY <1>1, <1>4 DEF Toggle, Disturbed
  <2>5. \A b \in Analyst : job'[b] \in JobType /\ Alike(job[b], job'[b])
    BY <2>4, Undisturbed
  <2>6. job' \in [Analyst -> JobType]
    BY <1>4, <2>5 DEF Toggle, Disturbed
  <2>7. Types'
    BY <1>1, <1>4, <2>1, <2>3, <2>6 DEF Types, Toggle
  <2> QED  BY <1>4, <2>3, <2>5, <2>7, Kept DEF Toggle
<1> QED  BY <1>2, <1>3, <1>4

LEMMA Beginning ==
  ASSUME IssuesInv, NEW a \in Analyst, NEW R \in SUBSET Test, NEW todo \in [R -> Verdict],
         NEW again \in BOOLEAN, Begin(a, todo, again)
  PROVE  IssuesInv'
<1> DEFINE alone == \A b \in Analyst : ~Running(b)
           j == [Idle EXCEPT !.step = "looking", !.todo = todo, !.left = DOMAIN todo,
                             !.again = again, !.alone = alone]
<1> HIDE DEF alone
<1>1. job \in [Analyst -> JobType]
  BY DEF IssuesInv, Types
<1>3. todo \in UNION {[Q -> Verdict] : Q \in SUBSET Test} /\ DOMAIN todo \in SUBSET Test
  OBVIOUS
<1>4. alone \in BOOLEAN
  BY DEF alone
<1>5. j \in JobType
  BY <1>3, <1>4, IdleJob DEF JobType, Steps
<1>6. j.step = "looking" /\ j.left = DOMAIN j.todo /\ j.seen = 0
  BY IdleJob DEF JobType
<1>7. /\ job' = [[b \in Analyst |-> [job[b] EXCEPT !.alone = FALSE]] EXCEPT ![a] = j]
      /\ UNCHANGED <<issues, recent, indexed, thread, raced, missed>>
  BY DEF Begin, Disturbed, alone
<1> HIDE DEF j
<1>8. \A b \in Analyst : job'[b] = IF b = a THEN j ELSE [job[b] EXCEPT !.alone = FALSE]
  BY <1>7
<1>9. \A b \in Analyst : b # a => job'[b] \in JobType /\ Alike(job[b], job'[b])
  BY <1>1, <1>8, Undisturbed
<1>10. job' \in [Analyst -> JobType]
  BY <1>5, <1>7, <1>8, <1>9
<1>11. Types'
  BY <1>7, <1>10 DEF IssuesInv, Types
<1>12. Fine(job[a])'
  BY <1>6, <1>8 DEF Fine, Busy, Seen, Unseen, Unposted
<1> QED  BY <1>7, <1>9, <1>11, <1>12, Kept

-------------------------------------------------------------------------------
(* The comment.                                                               *)

\* A comment is added at the end.
LEMMA CommentStep ==
  ASSUME IssuesInv, NEW c \in {"ours", "other"}, thread' = Append(thread, c),
         UNCHANGED <<issues, recent, indexed>>, job' \in [Analyst -> JobType],
         raced \subseteq raced', missed' = missed,
         \A b \in Analyst : Alike(job[b], job'[b]) \/ Fine(job[b])',
         c = "ours" => \/ "comment" \in raced'
                       \/ /\ \A b \in Analyst : ~(job'[b].step = "commenting" /\ job'[b].seen = 0)
                          /\ \A i \in DOMAIN thread : i \leq Page => thread[i] # "ours"
  PROVE  IssuesInv'
<1>1. /\ thread \in Seq({"ours", "other"}) /\ thread' \in Seq({"ours", "other"})
      /\ DOMAIN thread = 1 .. Len(thread) /\ Len(thread) \in Nat
      /\ DOMAIN thread' = 1 .. (Len(thread) + 1)
      /\ \A i \in DOMAIN thread : thread'[i] = thread[i]
      /\ thread'[Len(thread) + 1] = c
  BY DEF IssuesInv, Types
<1>2. Types'
  BY <1>1 DEF IssuesInv, Types
<1>3. ASSUME NEW b \in Analyst PROVE Fine(job[b])'
  <2>1. Fine(job[b])
    BY DEF IssuesInv
  <2>2. CASE Alike(job[b], job'[b])
    <3>1. (Busy(job[b]) /\ Seen(job[b]) /\ Unseen(job[b]))'
      BY <2>1, <2>2 DEF Alike, Fine, Busy, Seen, Unseen, Exempt
    <3>2. Unposted(job[b])'
      <4> SUFFICES ASSUME job'[b].step = "commenting", job'[b].seen = 0, "comment" \notin raced',
                          NEW i \in DOMAIN thread', i \leq Page
                   PROVE  thread'[i] # "ours"
        BY DEF Unposted
      <4>1. c # "ours"
        OBVIOUS
      <4>2. \A k \in DOMAIN thread : k \leq Page => thread[k] # "ours"
        BY <2>1, <2>2 DEF Fine, Unposted, Alike
      <4> QED  BY <1>1, <4>1, <4>2
    <3> QED  BY <3>1, <3>2 DEF Fine
  <2>3. CASE Fine(job[b])'
    BY <2>3
  <2> QED  BY <2>2, <2>3
<1>4. IssuesUnique'
  BY DEF IssuesInv, IssuesUnique, Exempt
<1>5. CommentUnique'
  <2> SUFFICES ASSUME NEW i \in DOMAIN thread', NEW k \in DOMAIN thread', i < k,
                      thread'[i] = "ours", thread'[k] = "ours", "comment" \notin raced'
               PROVE  i > Page
    BY DEF CommentUnique
  <2>1. CASE k \in DOMAIN thread
    <3>1. i \in DOMAIN thread
      BY <1>1, <2>1
    <3> QED  BY <1>1, <2>1, <3>1 DEF IssuesInv, CommentUnique
  <2>2. CASE k \notin DOMAIN thread
    <3>1. k = Len(thread) + 1 /\ i \in DOMAIN thread /\ c = "ours"
      BY <1>1, <2>2
    <3>2. ~(i \leq Page)
      BY <1>1, <3>1
    <3> QED  BY <1>1, <3>2, IssuesAssumption
  <2> QED  BY <2>1, <2>2
<1> QED  BY <1>2, <1>3, <1>4, <1>5 DEF IssuesInv

LEMMA Commenting ==
  ASSUME IssuesInv
  PROVE  /\ Comment => IssuesInv'
         /\ \A a \in Analyst : NoComment(a) \/ LookForComment(a) => IssuesInv'
         /\ \A a \in Analyst, arrives \in BOOLEAN : WriteComment(a, arrives) => IssuesInv'
<1>1. /\ thread \in Seq({"ours", "other"}) /\ job \in [Analyst -> JobType]
      /\ \A a \in Analyst : job[a] \in JobType /\ Fine(job[a])
  BY DEF IssuesInv, Types
<1>2. ASSUME Comment PROVE IssuesInv'
  <2>1. /\ thread' = Append(thread, "other") /\ UNCHANGED <<issues, recent, indexed>>
        /\ job' = job /\ raced' = raced /\ missed' = missed
    BY <1>2 DEF Comment
  <2>2. \A b \in Analyst : Alike(job[b], job'[b])
    BY <2>1 DEF Alike
  <2>3. raced \subseteq raced' /\ "other" \in {"ours", "other"} /\ "other" # "ours"
    BY <2>1
  <2> QED  BY <1>1, <2>1, <2>2, <2>3, CommentStep
<1>3. ASSUME NEW a \in Analyst, NoComment(a) PROVE IssuesInv'
  <2> DEFINE j == [job[a] EXCEPT !.step = "choosing"]
  <2>1. /\ job[a].step = "looking" /\ job' = [job EXCEPT ![a] = j]
        /\ UNCHANGED <<issues, recent, indexed, thread, raced, missed>>
    BY <1>1, <1>3 DEF NoComment
  <2>2. j \in JobType /\ j.step = "choosing"
    BY <1>1 DEF JobType, Steps
  <2>3. j.seen = job[a].seen /\ j.left = job[a].left /\ j.todo = job[a].todo
    BY <1>1 DEF JobType
  <2> HIDE DEF j
  <2>4. Fine(j)
    BY <1>1, <2>1, <2>2, <2>3 DEF Fine, Busy, Seen, Unseen, Unposted
  <2> QED  BY <2>1, <2>2, <2>4, JobStep
<1>4. ASSUME NEW a \in Analyst, LookForComment(a) PROVE IssuesInv'
  <2> DEFINE n == IF Ours(FirstPage) = {} THEN 0 ELSE 1
             j == [job[a] EXCEPT !.step = "commenting", !.seen = n]
  <2>1. /\ job[a].step = "looking" /\ job' = [job EXCEPT ![a] = j]
        /\ UNCHANGED <<issues, recent, indexed, thread, raced, missed>>
    BY <1>1, <1>4 DEF LookForComment
  <2>2. n \in Nat /\ n \in {0, 1} /\ (n = 0 => Ours(FirstPage) = {})
    OBVIOUS
  <2> HIDE DEF n
  <2>3. /\ j \in JobType /\ j.step = "commenting" /\ j.seen = n
        /\ j.left = job[a].left /\ j.todo = job[a].todo
    BY <1>1, <2>2 DEF JobType, Steps
  <2> HIDE DEF j
  <2>4. Unposted(j)
    <3>1. n = 0 => \A i \in DOMAIN thread : i \leq Page => thread[i] # "ours"
      BY <2>2 DEF Ours, FirstPage
    <3> QED  BY <2>3, <3>1 DEF Unposted
  <2>5. Fine(j)
    BY <1>1, <2>1, <2>2, <2>3, <2>4 DEF Fine, Busy, Seen, Unseen
  <2> QED  BY <2>1, <2>3, <2>5, JobStep
<1>5. ASSUME NEW a \in Analyst, NEW arrives \in BOOLEAN, WriteComment(a, arrives)
      PROVE  IssuesInv'
  <2> DEFINE j == [job[a] EXCEPT !.step = "choosing", !.seen = 0]
  <2>1. /\ job[a].step = "commenting" /\ job' = [job EXCEPT ![a] = j]
        /\ UNCHANGED <<issues, recent, indexed, missed>>
    BY <1>1, <1>5 DEF WriteComment
  <2>2. /\ j \in JobType /\ j.step = "choosing" /\ j.seen = 0
        /\ j.left = job[a].left /\ j.todo = job[a].todo
    BY <1>1 DEF JobType, Steps
  <2> HIDE DEF j
  <2>3. Fine(j)
    BY <1>1, <2>2 DEF Fine, Busy, Seen, Unseen, Unposted
  <2>4. CASE UNCHANGED <<thread, raced>>
    BY <2>1, <2>2, <2>3, <2>4, JobStep
  <2>5. CASE ~(job[a].seen = 1 \/ ~arrives)
    <3>1. /\ thread' = Append(thread, "ours")
          /\ raced' = raced \cup
               {x \in {"comment"} : \E b \in Analyst \ {a} :
                  job[b].step = "commenting" /\ job[b].seen = 0}
      BY <1>5, <2>5 DEF WriteComment
    <3>2. job' \in [Analyst -> JobType] /\ \A b \in Analyst : job'[b] = IF b = a THEN j ELSE job[b]
      BY <1>1, <2>1, <2>2
    <3>3. \A b \in Analyst : Alike(job[b], job'[b]) \/ Fine(job[b])'
      <4>1. Fine(job[a])'
        BY <2>2, <3>2, <1>1 DEF Fine, Busy, Seen, Unseen, Unposted, Exempt
      <4> QED  BY <2>2, <3>2, <4>1 DEF Alike
    <3> "ours" \in {"ours", "other"} /\ raced \subseteq raced'
      BY <3>1
    <3>4. CASE "comment" \in raced'
      BY <2>1, <3>1, <3>2, <3>3, <3>4, CommentStep
    <3>5. CASE "comment" \notin raced'
      <4>1. /\ "comment" \notin raced
            /\ \A b \in Analyst \ {a} : ~(job[b].step = "commenting" /\ job[b].seen = 0)
        BY <3>1, <3>5
      <4>2. \A b \in Analyst : ~(job'[b].step = "commenting" /\ job'[b].seen = 0)
        BY <2>2, <3>2, <4>1
      <4>3. job[a].seen = 0
        BY <1>1, <2>1, <2>5 DEF Fine, Busy
      <4>4. \A i \in DOMAIN thread : i \leq Page => thread[i] # "ours"
        BY <1>1, <2>1, <4>1, <4>3 DEF Fine, Unposted
      <4> QED  BY <2>1, <3>1, <3>2, <3>3, <4>2, <4>4, CommentStep
    <3> QED  BY <3>4, <3>5
  <2> QED  BY <1>5, <2>4, <2>5 DEF WriteComment
<1> QED  BY <1>2, <1>3, <1>4, <1>5

-------------------------------------------------------------------------------
(* Looking for the issue.                                                     *)

LEMMA Searching ==
  ASSUME IssuesInv, NEW a \in Analyst
  PROVE  /\ \A t \in Test : Choose(a, t) => IssuesInv'
         /\ Finish(a) \/ LeaveAlone(a) => IssuesInv'
         /\ List(a) \/ Search(a) => IssuesInv'
<1>1. /\ issues \in Seq(IssueType) /\ job \in [Analyst -> JobType]
      /\ recent \subseteq DOMAIN issues /\ indexed \subseteq DOMAIN issues
        /\ job[a] \in JobType /\ Fine(job[a])
  BY DEF IssuesInv, Types
<1>2. ASSUME NEW t \in Test, Choose(a, t) PROVE IssuesInv'
  <2> DEFINE j == [job[a] EXCEPT !.step = "listing", !.item = t, !.left = @ \ {t}]
  <2>1. /\ job[a].step = "choosing" /\ t \in job[a].left /\ job' = [job EXCEPT ![a] = j]
        /\ UNCHANGED <<issues, recent, indexed, thread, raced, missed>>
    BY <1>1, <1>2 DEF Choose, First
  <2>2. /\ j \in JobType /\ j.step = "listing" /\ j.item = t /\ j.left \subseteq job[a].left
        /\ j.todo = job[a].todo /\ j.seen = job[a].seen
    BY <1>1 DEF JobType, Steps
  <2> HIDE DEF j
  <2>3. Fine(j)
    BY <1>1, <2>1, <2>2 DEF Fine, Busy, Seen, Unseen, Unposted
  <2> QED  BY <2>1, <2>2, <2>3, JobStep
<1>3. ASSUME Finish(a) PROVE IssuesInv'
  <2> DEFINE j == [job[a] EXCEPT !.step = "done"]
  <2>1. /\ job' = [job EXCEPT ![a] = j]
        /\ UNCHANGED <<issues, recent, indexed, thread, raced, missed>>
    BY <1>1, <1>3 DEF Finish
  <2>2. /\ j \in JobType /\ j.step = "done" /\ j.left = job[a].left /\ j.todo = job[a].todo
    BY <1>1 DEF JobType, Steps
  <2> HIDE DEF j
  <2>3. Fine(j)
    BY <1>1, <2>1, <2>2 DEF Fine, Busy, Seen, Unseen, Unposted
  <2> QED  BY <2>1, <2>2, <2>3, JobStep
<1>4. ASSUME LeaveAlone(a) PROVE IssuesInv'
  <2> DEFINE j == [job[a] EXCEPT !.step = "choosing", !.seen = 0, !.item = "none",
                                 !.open = FALSE]
  <2>1. /\ job' = [job EXCEPT ![a] = j]
        /\ UNCHANGED <<issues, recent, indexed, thread, raced, missed>>
    BY <1>1, <1>4 DEF LeaveAlone
  <2>2. /\ j \in JobType /\ j.step = "choosing" /\ j.seen = 0
        /\ j.left = job[a].left /\ j.todo = job[a].todo
    BY <1>1 DEF JobType, Steps
  <2> HIDE DEF j
  <2>3. Fine(j)
    BY <1>1, <2>1, <2>2 DEF Fine, Busy, Seen, Unseen, Unposted
  <2> QED  BY <2>1, <2>2, <2>3, JobStep
\* An issue is taken, or none is known of.
<1>5. ASSUME NEW i \in Nat, Take(a, i), job[a].step \in {"listing", "searching"},
             UNCHANGED <<issues, recent, indexed, thread, raced, missed>>,
             i # 0 => i \in DOMAIN issues /\ issues[i].test = job[a].item,
             i = 0 => \/ job[a].item \in Exempt
                      \/ \A k \in DOMAIN issues : issues[k].test # job[a].item
      PROVE  IssuesInv'
  <2> DEFINE o == i # 0 /\ issues[i].open
             j == [job[a] EXCEPT !.step = "writing", !.seen = i, !.open = o]
  <2>1. job' = [job EXCEPT ![a] = j]
    BY <1>1, <1>5 DEF Take
  <2>2. o \in BOOLEAN
    OBVIOUS
  <2> HIDE DEF o
  <2>3. /\ j \in JobType /\ j.step = "writing" /\ j.seen = i
        /\ j.left = job[a].left /\ j.todo = job[a].todo /\ j.item = job[a].item
    BY <1>1, <2>2 DEF JobType, Steps
  <2> HIDE DEF j
  <2>4. Fine(j)
    BY <1>1, <1>5, <2>3 DEF Fine, Busy, Seen, Unseen, Unposted
  <2> QED  BY <1>5, <2>1, <2>3, <2>4, JobStep
<1>6. ASSUME List(a) PROVE IssuesInv'
  <2>1. job[a].step = "listing" /\ UNCHANGED <<issues, recent, indexed, thread, raced>>
    BY <1>6 DEF List
  <2>2. ASSUME NEW i \in ListedIssues(job[a].item), Take(a, i), UNCHANGED missed
        PROVE  IssuesInv'
    <3>1. i \in DOMAIN issues /\ issues[i].test = job[a].item /\ i \in Nat /\ i # 0
      BY <1>1, <2>2 DEF ListedIssues, Matching
    <3> QED  BY <1>5, <2>1, <2>2, <3>1
  <2>3. ASSUME ListedIssues(job[a].item) = {}, job' = [job EXCEPT ![a].step = "searching"],
               missed' = missed \cup {t \in {job[a].item} : Matching(t, Hidden) # {}}
        PROVE  IssuesInv'
    <3> DEFINE j == [job[a] EXCEPT !.step = "searching"]
    <3>1. job' = [job EXCEPT ![a] = j]
      BY <1>1, <2>3
    <3>2. /\ j \in JobType /\ j.step = "searching" /\ j.seen = job[a].seen
          /\ j.left = job[a].left /\ j.todo = job[a].todo /\ j.item = job[a].item
      BY <1>1 DEF JobType, Steps
    <3> HIDE DEF j
    <3>3. \/ job[a].item \in missed'
          \/ \A k \in DOMAIN issues : issues[k].test = job[a].item => k \in indexed
      BY <1>1, <2>3 DEF ListedIssues, Matching, Hidden
    <3>4. \A b \in Analyst : job'[b] = IF b = a THEN j ELSE job[b]
      BY <1>1, <3>1
    <3>5. job'[a] = j
      BY <3>4
    <3>6. Fine(job[a])'
      BY <1>1, <2>1, <3>2, <3>3, <3>5 DEF Fine, Busy, Seen, Unseen, Unposted, Exempt
    <3>7. job' \in [Analyst -> JobType]
      BY <1>1, <3>1, <3>2
    <3>8. Types'
      BY <2>1, <3>7 DEF IssuesInv, Types
    <3>9. \A b \in Analyst : Alike(job[b], job'[b]) \/ Fine(job[b])'
      BY <3>4, <3>6 DEF Alike
    <3> QED  BY <2>1, <2>3, <3>8, <3>9, Kept
  <2> QED  BY <1>6, <2>2, <2>3 DEF List
<1>7. ASSUME Search(a) PROVE IssuesInv'
  <2>1. job[a].step = "searching" /\ UNCHANGED <<issues, recent, indexed, thread, raced, missed>>
    BY <1>7 DEF Search
  <2>2. ASSUME NEW i \in Searched(job[a].item), Take(a, i) PROVE IssuesInv'
    <3>1. i \in DOMAIN issues /\ issues[i].test = job[a].item /\ i \in Nat /\ i # 0
      BY <1>1, <2>2 DEF Searched, Matching
    <3> QED  BY <1>5, <2>1, <2>2, <3>1
  <2>3. ASSUME Searched(job[a].item) = {}, Take(a, 0) PROVE IssuesInv'
    <3>1. \/ job[a].item \in Exempt
          \/ \A k \in DOMAIN issues : issues[k].test # job[a].item
      BY <1>1, <2>1, <2>3 DEF Searched, Matching, Fine, Unseen
    <3> QED  BY <1>5, <2>1, <2>3, <3>1
  <2> QED  BY <1>7, <2>2, <2>3 DEF Search
<1> QED  BY <1>2, <1>3, <1>4, <1>6, <1>7

-------------------------------------------------------------------------------
(* Writing it.                                                                *)

\* An analysis that writes leaves its search behind; the others go on.
LEMMA WriteStep ==
  ASSUME IssuesInv, NEW a \in Analyst, job[a].step = "writing", Effect(a),
         NEW j \in JobType, job' = [job EXCEPT ![a] = j],
         j.step \in {"choosing", "failed"}, Busy(j), UNCHANGED <<indexed, thread, missed>>
  PROVE  IssuesInv'
<1> DEFINE t == job[a].item
           r == [test |-> t, open |-> job[a].todo[t] # Released, says |-> job[a].todo[t]]
<1>1. /\ issues \in Seq(IssueType) /\ job \in [Analyst -> JobType]
      /\ recent \subseteq DOMAIN issues /\ indexed \subseteq DOMAIN issues
        /\ thread \in Seq({"ours", "other"})
      /\ job[a] \in JobType /\ Fine(job[a])
  BY DEF IssuesInv, Types
<1>2. t \in Test /\ job[a].todo[t] \in Verdict
  <2>1. PICK R \in SUBSET Test : job[a].todo \in [R -> Verdict]
    BY <1>1 DEF JobType
  <2> QED  BY <1>1, <2>1 DEF Fine, Busy
<1>3. r \in IssueType /\ r.test = t
  BY <1>2 DEF IssueType
<1>4. issues' = IF job[a].seen = 0 THEN Append(issues, r) ELSE [issues EXCEPT ![job[a].seen] = r]
  BY DEF Effect, Written
<1> HIDE DEF r
<1>5. /\ job' \in [Analyst -> JobType]
      /\ \A b \in Analyst : job'[b] = IF b = a THEN j ELSE job[b]
  BY <1>1
<1>6. Fine(job[a])'
  BY <1>5 DEF Fine, Busy, Seen, Unseen, Unposted
<1>7. CASE job[a].seen # 0
  <2>1. job[a].seen \in DOMAIN issues /\ issues[job[a].seen].test = t
    BY <1>1, <1>7 DEF Fine, Seen
  <2>2. /\ issues' \in Seq(IssueType) /\ DOMAIN issues' = DOMAIN issues
        /\ \A i \in DOMAIN issues : issues'[i].test = issues[i].test
    BY <1>1, <1>3, <1>4, <1>7, <2>1
  <2>3. recent' = recent \cup {job[a].seen} /\ raced' = raced
    BY <1>7 DEF Effect
  <2>4. Types'
    BY <1>1, <1>5, <2>1, <2>2, <2>3 DEF Types
  <2>5. \A b \in Analyst : Alike(job[b], job'[b]) \/ Fine(job[b])'
    BY <1>5, <1>6 DEF Alike
  <2> QED  BY <2>2, <2>3, <2>4, <2>5, Kept
<1>8. CASE job[a].seen = 0
  <2> DEFINE n == Len(issues) + 1
  <2>1. /\ issues' \in Seq(IssueType) /\ DOMAIN issues = 1 .. Len(issues) /\ Len(issues) \in Nat
        /\ DOMAIN issues' = 1 .. n /\ issues'[n] = r
        /\ \A i \in DOMAIN issues : issues'[i] = issues[i]
    BY <1>1, <1>3, <1>4, <1>8
  <2>2. /\ recent' = recent \cup {n}
        /\ raced' = IF \E b \in Analyst \ {a} : Waiting(b, t) THEN raced \cup {t} ELSE raced
    BY <1>8 DEF Effect
  <2>3. DOMAIN issues' = DOMAIN issues \cup {n} /\ n \notin DOMAIN issues
    BY <2>1
  <2> HIDE DEF n
  <2>4. Types'
    BY <1>1, <1>5, <2>1, <2>2, <2>3 DEF Types
  <2>5. raced \subseteq raced'
    BY <2>2
  <2>6. ASSUME NEW b \in Analyst \ {a} PROVE Fine(job[b])'
    <3>1. job'[b] = job[b] /\ Fine(job[b])
      BY <1>5 DEF IssuesInv
    <3>2. (Busy(job[b]) /\ Seen(job[b]) /\ Unposted(job[b]))'
      BY <2>1, <2>3, <2>5, <3>1 DEF Fine, Busy, Seen, Unposted
    <3>3. Unseen(job[b])'
      <4>1. CASE job[b].item = t
        <5>1. t \in raced' \/ ~Waiting(b, t)
          BY <2>2
        <5>2. Busy(job[b])
          BY <3>1 DEF Fine
        <5> QED  BY <3>1, <4>1, <5>1, <5>2 DEF Unseen, Waiting, Busy, Exempt
      <4>2. CASE job[b].item # t
        <5>1. Exempt \subseteq Exempt' /\ indexed' = indexed /\ Unseen(job[b])
          BY <2>5, <3>1 DEF Exempt, Fine
        <5>2. \A i \in DOMAIN issues' :
                issues'[i].test = job[b].item => i \in DOMAIN issues /\ issues'[i] = issues[i]
          BY <1>3, <2>1, <2>3, <4>2
        <5> QED  BY <3>1, <5>1, <5>2 DEF Unseen
      <4> QED  BY <4>1, <4>2
    <3> QED  BY <3>2, <3>3 DEF Fine
  <2>7. IssuesUnique'
    <3>1. t \in Exempt \/ \A i \in DOMAIN issues : issues[i].test # t
      BY <1>1, <1>8 DEF Fine, Unseen
    <3> QED  BY <1>3, <2>1, <2>3, <2>5, <3>1 DEF IssuesInv, IssuesUnique, Exempt
  <2>8. CommentUnique'
    BY <2>5 DEF IssuesInv, CommentUnique
  <2> QED  BY <1>6, <2>4, <2>6, <2>7, <2>8 DEF IssuesInv
<1> QED  BY <1>7, <1>8

LEMMA NextItem ==
  ASSUME NEW k \in JobType
  PROVE  LET j == [k EXCEPT !.step = "choosing", !.seen = 0, !.item = "none",
                            !.open = FALSE, !.changes = @ + 1]
         IN  /\ j \in JobType /\ j.step = "choosing" /\ j.seen = 0
             /\ j.left = k.left /\ j.todo = k.todo
<1> DEFINE more == k.changes + 1
           Todos == UNION {[R -> Verdict] : R \in SUBSET Test}
           j == [k EXCEPT !.step = "choosing", !.seen = 0, !.item = "none",
                          !.open = FALSE, !.changes = more]
<1>1. more \in Nat
  BY DEF JobType
<1>2. k \in [step : Steps, todo : Todos, left : SUBSET Test, item : Test \cup {"none"},
             seen : Nat, open : BOOLEAN, again : BOOLEAN, changes : Nat, alone : BOOLEAN]
  BY DEF JobType
<1>3. "choosing" \in Steps
  BY DEF Steps
<1> HIDE DEF more, Todos
<1>4. /\ j.step = "choosing" /\ j.seen = 0 /\ j.left = k.left /\ j.todo = k.todo
  BY <1>2
<1>5. j \in [step : Steps, todo : Todos, left : SUBSET Test, item : Test \cup {"none"},
             seen : Nat, open : BOOLEAN, again : BOOLEAN, changes : Nat, alone : BOOLEAN]
  BY <1>1, <1>2, <1>3
<1>6. j \in JobType
  BY <1>5 DEF JobType, Todos
<1> QED  BY <1>4, <1>6 DEF more

LEMMA Writing ==
  ASSUME IssuesInv, NEW a \in Analyst, Manage(a) \/ Fail(a)
  PROVE  IssuesInv'
<1>1. job \in [Analyst -> JobType] /\ job[a] \in JobType /\ Fine(job[a])
  BY DEF IssuesInv, Types
<1>2. CASE Manage(a)
  <2> DEFINE j == [job[a] EXCEPT !.step = "choosing", !.seen = 0, !.item = "none",
                                 !.open = FALSE, !.changes = @ + 1]
  <2>1. /\ job[a].step = "writing" /\ Effect(a) /\ job' = [job EXCEPT ![a] = j]
        /\ UNCHANGED <<indexed, thread, missed>>
    BY <1>1, <1>2 DEF Manage
  <2>2. /\ j \in JobType /\ j.step = "choosing" /\ j.seen = 0
        /\ j.left = job[a].left /\ j.todo = job[a].todo
    BY <1>1, NextItem
  <2> HIDE DEF j
  <2>3. Busy(j)
    BY <1>1, <2>2 DEF Fine, Busy
  <2> QED  BY <2>1, <2>2, <2>3, WriteStep
<1>3. CASE Fail(a)
  <2> DEFINE j == [Idle EXCEPT !.step = "failed"]
  <2>1. /\ job' = [job EXCEPT ![a] = j] /\ UNCHANGED <<indexed, thread, missed>>
        /\ \/ UNCHANGED <<issues, recent, raced>>
           \/ job[a].step = "writing" /\ Effect(a)
    BY <1>3 DEF Fail
  <2>2. j \in JobType /\ j.step = "failed" /\ j.left = {}
    BY IdleJob DEF JobType, Steps
  <2> HIDE DEF j
  <2>3. Busy(j) /\ Fine(j)
    BY <2>2 DEF Fine, Busy, Seen, Unseen, Unposted
  <2>4. CASE UNCHANGED <<issues, recent, raced>>
    BY <2>1, <2>2, <2>3, <2>4, JobStep
  <2>5. CASE job[a].step = "writing" /\ Effect(a)
    BY <2>1, <2>2, <2>3, <2>5, WriteStep
  <2> QED  BY <2>1, <2>4, <2>5
<1> QED  BY <1>2, <1>3

-------------------------------------------------------------------------------

LEMMA IssuesStart == IssuesInit => IssuesInv
<1> SUFFICES ASSUME IssuesInit PROVE IssuesInv
  OBVIOUS
<1>1. /\ issues = <<>> /\ thread = <<>> /\ recent = {} /\ indexed = {}
      /\ \A b \in Analyst : job[b] = Idle
  BY DEF IssuesInit
<1>2. job \in [Analyst -> JobType]
  BY IdleJob DEF IssuesInit
<1>3. Types
  BY <1>1, <1>2 DEF Types
<1>4. \A b \in Analyst : Fine(job[b])
  BY <1>1, IdleJob DEF Fine, Busy, Seen, Unseen, Unposted
<1>5. IssuesUnique /\ CommentUnique
  BY <1>1 DEF IssuesUnique, CommentUnique
<1> QED  BY <1>3, <1>4, <1>5 DEF IssuesInv

LEMMA IssuesSteps == IssuesInv /\ [IssuesNext]_issuesVars => IssuesInv'
<1> SUFFICES ASSUME IssuesInv, [IssuesNext]_issuesVars PROVE IssuesInv'
  OBVIOUS
<1>1. CASE UNCHANGED issuesVars
  <2>1. /\ UNCHANGED <<issues, recent, indexed, thread, raced, missed>> /\ job' = job
    BY <1>1 DEF issuesVars
  <2>2. Types' /\ \A b \in Analyst : Alike(job[b], job'[b])
    BY <2>1 DEF IssuesInv, Types, Alike
  <2> QED  BY <2>1, <2>2, Kept
<1>2. ASSUME NEW i \in Issue, Bury(i) \/ IndexIssue(i) \/ Toggle(i) PROVE IssuesInv'
  BY <1>2, Environment
<1>3. CASE Comment
  BY <1>3, Commenting
<1>4. ASSUME NEW a \in Analyst, NEW R \in SUBSET Test, NEW again \in BOOLEAN,
             NEW todo \in [R -> Verdict], Begin(a, todo, again)
      PROVE  IssuesInv'
  BY <1>4, Beginning
<1>5. ASSUME NEW a \in Analyst, NEW arrives \in BOOLEAN,
             NoComment(a) \/ LookForComment(a) \/ WriteComment(a, arrives)
      PROVE  IssuesInv'
  BY <1>5, Commenting
<1>6. ASSUME NEW a \in Analyst, NEW t \in Test,
             Choose(a, t)
      PROVE  IssuesInv'
  BY <1>6, Searching
<1>7. ASSUME NEW a \in Analyst, Finish(a) \/ LeaveAlone(a) \/ List(a) \/ Search(a)
      PROVE  IssuesInv'
  BY <1>7, Searching
<1>8. ASSUME NEW a \in Analyst, Manage(a) \/ Fail(a) PROVE IssuesInv'
  BY <1>8, Writing
<1>9. ASSUME NEW a \in Analyst, NEW R \in SUBSET Test, NEW again \in BOOLEAN,
             \E todo \in [R -> Verdict] : Begin(a, todo, again)
      PROVE  IssuesInv'
  BY <1>4, <1>9
<1>10. ASSUME NEW a \in Analyst,
              \E R \in SUBSET Test, again \in BOOLEAN :
                \E todo \in [R -> Verdict] : Begin(a, todo, again)
       PROVE  IssuesInv'
  BY <1>9, <1>10
<1>11. ASSUME NEW a \in Analyst,
              \/ \E arrives \in BOOLEAN : WriteComment(a, arrives)
              \/ \E t \in Test : Choose(a, t)
       PROVE  IssuesInv'
  BY <1>5, <1>6, <1>11
<1>12. CASE IssuesNext
  BY <1>2, <1>3, <1>5, <1>7, <1>8, <1>10, <1>11, <1>12 DEF IssuesNext
<1> QED  BY <1>1, <1>12

LEMMA IssuesHold == IssuesSpec => []IssuesInv
BY IssuesStart, IssuesSteps, PTL DEF IssuesSpec

\* The bounds of an analysis: it deals with a test only while it may make one
\* more change.
Modest(j) ==
  /\ j.seen \in 0 .. LastIssue /\ j.changes \in 0 .. MaxChanges
  /\ j.step \in {"listing", "searching", "writing"} => j.changes < MaxChanges
Bounds ==
  /\ Len(issues) \leq LastIssue /\ Len(thread) \leq LastComment
  /\ analyses \in 0 .. LastAnalysis
  /\ \A b \in Analyst : Modest(job[b])

\* An analysis takes a step by itself; the others stay.
LEMMA ModestStep ==
  ASSUME IssuesInv, Bounds, NEW a \in Analyst, NEW j, Modest(j), job' = [job EXCEPT ![a] = j],
         analyses' = analyses, Len(issues') \leq LastIssue, Len(thread') \leq LastComment
  PROVE  Bounds'
<1>1. job \in [Analyst -> JobType]
  BY DEF IssuesInv, Types
<1>2. \A b \in Analyst : job'[b] = IF b = a THEN j ELSE job[b]
  BY <1>1
<1> QED
  BY <1>2 DEF Bounds, Modest

LEMMA BoundsStay == IssuesInv /\ Bounds /\ [IssuesNext]_issuesVars => Bounds'
<1> SUFFICES ASSUME IssuesInv, Bounds, [IssuesNext]_issuesVars PROVE Bounds'
  OBVIOUS
<1>1. /\ issues \in Seq(IssueType) /\ thread \in Seq({"ours", "other"})
      /\ job \in [Analyst -> JobType]
      /\ recent \subseteq DOMAIN issues /\ indexed \subseteq DOMAIN issues
  BY DEF IssuesInv, Types
<1>2. /\ LastIssue \in Nat \ {0} /\ LastComment \in Nat /\ LastAnalysis \in Nat
      /\ MaxChanges \in Nat
  BY IssuesAssumption
<1>3. Modest(Idle) /\ Idle \in JobType
  BY <1>2, IdleJob DEF Modest, Idle
<1>4. CASE UNCHANGED issuesVars
  BY <1>4 DEF issuesVars, Bounds, Modest
<1>5. ASSUME NEW i \in Issue, Bury(i) \/ IndexIssue(i) PROVE Bounds'
  BY <1>5 DEF Bury, IndexIssue, Bounds, Modest
<1>6. ASSUME NEW i \in Issue, Toggle(i) PROVE Bounds'
  <2>1. Len(issues') = Len(issues)
    BY <1>1, <1>6 DEF Toggle
  <2>2. \A b \in Analyst : job[b] \in JobType /\ job'[b] = [job[b] EXCEPT !.alone = FALSE]
    BY <1>1, <1>6 DEF Toggle, Disturbed
  <2>3. \A b \in Analyst : Modest(job'[b])
    BY <2>2 DEF Bounds, Modest, JobType
  <2> QED
    BY <1>6, <2>1, <2>3 DEF Toggle, Bounds, Modest
<1>7. CASE Comment
  BY <1>1, <1>2, <1>7 DEF Comment, Bounds, Modest
<1>8. ASSUME NEW a \in Analyst, NEW R \in SUBSET Test, NEW todo \in [R -> Verdict],
             NEW again \in BOOLEAN, Begin(a, todo, again)
      PROVE  Bounds'
  <2> DEFINE alone == \A b \in Analyst : ~Running(b)
             j == [Idle EXCEPT !.step = "looking", !.todo = todo, !.left = DOMAIN todo,
                               !.again = again, !.alone = alone]
  <2>1. job' = [Disturbed(job) EXCEPT ![a] = j] /\ analyses' = analyses + 1
        /\ analyses < LastAnalysis /\ issues' = issues /\ thread' = thread
    BY <1>8 DEF Begin
  <2>2. Modest(j)
    BY <1>2 DEF Modest, Idle
  <2> HIDE DEF j
  <2>3. \A b \in Analyst : job[b] \in JobType
          /\ job'[b] = IF b = a THEN j ELSE [job[b] EXCEPT !.alone = FALSE]
    BY <1>1, <2>1 DEF Disturbed
  <2>4. ASSUME NEW b \in Analyst PROVE Modest(job'[b])
    <3>1. CASE b = a
      BY <2>2, <2>3, <3>1
    <3>2. CASE b # a
      <4>1. job[b] \in JobType /\ job'[b] = [job[b] EXCEPT !.alone = FALSE] /\ Modest(job[b])
        BY <2>3, <3>2 DEF Bounds
      <4> QED
        BY <4>1 DEF Modest, JobType
    <3> QED
      BY <3>1, <3>2
  <2> QED
    BY <1>2, <2>1, <2>4 DEF Bounds, Modest
<1>9. ASSUME NEW a \in Analyst,
             \/ NoComment(a) \/ LookForComment(a) \/ Finish(a) \/ LeaveAlone(a)
             \/ \E t \in Test : Choose(a, t)
             \/ List(a) \/ Search(a)
      PROVE  Bounds'
  <2>1. job[a] \in JobType /\ Modest(job[a]) /\ UNCHANGED <<issues, thread, analyses>>
    BY <1>1, <1>9 DEF Bounds, NoComment, LookForComment, Finish, LeaveAlone, Choose, List, Search
  <2>2. ASSUME NEW i \in 0 .. LastIssue, Take(a, i), job[a].step \in {"listing", "searching"}
        PROVE  Bounds'
    <3> DEFINE j == [job[a] EXCEPT !.step = "writing", !.seen = i,
                                   !.open = i # 0 /\ issues[i].open]
    <3>1. Modest(j) /\ job' = [job EXCEPT ![a] = j]
      BY <1>1, <2>1, <2>2 DEF Take, Modest, JobType
    <3> QED
      BY <2>1, <3>1, ModestStep DEF Bounds
  <2>3. CASE List(a) \/ Search(a)
    <3>1. CASE \E i : Take(a, i) /\ (i \in recent \cup indexed \/ i = 0)
      <4>1. PICK i : Take(a, i) /\ (i \in recent \cup indexed \/ i = 0)
        BY <3>1
      <4>2. i \in 0 .. LastIssue
        BY <1>1, <1>2, <4>1 DEF Bounds
      <4> QED
        BY <2>2, <2>3, <4>1, <4>2 DEF List, Search
    <3>2. CASE List(a) /\ job' = [job EXCEPT ![a].step = "searching"]
      <4> DEFINE j == [job[a] EXCEPT !.step = "searching"]
      <4>1. Modest(j) /\ job' = [job EXCEPT ![a] = j]
        BY <1>1, <2>1, <3>2 DEF List, Modest, JobType
      <4> QED
        BY <2>1, <4>1, ModestStep DEF Bounds
    <3> QED
      BY <2>3, <3>1, <3>2 DEF List, Search, ListedIssues, Searched, Matching
  <2>4. CASE NoComment(a)
    <3> DEFINE j == [job[a] EXCEPT !.step = "choosing"]
    <3>1. job' = [job EXCEPT ![a] = j]
      BY <1>1, <2>4 DEF NoComment
    <3>2. j.step = "choosing" /\ j.seen = job[a].seen /\ j.changes = job[a].changes
      BY <2>1 DEF JobType
    <3> HIDE DEF j
    <3>3. Modest(j)
      BY <1>2, <2>1, <3>2 DEF Modest
    <3> QED
      BY <2>1, <3>1, <3>3, ModestStep DEF Bounds
  <2>5. CASE LookForComment(a)
    <3> DEFINE n == IF Ours(FirstPage) = {} THEN 0 ELSE 1
               j == [job[a] EXCEPT !.step = "commenting", !.seen = n]
    <3>1. job' = [job EXCEPT ![a] = j]
      BY <1>1, <2>5 DEF LookForComment
    <3>2. n \in {0, 1}
      OBVIOUS
    <3> HIDE DEF n
    <3>3. j.step = "commenting" /\ j.seen = n /\ j.changes = job[a].changes
      BY <2>1 DEF JobType
    <3> HIDE DEF j
    <3>4. Modest(j)
      BY <1>2, <2>1, <3>2, <3>3 DEF Modest
    <3> QED
      BY <2>1, <3>1, <3>4, ModestStep DEF Bounds
  <2>6. CASE Finish(a)
    <3> DEFINE j == [job[a] EXCEPT !.step = "done"]
    <3>1. job' = [job EXCEPT ![a] = j]
      BY <1>1, <2>6 DEF Finish
    <3>2. j.step = "done" /\ j.seen = job[a].seen /\ j.changes = job[a].changes
      BY <2>1 DEF JobType
    <3> HIDE DEF j
    <3>3. Modest(j)
      BY <1>2, <2>1, <3>2 DEF Modest
    <3> QED
      BY <2>1, <3>1, <3>3, ModestStep DEF Bounds
  <2>7. CASE LeaveAlone(a)
    <3> DEFINE j == [job[a] EXCEPT !.step = "choosing", !.seen = 0, !.item = "none",
                                   !.open = FALSE]
    <3>1. job' = [job EXCEPT ![a] = j]
      BY <1>1, <2>7 DEF LeaveAlone
    <3>2. j.step = "choosing" /\ j.seen = 0 /\ j.changes = job[a].changes
      BY <2>1 DEF JobType
    <3> HIDE DEF j
    <3>3. Modest(j)
      BY <1>2, <2>1, <3>2 DEF Modest
    <3> QED
      BY <2>1, <3>1, <3>3, ModestStep DEF Bounds
  <2>8. ASSUME NEW t \in Test, Choose(a, t) PROVE Bounds'
    <3> DEFINE j == [job[a] EXCEPT !.step = "listing", !.item = t, !.left = @ \ {t}]
    <3>1. job' = [job EXCEPT ![a] = j]
      BY <1>1, <2>8 DEF Choose
    <3>2. j.step = "listing" /\ j.seen = job[a].seen /\ j.changes = job[a].changes
      BY <2>1 DEF JobType
    <3> HIDE DEF j
    <3>3. Modest(j)
      BY <1>2, <2>1, <2>8, <3>2 DEF Modest, Choose
    <3> QED
      BY <2>1, <3>1, <3>3, ModestStep DEF Bounds
  <2> QED
    BY <1>9, <2>3, <2>4, <2>5, <2>6, <2>7, <2>8
<1>10. ASSUME NEW a \in Analyst, NEW arrives \in BOOLEAN, WriteComment(a, arrives)
       PROVE  Bounds'
  <2> DEFINE j == [job[a] EXCEPT !.step = "choosing", !.seen = 0]
  <2>1. job' = [job EXCEPT ![a] = j] /\ job[a] \in JobType /\ Modest(job[a])
    BY <1>1, <1>10 DEF WriteComment, Bounds
  <2>2. j.step = "choosing" /\ j.seen = 0 /\ j.changes = job[a].changes
    BY <2>1 DEF JobType
  <2>3. Modest(j)
    <3> HIDE DEF j
    <3> QED
      BY <1>2, <2>1, <2>2 DEF Modest
  <2>4. Len(thread') \leq LastComment
    BY <1>1, <1>2, <1>10 DEF WriteComment, Bounds
  <2> QED
    BY <1>10, <2>3, <2>4, <2>1, ModestStep DEF WriteComment, Bounds
<1>11. ASSUME NEW a \in Analyst, Effect(a), Seen(job[a]), job[a].step = "writing"
       PROVE  Len(issues') \leq LastIssue
  <2>1. CASE job[a].seen = 0
    BY <1>1, <1>2, <1>11, <2>1 DEF Effect, Written
  <2>2. CASE job[a].seen # 0
    <3>1. job[a].seen \in DOMAIN issues
      BY <1>11, <2>2 DEF Seen
    <3> DEFINE s == job[a].todo[job[a].item]
               new == [test |-> job[a].item, open |-> s # Released, says |-> s]
    <3>2. issues' = [issues EXCEPT ![job[a].seen] = new]
      BY <1>11, <2>2 DEF Effect, Written
    <3> HIDE DEF new
    <3>3. DOMAIN issues' = DOMAIN issues /\ Len(issues') = Len(issues)
      BY <1>1, <3>1, <3>2
    <3> QED
      BY <3>3 DEF Bounds
  <2> QED
    BY <2>1, <2>2
<1>12. ASSUME NEW a \in Analyst, Manage(a) PROVE Bounds'
  <2> DEFINE j == [job[a] EXCEPT !.step = "choosing", !.seen = 0, !.item = "none",
                                 !.open = FALSE, !.changes = @ + 1]
  <2>1. job' = [job EXCEPT ![a] = j] /\ job[a] \in JobType /\ Modest(job[a])
        /\ job[a].step = "writing"
    BY <1>1, <1>12 DEF Manage, Bounds
  <2>2. j.step = "choosing" /\ j.seen = 0 /\ j.changes = job[a].changes + 1
    BY <2>1 DEF JobType
  <2>3. Modest(j)
    <3> HIDE DEF j
    <3> QED
      BY <1>2, <2>1, <2>2 DEF Modest
  <2>4. Len(issues') \leq LastIssue
    BY <1>11, <1>12 DEF Manage, IssuesInv, Fine
  <2> QED
    BY <1>12, <2>3, <2>4, <2>1, ModestStep DEF Manage, Bounds
<1>13. ASSUME NEW a \in Analyst, Fail(a) PROVE Bounds'
  <2> DEFINE j == [Idle EXCEPT !.step = "failed"]
  <2>1. Modest(j)
    BY <1>2 DEF Modest, Idle
  <2>2. job' = [job EXCEPT ![a] = j] /\ UNCHANGED <<thread, analyses>>
    BY <1>13 DEF Fail
  <2>3. Len(issues') \leq LastIssue
    BY <1>11, <1>13 DEF Fail, IssuesInv, Fine, Bounds
  <2> QED
    BY <2>1, <2>2, <2>3, ModestStep DEF Bounds
<1> QED
  BY <1>4, <1>5, <1>6, <1>7, <1>8, <1>9, <1>10, <1>12, <1>13 DEF IssuesNext

\* The issues and the analyses have their types, and no analysis makes more
\* changes than flaky-issue-max-changes, whatever its requests come to
\* (manage_issue_lifecycle).
THEOREM IssuesTyping == IssuesSpec => []IssuesTypeOK
<1>1. IssuesInit => Bounds
  <2> SUFFICES ASSUME IssuesInit PROVE Bounds
    OBVIOUS
  <2>1. \A b \in Analyst : job[b] = Idle
    BY DEF IssuesInit
  <2>2. Modest(Idle)
    BY IssuesAssumption DEF Modest, Idle
  <2> QED
    BY <2>1, <2>2, IssuesAssumption DEF IssuesInit, Bounds
<1>2. IssuesInv /\ Bounds => IssuesTypeOK
  <2> SUFFICES ASSUME IssuesInv, Bounds PROVE IssuesTypeOK
    OBVIOUS
  <2>1. \A i \in DOMAIN issues : i \in Issue /\ issues[i] \in IssueType
    BY IssuesAssumption DEF IssuesInv, Types, Bounds, Issue
  <2>2. \A i \in DOMAIN thread : i \in 1 .. LastComment /\ thread[i] \in {"ours", "other"}
    BY IssuesAssumption DEF IssuesInv, Types, Bounds
  <2>3. ASSUME NEW a \in Analyst
        PROVE  /\ job[a].step \in Steps
               /\ DOMAIN job[a].todo \subseteq Test /\ job[a].left \subseteq DOMAIN job[a].todo
               /\ job[a].seen \in 0 .. LastIssue /\ job[a].changes \in 0 .. MaxChanges
    <3>1. job[a] \in JobType /\ Busy(job[a]) /\ Modest(job[a])
      BY DEF IssuesInv, Types, Fine, Bounds
    <3>2. PICK R \in SUBSET Test : job[a].todo \in [R -> Verdict]
      BY <3>1 DEF JobType
    <3> QED
      BY <3>1, <3>2 DEF JobType, Busy, Modest
  <2> QED
    BY <2>1, <2>2, <2>3 DEF IssuesTypeOK, IssueType, Steps, IssuesInv, Types, Bounds
<1> QED
  BY <1>1, <1>2, BoundsStay, IssuesHold, PTL DEF IssuesSpec

\* Of two issues of one test the second was created in a race, or while an
\* issue was on neither list: for any number of analyses, any order in which
\* issues leave the listing and reach the search, issues that people close and
\* requests that fail after they took effect (find_managed_issue).
THEOREM OneIssue == IssuesSpec => []IssuesUnique
<1>1. IssuesInv => IssuesUnique
  BY DEF IssuesInv
<1> QED  BY <1>1, IssuesHold, PTL

\* Of two comments of ours the second was posted in a race, or the first is
\* beyond the first page, for any size of a page (upsert_pr_comment).
THEOREM OneComment == IssuesSpec => []CommentUnique
<1>1. IssuesInv => CommentUnique
  BY DEF IssuesInv
<1> QED  BY <1>1, IssuesHold, PTL

-------------------------------------------------------------------------------
(* An analysis that nothing disturbs.                                         *)

\* The item that an analysis deals with.
Pending(j) == {t \in {j.item} : j.step \in {"listing", "searching", "writing"}}

Settled(t, s) ==
  /\ s = Released => \A i \in DOMAIN issues : issues[i].test = t => ~issues[i].open
  /\ s \in Creating => \E i \in DOMAIN issues : issues[i].test = t /\ issues[i].open

\* What it saw is still so, and what it has dealt with is settled.
Tidy(j) ==
  j.alone =>
    /\ j.step = "writing" /\ j.seen # 0 => j.open = issues[j.seen].open
    /\ \A t \in DOMAIN j.todo \ (j.left \cup Pending(j) \cup Exempt) : Settled(t, j.todo[t])

Solitary == \A a, b \in Analyst : job[a].alone /\ a # b => ~Running(b)

TidyInv == IssuesInv /\ Solitary /\ \A a \in Analyst : Tidy(job[a])

\* The others have been disturbed when one takes a step.
LEMMA TidyStep ==
  ASSUME TidyInv, NEW a \in Analyst, Running(a), NEW j \in JobType,
         job' = [job EXCEPT ![a] = j], j.alone => job[a].alone, Tidy(job[a])'
  PROVE  Solitary' /\ \A b \in Analyst : Tidy(job[b])'
<1>1. \A b \in Analyst : job'[b] = IF b = a THEN j ELSE job[b]
  BY DEF TidyInv, IssuesInv, Types
<1>2. \A b \in Analyst : b # a => ~job[b].alone
  BY DEF TidyInv, Solitary
<1>3. Solitary'
  BY <1>1, <1>2 DEF TidyInv, Solitary, Running
<1>4. \A b \in Analyst : Tidy(job[b])'
  BY <1>1, <1>2 DEF Tidy
<1> QED  BY <1>3, <1>4

\* A step that leaves the issues alone and settles no item by itself.
LEMMA LookingStep ==
  ASSUME TidyInv, NEW a \in Analyst, Running(a), NEW j \in JobType,
         job' = [job EXCEPT ![a] = j], issues' = issues, raced \subseteq raced', missed \subseteq missed',
         j.alone = job[a].alone, j.todo = job[a].todo,
         job[a].left \cup Pending(job[a]) \subseteq j.left \cup Pending(j) \cup Exempt',
         j.step = "writing" /\ j.seen # 0 => j.open = issues[j.seen].open
  PROVE  Solitary' /\ \A b \in Analyst : Tidy(job[b])'
<1>1. job'[a] = j
  BY DEF TidyInv, IssuesInv, Types
<1>2. Tidy(job[a])
  BY DEF TidyInv
<1>0. Exempt \subseteq Exempt'
  BY DEF Exempt
<1>3. j.alone =>
        \A t \in DOMAIN j.todo \ (j.left \cup Pending(j) \cup Exempt') : Settled(t, j.todo[t])
  BY <1>0, <1>2 DEF Tidy
<1>4. Tidy(job[a])'
  BY <1>1, <1>3 DEF Tidy, Pending, Settled
<1> QED  BY <1>4, TidyStep

LEMMA TidyCommenting ==
  ASSUME TidyInv, NEW a \in Analyst, NEW arrives \in BOOLEAN,
         NoComment(a) \/ LookForComment(a) \/ WriteComment(a, arrives)
  PROVE  Solitary' /\ \A b \in Analyst : Tidy(job[b])'
<1>1. job \in [Analyst -> JobType] /\ job[a] \in JobType
  BY DEF TidyInv, IssuesInv, Types
<1>2. ASSUME NEW j \in JobType, job' = [job EXCEPT ![a] = j], issues' = issues,
             raced \subseteq raced', missed' = missed, Running(a), j.step \in {"commenting", "choosing"},
             job[a].step \in {"looking", "commenting"}, j.left = job[a].left,
             j.alone = job[a].alone, j.todo = job[a].todo
      PROVE  Solitary' /\ \A b \in Analyst : Tidy(job[b])'
  <2>1. Pending(job[a]) = {} /\ j.step # "writing"
    BY <1>2 DEF Pending
  <2> QED  BY <1>2, <2>1, LookingStep
<1>3. CASE NoComment(a)
  <2> DEFINE j == [job[a] EXCEPT !.step = "choosing"]
  <2>1. /\ job[a].step = "looking" /\ job' = [job EXCEPT ![a] = j]
        /\ UNCHANGED <<issues, raced, missed>>
    BY <1>1, <1>3 DEF NoComment
  <2>2. /\ j \in JobType /\ j.step = "choosing" /\ j.left = job[a].left
        /\ j.todo = job[a].todo /\ j.alone = job[a].alone
    BY <1>1 DEF JobType, Steps
  <2> HIDE DEF j
  <2> QED  BY <1>2, <2>1, <2>2 DEF Running
<1>4. CASE LookForComment(a)
  <2> DEFINE n == IF Ours(FirstPage) = {} THEN 0 ELSE 1
             j == [job[a] EXCEPT !.step = "commenting", !.seen = n]
  <2>1. /\ job[a].step = "looking" /\ job' = [job EXCEPT ![a] = j]
        /\ UNCHANGED <<issues, raced, missed>>
    BY <1>1, <1>4 DEF LookForComment
  <2>2. n \in Nat
    OBVIOUS
  <2> HIDE DEF n
  <2>3. /\ j \in JobType /\ j.step = "commenting" /\ j.left = job[a].left
        /\ j.todo = job[a].todo /\ j.alone = job[a].alone
    BY <1>1, <2>2 DEF JobType, Steps
  <2> HIDE DEF j
  <2> QED  BY <1>2, <2>1, <2>3 DEF Running
<1>5. CASE WriteComment(a, arrives)
  <2> DEFINE j == [job[a] EXCEPT !.step = "choosing", !.seen = 0]
  <2>1. /\ job[a].step = "commenting" /\ job' = [job EXCEPT ![a] = j]
        /\ issues' = issues /\ raced \subseteq raced' /\ missed' = missed
    BY <1>1, <1>5 DEF WriteComment
  <2>2. /\ j \in JobType /\ j.step = "choosing" /\ j.left = job[a].left
        /\ j.todo = job[a].todo /\ j.alone = job[a].alone
    BY <1>1 DEF JobType, Steps
  <2> HIDE DEF j
  <2> QED  BY <1>2, <2>1, <2>2 DEF Running
<1> QED  BY <1>3, <1>4, <1>5

LEMMA TidySearching ==
  ASSUME TidyInv, NEW a \in Analyst,
         (\E t \in Test : Choose(a, t)) \/ Finish(a) \/ List(a) \/ Search(a)
  PROVE  Solitary' /\ \A b \in Analyst : Tidy(job[b])'
<1>1. job \in [Analyst -> JobType] /\ job[a] \in JobType /\ issues \in Seq(IssueType)
  BY DEF TidyInv, IssuesInv, Types
<1>2. ASSUME NEW t \in Test, Choose(a, t)
      PROVE  Solitary' /\ \A b \in Analyst : Tidy(job[b])'
  <2> DEFINE j == [job[a] EXCEPT !.step = "listing", !.item = t, !.left = @ \ {t}]
  <2>1. /\ job[a].step = "choosing" /\ job' = [job EXCEPT ![a] = j]
        /\ UNCHANGED <<issues, raced, missed>>
    BY <1>1, <1>2 DEF Choose
  <2>2. /\ j \in JobType /\ j.step = "listing" /\ j.left = job[a].left \ {t} /\ j.item = t
        /\ j.todo = job[a].todo /\ j.alone = job[a].alone
    BY <1>1 DEF JobType, Steps
  <2> HIDE DEF j
  <2>3. Pending(job[a]) = {} /\ Pending(j) = {t}
    BY <2>1, <2>2 DEF Pending
  <2> QED  BY <2>1, <2>2, <2>3, LookingStep DEF Running
<1>3. CASE Finish(a)
  <2> DEFINE j == [job[a] EXCEPT !.step = "done"]
  <2>1. /\ job[a].step = "choosing" /\ job' = [job EXCEPT ![a] = j]
        /\ UNCHANGED <<issues, raced, missed>>
    BY <1>1, <1>3 DEF Finish
  <2>2. /\ j \in JobType /\ j.step = "done" /\ j.left = job[a].left
        /\ j.todo = job[a].todo /\ j.alone = job[a].alone
    BY <1>1 DEF JobType, Steps
  <2> HIDE DEF j
  <2>3. Pending(job[a]) = {}
    BY <2>1 DEF Pending
  <2> QED  BY <2>1, <2>2, <2>3, LookingStep DEF Running
<1>4. ASSUME NEW i \in Nat, Take(a, i), job[a].step \in {"listing", "searching"},
             UNCHANGED <<issues, raced, missed>>, i # 0 => i \in DOMAIN issues
      PROVE  Solitary' /\ \A b \in Analyst : Tidy(job[b])'
  <2> DEFINE o == i # 0 /\ issues[i].open
             j == [job[a] EXCEPT !.step = "writing", !.seen = i, !.open = o]
  <2>1. job' = [job EXCEPT ![a] = j]
    BY <1>1, <1>4 DEF Take
  <2>2. o \in BOOLEAN
    OBVIOUS
  <2>3. ASSUME i # 0 PROVE o = issues[i].open
    <3>1. issues[i] \in IssueType
      BY <1>1, <1>4, <2>3
    <3>2. issues[i].open \in BOOLEAN
      BY <3>1 DEF IssueType
    <3> QED  BY <2>3, <3>2, Zenon
  <2> HIDE DEF o
  <2>4. /\ j \in JobType /\ j.step = "writing" /\ j.seen = i /\ j.open = o
        /\ j.left = job[a].left /\ j.todo = job[a].todo /\ j.item = job[a].item
        /\ j.alone = job[a].alone
    BY <1>1, <2>2 DEF JobType, Steps
  <2> HIDE DEF j
  <2>5. Pending(j) = Pending(job[a])
    BY <1>4, <2>4 DEF Pending
  <2> QED  BY <1>4, <2>1, <2>3, <2>4, <2>5, LookingStep DEF Running
<1>5. ASSUME NEW i \in Matching(job[a].item, recent \cup indexed) PROVE i \in Nat /\ i \in DOMAIN issues
  <2>1. recent \cup indexed \subseteq DOMAIN issues
    BY DEF TidyInv, IssuesInv, Types
  <2> QED  BY <1>1, <1>5, <2>1 DEF Matching
<1>6. CASE List(a)
  <2>1. job[a].step = "listing" /\ UNCHANGED <<issues, raced>>
    BY <1>6 DEF List
  <2>2. ASSUME NEW i \in ListedIssues(job[a].item), Take(a, i), UNCHANGED missed
        PROVE  Solitary' /\ \A b \in Analyst : Tidy(job[b])'
    <3>1. i \in Nat /\ i \in DOMAIN issues
      BY <1>5, <2>2 DEF ListedIssues, Matching
    <3> QED  BY <1>4, <2>1, <2>2, <3>1
  <2>3. CASE job' = [job EXCEPT ![a].step = "searching"] /\ missed \subseteq missed'
    <3> DEFINE j == [job[a] EXCEPT !.step = "searching"]
    <3>1. job' = [job EXCEPT ![a] = j]
      BY <1>1, <2>3
    <3>2. /\ j \in JobType /\ j.step = "searching" /\ j.left = job[a].left
          /\ j.todo = job[a].todo /\ j.item = job[a].item /\ j.alone = job[a].alone
      BY <1>1 DEF JobType, Steps
    <3> HIDE DEF j
    <3>3. Pending(j) = Pending(job[a])
      BY <2>1, <3>2 DEF Pending
    <3> QED  BY <2>1, <2>3, <3>1, <3>2, <3>3, LookingStep DEF Running
  <2> QED  BY <1>6, <2>2, <2>3 DEF List
<1>7. CASE Search(a)
  <2>1. job[a].step = "searching" /\ UNCHANGED <<issues, raced, missed>>
    BY <1>7 DEF Search
  <2>2. ASSUME NEW i \in Searched(job[a].item), Take(a, i)
        PROVE  Solitary' /\ \A b \in Analyst : Tidy(job[b])'
    <3>1. i \in Nat /\ i \in DOMAIN issues
      BY <1>5, <2>2 DEF Searched, Matching
    <3> QED  BY <1>4, <2>1, <2>2, <3>1
  <2>3. CASE Take(a, 0)
    BY <1>4, <2>1, <2>3
  <2> QED  BY <1>7, <2>2, <2>3 DEF Search
<1> QED  BY <1>2, <1>3, <1>6, <1>7

\* The issue seen is the only one of its test, and if none was seen there is none.
LEMMA OnlyIssue ==
  ASSUME IssuesInv, NEW a \in Analyst, job[a].step = "writing", job[a].item \notin Exempt
  PROVE  /\ job[a].seen # 0 => /\ job[a].seen \in DOMAIN issues
                               /\ issues[job[a].seen].test = job[a].item
         /\ \A i \in DOMAIN issues : issues[i].test = job[a].item => i = job[a].seen
<1>1. Seen(job[a]) /\ Unseen(job[a]) /\ IssuesUnique
  BY DEF IssuesInv, Fine
<1>2. job[a].seen # 0 => /\ job[a].seen \in DOMAIN issues
                         /\ issues[job[a].seen].test = job[a].item
  BY <1>1 DEF Seen
<1>3. ASSUME NEW i \in DOMAIN issues, issues[i].test = job[a].item PROVE i = job[a].seen
  <2>1. job[a].seen # 0
    BY <1>1, <1>3 DEF Unseen
  <2> QED  BY <1>1, <1>2, <1>3, <2>1 DEF IssuesUnique
<1> QED  BY <1>2, <1>3

\* What an analysis writes is what it has decided of the test, and of no other.
LEMMA WrittenSettles ==
  ASSUME IssuesInv, NEW a \in Analyst, job[a].step = "writing", Effect(a), missed' = missed
  PROVE  /\ Exempt \subseteq Exempt'
         /\ \A u, s :
              \/ u = job[a].item /\ s = job[a].todo[u] /\ u \notin Exempt
              \/ u # job[a].item /\ Settled(u, s)
              => Settled(u, s)'
<1> DEFINE t == job[a].item
           d == job[a].todo[t]
           r == [test |-> t, open |-> d # Released, says |-> d]
           n == IF job[a].seen = 0 THEN Len(issues) + 1 ELSE job[a].seen
<1>1. issues \in Seq(IssueType) /\ Seen(job[a])
  BY DEF IssuesInv, Types, Fine
<1>2. issues' = IF job[a].seen = 0 THEN Append(issues, r) ELSE [issues EXCEPT ![job[a].seen] = r]
  BY DEF Effect, Written
<1>3. r.test = t /\ r.open = (d # Released)
  OBVIOUS
<1> HIDE DEF r
<1>4. /\ DOMAIN issues' = DOMAIN issues \cup {n} /\ issues'[n] = r
      /\ \A i \in DOMAIN issues : i # n => issues'[i] = issues[i]
      /\ n \in DOMAIN issues => issues[n].test = t
  <2>1. CASE job[a].seen = 0
    <3>1. /\ DOMAIN issues = 1 .. Len(issues) /\ Len(issues) \in Nat
          /\ DOMAIN issues' = 1 .. (Len(issues) + 1) /\ issues'[Len(issues) + 1] = r
          /\ \A i \in DOMAIN issues : issues'[i] = issues[i]
      BY <1>1, <1>2, <2>1
    <3> QED  BY <2>1, <3>1
  <2>2. CASE job[a].seen # 0
    <3>1. job[a].seen \in DOMAIN issues /\ issues[job[a].seen].test = t
      BY <1>1, <2>2 DEF Seen
    <3> QED  BY <1>1, <1>2, <2>2, <3>1
  <2> QED  BY <2>1, <2>2
<1>5. t \notin Exempt => \A i \in DOMAIN issues : issues[i].test = t => i = n
  <2> HIDE DEF t
  <2>1. ASSUME t \notin Exempt, NEW i \in DOMAIN issues, issues[i].test = t PROVE i = n
    <3>1. i = job[a].seen
      BY <2>1, OnlyIssue DEF t
    <3>2. i # 0
      BY <1>1
    <3> QED  BY <3>1, <3>2
  <2> QED  BY <2>1
<1> HIDE DEF n
<1>6. Exempt \subseteq Exempt'
  BY DEF Effect, Exempt
<1>7. ASSUME NEW u, NEW s, u = t, s = job[a].todo[u], u \notin Exempt PROVE Settled(u, s)'
  <2>1. \A i \in DOMAIN issues' : issues'[i].test = u => i = n
    BY <1>4, <1>5, <1>7
  <2>2. issues'[n].test = u /\ issues'[n].open = (s # Released) /\ n \in DOMAIN issues'
    BY <1>3, <1>4, <1>7
  <2>3. Released \notin Creating
    BY DEF Released, Creating
  <2> QED  BY <2>1, <2>2, <2>3 DEF Settled
<1>8. ASSUME NEW u, NEW s, u # t, Settled(u, s) PROVE Settled(u, s)'
  <2>1. \A i \in DOMAIN issues' :
          issues'[i].test = u => i \in DOMAIN issues /\ issues'[i] = issues[i]
    BY <1>3, <1>4, <1>8
  <2>2. \A i \in DOMAIN issues :
          issues[i].test = u => i \in DOMAIN issues' /\ issues'[i] = issues[i]
    BY <1>4, <1>8
  <2> QED  BY <1>8, <2>1, <2>2 DEF Settled
<1> QED  BY <1>6, <1>7, <1>8

LEMMA TidyWriting ==
  ASSUME TidyInv, NEW a \in Analyst, Manage(a) \/ LeaveAlone(a) \/ Fail(a)
  PROVE  Solitary' /\ \A b \in Analyst : Tidy(job[b])'
<1>1. /\ job \in [Analyst -> JobType] /\ job[a] \in JobType /\ issues \in Seq(IssueType)
      /\ IssuesInv /\ Tidy(job[a])
  BY DEF TidyInv, IssuesInv, Types
<1> DEFINE t == job[a].item
           d == job[a].todo[t]
<1>2. ASSUME Manage(a) PROVE Solitary' /\ \A b \in Analyst : Tidy(job[b])'
  <2> DEFINE j == [job[a] EXCEPT !.step = "choosing", !.seen = 0, !.item = "none",
                                 !.open = FALSE, !.changes = @ + 1]
  <2>1. /\ job[a].step = "writing" /\ Effect(a) /\ job' = [job EXCEPT ![a] = j]
        /\ missed' = missed
    BY <1>1, <1>2 DEF Manage
  <2>2. /\ j \in JobType /\ j.step = "choosing" /\ j.left = job[a].left
        /\ j.todo = job[a].todo /\ j.alone = job[a].alone
    BY <1>1, NextItem DEF JobType
  <2> HIDE DEF j
  <2>3. job'[a] = j
    BY <1>1, <2>1
  <2>4. Pending(job[a]) = {t}
    BY <2>1 DEF Pending
  <2>5. /\ Exempt \subseteq Exempt'
        /\ \A u, s : \/ u = job[a].item /\ s = job[a].todo[u] /\ u \notin Exempt
                     \/ u # job[a].item /\ Settled(u, s)
                     => Settled(u, s)'
    BY <1>1, <2>1, WrittenSettles
  <2>6. ASSUME j.alone, NEW u \in DOMAIN j.todo, u \notin j.left, u \notin Exempt',
               NEW s, s = job[a].todo[u]
        PROVE  Settled(u, s)'
    <3>1. u \notin Exempt
      BY <2>5, <2>6
    <3>2. u # t => Settled(u, s)
      BY <1>1, <2>2, <2>4, <2>6, <3>1 DEF Tidy
    <3> QED  BY <2>5, <2>6, <3>1, <3>2
  <2>7. Tidy(job[a])'
    <3>1. j.step # "writing" /\ Pending(j) = {}
      BY <2>2 DEF Pending
    <3> QED  BY <2>2, <2>3, <2>6, <3>1 DEF Tidy, Settled
  <2> QED  BY <2>1, <2>2, <2>7, TidyStep DEF Running
<1>3. ASSUME LeaveAlone(a) PROVE Solitary' /\ \A b \in Analyst : Tidy(job[b])'
  <2> DEFINE j == [job[a] EXCEPT !.step = "choosing", !.seen = 0, !.item = "none",
                                 !.open = FALSE]
  <2>1. /\ job[a].step = "writing" /\ job' = [job EXCEPT ![a] = j]
        /\ UNCHANGED <<issues, raced, missed>> /\ (~Managed(a) \/ Same(a))
    BY <1>1, <1>3 DEF LeaveAlone
  <2>2. /\ j \in JobType /\ j.step = "choosing" /\ j.left = job[a].left
        /\ j.todo = job[a].todo /\ j.alone = job[a].alone
    BY <1>1 DEF JobType, Steps
  <2> HIDE DEF j
  <2>3. job'[a] = j
    BY <1>1, <2>1
  <2>4. Pending(job[a]) = {t}
    BY <2>1 DEF Pending
  <2>5. ASSUME job[a].alone, t \notin Exempt PROVE Settled(t, d)
    <3>1. /\ job[a].seen # 0 => /\ job[a].seen \in DOMAIN issues
                                /\ issues[job[a].seen].test = t
                                /\ job[a].open = issues[job[a].seen].open
          /\ \A i \in DOMAIN issues : issues[i].test = t => i = job[a].seen
      BY <1>1, <2>1, <2>5, OnlyIssue DEF Tidy
    <3>2. ~(0 \in DOMAIN issues)
      BY <1>1
    <3>3. CASE d = Released
      <4>1. job[a].seen = 0 \/ ~job[a].open
        BY <2>1, <3>3 DEF Managed, Same
      <4>2. Released \notin Creating
        BY DEF Released, Creating
      <4> QED  BY <3>1, <3>2, <3>3, <4>1, <4>2 DEF Settled
    <3>4. CASE d \in Creating /\ d # Released
      <4>1. job[a].seen # 0 /\ job[a].open
        BY <2>1, <3>4 DEF Managed, Same
      <4> QED  BY <3>1, <3>4, <4>1 DEF Settled
    <3>5. CASE d \notin Creating /\ d # Released
      BY <3>5 DEF Settled
    <3> QED  BY <3>3, <3>4, <3>5
  <2>6. ASSUME j.alone, NEW u \in DOMAIN j.todo, u \notin j.left, u \notin Exempt
        PROVE  Settled(u, j.todo[u])
    BY <1>1, <2>2, <2>4, <2>5, <2>6 DEF Tidy
  <2>7. Tidy(job[a])'
    <3>1. j.step # "writing" /\ Pending(j) = {}
      BY <2>2 DEF Pending
    <3>2. Exempt' = Exempt
      BY <2>1 DEF Exempt
    <3> QED  BY <2>1, <2>3, <2>6, <3>1, <3>2 DEF Tidy, Settled
  <2> QED  BY <2>1, <2>2, <2>7, TidyStep DEF Running
<1>4. ASSUME Fail(a) PROVE Solitary' /\ \A b \in Analyst : Tidy(job[b])'
  <2> DEFINE j == [Idle EXCEPT !.step = "failed"]
  <2>1. job' = [job EXCEPT ![a] = j] /\ job[a].step \in {"listing", "searching", "writing"}
    BY <1>4 DEF Fail
  <2>2. j \in JobType /\ j.alone = FALSE
    BY IdleJob DEF Idle, JobType, Steps
  <2> HIDE DEF j
  <2>3. Tidy(job[a])'
    BY <1>1, <2>1, <2>2 DEF Tidy
  <2> QED  BY <2>1, <2>2, <2>3, TidyStep DEF Running
<1> QED  BY <1>2, <1>3, <1>4

LEMMA TidyBeginning ==
  ASSUME TidyInv, NEW a \in Analyst, NEW R \in SUBSET Test, NEW todo \in [R -> Verdict],
         NEW again \in BOOLEAN, Begin(a, todo, again)
  PROVE  Solitary' /\ \A b \in Analyst : Tidy(job[b])'
<1> DEFINE alone == \A b \in Analyst : ~Running(b)
           j == [Idle EXCEPT !.step = "looking", !.todo = todo, !.left = DOMAIN todo,
                             !.again = again, !.alone = alone]
<1>1. job \in [Analyst -> JobType]
  BY DEF TidyInv, IssuesInv, Types
<1>2. j.step = "looking" /\ j.left = DOMAIN j.todo /\ j.alone = alone
  BY DEF Idle
<1>3. job' = [[b \in Analyst |-> [job[b] EXCEPT !.alone = FALSE]] EXCEPT ![a] = j]
  BY DEF Begin, Disturbed
<1> HIDE DEF j
<1>4. \A b \in Analyst : job'[b] = IF b = a THEN j ELSE [job[b] EXCEPT !.alone = FALSE]
  BY <1>3
<1>5. \A b \in Analyst : b # a => job'[b].step = job[b].step /\ job'[b].alone = FALSE
  BY <1>1, <1>4, ZenonT(40) DEF JobType
<1>6. Solitary'
  BY <1>2, <1>4, <1>5 DEF Solitary, Running
<1>7. \A b \in Analyst : Tidy(job[b])'
  BY <1>2, <1>4, <1>5 DEF Tidy
<1> QED  BY <1>6, <1>7

LEMMA TidySteps == TidyInv /\ [IssuesNext]_issuesVars => TidyInv'
<1> SUFFICES ASSUME TidyInv, [IssuesNext]_issuesVars
             PROVE  Solitary' /\ \A b \in Analyst : Tidy(job[b])'
  BY IssuesSteps DEF TidyInv
<1>1. ASSUME UNCHANGED <<issues, job, raced, missed>> PROVE Solitary' /\ \A b \in Analyst : Tidy(job[b])'
  <2>1. Solitary'
    BY <1>1 DEF TidyInv, Solitary, Running
  <2>2. \A b \in Analyst : Tidy(job[b])'
    BY <1>1 DEF TidyInv, Tidy, Pending, Settled, Exempt
  <2> QED  BY <2>1, <2>2
<1>2. CASE UNCHANGED issuesVars \/ Comment \/ \E i \in Issue : Bury(i) \/ IndexIssue(i)
  BY <1>1, <1>2 DEF issuesVars, Comment, Bury, IndexIssue
<1>3. ASSUME NEW i \in Issue, Toggle(i) PROVE Solitary' /\ \A b \in Analyst : Tidy(job[b])'
  <2>1. \A b \in Analyst : job[b] \in JobType /\ job'[b] = [job[b] EXCEPT !.alone = FALSE]
    BY <1>3 DEF TidyInv, IssuesInv, Types, Toggle, Disturbed
  <2>2. \A b \in Analyst : job'[b].alone = FALSE
    BY <2>1 DEF JobType
  <2> QED  BY <2>2 DEF Solitary, Tidy
<1>4. ASSUME NEW a \in Analyst, NEW R \in SUBSET Test, NEW again \in BOOLEAN,
             \E todo \in [R -> Verdict] : Begin(a, todo, again)
      PROVE  Solitary' /\ \A b \in Analyst : Tidy(job[b])'
  BY <1>4, TidyBeginning
<1>5. ASSUME NEW a \in Analyst, NEW arrives \in BOOLEAN,
             NoComment(a) \/ LookForComment(a) \/ WriteComment(a, arrives)
      PROVE  Solitary' /\ \A b \in Analyst : Tidy(job[b])'
  BY <1>5, TidyCommenting
<1>6. ASSUME NEW a \in Analyst,
             (\E t \in Test : Choose(a, t)) \/ Finish(a) \/ List(a) \/ Search(a)
      PROVE  Solitary' /\ \A b \in Analyst : Tidy(job[b])'
  BY <1>6, TidySearching
<1>7. ASSUME NEW a \in Analyst, Manage(a) \/ LeaveAlone(a) \/ Fail(a)
      PROVE  Solitary' /\ \A b \in Analyst : Tidy(job[b])'
  BY <1>7, TidyWriting
<1>8. ASSUME NEW a \in Analyst,
             \E R \in SUBSET Test, again \in BOOLEAN :
               \E todo \in [R -> Verdict] : Begin(a, todo, again)
      PROVE  Solitary' /\ \A b \in Analyst : Tidy(job[b])'
  BY <1>4, <1>8
<1>9. CASE IssuesNext
  BY <1>2, <1>3, <1>5, <1>6, <1>7, <1>8, <1>9 DEF IssuesNext
<1> QED  BY <1>2, <1>9

\* An analysis that nothing disturbed leaves an open issue for each test that it
\* dealt with, or none that is open if the test was released, unless an issue of
\* the test was once on neither list or created in a race: however many other
\* analyses there were before or after (manage_issue_lifecycle).
THEOREM Settling == IssuesSpec => []SettledAsSeen
<1>1. IssuesInit => TidyInv
  <2> SUFFICES ASSUME IssuesInit PROVE TidyInv
    OBVIOUS
  <2>1. \A b \in Analyst : job[b].alone = FALSE
    BY DEF IssuesInit, Idle
  <2> QED  BY <2>1, IssuesStart DEF TidyInv, Solitary, Tidy
<1>2. TidyInv => SettledAsSeen
  <2> SUFFICES ASSUME TidyInv, NEW a \in Analyst, job[a].step = "done", job[a].alone,
                      NEW t \in DOMAIN job[a].todo \ (job[a].left \cup Exempt)
               PROVE  Settled(t, job[a].todo[t])
    BY DEF SettledAsSeen, Settled
  <2>1. Pending(job[a]) = {} /\ Tidy(job[a])
    BY DEF Pending, TidyInv
  <2> QED  BY <2>1 DEF Tidy
<1> QED  BY <1>1, <1>2, TidySteps, PTL DEF IssuesSpec
===============================================================================
