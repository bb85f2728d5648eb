------------------------------ MODULE FlakyIssues ------------------------------
(***************************************************************************)
(* The second half of flaky_test_history.py: what an analysis writes on    *)
(* GitHub.  flaky_triage.py keeps one comment on the pull request, and     *)
(* flaky_issue_lifecycle.py one issue for each test it reports.  Both look *)
(* for their marker and then write; analyses of several runs may be under  *)
(* way at a time, people comment and close issues, and any request may     *)
(* fail, after it has taken effect or before.                              *)
(***************************************************************************)
EXTENDS Naturals, Sequences, FiniteSets

CONSTANTS
  Analyst,       \* analyses that may be under way at a time
  Test,          \* tests they report
  Verdict,        \* the statuses they report them with
  MaxChanges,    \* flaky-issue-max-changes
  Page,          \* comments on a page
  LastIssue,     \* bound: issues
  LastComment,   \* bound: comments
  LastAnalysis   \* bound: analyses

Creating == {"BLOCKED_REGRESSION", "QUARANTINE_CANDIDATE", "INVESTIGATE", "ACTIVE",
             "EXPIRED", "BLOCKED_UNVERIFIED"}
Released == "RELEASED_HEALTHY"
Refused == "DO_NOT_QUARANTINE"
ASSUME IssuesAssumption ==
  /\ Verdict \subseteq Creating \cup {Released, Refused}
  /\ Page \in Nat /\ MaxChanges \in Nat
  /\ LastIssue \in Nat \ {0} /\ LastComment \in Nat /\ LastAnalysis \in Nat

\* _ISSUE_PRIORITY
Priority == <<Released, "BLOCKED_REGRESSION", "QUARANTINE_CANDIDATE", "ACTIVE", "EXPIRED",
              "BLOCKED_UNVERIFIED", "INVESTIGATE", Refused>>
Rank(s) == CHOOSE i \in DOMAIN Priority : Priority[i] = s

Issue == 1 .. LastIssue

VARIABLES
  issues,     \* the issues made: test, whether open, what the text says
  recent,     \* those among the issues updated last
  indexed,    \* those the search finds
  thread,     \* the comments of the pull request: "ours" or "other"
  job,        \* job[a]: where analysis a is
  analyses,   \* how many have begun
  raced,      \* history: the tests created, and "comment" posted, while
              \* another analysis had looked for them and not yet written
  missed      \* history: the tests looked for while an issue of theirs was
              \* neither among those updated last nor known to the search

issuesVars == <<issues, recent, indexed, thread, job, analyses, raced, missed>>

Idle == [step |-> "idle", todo |-> <<>>, left |-> {}, item |-> "none", seen |-> 0,
         open |-> FALSE, again |-> FALSE, changes |-> 0, alone |-> FALSE]

IssuesInit ==
  /\ issues = <<>> /\ recent = {} /\ indexed = {}
  /\ thread = <<>>
  /\ job = [a \in Analyst |-> Idle]
  /\ analyses = 0
  /\ raced = {} /\ missed = {}

IssuesTypeOK ==
  /\ \A i \in DOMAIN issues :
       i \in Issue /\ issues[i] \in [test : Test, open : BOOLEAN, says : Verdict]
  /\ recent \cup indexed \subseteq DOMAIN issues
  /\ \A i \in DOMAIN thread : i \in 1 .. LastComment /\ thread[i] \in {"ours", "other"}
  /\ \A a \in Analyst :
       /\ job[a].step \in {"idle", "looking", "commenting", "choosing", "listing", "searching",
                           "writing", "done", "failed"}
       /\ DOMAIN job[a].todo \subseteq Test /\ job[a].left \subseteq DOMAIN job[a].todo
       /\ job[a].seen \in 0 .. LastIssue /\ job[a].changes \in 0 .. MaxChanges
  /\ analyses \in 0 .. LastAnalysis

Running(a) == job[a].step \notin {"idle", "done", "failed"}
Disturbed(j) == [a \in Analyst |-> [j[a] EXCEPT !.alone = FALSE]]

-------------------------------------------------------------------------------
(* The environment.                                                        *)

\* The issue leaves the issues updated last, whether the search knows it or not.
Bury(i) ==
  /\ i \in recent
  /\ recent' = recent \ {i}
  /\ UNCHANGED <<issues, indexed, thread, job, analyses, raced, missed>>

IndexIssue(i) ==
  /\ i \in DOMAIN issues \ indexed
  /\ indexed' = indexed \cup {i}
  /\ UNCHANGED <<issues, recent, thread, job, analyses, raced, missed>>

\* Somebody closes an issue, or opens it again.
Toggle(i) ==
  /\ i \in DOMAIN issues
  /\ issues' = [issues EXCEPT ![i].open = ~@]
  /\ recent' = recent \cup {i}
  /\ job' = Disturbed(job)
  /\ UNCHANGED <<indexed, thread, analyses, raced, missed>>

Comment ==
  /\ Len(thread) < LastComment
  /\ thread' = Append(thread, "other")
  /\ UNCHANGED <<issues, recent, indexed, job, analyses, raced, missed>>

-------------------------------------------------------------------------------
(* upsert_pr_comment                                                       *)

\* build_triage_items: one status for each test reported.
Begin(a, todo, again) ==
  /\ ~Running(a) /\ analyses < LastAnalysis
  /\ analyses' = analyses + 1
  /\ job' = [Disturbed(job) EXCEPT ![a] =
       [Idle EXCEPT !.step = "looking", !.todo = todo, !.left = DOMAIN todo,
                    !.again = again, !.alone = \A b \in Analyst : ~Running(b)]]
  /\ UNCHANGED <<issues, recent, indexed, thread, raced, missed>>

\* What FirstPage would be if the listing were in the order of issues.
LastPage == {i \in DOMAIN thread : i > Len(thread) - Page}
FirstPage == {i \in DOMAIN thread : i \leq Page}
Ours(c) == {i \in c : thread[i] = "ours"}

\* Comments are not asked for, or no pull request is known, or the listing fails.
NoComment(a) ==
  /\ job[a].step = "looking"
  /\ job' = [job EXCEPT ![a].step = "choosing"]
  /\ UNCHANGED <<issues, recent, indexed, thread, analyses, raced, missed>>

LookForComment(a) ==
  /\ job[a].step = "looking"
  /\ job' = [job EXCEPT ![a].step = "commenting",
                        ![a].seen = IF Ours(FirstPage) = {} THEN 0 ELSE 1]
  /\ UNCHANGED <<issues, recent, indexed, thread, analyses, raced, missed>>

\* A comment found is replaced, which the thread does not show.
WriteComment(a, arrives) ==
  /\ job[a].step = "commenting"
  /\ job' = [job EXCEPT ![a].step = "choosing", ![a].seen = 0]
  /\ IF job[a].seen = 1 \/ ~arrives THEN UNCHANGED <<thread, raced>>
     ELSE /\ Len(thread) < LastComment
          /\ thread' = Append(thread, "ours")
          /\ raced' = raced \cup
               {x \in {"comment"} : \E b \in Analyst \ {a} :
                  job[b].step = "commenting" /\ job[b].seen = 0}
  /\ UNCHANGED <<issues, recent, indexed, analyses, missed>>

-------------------------------------------------------------------------------
(* find_managed_issue                                                      *)

First(a) == {t \in job[a].left : \A u \in job[a].left :
               Rank(job[a].todo[t]) \leq Rank(job[a].todo[u])}

Matching(t, s) == {i \in s : issues[i].test = t}

\* The next item, the most urgent first, while changes may be made.
Choose(a, t) ==
  /\ job[a].step = "choosing"
  /\ job[a].changes < MaxChanges /\ t \in First(a)
  /\ job' = [job EXCEPT ![a].step = "listing", ![a].item = t, ![a].left = @ \ {t}]
  /\ UNCHANGED <<issues, recent, indexed, thread, analyses, raced, missed>>

\* What is left when no change may be made is deferred.
Finish(a) ==
  /\ job[a].step = "choosing"
  /\ job[a].left = {} \/ job[a].changes >= MaxChanges
  /\ job' = [job EXCEPT ![a].step = "done"]
  /\ UNCHANGED <<issues, recent, indexed, thread, analyses, raced, missed>>

\* What ListedIssues would be if only open issues were listed.
OpenListed(t) == {i \in Matching(t, recent) : issues[i].open}
ListedIssues(t) == Matching(t, recent)

Searched(t) == Matching(t, indexed)

Take(a, i) ==
  job' = [job EXCEPT ![a].step = "writing", ![a].seen = i,
                     ![a].open = i # 0 /\ issues[i].open]

Hidden == DOMAIN issues \ (recent \cup indexed)

List(a) ==
  /\ job[a].step = "listing"
  /\ \/ \E i \in ListedIssues(job[a].item) : Take(a, i) /\ UNCHANGED missed
     \/ /\ ListedIssues(job[a].item) = {}
        /\ job' = [job EXCEPT ![a].step = "searching"]
        /\ missed' = missed \cup {t \in {job[a].item} : Matching(t, Hidden) # {}}
  /\ UNCHANGED <<issues, recent, indexed, thread, analyses, raced>>

Search(a) ==
  /\ job[a].step = "searching"
  /\ \/ \E i \in Searched(job[a].item) : Take(a, i)
     \/ Searched(job[a].item) = {} /\ Take(a, 0)
  /\ UNCHANGED <<issues, recent, indexed, thread, analyses, raced, missed>>

-------------------------------------------------------------------------------
(* manage_issue_for_item                                                   *)

\* What Managed would be if an issue were kept only where there is one.
ManagedIfFound(a) ==
  IF job[a].todo[job[a].item] = Released THEN job[a].seen # 0 /\ job[a].open
  ELSE job[a].seen # 0
Managed(a) ==
  LET s == job[a].todo[job[a].item]
  IN  IF s = Released THEN job[a].seen # 0 /\ job[a].open
      ELSE s \in Creating \/ job[a].seen # 0

\* The issue is created, or replaced whatever has become of it since it was seen.
Written(a) ==
  LET s == job[a].todo[job[a].item]
      new == [test |-> job[a].item, open |-> s # Released, says |-> s]
  IN  IF job[a].seen = 0 THEN Append(issues, new)
      ELSE [issues EXCEPT ![job[a].seen] = new]

\* An open issue that says it all already: the same run analysed again.
Same(a) ==
  LET s == job[a].todo[job[a].item]
  IN  /\ job[a].again /\ s # Released
      /\ job[a].seen # 0 /\ job[a].open /\ issues[job[a].seen].says = s

Waiting(b, t) == job[b].step \in {"searching", "writing"} /\ job[b].item = t /\ job[b].seen = 0

Effect(a) ==
  LET i == IF job[a].seen = 0 THEN Len(issues) + 1 ELSE job[a].seen
  IN  /\ i \leq LastIssue
      /\ issues' = Written(a)
      /\ recent' = recent \cup {i}
      /\ raced' = IF job[a].seen = 0 /\ \E b \in Analyst \ {a} : Waiting(b, job[a].item)
                  THEN raced \cup {job[a].item} ELSE raced

Manage(a) ==
  /\ job[a].step = "writing"
  /\ Managed(a) /\ ~Same(a)
  /\ Effect(a)
  /\ job' = [job EXCEPT ![a].step = "choosing", ![a].seen = 0, ![a].item = "none",
                        ![a].open = FALSE, ![a].changes = @ + 1]
  /\ UNCHANGED <<indexed, thread, analyses, missed>>

LeaveAlone(a) ==
  /\ job[a].step = "writing"
  /\ ~Managed(a) \/ Same(a)
  /\ job' = [job EXCEPT ![a].step = "choosing", ![a].seen = 0, ![a].item = "none",
                        ![a].open = FALSE]
  /\ UNCHANGED <<issues, recent, indexed, thread, analyses, raced, missed>>

\* A request raises, and with it the loop: main reports no change at all.
Fail(a) ==
  /\ job[a].step \in {"listing", "searching", "writing"}
  /\ \/ UNCHANGED <<issues, recent, raced>>
     \/ job[a].step = "writing" /\ Managed(a) /\ ~Same(a) /\ Effect(a)
  /\ job' = [job EXCEPT ![a] = [Idle EXCEPT !.step = "failed"]]
  /\ UNCHANGED <<indexed, thread, analyses, missed>>

-------------------------------------------------------------------------------
IssuesNext ==
  \/ \E i \in Issue : Bury(i) \/ IndexIssue(i) \/ Toggle(i)
  \/ Comment
  \/ \E a \in Analyst :
       \/ \E reported \in SUBSET Test, again \in BOOLEAN :
            \E todo \in [reported -> Verdict] : Begin(a, todo, again)
       \/ NoComment(a)
       \/ LookForComment(a)
       \/ \E arrives \in BOOLEAN : WriteComment(a, arrives)
       \/ \E t \in Test : Choose(a, t)
       \/ Finish(a)
       \/ List(a)
       \/ Search(a)
       \/ Manage(a)
       \/ LeaveAlone(a)
       \/ Fail(a)

IssuesSpec == IssuesInit /\ [][IssuesNext]_issuesVars

-------------------------------------------------------------------------------
\* A test has one issue, whoever closed it and however old it is, unless two
\* analyses looked for it before one of them created it, or an analysis looked
\* while an older issue had left the listing and not yet reached the search
\* (find_managed_issue; docs/technical-reference.md, "later runs update the same
\* Issue instead of creating duplicates", has neither exception).
Exempt == raced \cup missed
IssuesUnique ==
  \A i, j \in DOMAIN issues :
    i # j /\ issues[i].test = issues[j].test => issues[i].test \in Exempt

\* The pull request has one comment of ours, unless two analyses raced or the
\* first one is not on the first page (upsert_pr_comment).
CommentUnique ==
  \A i, j \in DOMAIN thread :
    i < j /\ thread[i] = "ours" /\ thread[j] = "ours" => "comment" \in raced \/ i > Page

\* After an analysis that nothing disturbed, each test it dealt with has an
\* open issue or, if released, none that is open, with the same exceptions
\* (manage_issue_lifecycle).
SettledAsSeen ==
  \A a \in Analyst : job[a].step = "done" /\ job[a].alone =>
    \A t \in DOMAIN job[a].todo \ (job[a].left \cup Exempt) :
      /\ job[a].todo[t] = Released => \A i \in DOMAIN issues : issues[i].test = t => ~issues[i].open
      /\ job[a].todo[t] \in Creating => \E i \in DOMAIN issues : issues[i].test = t /\ issues[i].open
===============================================================================
