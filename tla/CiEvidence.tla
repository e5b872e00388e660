------------------------------ MODULE CiEvidence ------------------------------
(***************************************************************************)
(* scripts/verify_ci.py and ci_evidence_problems() of kittylm/ledger.py:   *)
(* reading the CI runs of one commit page by page, choosing one of them    *)
(* and judging its jobs, while GitHub goes on creating, running, re-running *)
(* and deleting runs of that commit.                                       *)
(***************************************************************************)
EXTENDS Integers, Sequences, FiniteSets, SequencesExt

CONSTANTS
  JobList,      \* the required jobs of a run, in the order GitHub lists them
  PerPage,      \* per_page
  MaxPages,     \* MAX_PAGES
  MaxCiRuns,    \* bound on the runs created for the commit
  MaxAttempts,  \* bound on the attempts of a run
  NoRun

ASSUME CiAssumption ==
  /\ {PerPage, MaxPages, MaxCiRuns, MaxAttempts} \subseteq Nat \ {0}
  /\ JobList \in Seq(Range(JobList))

VARIABLES
  listed,    \* GitHub: the runs of the commit, newest first
  created,   \* GitHub: how many were created
  task,
  page,      \* the page fetch_all asks for next
  items,     \* the runs it has read
  selected,  \* what select_run returned
  evidence,  \* CiEvidence.jobs, and (history) the attempt each job was read in
  owed       \* history: the completed push runs the script must not miss

github == <<listed, created>>
script == <<task, page, items, selected, evidence>>
verifyVars == <<listed, created, task, page, items, selected, evidence, owed>>

\* REQUIRED_CI_JOBS
Jobs == Range(JobList)

\* push: is it a push run of the required workflow?
Run == [id : 1 .. MaxCiRuns, push : BOOLEAN, attempt : 1 .. MaxAttempts, completed : BOOLEAN,
        jobs : [Jobs -> {"none", "success", "failure"}]]

Pending == [j \in Jobs |-> "none"]

\* A job no page has shown yet.
Missing == [conclusion |-> "none", attempt |-> 0]

\* Mutant: a run in progress is a candidate.
CandidateAnyState(r) == r.push

Candidate(r) == r.push /\ r.completed

VerifyInit ==
  /\ listed = <<>>
  /\ created = 0
  /\ task = "start"
  /\ page = 1
  /\ items = <<>>
  /\ selected = NoRun
  /\ evidence = [j \in Jobs |-> Missing]
  /\ owed = {}

-----------------------------------------------------------------------------
(* GitHub                                                                  *)

\* Once a run is selected, the script reads nothing of the others.
StillRead(i) == task = "jobs" => listed[i].id = selected.id

CreateRun ==
  /\ task # "jobs"
  /\ created < MaxCiRuns
  /\ created' = created + 1
  /\ \E push \in BOOLEAN :
       listed' = <<[id |-> created', push |-> push, attempt |-> 1, completed |-> FALSE,
                    jobs |-> Pending]>> \o listed
  /\ UNCHANGED <<script, owed>>

CompleteRun ==
  /\ \E i \in DOMAIN listed, jobs \in [Jobs -> {"success", "failure"}] :
       /\ ~ listed[i].completed /\ StillRead(i)
       /\ \A j \in Jobs : listed[i].jobs[j] # "none" => jobs[j] = listed[i].jobs[j]
       /\ listed' = [listed EXCEPT ![i].completed = TRUE, ![i].jobs = jobs]
  /\ UNCHANGED <<created, script, owed>>

\* All jobs run again, or those that failed.
RerunRun ==
  /\ \E i \in DOMAIN listed :
       LET failedOnly == [j \in Jobs |-> IF listed[i].jobs[j] = "success" THEN "success" ELSE "none"]
       IN /\ listed[i].completed /\ StillRead(i)
          /\ listed[i].attempt < MaxAttempts
          /\ \E jobs \in {Pending, failedOnly} :
               listed' = [listed EXCEPT ![i].completed = FALSE, ![i].attempt = @ + 1, ![i].jobs = jobs]
          /\ owed' = {r \in owed : r.id # listed[i].id}
  /\ UNCHANGED <<created, script>>

\* Between two pages a deletion moves runs not yet read onto a page already read.
DeleteRun ==
  /\ \E i \in DOMAIN listed :
       /\ StillRead(i)
       /\ listed' = RemoveAt(listed, i)
       /\ owed' = IF task = "runs" THEN {} ELSE {r \in owed : r.id # listed[i].id}
  /\ UNCHANGED <<created, script>>

-----------------------------------------------------------------------------
(* verify_ci.py                                                            *)

Start ==
  /\ task = "start"
  /\ task' = "runs"
  /\ owed' = {r \in Range(listed) : Candidate(r)}
  /\ UNCHANGED <<github, page, items, selected, evidence>>

Least(a, b) == IF a <= b THEN a ELSE b

\* Mutant: pages counted from 0.
PageFromZero(list, n) == SubSeq(list, n * PerPage + 1, Least((n + 1) * PerPage, Len(list)))

\* One page of a list.
PageOf(list, n) == SubSeq(list, (n - 1) * PerPage + 1, Least(n * PerPage, Len(list)))

\* fetch_all(): stop after a short page or when all is read, and give up after MaxPages.
TurnPage(batch, read, total, next) ==
  IF Len(batch) < PerPage \/ read >= total THEN task' = next /\ page' = 1
  ELSE IF page = MaxPages THEN task' = "error" /\ UNCHANGED page
  ELSE page' = page + 1 /\ UNCHANGED task

Batch == PageOf(listed, page)

FetchRuns ==
  /\ task = "runs"
  /\ items' = items \o Batch
  /\ TurnPage(Batch, Len(items'), Len(listed), "select")
  /\ UNCHANGED <<github, selected, evidence, owed>>

\* select_run(): the candidate with the highest attempt, then the highest id.
Ranks(r, s) == r.attempt > s.attempt \/ (r.attempt = s.attempt /\ r.id >= s.id)

Candidates == {r \in Range(items) : Candidate(r)}

SelectRun ==
  /\ task = "select"
  /\ IF Candidates = {}
       THEN task' = "absent" /\ UNCHANGED selected
       ELSE /\ selected' \in {r \in Candidates : \A s \in Candidates : Ranks(r, s)}
            /\ task' = "jobs"
  /\ UNCHANGED <<github, page, items, evidence, owed>>

\* The run's latest attempt as GitHub has it now; none when the run was deleted.
Latest == {r \in Range(listed) : r.id = selected.id}

\* jobs?filter=latest: one page of the jobs of the latest attempt, as they are now.
FetchJobs ==
  /\ task = "jobs"
  /\ LET batch == PageOf(JobList, page)
     IN IF Latest = {}
          THEN task' = "error" /\ UNCHANGED <<page, evidence>>
          ELSE /\ \E r \in Latest :
                    evidence' = [j \in Jobs |-> IF j \in Range(batch)
                                   THEN [conclusion |-> r.jobs[j], attempt |-> r.attempt]
                                   ELSE evidence[j]]
               /\ TurnPage(batch, (page - 1) * PerPage + Len(batch), Len(JobList), "judge")
  /\ UNCHANGED <<github, items, selected, owed>>

\* ci_evidence_problems(): is there none?
Proves(run, jobs) == run.push /\ run.id > 0 /\ \A j \in Jobs : jobs[j].conclusion = "success"

Judge ==
  /\ task = "judge"
  /\ task' = IF Proves(selected, evidence) THEN "green" ELSE "red"
  /\ UNCHANGED <<github, page, items, selected, evidence, owed>>

Exits == {"green", "red", "absent", "error"}

VerifyEnded == task \in Exits /\ UNCHANGED verifyVars

Script == Start \/ FetchRuns \/ SelectRun \/ FetchJobs \/ Judge

\* Between two requests; nothing is requested while the script selects and judges.
GitHub == task \in {"start", "runs", "jobs"} /\ (CreateRun \/ CompleteRun \/ RerunRun \/ DeleteRun)

VerifyNext == Script \/ GitHub \/ VerifyEnded

VerifySpec == VerifyInit /\ [][VerifyNext]_verifyVars

-----------------------------------------------------------------------------
(* Properties                                                              *)

\* Runs created between two pages shift the list but hide nothing: a push run that had
\* completed when the script began is read, unless it was re-run meanwhile or some run
\* was deleted between two pages.
PagesMissNothing == task = "select" => owed \subseteq Range(items)

\* Green rests on what was selected: a completed push run that no other outranks which had
\* completed when the script began and stayed as it was; and every required job succeeded
\* in the attempt selected, unless the run has been re-run since.  Then the jobs judged are
\* of that attempt or later ones, though filter=latest is there to give "only the selected
\* attempt's jobs" (verify_ci.py 103-104).
GreenIsBacked ==
  task = "green" =>
    /\ Candidate(selected)
    /\ \A r \in owed : ~ (r.attempt > selected.attempt
                            \/ (r.attempt = selected.attempt /\ r.id > selected.id))
    /\ \A j \in Jobs : evidence[j].attempt >= selected.attempt
    /\ \/ \A j \in Jobs : selected.jobs[j] = "success" /\ evidence[j].attempt = selected.attempt
       \/ \E r \in Latest : r.attempt > selected.attempt
=============================================================================
