---------------------------- MODULE AutopilotRun ----------------------------
(***************************************************************************)
(* An autopilot run, from the screen that starts it to the rows it leaves. *)
(*   Page     AutopilotPage.tsx in a browser: form, polling, review gate   *)
(*   Process  an API process: _RESULTS, _RUNNING and _PROGRESS are dicts   *)
(*            of one process, so they exist at the home of a task only     *)
(*   Task     one background coroutine with a session of its own; its four *)
(*            steps flush, and the router commits once, at the end         *)
(* Web search, the LLM and the load balancer are external.                 *)
(***************************************************************************)
EXTENDS Naturals, FiniteSets

CONSTANTS
  Page, Process, Task,
  Taking,          \* the processes that a POST reaches; any answers a GET
  Older,           \* prospects that were in the tenant's schema before
  NoTask, NoProcess,
  PauseForReview,  \* what users leave the checkbox at; TRUE is its default
  MaxFetch,        \* bound: review fetches of a page under way at a time
  MaxRestart       \* bound: restarts of API processes

ASSUME NamesAssumption ==
  /\ NoTask \notin Task /\ NoProcess \notin Process
  /\ Task \intersect {"idle", "sent"} = {}
  /\ Older \intersect Task = {}

ASSUME TakingAssumption == Taking \subseteq Process

ASSUME PauseAssumption == PauseForReview \subseteq BOOLEAN

ASSUME BoundAssumption == MaxFetch \in Nat /\ MaxRestart \in Nat

VARIABLES
  \* the tenant's schema
  rows,            \* committed tables of each task
  \* the background coroutines and their process
  stage,           \* what the coroutine of a task is doing
  home,            \* the process that runs it
  work,            \* tables it has flushed and not committed
  outcome,         \* AutopilotResult.status that orchestrate_pipeline returned
  running, results, progress,  \* _RUNNING, _RESULTS, _PROGRESS
  restarts,
  unsure,          \* history: commits that happened and were answered with an error
  \* the pages
  post,            \* POST /autopilot: "idle", "sent", or the accepted task
  taskId, screen,  \* state taskId, data of useAutopilotStatus
  pause,           \* state pauseForReview
  gate, shown, selected,  \* gateOpen, discoveredProspects, selectedProspects
  fetches          \* GET /prospects of the review effect under way

server == <<rows, stage, home, work, outcome, running, results, progress,
            restarts, unsure>>
page   == <<post, taskId, screen, pause, gate, shown, selected, fetches>>
vars   == <<server, page>>

Steps  == {"icp", "sourcing", "campaign", "emails"}
Stages == Steps \union {"new", "commit", "settle", "over", "lost"}
Tables == {"IcpProfile", "Prospect", "Campaign", "Sequence"}

\* the rows a step adds and where it goes when it succeeds
TableOf  == [icp |-> "IcpProfile", sourcing |-> "Prospect",
             campaign |-> "Campaign", emails |-> "Sequence"]
NextStep == [icp |-> "sourcing", sourcing |-> "campaign",
             campaign |-> "emails", emails |-> "commit"]
\* (faulty variant: the milestones count from one)
Milestone_FromOne == [icp |-> 2, sourcing |-> 3, campaign |-> 4, emails |-> 6]

Milestone == [icp |-> 1, sourcing |-> 2, campaign |-> 3, emails |-> 5]

Results == {"none", "SUCCESS", "PARTIAL", "FAILURE"}
RunStatus == {"none", "PENDING", "STARTED", "SUCCESS", "FAILURE"}
Screens == [status : RunStatus, step : 0..5, result : Results]
NoRun == [status |-> "none", step |-> 0, result |-> "none"]

Init ==
  /\ rows = [t \in Task |-> {}]
  /\ stage = [t \in Task |-> "new"]
  /\ home = [t \in Task |-> NoProcess]
  /\ work = [t \in Task |-> {}]
  /\ outcome = [t \in Task |-> "none"]
  /\ running = {}
  /\ results = [t \in Task |-> "none"]
  /\ progress = [t \in Task |-> 0]
  /\ restarts = 0
  /\ unsure = {}
  /\ post = [b \in Page |-> "idle"]
  /\ taskId = [b \in Page |-> NoTask]
  /\ screen = [b \in Page |-> NoRun]
  /\ pause = [b \in Page |-> TRUE]
  /\ gate = [b \in Page |-> FALSE]
  /\ shown = [b \in Page |-> {}]
  /\ selected = [b \in Page |-> {}]
  /\ fetches = [b \in Page |-> 0]

-----------------------------------------------------------------------------
(* The background coroutine: orchestrate_pipeline and _run_background.     *)

\* (faulty variant: every step commits what it has written)
StepDone_Commits(t) ==
  /\ stage[t] \in Steps
  /\ stage' = [stage EXCEPT ![t] = NextStep[stage[t]]]
  /\ work' = [work EXCEPT ![t] = {}]
  /\ progress' = [progress EXCEPT ![t] = Milestone[stage[t]]]
  /\ outcome' = [outcome EXCEPT
                   ![t] = IF stage[t] = "emails" THEN "SUCCESS" ELSE @]
  /\ rows' = [rows EXCEPT ![t] = @ \union {TableOf[stage[t]]}]
  /\ UNCHANGED <<home, running, results, restarts, unsure, page>>

\* A step flushes its rows and reports its milestone.
StepDone(t) ==
  /\ stage[t] \in Steps
  /\ stage' = [stage EXCEPT ![t] = NextStep[stage[t]]]
  /\ work' = [work EXCEPT ![t] = @ \union {TableOf[stage[t]]}]
  /\ progress' = [progress EXCEPT ![t] = Milestone[stage[t]]]
  /\ outcome' = [outcome EXCEPT
                   ![t] = IF stage[t] = "emails" THEN "SUCCESS" ELSE @]
  /\ UNCHANGED <<rows, home, running, results, restarts, unsure, page>>

\* on_touch_done, while emails are being written
TouchDone(t) ==
  /\ stage[t] = "emails"
  /\ progress' = [progress EXCEPT ![t] = 4]
  /\ UNCHANGED <<rows, stage, home, work, outcome, running, results,
                 restarts, unsure, page>>

\* (faulty variant: the session is not rolled back when a step fails)
StepFails_NoRollback(t) ==
  /\ stage[t] \in Steps
  /\ stage' = [stage EXCEPT ![t] = "commit"]
  /\ \E o \in {"PARTIAL", "FAILURE"} :
       /\ o = "PARTIAL" => stage[t] = "emails"
       /\ outcome' = [outcome EXCEPT ![t] = o]
  /\ UNCHANGED <<work, rows, home, running, results, progress, restarts, unsure, page>>

\* A step fails and the session is rolled back.  The run is a FAILURE, or
\* PARTIAL when it was the email step; the last flush may fail there as well.
StepFails(t) ==
  /\ stage[t] \in Steps
  /\ stage' = [stage EXCEPT ![t] = "commit"]
  /\ work' = [work EXCEPT ![t] = {}]
  /\ \E o \in {"PARTIAL", "FAILURE"} :
       /\ o = "PARTIAL" => stage[t] = "emails"
       /\ outcome' = [outcome EXCEPT ![t] = o]
  /\ UNCHANGED <<rows, home, running, results, progress, restarts, unsure, page>>

\* (faulty variant: `finally` is reached without a result)
EndsInFailure_NoResult(t) ==
  /\ stage' = [stage EXCEPT ![t] = "over"]
  /\ work' = [work EXCEPT ![t] = {}]
  /\ running' = running \ {t}
  /\ UNCHANGED <<results, home, outcome, progress, restarts, page>>

\* The end of the coroutine after an exception: result, then `finally`.
EndsInFailure(t) ==
  /\ stage' = [stage EXCEPT ![t] = "over"]
  /\ work' = [work EXCEPT ![t] = {}]
  /\ results' = [results EXCEPT ![t] = "FAILURE"]
  /\ running' = running \ {t}
  /\ UNCHANGED <<home, outcome, progress, restarts, page>>

\* wait_for gives up after 20 minutes and the session is closed
GiveUp(t) ==
  /\ stage[t] \in Steps
  /\ EndsInFailure(t)
  /\ UNCHANGED <<rows, unsure>>

\* (faulty variant: the result is published before the commit is made)
Commit_ResultFirst(t) ==
  /\ \/ /\ stage[t] = "commit" /\ results[t] = "none"
        /\ results' = [results EXCEPT ![t] = outcome[t]]
        /\ UNCHANGED <<rows, work, stage>>
     \/ /\ stage[t] = "commit" /\ results[t] # "none"
        /\ rows' = [rows EXCEPT ![t] = @ \union work[t]]
        /\ work' = [work EXCEPT ![t] = {}]
        /\ stage' = [stage EXCEPT ![t] = "settle"]
        /\ UNCHANGED results
  /\ UNCHANGED <<home, outcome, running, progress, restarts, unsure, page>>

\* The one commit of a run, then the result is stored.
Commit(t) ==
  /\ stage[t] = "commit"
  /\ rows' = [rows EXCEPT ![t] = @ \union work[t]]
  /\ work' = [work EXCEPT ![t] = {}]
  /\ results' = [results EXCEPT ![t] = outcome[t]]
  /\ stage' = [stage EXCEPT ![t] = "settle"]
  /\ UNCHANGED <<home, outcome, running, progress, restarts, unsure, page>>

\* The commit raises; the server may have made it nevertheless.
CommitRaises(t) ==
  /\ stage[t] = "commit"
  /\ EndsInFailure(t)
  /\ \/ UNCHANGED <<rows, unsure>>
     \/ /\ work[t] # {}
        /\ rows' = [rows EXCEPT ![t] = @ \union work[t]]
        /\ unsure' = unsure \union {t}

\* the session is closed, and `finally` takes the task out of _RUNNING
Settle(t) ==
  /\ stage[t] = "settle"
  /\ stage' = [stage EXCEPT ![t] = "over"]
  /\ running' = running \ {t}
  /\ UNCHANGED <<rows, home, work, outcome, results, progress, restarts,
                 unsure, page>>

Worker(t) == \/ StepDone(t) \/ StepFails(t) \/ GiveUp(t)
             \/ Commit(t) \/ CommitRaises(t) \/ Settle(t)

\* An API process ends and another takes its place: its dictionaries and
\* coroutines are gone; a commit under way may still be made.
Restart(p) ==
  LET ours == {t \in Task : home[t] = p}
      caught == {t \in ours : stage[t] \in Steps \union {"commit", "settle"}}
  IN
  /\ restarts < MaxRestart
  /\ restarts' = restarts + 1
  /\ \E made \in SUBSET {t \in ours : stage[t] = "commit"} :
       rows' = [t \in Task |-> IF t \in made THEN rows[t] \union work[t]
                                             ELSE rows[t]]
  /\ work' = [t \in Task |-> IF t \in ours THEN {} ELSE work[t]]
  /\ stage' = [t \in Task |-> IF t \in caught THEN "lost" ELSE stage[t]]
  /\ results' = [t \in Task |-> IF t \in ours THEN "none" ELSE results[t]]
  /\ running' = running \ ours
  /\ progress' = [t \in Task |-> IF t \in ours THEN 0 ELSE progress[t]]
  /\ outcome' = [t \in Task |-> IF t \in ours THEN "none" ELSE outcome[t]]
  /\ home' = [t \in Task |-> IF t \in ours THEN NoProcess ELSE home[t]]
  /\ UNCHANGED <<unsure, page>>

-----------------------------------------------------------------------------
(* Starting a run.                                                         *)

\* The form (with its checkbox pauseForReview) is there while no run is; the
\* button is off while a POST is out.
Submit(b) ==
  /\ taskId[b] = NoTask /\ post[b] = "idle" /\ ~gate[b]
  /\ post' = [post EXCEPT ![b] = "sent"]
  /\ \E asks \in PauseForReview : pause' = [pause EXCEPT ![b] = asks]
  /\ UNCHANGED <<server, taskId, screen, gate, shown, selected, fetches>>

\* role, LLM cap, no LLM configuration: nothing was started
Refuse(b) ==
  /\ post[b] = "sent"
  /\ post' = [post EXCEPT ![b] = "idle"]
  /\ UNCHANGED <<server, taskId, screen, pause, gate, shown, selected, fetches>>

\* (faulty variant: the coroutine enters itself into _RUNNING when it starts)
Enqueue_NotYetRunning(b, p, t) ==
  /\ post[b] = "sent"
  /\ stage[t] = "new"
  /\ stage' = [stage EXCEPT ![t] = "icp"]
  /\ home' = [home EXCEPT ![t] = p]
  /\ progress' = [progress EXCEPT ![t] = 0]
  /\ post' = [post EXCEPT ![b] = t]
  /\ UNCHANGED <<rows, work, outcome, running, results, restarts, unsure,
                 taskId, screen, pause, gate, shown, selected, fetches>>

\* enqueue_autopilot
Enqueue(b, p, t) ==
  /\ post[b] = "sent"
  /\ stage[t] = "new"
  /\ stage' = [stage EXCEPT ![t] = "icp"]
  /\ home' = [home EXCEPT ![t] = p]
  /\ running' = running \union {t}
  /\ progress' = [progress EXCEPT ![t] = 0]
  /\ post' = [post EXCEPT ![b] = t]
  /\ UNCHANGED <<rows, work, outcome, results, restarts, unsure,
                 taskId, screen, pause, gate, shown, selected, fetches>>

\* submitMutation.onSuccess
PostAnswered(b) ==
  /\ post[b] \in Task
  /\ taskId' = [taskId EXCEPT ![b] = post[b]]
  /\ screen' = [screen EXCEPT ![b] = NoRun]
  /\ post' = [post EXCEPT ![b] = "idle"]
  /\ UNCHANGED <<server, pause, gate, shown, selected, fetches>>

\* submitMutation.onError: the answer is lost, the run goes on unseen
PostLost(b) ==
  /\ post[b] \in Task
  /\ post' = [post EXCEPT ![b] = "idle"]
  /\ UNCHANGED <<server, taskId, screen, pause, gate, shown, selected, fetches>>

-----------------------------------------------------------------------------
(* Watching a run.                                                         *)

Terminal(s) == s.status \in {"SUCCESS", "FAILURE"}

\* (faulty variant: a task that is not known has failed)
Answer_UnknownFailed(p, t) ==
  IF home[t] = p /\ results[t] # "none"
  THEN [status |-> IF results[t] = "FAILURE" THEN "FAILURE" ELSE "SUCCESS",
        step |-> IF results[t] = "FAILURE" THEN 0 ELSE 5,
        result |-> results[t]]
  ELSE IF home[t] = p /\ t \in running
  THEN [status |-> "STARTED", step |-> progress[t], result |-> "none"]
  ELSE [status |-> "FAILURE", step |-> 0, result |-> "FAILURE"]

\* get_autopilot_status as process p answers it.  PARTIAL is a SUCCESS here,
\* and a task this process does not know is PENDING.
Answer(p, t) ==
  IF home[t] = p /\ results[t] # "none"
  THEN [status |-> IF results[t] = "FAILURE" THEN "FAILURE" ELSE "SUCCESS",
        step |-> IF results[t] = "FAILURE" THEN 0 ELSE 5,
        result |-> results[t]]
  ELSE IF home[t] = p /\ t \in running
  THEN [status |-> "STARTED", step |-> progress[t], result |-> "none"]
  ELSE [status |-> "PENDING", step |-> 0, result |-> "none"]

\* The condition of the review effect, which runs again whenever one of its
\* dependencies changes: status, step, gateOpen.
WantsReview(s, asks, open) ==
  asks /\ ~open /\ s.status = "STARTED" /\ s.step >= 2

Fetching(b, s, open) ==
  [fetches EXCEPT ![b] = IF WantsReview(s, pause[b], open) /\ @ < MaxFetch
                         THEN @ + 1 ELSE @]

\* The query asks process p.
Refetch(b, p) ==
  /\ taskId[b] \in Task
  /\ LET s == Answer(p, taskId[b]) IN
       /\ s # screen[b]
       /\ screen' = [screen EXCEPT ![b] = s]
       /\ fetches' = Fetching(b, s, gate[b])
  /\ UNCHANGED <<server, post, taskId, pause, gate, shown, selected>>

\* refetchInterval: every 3 s until a terminal status is on the screen
Poll(b, p) == ~Terminal(screen[b]) /\ Refetch(b, p)

\* refetchOnReconnect, which nothing turns off: a browser that was offline asks
\* again, also when the screen is terminal.
Reconnect(b, p) == Terminal(screen[b]) /\ Refetch(b, p)

\* What GET /prospects finds: committed rows, of any run or none.
Visible == {t \in Task : "Prospect" \in rows[t]} \union Older

\* `.then` of the review effect: it asks for no task, and opens the gate
ReviewAnswered(b) ==
  /\ fetches[b] > 0
  /\ fetches' = [fetches EXCEPT ![b] = @ - 1]
  /\ \E found \in SUBSET Visible :
       /\ Visible # {} => found # {}
       /\ IF found = {} THEN UNCHANGED <<gate, shown, selected>>
          ELSE /\ gate' = [gate EXCEPT ![b] = TRUE]
               /\ shown' = [shown EXCEPT ![b] = found]
               /\ selected' = [selected EXCEPT ![b] = found]
  /\ UNCHANGED <<server, post, taskId, screen, pause>>

ReviewFailed(b) ==
  /\ fetches[b] > 0
  /\ fetches' = [fetches EXCEPT ![b] = @ - 1]
  /\ UNCHANGED <<server, post, taskId, screen, pause, gate, shown, selected>>

Toggle(b, x) ==
  /\ gate[b] /\ x \in shown[b]
  /\ selected' = [selected EXCEPT ![b] = IF x \in @ THEN @ \ {x} ELSE @ \union {x}]
  /\ UNCHANGED <<server, post, taskId, screen, pause, gate, shown, fetches>>

\* handleApproveAndContinue: closing the gate makes the effect run again
Approve(b) ==
  /\ gate[b] /\ selected[b] # {}
  /\ gate' = [gate EXCEPT ![b] = FALSE]
  /\ fetches' = Fetching(b, screen[b], FALSE)
  /\ UNCHANGED <<server, post, taskId, screen, pause, shown, selected>>

\* handleReset: "New Run", "Retry", and "Cancel Run" of the gate.  Nothing is
\* sent to the server; a review fetch under way is not abandoned.
Reset(b) ==
  /\ taskId[b] # NoTask \/ gate[b]
  /\ taskId' = [taskId EXCEPT ![b] = NoTask]
  /\ screen' = [screen EXCEPT ![b] = NoRun]
  /\ gate' = [gate EXCEPT ![b] = FALSE]
  /\ shown' = [shown EXCEPT ![b] = {}]
  /\ selected' = [selected EXCEPT ![b] = {}]
  /\ UNCHANGED <<server, post, pause, fetches>>

Browser(b) ==
  \/ Submit(b) \/ Refuse(b) \/ PostAnswered(b) \/ PostLost(b)
  \/ ReviewAnswered(b) \/ ReviewFailed(b) \/ Approve(b) \/ Reset(b)
  \/ \E x \in Task \union Older : Toggle(b, x)
  \/ \E p \in Process : Poll(b, p) \/ Reconnect(b, p)
  \/ \E p \in Taking, t \in Task : Enqueue(b, p, t)

Next ==
  \/ \E t \in Task : Worker(t) \/ TouchDone(t)
  \/ \E p \in Process : Restart(p)
  \/ \E b \in Page : Browser(b)

Spec == Init /\ [][Next]_vars

\* A coroutine goes on until it ends (the 20 minute limit sees to that), a
\* page polls every process again and again (the balancer picks any of them),
\* and a review fetch is answered.
Fairness ==
  /\ \A t \in Task : WF_vars(Worker(t))
  /\ \A b \in Page, p \in Process : WF_vars(Poll(b, p))
  /\ \A b \in Page : WF_vars(ReviewAnswered(b) \/ ReviewFailed(b))

FairSpec == Spec /\ Fairness

-----------------------------------------------------------------------------
(* Properties                                                              *)

ServerTypeOK ==
  /\ rows \in [Task -> SUBSET Tables]
  /\ stage \in [Task -> Stages]
  /\ home \in [Task -> Process \union {NoProcess}]
  /\ work \in [Task -> SUBSET Tables]
  /\ outcome \in [Task -> Results]
  /\ running \in SUBSET Task
  /\ results \in [Task -> Results]
  /\ progress \in [Task -> 0..5]
  /\ restarts \in 0..MaxRestart
  /\ unsure \in SUBSET Task

PageTypeOK ==
  /\ post \in [Page -> {"idle", "sent"} \union Task]
  /\ taskId \in [Page -> Task \union {NoTask}]
  /\ screen \in [Page -> Screens]
  /\ pause \in [Page -> BOOLEAN]
  /\ gate \in [Page -> BOOLEAN]
  /\ shown \in [Page -> SUBSET (Task \union Older)]
  /\ selected \in [Page -> SUBSET (Task \union Older)]
  /\ fetches \in [Page -> 0..MaxFetch]

\* Every variable has its type: rows and results of the router's dictionaries,
\* the state hooks of AutopilotPage.
TypeOK == ServerTypeOK /\ PageTypeOK

\* A run leaves the rows of all four steps or none of them, wherever it
\* failed, timed out or was killed: the steps flush, the router commits.
AllOrNothing == \A t \in Task : rows[t] \in {{}, Tables}

\* A run that ended FAILURE or PARTIAL has left nothing behind, unless its
\* commit was made and the answer to the commit was lost; the same goes for
\* what a page shows, however old that is.
FailureLeavesNothing ==
  /\ \A t \in Task \ unsure :
       results[t] \in {"FAILURE", "PARTIAL"} => rows[t] = {}
  /\ \A b \in Page :
       screen[b].result \in {"FAILURE", "PARTIAL"} /\ taskId[b] \notin unsure
       => rows[taskId[b]] = {}

\* A page that shows the result SUCCESS shows a run whose rows are in the
\* schema, whatever has crashed since.
SuccessIsSaved ==
  \A b \in Page : screen[b].result = "SUCCESS" => rows[taskId[b]] = Tables

\* The process that took a task and has not been restarted knows it at every
\* moment: it is in _RUNNING until it is in _RESULTS, so the answer PENDING
\* always means another process or a restart.
KnownAtHome ==
  \A t \in Task : home[t] # NoProcess => t \in running \/ results[t] # "none"

\* The review gate never shows prospects of a run before that run has written
\* and committed its emails.  The page promises the contrary, a review before
\* emails are generated (AutopilotPage.tsx:2620, 2944-2945); as one commit
\* ends the run and the gate reads in another session, that cannot be.
ReviewComesAfterEmails ==
  \A b \in Page : \A t \in shown[b] \ Older : rows[t] = Tables

\* A run that left rows was a success, or its commit was answered with an error.
LifeOf(t) ==
  IF rows[t] # {} THEN IF t \in unsure THEN "doubtful" ELSE "kept"
  ELSE IF stage[t] = "new" THEN "new"
  ELSE IF stage[t] \in Steps \union {"commit"} THEN "running"
  ELSE "gone"

\* PARTIAL is a failure: it leaves nothing.
VerdictOf(b) ==
  IF screen[b].result = "none" THEN "none"
  ELSE IF screen[b].result = "SUCCESS" THEN "success"
  ELSE "failure"

Runs == INSTANCE RunLedger WITH
  Run     <- Task,
  Viewer  <- Page,
  Nothing <- NoTask,
  life    <- [t \in Task |-> LifeOf(t)],
  follows <- taskId,
  verdict <- [b \in Page |-> VerdictOf(b)]

\* Runs and pages implement RunLedger: a run's end is decided once, no two pages
\* follow one run, and whatever a page is told of that end, however often it asks and
\* whichever process answers, is so and never contradicts what it was told before.
KeepsRuns == Runs!Spec

\* A page that follows a task comes to a terminal status or stops following
\* it, unless the task's process was restarted: every run resolves to a result
\* (the comment on the 20 minute limit) and every process is asked again.
PollingEnds ==
  \A b \in Page, t \in Task :
    taskId[b] = t ~> \/ taskId[b] # t
                     \/ Terminal(screen[b])
                     \/ home[t] = NoProcess
=============================================================================
