------------------------- MODULE AutopilotRunProofs -------------------------
(***************************************************************************)
(* Theorems about AutopilotRun, for any number of pages, processes, tasks  *)
(* and restarts.                                                           *)
(***************************************************************************)
EXTENDS AutopilotRun, TLAPS

-----------------------------------------------------------------------------
(* Types.                                                                   *)

LEMMA NamesType ==
  /\ \A s \in Steps : /\ s \in Stages /\ NextStep[s] \in Stages
                      /\ TableOf[s] \in Tables /\ Milestone[s] \in 0..5
  /\ {"new", "icp", "commit", "settle", "over", "lost"} \subseteq Stages
  /\ {"none", "SUCCESS", "PARTIAL", "FAILURE"} \subseteq Results
  /\ NoRun \in Screens
BY DEF Steps, Stages, NextStep, TableOf, Tables, Milestone, Results, NoRun,
       Screens, RunStatus

LEMMA InitType == Init => TypeOK
<1> SUFFICES ASSUME Init PROVE TypeOK
  OBVIOUS
<1>1. ServerTypeOK
  BY BoundAssumption DEF Init, ServerTypeOK, Stages, Results
<1>2. PageTypeOK
  <2>1. pause \in [Page -> BOOLEAN] /\ gate \in [Page -> BOOLEAN]
    BY DEF Init
  <2>2. screen \in [Page -> Screens]
    BY NamesType DEF Init
  <2>3. fetches \in [Page -> 0..MaxFetch]
    BY BoundAssumption DEF Init
  <2>4. shown \in [Page -> SUBSET (Task \union Older)]
        /\ selected \in [Page -> SUBSET (Task \union Older)]
    BY DEF Init
  <2>5. post \in [Page -> {"idle", "sent"} \union Task]
        /\ taskId \in [Page -> Task \union {NoTask}]
    BY DEF Init
  <2>6. QED
    BY <2>1, <2>2, <2>3, <2>4, <2>5 DEF PageTypeOK
<1>3. QED
  BY <1>1, <1>2 DEF TypeOK

LEMMA EndsType ==
  ASSUME ServerTypeOK, NEW t \in Task, EndsInFailure(t),
         rows' \in [Task -> SUBSET Tables], unsure' \in SUBSET Task
  PROVE  ServerTypeOK'
BY NamesType DEF EndsInFailure, ServerTypeOK

LEMMA WorkerType ==
  ASSUME ServerTypeOK, NEW t \in Task, Worker(t) \/ TouchDone(t)
  PROVE  ServerTypeOK'
<1>1. CASE StepDone(t)
  <2>1. stage[t] \in Steps
    BY <1>1 DEF StepDone
  <2>2. /\ stage' \in [Task -> Stages] /\ work' \in [Task -> SUBSET Tables]
        /\ outcome' \in [Task -> Results] /\ progress' \in [Task -> 0..5]
    BY <1>1, <2>1, NamesType DEF StepDone, ServerTypeOK
  <2>3. QED
    BY <1>1, <2>2 DEF StepDone, ServerTypeOK
<1>2. CASE StepFails(t)
  <2>1. stage' \in [Task -> Stages] /\ work' \in [Task -> SUBSET Tables]
        /\ outcome' \in [Task -> Results]
    BY <1>2, NamesType DEF StepFails, ServerTypeOK
  <2>2. QED
    BY <1>2, <2>1 DEF StepFails, ServerTypeOK
<1>3. CASE GiveUp(t)
  BY <1>3, EndsType DEF GiveUp, ServerTypeOK
<1>4. CASE Commit(t)
  BY <1>4, NamesType DEF Commit, ServerTypeOK
<1>5. CASE CommitRaises(t)
  <2>1. rows' \in [Task -> SUBSET Tables] /\ unsure' \in SUBSET Task
    BY <1>5 DEF CommitRaises, ServerTypeOK
  <2>2. QED
    BY <1>5, <2>1, EndsType DEF CommitRaises
<1>6. CASE Settle(t)
  BY <1>6, NamesType DEF Settle, ServerTypeOK
<1>7. CASE TouchDone(t)
  BY <1>7 DEF TouchDone, ServerTypeOK
<1>8. QED
  BY <1>1, <1>2, <1>3, <1>4, <1>5, <1>6, <1>7 DEF Worker

LEMMA RestartType ==
  ASSUME ServerTypeOK, NEW p \in Process, Restart(p)
  PROVE  ServerTypeOK'
<1>1. rows' \in [Task -> SUBSET Tables]
  BY DEF Restart, ServerTypeOK
<1>2. stage' \in [Task -> Stages] /\ results' \in [Task -> Results]
      /\ outcome' \in [Task -> Results]
  BY NamesType DEF Restart, ServerTypeOK
<1>3. work' \in [Task -> SUBSET Tables] /\ running' \in SUBSET Task
      /\ home' \in [Task -> Process \union {NoProcess}]
  BY DEF Restart, ServerTypeOK
<1>4. progress' \in [Task -> 0..5] /\ restarts' \in 0..MaxRestart
  BY BoundAssumption DEF Restart, ServerTypeOK
<1>5. QED
  BY <1>1, <1>2, <1>3, <1>4 DEF Restart, ServerTypeOK

LEMMA AnswerType ==
  ASSUME ServerTypeOK, NEW p \in Process, NEW t \in Task
  PROVE  /\ Answer(p, t) \in Screens
         /\ Answer(p, t).result # "none" =>
              results[t] = Answer(p, t).result /\ home[t] = p
<1>1. results[t] \in Results /\ progress[t] \in 0..5
  BY DEF ServerTypeOK
<1>2. CASE home[t] = p /\ results[t] # "none"
  BY <1>1, <1>2 DEF Answer, Screens, RunStatus
<1>3. CASE ~(home[t] = p /\ results[t] # "none") /\ home[t] = p /\ t \in running
  BY <1>1, <1>3 DEF Answer, Screens, RunStatus, Results
<1>4. CASE ~(home[t] = p /\ results[t] # "none") /\ ~(home[t] = p /\ t \in running)
  BY <1>1, <1>4 DEF Answer, Screens, RunStatus, Results
<1>5. QED
  BY <1>2, <1>3, <1>4

LEMMA FetchingType ==
  ASSUME PageTypeOK, NEW b \in Page, NEW s, NEW open
  PROVE  Fetching(b, s, open) \in [Page -> 0..MaxFetch]
<1>1. fetches \in [Page -> 0..MaxFetch]
  BY DEF PageTypeOK
<1>2. CASE WantsReview(s, pause[b], open) /\ fetches[b] < MaxFetch
  <2>1. fetches[b] + 1 \in 0..MaxFetch
    BY <1>1, <1>2, BoundAssumption
  <2>2. QED
    BY <1>1, <1>2, <2>1 DEF Fetching
<1>3. CASE ~(WantsReview(s, pause[b], open) /\ fetches[b] < MaxFetch)
  BY <1>1, <1>3 DEF Fetching
<1>4. QED
  BY <1>2, <1>3

\* What is found is known, whoever asks.
LEMMA VisibleType == Visible \subseteq Task \union Older
BY DEF Visible

LEMMA ReviewType ==
  ASSUME PageTypeOK, NEW b \in Page, ReviewAnswered(b)
  PROVE  PageTypeOK'
<1> PICK found \in SUBSET Visible :
       IF found = {} THEN UNCHANGED <<gate, shown, selected>>
          ELSE /\ gate' = [gate EXCEPT ![b] = TRUE]
               /\ shown' = [shown EXCEPT ![b] = found]
               /\ selected' = [selected EXCEPT ![b] = found]
  BY DEF ReviewAnswered
<1>1. gate' \in [Page -> BOOLEAN]
  BY Zenon DEF PageTypeOK
<1>2. found \in SUBSET (Task \union Older)
  BY VisibleType
<1>3. shown' \in [Page -> SUBSET (Task \union Older)]
      /\ selected' \in [Page -> SUBSET (Task \union Older)]
  BY <1>2 DEF PageTypeOK
<1>4. fetches' \in [Page -> 0..MaxFetch]
  <2>1. fetches \in [Page -> 0..MaxFetch] /\ fetches[b] - 1 \in 0..MaxFetch
    BY BoundAssumption DEF PageTypeOK, ReviewAnswered
  <2>2. QED
    BY <2>1 DEF ReviewAnswered
<1>5. QED
  BY <1>1, <1>3, <1>4 DEF PageTypeOK, ReviewAnswered

LEMMA BrowserType ==
  ASSUME TypeOK, NEW b \in Page, Browser(b)
  PROVE  TypeOK'
<1> USE DEF TypeOK
<1>1. CASE Submit(b)
  <2>1. \A asks \in BOOLEAN : [pause EXCEPT ![b] = asks] \in [Page -> BOOLEAN]
    BY Zenon DEF PageTypeOK
  <2>2. pause' \in [Page -> BOOLEAN]
    BY <1>1, <2>1, PauseAssumption DEF Submit
  <2>3. post' \in [Page -> {"idle", "sent"} \union Task]
    BY <1>1 DEF Submit, PageTypeOK
  <2>4. QED
    BY <1>1, <2>2, <2>3 DEF Submit, PageTypeOK, ServerTypeOK, server
<1>2. CASE Refuse(b)
  <2>1. post' \in [Page -> {"idle", "sent"} \union Task]
    BY <1>2 DEF Refuse, PageTypeOK
  <2>2. QED
    BY <1>2, <2>1 DEF Refuse, PageTypeOK, ServerTypeOK, server
<1>3. CASE PostAnswered(b)
  <2>1. screen' \in [Page -> Screens]
    BY <1>3, NamesType DEF PostAnswered, PageTypeOK
  <2>2. post' \in [Page -> {"idle", "sent"} \union Task]
        /\ taskId' \in [Page -> Task \union {NoTask}]
    BY <1>3 DEF PostAnswered, PageTypeOK
  <2>3. QED
    BY <1>3, <2>1, <2>2 DEF PostAnswered, PageTypeOK, ServerTypeOK, server
<1>4. CASE PostLost(b)
  <2>1. post' \in [Page -> {"idle", "sent"} \union Task]
    BY <1>4 DEF PostLost, PageTypeOK
  <2>2. QED
    BY <1>4, <2>1 DEF PostLost, PageTypeOK, ServerTypeOK, server
<1>5. CASE ReviewAnswered(b)
  BY <1>5, ReviewType DEF ReviewAnswered, ServerTypeOK, server
<1>6. CASE ReviewFailed(b)
  <2>1. fetches \in [Page -> 0..MaxFetch] /\ fetches[b] - 1 \in 0..MaxFetch
    BY <1>6, BoundAssumption DEF PageTypeOK, ReviewFailed
  <2>2. fetches' \in [Page -> 0..MaxFetch]
    BY <1>6, <2>1 DEF ReviewFailed
  <2>3. QED
    BY <1>6, <2>2 DEF ReviewFailed, PageTypeOK, ServerTypeOK, server
<1>7. CASE Approve(b)
  <2>1. gate' \in [Page -> BOOLEAN]
    BY <1>7, Zenon DEF Approve, PageTypeOK
  <2>2. fetches' \in [Page -> 0..MaxFetch]
    BY <1>7, FetchingType DEF Approve
  <2>3. QED
    BY <1>7, <2>1, <2>2 DEF Approve, PageTypeOK, ServerTypeOK, server
<1>8. CASE Reset(b)
  <2>1. gate' \in [Page -> BOOLEAN]
    BY <1>8, Zenon DEF Reset, PageTypeOK
  <2>2. screen' \in [Page -> Screens]
    BY <1>8, NamesType DEF Reset, PageTypeOK
  <2>3. /\ taskId' \in [Page -> Task \union {NoTask}]
        /\ shown' \in [Page -> SUBSET (Task \union Older)]
        /\ selected' \in [Page -> SUBSET (Task \union Older)]
    BY <1>8 DEF Reset, PageTypeOK
  <2>4. QED
    BY <1>8, <2>1, <2>2, <2>3 DEF Reset, PageTypeOK, ServerTypeOK, server
<1>9. CASE \E x \in Task \union Older : Toggle(b, x)
  <2>1. selected' \in [Page -> SUBSET (Task \union Older)]
    BY <1>9 DEF Toggle, PageTypeOK
  <2>2. QED
    BY <1>9, <2>1 DEF Toggle, PageTypeOK, ServerTypeOK, server
<1>10. CASE \E p \in Process : Refetch(b, p)
  <2> PICK p \in Process : Refetch(b, p)
    BY <1>10
  <2>1. taskId[b] \in Task /\ screen' = [screen EXCEPT ![b] = Answer(p, taskId[b])]
    BY DEF Refetch
  <2>2. screen' \in [Page -> Screens]
    BY <2>1, AnswerType DEF PageTypeOK
  <2>3. fetches' \in [Page -> 0..MaxFetch]
    BY FetchingType DEF Refetch
  <2>4. QED
    BY <2>2, <2>3 DEF Refetch, PageTypeOK, ServerTypeOK, server
<1>11. CASE \E p \in Taking, t \in Task : Enqueue(b, p, t)
  <2> PICK p \in Taking, t \in Task : Enqueue(b, p, t)
    BY <1>11
  <2>1. /\ stage' \in [Task -> Stages] /\ running' \in SUBSET Task
        /\ progress' \in [Task -> 0..5]
    BY NamesType DEF Enqueue, ServerTypeOK
  <2>2. home' \in [Task -> Process \union {NoProcess}]
    BY TakingAssumption DEF Enqueue, ServerTypeOK
  <2>3. post' \in [Page -> {"idle", "sent"} \union Task]
    BY DEF Enqueue, PageTypeOK
  <2>4. ServerTypeOK'
    BY <2>1, <2>2 DEF Enqueue, ServerTypeOK
  <2>5. PageTypeOK'
    BY <2>3 DEF Enqueue, PageTypeOK
  <2>6. QED
    BY <2>4, <2>5
<1>12. QED
  BY <1>1, <1>2, <1>3, <1>4, <1>5, <1>6, <1>7, <1>8, <1>9, <1>10, <1>11 DEF Browser, Poll, Reconnect

\* The pages have no part in what the coroutines and processes do.
LEMMA ServerLeavesPages ==
  /\ \A t \in Task : Worker(t) \/ TouchDone(t) => UNCHANGED page
  /\ \A p \in Process : Restart(p) => UNCHANGED page
BY DEF Worker, TouchDone, StepDone, StepFails, GiveUp, Commit, CommitRaises,
       Settle, EndsInFailure, Restart

LEMMA StepType == TypeOK /\ [Next]_vars => TypeOK'
<1> SUFFICES ASSUME TypeOK, [Next]_vars PROVE TypeOK'
  OBVIOUS
<1>0. UNCHANGED page => PageTypeOK'
  BY DEF TypeOK, PageTypeOK, page
<1>1. CASE \E t \in Task : Worker(t) \/ TouchDone(t)
  BY <1>0, <1>1, WorkerType, ServerLeavesPages DEF TypeOK
<1>2. CASE \E p \in Process : Restart(p)
  BY <1>0, <1>2, RestartType, ServerLeavesPages DEF TypeOK
<1>3. CASE \E b \in Page : Browser(b)
  BY <1>3, BrowserType
<1>4. CASE UNCHANGED vars
  BY <1>0, <1>4 DEF TypeOK, ServerTypeOK, vars, server
<1>5. QED
  BY <1>1, <1>2, <1>3, <1>4 DEF Next

\* Every variable of the router and of the page keeps its type.
THEOREM RunTypeCorrect == Spec => []TypeOK
<1>1. QED
  BY InitType, StepType, PTL DEF Spec

-----------------------------------------------------------------------------
(* What is true of a task between any two of its steps.                     *)

Ended == {"settle", "over", "lost"}

\* what a run has flushed when it begins a step
Flushed == [icp |-> {}, sourcing |-> {"IcpProfile"},
            campaign |-> {"IcpProfile", "Prospect"},
            emails |-> {"IcpProfile", "Prospect", "Campaign"}]

\* A task in one of its steps has committed nothing and published nothing.
Working(t) ==
  stage[t] \in Steps \union {"commit"} =>
    rows[t] = {} /\ results[t] = "none" /\ t \in running /\ t \notin unsure

Fresh(t) ==
  stage[t] = "new" =>
    /\ rows[t] = {} /\ work[t] = {} /\ results[t] = "none" /\ home[t] = NoProcess
    /\ t \notin unsure

\* Its session holds the rows of the steps that are done, or nothing.
Holding(t) ==
  /\ stage[t] \in Steps => work[t] = Flushed[stage[t]]
  /\ stage[t] = "commit" =>
       /\ outcome[t] \in {"SUCCESS", "PARTIAL", "FAILURE"}
       /\ work[t] = IF outcome[t] = "SUCCESS" THEN Tables ELSE {}

\* A task that has ended holds nothing, and its result is true of its rows.
Told(t) ==
  stage[t] \in Ended =>
    /\ rows[t] \in {{}, Tables}
    /\ results[t] = "SUCCESS" => rows[t] = Tables
    /\ results[t] \in {"FAILURE", "PARTIAL"} /\ t \notin unsure => rows[t] = {}
    /\ home[t] # NoProcess => results[t] # "none"

TaskInv(t) == Fresh(t) /\ Working(t) /\ Holding(t) /\ Told(t)
TasksInv == \A t \in Task : TaskInv(t)

LEMMA StageFacts ==
  /\ "new" \notin Steps /\ "commit" \notin Steps /\ Ended \intersect Steps = {}
  /\ "new" \notin Ended /\ "commit" \notin Ended /\ "icp" \in Steps
  /\ Stages = Steps \union Ended \union {"new", "commit"}
BY DEF Steps, Ended, Stages

\* A task that a step leaves alone stays as it is.
LEMMA Untouched ==
  ASSUME NEW t \in Task, TaskInv(t),
         stage'[t] = stage[t], rows'[t] = rows[t], work'[t] = work[t],
         outcome'[t] = outcome[t], results'[t] = results[t], home'[t] = home[t],
         t \in running <=> t \in running', t \in unsure <=> t \in unsure'
  PROVE  TaskInv(t)'
BY DEF TaskInv, Fresh, Working, Holding, Told

LEMMA StepDoneTask ==
  ASSUME TypeOK, NEW t \in Task, TaskInv(t), StepDone(t)
  PROVE  TaskInv(t)'
<1>1. /\ stage[t] \in Steps /\ stage'[t] = NextStep[stage[t]]
      /\ work'[t] = work[t] \union {TableOf[stage[t]]}
      /\ outcome'[t] = IF stage[t] = "emails" THEN "SUCCESS" ELSE outcome[t]
      /\ UNCHANGED <<rows, results, running, unsure>>
  BY DEF StepDone, TypeOK, ServerTypeOK
<1>2. work[t] = Flushed[stage[t]]
  BY <1>1 DEF TaskInv, Holding
<1>3. Working(t)' /\ Fresh(t)' /\ Told(t)'
  BY <1>1 DEF TaskInv, Working, Fresh, Told, NextStep, Steps, Ended
<1>4. Holding(t)'
  <2>1. CASE stage[t] = "icp"
    BY <1>1, <1>2, <2>1 DEF Holding, Flushed, NextStep, TableOf, Steps
  <2>2. CASE stage[t] = "sourcing"
    BY <1>1, <1>2, <2>2 DEF Holding, Flushed, NextStep, TableOf, Steps
  <2>3. CASE stage[t] = "campaign"
    BY <1>1, <1>2, <2>3 DEF Holding, Flushed, NextStep, TableOf, Steps
  <2>4. CASE stage[t] = "emails"
    <3>1. work'[t] = Tables /\ outcome'[t] = "SUCCESS" /\ stage'[t] = "commit"
      BY <1>1, <1>2, <2>4 DEF Flushed, TableOf, Tables, NextStep
    <3>2. QED
      BY <3>1, StageFacts DEF Holding
  <2>5. QED
    BY <1>1, <2>1, <2>2, <2>3, <2>4 DEF Steps
<1>5. QED
  BY <1>3, <1>4 DEF TaskInv

LEMMA StepFailsTask ==
  ASSUME TypeOK, NEW t \in Task, TaskInv(t), StepFails(t)
  PROVE  TaskInv(t)'
<1>1. stage[t] \in Steps /\ stage'[t] = "commit" /\ work'[t] = {}
      /\ outcome'[t] \in {"PARTIAL", "FAILURE"}
      /\ UNCHANGED <<rows, results, running, unsure>>
  BY DEF StepFails, TypeOK, ServerTypeOK
<1>2. Working(t)' /\ Fresh(t)' /\ Told(t)' /\ Holding(t)'
  BY <1>1, StageFacts DEF TaskInv, Working, Fresh, Told, Holding
<1>3. QED
  BY <1>2 DEF TaskInv

LEMMA GiveUpTask ==
  ASSUME TypeOK, NEW t \in Task, TaskInv(t), GiveUp(t)
  PROVE  TaskInv(t)'
<1>1. stage[t] \in Steps /\ stage'[t] = "over" /\ results'[t] = "FAILURE"
      /\ UNCHANGED <<rows, unsure>>
  BY DEF GiveUp, EndsInFailure, TypeOK, ServerTypeOK
<1>2. rows[t] = {}
  BY <1>1 DEF TaskInv, Working
<1>3. Working(t)' /\ Fresh(t)' /\ Told(t)' /\ Holding(t)'
  BY <1>1, <1>2, StageFacts DEF Working, Fresh, Told, Holding, Ended
<1>4. QED
  BY <1>3 DEF TaskInv

LEMMA CommitTask ==
  ASSUME TypeOK, NEW t \in Task, TaskInv(t), Commit(t)
  PROVE  TaskInv(t)'
<1>1. stage[t] = "commit" /\ stage'[t] = "settle" /\ results'[t] = outcome[t]
      /\ rows'[t] = rows[t] \union work[t] /\ UNCHANGED <<home, unsure>>
  BY DEF Commit, TypeOK, ServerTypeOK
<1>2. /\ rows[t] = {} /\ outcome[t] \in {"SUCCESS", "PARTIAL", "FAILURE"}
      /\ work[t] = IF outcome[t] = "SUCCESS" THEN Tables ELSE {}
  BY <1>1 DEF TaskInv, Working, Holding
<1>3. rows'[t] = IF outcome[t] = "SUCCESS" THEN Tables ELSE {}
  BY <1>1, <1>2
<1>4. Told(t)'
  BY <1>1, <1>2, <1>3 DEF Told
<1>5. Working(t)' /\ Fresh(t)' /\ Holding(t)'
  BY <1>1, StageFacts DEF Working, Fresh, Holding, Ended
<1>6. QED
  BY <1>4, <1>5 DEF TaskInv

LEMMA CommitRaisesTask ==
  ASSUME TypeOK, NEW t \in Task, TaskInv(t), CommitRaises(t)
  PROVE  TaskInv(t)'
<1>1. stage[t] = "commit" /\ stage'[t] = "over" /\ results'[t] = "FAILURE"
  BY DEF CommitRaises, EndsInFailure, TypeOK, ServerTypeOK
<1>2. rows[t] = {} /\ work[t] \in {{}, Tables}
  BY <1>1 DEF TaskInv, Working, Holding
<1>3. \/ rows'[t] = {} /\ UNCHANGED unsure
      \/ rows'[t] = work[t] /\ work[t] # {} /\ t \in unsure'
  BY <1>2 DEF CommitRaises, TypeOK, ServerTypeOK
<1>4. Told(t)'
  BY <1>1, <1>2, <1>3 DEF Told
<1>5. Working(t)' /\ Fresh(t)' /\ Holding(t)'
  BY <1>1, StageFacts DEF Working, Fresh, Holding, Ended
<1>6. QED
  BY <1>4, <1>5 DEF TaskInv

LEMMA SettleTask ==
  ASSUME TypeOK, NEW t \in Task, TaskInv(t), Settle(t)
  PROVE  TaskInv(t)'
<1>1. stage[t] = "settle" /\ stage'[t] = "over"
      /\ UNCHANGED <<rows, results, home, unsure>>
  BY DEF Settle, TypeOK, ServerTypeOK
<1>2. Working(t)' /\ Fresh(t)' /\ Holding(t)' /\ Told(t)'
  BY <1>1, StageFacts DEF TaskInv, Working, Fresh, Holding, Told, Ended
<1>3. QED
  BY <1>2 DEF TaskInv

LEMMA WorkerTasks ==
  ASSUME TypeOK, TasksInv, NEW t \in Task, Worker(t) \/ TouchDone(t)
  PROVE  TasksInv'
<1> SUFFICES ASSUME NEW u \in Task PROVE TaskInv(u)'
  BY DEF TasksInv
<1>1. TaskInv(u) /\ TaskInv(t)
  BY DEF TasksInv
<1>2. CASE TouchDone(t)
  BY <1>1, <1>2, Untouched DEF TouchDone
<1>3. CASE ~TouchDone(t) /\ u # t
  <2>1. /\ stage'[u] = stage[u] /\ rows'[u] = rows[u] /\ work'[u] = work[u]
        /\ outcome'[u] = outcome[u] /\ results'[u] = results[u]
        /\ home'[u] = home[u]
        /\ u \in running <=> u \in running'
        /\ u \in unsure <=> u \in unsure'
    <3>1. CASE StepDone(t) \/ StepFails(t)
      BY <1>3, <3>1 DEF StepDone, StepFails, TypeOK, ServerTypeOK
    <3>2. CASE GiveUp(t) \/ CommitRaises(t)
      BY <1>3, <3>2 DEF GiveUp, CommitRaises, EndsInFailure, TypeOK, ServerTypeOK
    <3>3. CASE Commit(t) \/ Settle(t)
      BY <1>3, <3>3 DEF Commit, Settle, TypeOK, ServerTypeOK
    <3>4. QED
      BY <1>3, <3>1, <3>2, <3>3 DEF Worker
  <2>2. QED
    BY <1>1, <2>1, Untouched
<1>4. CASE ~TouchDone(t) /\ u = t
  BY <1>1, <1>4, StepDoneTask, StepFailsTask, GiveUpTask, CommitTask,
     CommitRaisesTask, SettleTask DEF Worker
<1>5. QED
  BY <1>2, <1>3, <1>4

LEMMA RestartTasks ==
  ASSUME TypeOK, TasksInv, NEW p \in Process, Restart(p)
  PROVE  TasksInv'
<1> SUFFICES ASSUME NEW t \in Task PROVE TaskInv(t)'
  BY DEF TasksInv
<1>0. TaskInv(t)
  BY DEF TasksInv
<1>1. CASE home[t] # p
  BY <1>0, <1>1, Untouched DEF Restart, TypeOK, ServerTypeOK
<1>2. CASE home[t] = p
  <2>1. /\ results'[t] = "none" /\ home'[t] = NoProcess /\ work'[t] = {}
        /\ stage'[t] = IF stage[t] \in Steps \union {"commit", "settle"}
                       THEN "lost" ELSE stage[t]
        /\ rows'[t] = rows[t] \/ (stage[t] = "commit" /\ rows'[t] = rows[t] \union work[t])
        /\ unsure' = unsure
    BY <1>2 DEF Restart, TypeOK, ServerTypeOK
  <2>2. stage[t] # "new" /\ stage[t] \in Stages
    BY <1>0, <1>2, NamesAssumption DEF TaskInv, Fresh, TypeOK, ServerTypeOK
  <2>3. stage'[t] \in {"over", "lost"}
    BY <2>1, <2>2 DEF Stages
  <2>4. rows'[t] \in {{}, Tables}
    <3>1. CASE stage[t] \in Steps
      BY <1>0, <2>1, <3>1, StageFacts DEF TaskInv, Working
    <3>2. CASE stage[t] = "commit"
      <4>1. rows[t] = {} /\ work[t] \in {{}, Tables}
        BY <1>0, <3>2 DEF TaskInv, Working, Holding
      <4>2. QED
        BY <2>1, <4>1
    <3>3. CASE stage[t] \in Ended
      BY <1>0, <2>1, <3>3, StageFacts DEF TaskInv, Told
    <3>4. QED
      BY <2>2, <3>1, <3>2, <3>3, StageFacts
  <2>5. Working(t)' /\ Fresh(t)' /\ Holding(t)' /\ Told(t)'
    BY <2>1, <2>3, <2>4, StageFacts DEF Working, Fresh, Holding, Told, Ended
  <2>6. QED
    BY <2>5 DEF TaskInv
<1>3. QED
  BY <1>1, <1>2

LEMMA BrowserTasks ==
  ASSUME TypeOK, TasksInv, NEW b \in Page, Browser(b)
  PROVE  TasksInv'
<1> SUFFICES ASSUME NEW t \in Task PROVE TaskInv(t)'
  BY DEF TasksInv
<1>0. TaskInv(t)
  BY DEF TasksInv
<1>1. CASE \E p \in Taking, u \in Task : Enqueue(b, p, u)
  <2> PICK p \in Taking, u \in Task : Enqueue(b, p, u)
    BY <1>1
  <2>1. CASE u # t
    BY <1>0, <2>1, Untouched DEF Enqueue, TypeOK, ServerTypeOK
  <2>2. CASE u = t
    <3>1. /\ stage[t] = "new" /\ stage'[t] = "icp" /\ t \in running'
          /\ UNCHANGED <<rows, work, results, unsure>>
      BY <2>2 DEF Enqueue, TypeOK, ServerTypeOK
    <3>2. rows[t] = {} /\ work[t] = {} /\ results[t] = "none" /\ t \notin unsure
      BY <1>0, <3>1 DEF TaskInv, Fresh
    <3>3. Fresh(t)' /\ Working(t)' /\ Told(t)'
      BY <3>1, <3>2, StageFacts DEF Fresh, Working, Told
    <3>4. Holding(t)'
      BY <3>1, <3>2 DEF Holding, Flushed
    <3>5. QED
      BY <3>3, <3>4 DEF TaskInv
  <2>3. QED
    BY <2>1, <2>2
<1>2. CASE UNCHANGED server
  BY <1>0, <1>2, Untouched DEF server
<1>3. QED
  BY <1>1, <1>2 DEF Browser, Submit, Refuse, PostAnswered, PostLost, ReviewAnswered,
     ReviewFailed, Approve, Reset, Toggle, Poll, Reconnect, Refetch

LEMMA StepTasks == TypeOK /\ TasksInv /\ [Next]_vars => TasksInv'
<1> SUFFICES ASSUME TypeOK, TasksInv, [Next]_vars PROVE TasksInv'
  OBVIOUS
<1>1. CASE Next
  BY <1>1, WorkerTasks, RestartTasks, BrowserTasks DEF Next
<1>2. CASE UNCHANGED vars
  BY <1>2, Untouched DEF TasksInv, vars, server
<1>3. QED
  BY <1>1, <1>2

LEMMA InitTasks == Init => TasksInv
<1> SUFFICES ASSUME Init, NEW t \in Task PROVE TaskInv(t)
  BY DEF TasksInv
<1>1. stage[t] = "new" /\ rows[t] = {} /\ work[t] = {} /\ results[t] = "none"
      /\ home[t] = NoProcess /\ unsure = {}
  BY DEF Init
<1>2. QED
  BY <1>1, StageFacts DEF TaskInv, Fresh, Working, Holding, Told

-----------------------------------------------------------------------------
(* What a page shows.                                                       *)

\* A result on the screen is about a task that has ended, and is true of its
\* rows; so is the review gate.
ShowsTruth(b) ==
  /\ screen[b].result # "none" => taskId[b] \in Task /\ stage[taskId[b]] \in Ended
  /\ screen[b].result = "SUCCESS" => rows[taskId[b]] = Tables
  /\ screen[b].result \in {"FAILURE", "PARTIAL"} /\ taskId[b] \notin unsure =>
       rows[taskId[b]] = {}

ReviewsSaved(b) == \A t \in shown[b] \ Older : rows[t] = Tables

PagesInv == \A b \in Page : ShowsTruth(b) /\ ReviewsSaved(b)

RunInv == TypeOK /\ TasksInv /\ PagesInv

\* Rows that are saved stay, and what has ended does not change its rows.
LEMMA RowsKept ==
  ASSUME TypeOK, TasksInv, TasksInv', [Next]_vars, NEW t \in Task
  PROVE  /\ rows[t] = Tables => rows'[t] = Tables
         /\ stage[t] \in Ended => /\ stage'[t] \in Ended /\ rows'[t] = rows[t]
                                  /\ t \in unsure' <=> t \in unsure
<1>0. rows \in [Task -> SUBSET Tables] /\ rows[t] \in SUBSET Tables
  BY DEF TypeOK, ServerTypeOK
<1>1. CASE \E u \in Task : Worker(u) \/ TouchDone(u)
  <2> PICK u \in Task : Worker(u) \/ TouchDone(u)
    BY <1>1
  <2>1. CASE StepDone(u) \/ StepFails(u) \/ TouchDone(u)
    BY <2>1, StageFacts DEF StepDone, StepFails, TouchDone, TypeOK, ServerTypeOK
  <2>2. CASE GiveUp(u)
    BY <2>2, StageFacts DEF GiveUp, EndsInFailure, TypeOK, ServerTypeOK
  <2>3. CASE CommitRaises(u)
    <3>1. stage[u] = "commit" /\ stage' = [stage EXCEPT ![u] = "over"]
      BY <2>3 DEF CommitRaises, EndsInFailure
    <3>2. work[u] \in SUBSET Tables
      BY DEF TypeOK, ServerTypeOK
    <3>3. u # t => rows'[t] = rows[t] /\ (t \in unsure' <=> t \in unsure)
                   /\ stage'[t] = stage[t]
      BY <1>0, <2>3, <3>1 DEF CommitRaises, TypeOK, ServerTypeOK
    <3>4. u = t => rows[t] = {}
      BY <3>1 DEF TasksInv, TaskInv, Working
    <3>5. QED
      BY <3>1, <3>3, <3>4, StageFacts DEF Tables
  <2>4. CASE Commit(u)
    <3>1. stage[u] = "commit" /\ rows' = [rows EXCEPT ![u] = @ \union work[u]]
          /\ stage' = [stage EXCEPT ![u] = "settle"] /\ unsure' = unsure
      BY <2>4 DEF Commit
    <3>2. u = t => rows[t] = {}
      BY <3>1 DEF TasksInv, TaskInv, Working
    <3>3. u # t => rows'[t] = rows[t] /\ stage'[t] = stage[t]
      BY <1>0, <3>1 DEF TypeOK, ServerTypeOK
    <3>4. QED
      BY <3>1, <3>2, <3>3, StageFacts DEF Tables
  <2>5. CASE Settle(u)
    BY <2>5, StageFacts DEF Settle, TypeOK, ServerTypeOK, Ended
  <2>6. QED
    BY <2>1, <2>2, <2>3, <2>4, <2>5 DEF Worker
<1>2. CASE \E p \in Process : Restart(p)
  <2> PICK p \in Process : Restart(p)
    BY <1>2
  <2>1. /\ rows'[t] = rows[t] \/ (stage[t] = "commit" /\ rows'[t] = rows[t] \union work[t])
        /\ stage'[t] = stage[t] \/ stage'[t] = "lost"
        /\ unsure' = unsure
    BY DEF Restart, TypeOK, ServerTypeOK
  <2>2. stage[t] = "commit" => rows[t] = {}
    BY DEF TasksInv, TaskInv, Working
  <2>3. QED
    BY <2>1, <2>2, StageFacts DEF Tables, Ended
<1>3. CASE \E b \in Page : Browser(b)
  <2>1. rows' = rows /\ unsure' = unsure
    BY <1>3 DEF Browser, Submit, Refuse, PostAnswered, PostLost, ReviewAnswered,
       ReviewFailed, Approve, Reset, Toggle, Poll, Reconnect, Refetch, Enqueue, server
  <2>2. stage'[t] = stage[t] \/ stage[t] = "new"
    BY <1>3 DEF Browser, Submit, Refuse, PostAnswered, PostLost, ReviewAnswered,
       ReviewFailed, Approve, Reset, Toggle, Poll, Reconnect, Refetch, Enqueue, server, TypeOK, ServerTypeOK
  <2>3. QED
    BY <2>1, <2>2, StageFacts
<1>4. CASE UNCHANGED vars
  BY <1>4 DEF vars, server
<1>5. QED
  BY <1>1, <1>2, <1>3, <1>4 DEF Next

\* A page that does not move is right as long as the rows are kept.
LEMMA PageUntouched ==
  ASSUME TypeOK, TasksInv, TasksInv', [Next]_vars, NEW b \in Page,
         ShowsTruth(b), ReviewsSaved(b)
  PROVE  /\ screen'[b] = screen[b] /\ taskId'[b] = taskId[b] => ShowsTruth(b)'
         /\ shown'[b] = shown[b] => ReviewsSaved(b)'
<1>1. ASSUME screen'[b] = screen[b], taskId'[b] = taskId[b]
      PROVE  ShowsTruth(b)'
  <2>1. CASE screen[b].result = "none"
    BY <1>1, <2>1 DEF ShowsTruth
  <2>2. CASE screen[b].result # "none"
    <3>1. taskId[b] \in Task /\ stage[taskId[b]] \in Ended
      BY <2>2 DEF ShowsTruth
    <3>2. /\ stage'[taskId[b]] \in Ended /\ rows'[taskId[b]] = rows[taskId[b]]
          /\ taskId[b] \in unsure' <=> taskId[b] \in unsure
      BY <3>1, RowsKept
    <3>3. QED
      BY <1>1, <3>1, <3>2 DEF ShowsTruth
  <2>3. QED
    BY <2>1, <2>2
<1>2. ASSUME shown'[b] = shown[b]
      PROVE  ReviewsSaved(b)'
  <2>1. \A t \in shown[b] \ Older : t \in Task
    BY DEF TypeOK, PageTypeOK
  <2>2. QED
    BY <1>2, <2>1, RowsKept DEF ReviewsSaved
<1>3. QED
  BY <1>1, <1>2

LEMMA StepPages ==
  ASSUME TypeOK, TypeOK', TasksInv, TasksInv', PagesInv, [Next]_vars
  PROVE  PagesInv'
<1> SUFFICES ASSUME NEW b \in Page PROVE ShowsTruth(b)' /\ ReviewsSaved(b)'
  BY DEF PagesInv
<1>0. /\ ShowsTruth(b) /\ ReviewsSaved(b)
      /\ shown \in [Page -> SUBSET (Task \union Older)]
      /\ screen \in [Page -> Screens]
      /\ taskId \in [Page -> Task \union {NoTask}]
  BY DEF PagesInv, TypeOK, PageTypeOK
<1>1. CASE screen'[b] = screen[b] /\ taskId'[b] = taskId[b] /\ shown'[b] = shown[b]
  BY <1>0, <1>1, PageUntouched
<1>2. CASE PostAnswered(b)
  <2>1. screen'[b] = NoRun /\ shown'[b] = shown[b]
    BY <1>0, <1>2 DEF PostAnswered
  <2>2. ShowsTruth(b)'
    BY <2>1 DEF ShowsTruth, NoRun
  <2>3. QED
    BY <1>0, <2>1, <2>2, PageUntouched
<1>3. CASE Reset(b)
  <2>1. screen'[b] = NoRun /\ shown'[b] = {}
    BY <1>0, <1>3 DEF Reset
  <2>2. QED
    BY <2>1 DEF ShowsTruth, ReviewsSaved, NoRun
<1>4. CASE \E p \in Process : Refetch(b, p)
  <2> PICK p \in Process : Refetch(b, p)
    BY <1>4
  <2> DEFINE t == taskId[b]
  <2>1. /\ t \in Task /\ taskId'[b] = t /\ shown'[b] = shown[b]
        /\ screen'[b] = Answer(p, t)
        /\ rows' = rows /\ stage' = stage /\ unsure' = unsure
    BY <1>0 DEF Refetch, server
  <2>2. CASE Answer(p, t).result = "none"
    BY <1>0, <2>1, <2>2, PageUntouched DEF ShowsTruth
  <2>3. CASE Answer(p, t).result # "none"
    <3>1. results[t] = Answer(p, t).result /\ results[t] \in Results
      BY <2>1, <2>3, AnswerType DEF TypeOK, ServerTypeOK
    <3>2. Fresh(t) /\ Working(t) /\ Told(t) /\ stage[t] \in Stages
      BY <2>1 DEF TasksInv, TaskInv, TypeOK, ServerTypeOK
    <3>3. stage[t] \in Ended
      BY <2>3, <3>1, <3>2, StageFacts DEF Fresh, Working
    <3>4. ShowsTruth(b)'
      BY <2>1, <3>1, <3>2, <3>3 DEF ShowsTruth, Told
    <3>5. QED
      BY <1>0, <2>1, <3>4, PageUntouched
  <2>4. QED
    BY <2>2, <2>3
<1>5. CASE ReviewAnswered(b)
  <2>1. PICK found \in SUBSET Visible : shown'[b] \in {shown[b], found}
    BY <1>0, <1>5 DEF ReviewAnswered
  <2>2. screen'[b] = screen[b] /\ taskId'[b] = taskId[b] /\ rows' = rows
    BY <1>5 DEF ReviewAnswered, server
  <2>3. ShowsTruth(b)'
    BY <1>0, <2>2, PageUntouched
  <2>4. \A t \in Visible \ Older : rows[t] = Tables
    <3> SUFFICES ASSUME NEW t \in Task, "Prospect" \in rows[t] PROVE rows[t] = Tables
      BY DEF Visible
    <3>1. TaskInv(t) /\ stage[t] \in Stages
      BY DEF TasksInv, TypeOK, ServerTypeOK
    <3>2. QED
      BY <3>1, StageFacts DEF TaskInv, Fresh, Working, Told
  <2>5. QED
    BY <1>0, <2>1, <2>2, <2>3, <2>4 DEF ReviewsSaved
<1>6. \/ /\ screen'[b] = screen[b] /\ taskId'[b] = taskId[b]
         /\ shown'[b] = shown[b]
      \/ PostAnswered(b) \/ Reset(b) \/ (\E p \in Process : Refetch(b, p))
      \/ ReviewAnswered(b)
  <2>1. CASE UNCHANGED vars
    BY <2>1 DEF vars, page
  <2>2. CASE UNCHANGED page
    BY <2>2 DEF page
  <2>3. CASE \E c \in Page : Browser(c)
    <3> PICK c \in Page : Browser(c)
      BY <2>3
    <3>1. CASE Submit(c) \/ Refuse(c) \/ PostLost(c) \/ ReviewFailed(c) \/ Approve(c)
      BY <3>1 DEF Submit, Refuse, PostLost, ReviewFailed, Approve
    <3>2. CASE \E x \in Task \union Older : Toggle(c, x)
      BY <3>2 DEF Toggle
    <3>3. CASE \E p \in Taking, t \in Task : Enqueue(c, p, t)
      BY <3>3 DEF Enqueue
    <3>4. CASE PostAnswered(c)
      BY <1>0, <3>4 DEF PostAnswered
    <3>5. CASE Reset(c)
      BY <1>0, <3>5 DEF Reset
    <3>6. CASE \E p \in Process : Refetch(c, p)
      BY <1>0, <3>6 DEF Refetch
    <3>7. CASE ReviewAnswered(c)
      BY <1>0, <3>7 DEF ReviewAnswered
    <3>8. QED
      BY <3>1, <3>2, <3>3, <3>4, <3>5, <3>6, <3>7 DEF Browser, Poll, Reconnect
  <2>4. QED
    BY <2>1, <2>2, <2>3, ServerLeavesPages DEF Next
<1>7. QED
  BY <1>1, <1>2, <1>3, <1>4, <1>5, <1>6

LEMMA Invariance == Spec => []RunInv
<1>1. Init => RunInv
  <2> SUFFICES ASSUME Init PROVE PagesInv
    BY InitType, InitTasks DEF RunInv
  <2>1. \A b \in Page : screen[b] = NoRun /\ shown[b] = {}
    BY DEF Init
  <2>2. QED
    BY <2>1 DEF PagesInv, ShowsTruth, ReviewsSaved, NoRun
<1>2. RunInv /\ [Next]_vars => RunInv'
  BY StepType, StepTasks, StepPages DEF RunInv
<1>3. QED
  BY <1>1, <1>2, PTL DEF Spec

-----------------------------------------------------------------------------
(* The theorems.                                                            *)

LEMMA TaskCases ==
  ASSUME RunInv, NEW t \in Task
  PROVE  stage[t] \in Ended \/ (rows[t] = {} /\ results[t] = "none")
<1>1. TaskInv(t) /\ stage[t] \in Stages
  BY DEF RunInv, TasksInv, TypeOK, ServerTypeOK
<1>2. QED
  BY <1>1, StageFacts DEF TaskInv, Fresh, Working

\* However a run ends, its four tables are in the schema together or not at
\* all: the router commits once.
THEOREM RunsAreAtomic == Spec => []AllOrNothing
<1>1. RunInv => AllOrNothing
  BY TaskCases DEF AllOrNothing, RunInv, TasksInv, TaskInv, Told
<1>2. QED
  BY <1>1, Invariance, PTL

\* A FAILURE or PARTIAL that is stored or on a screen is of a run without rows,
\* but for a commit whose answer was lost.
THEOREM FailuresAreClean == Spec => []FailureLeavesNothing
<1>1. RunInv => FailureLeavesNothing
  <2> SUFFICES ASSUME RunInv PROVE FailureLeavesNothing
    OBVIOUS
  <2>1. \A t \in Task \ unsure :
          results[t] \in {"FAILURE", "PARTIAL"} => rows[t] = {}
    BY TaskCases DEF RunInv, TasksInv, TaskInv, Told
  <2>2. \A b \in Page :
          screen[b].result \in {"FAILURE", "PARTIAL"} /\ taskId[b] \notin unsure
          => rows[taskId[b]] = {}
    BY DEF RunInv, PagesInv, ShowsTruth
  <2>3. QED
    BY <2>1, <2>2 DEF FailureLeavesNothing
<1>2. QED
  BY <1>1, Invariance, PTL

\* SUCCESS on a screen means saved, through every restart.
THEOREM SuccessesAreSaved == Spec => []SuccessIsSaved
<1>1. RunInv => SuccessIsSaved
  BY DEF RunInv, PagesInv, ShowsTruth, SuccessIsSaved
<1>2. QED
  BY <1>1, Invariance, PTL

\* A process that was not restarted never loses sight of a task it took.
THEOREM HomeKnowsTask == Spec => []KnownAtHome
<1>1. RunInv => KnownAtHome
  <2> SUFFICES ASSUME RunInv, NEW t \in Task, home[t] # NoProcess
               PROVE  t \in running \/ results[t] # "none"
    BY DEF KnownAtHome
  <2>1. TaskInv(t) /\ stage[t] \in Stages
    BY DEF RunInv, TasksInv, TypeOK, ServerTypeOK
  <2>2. QED
    BY <2>1, StageFacts DEF TaskInv, Fresh, Working, Told
<1>2. QED
  BY <1>1, Invariance, PTL

\* The review the page promises before emails are generated never takes place:
\* whatever the gate offers of a run has its emails written and committed.
THEOREM ReviewIsLate == Spec => []ReviewComesAfterEmails
<1>1. RunInv => ReviewComesAfterEmails
  BY DEF RunInv, PagesInv, ReviewsSaved, ReviewComesAfterEmails
<1>2. QED
  BY <1>1, Invariance, PTL

-----------------------------------------------------------------------------
(* The refinement of RunLedger.  It needs more than RunInv: what an unsure  *)
(* run is said to be, and that task ids are fresh.                          *)

\* A commit that was answered with an error is a FAILURE, or forgotten.
DoubtInv == \A t \in unsure : stage[t] \in Ended /\ results[t] \in {"none", "FAILURE"}

\* The answer to a POST names a run that nobody follows yet, and that no other
\* answer names.
FreshIds ==
  /\ \A b \in Page : post[b] \in Task => stage[post[b]] # "new"
  /\ \A b \in Page : taskId[b] \in Task => stage[taskId[b]] # "new"
  /\ \A b, c \in Page : post[b] \in Task => taskId[c] # post[b]
  /\ \A b, c \in Page : post[b] \in Task /\ post[c] = post[b] => c = b
  /\ \A b, c \in Page : taskId[b] \in Task /\ taskId[c] = taskId[b] => c = b

LedgerInv == DoubtInv /\ FreshIds

LEMMA InitLedger == Init => LedgerInv
<1> SUFFICES ASSUME Init PROVE LedgerInv
  OBVIOUS
<1>1. \A b \in Page : post[b] \notin Task /\ taskId[b] \notin Task
  BY NamesAssumption DEF Init
<1>2. unsure = {}
  BY DEF Init
<1>3. QED
  BY <1>1, <1>2 DEF LedgerInv, DoubtInv, FreshIds

\* What the server's steps do to runs in doubt.
LEMMA StepDoubt ==
  ASSUME TypeOK, TasksInv, TasksInv', DoubtInv, [Next]_vars
  PROVE  DoubtInv'
<1>1. CASE \E u \in Task : Worker(u) \/ TouchDone(u)
  <2> PICK u \in Task : Worker(u) \/ TouchDone(u)
    BY <1>1
  <2>0. \A t \in unsure : stage[t] \notin Steps \union {"commit"}
    BY StageFacts DEF DoubtInv
  <2>1. CASE StepDone(u) \/ StepFails(u) \/ TouchDone(u)
    <3>1. unsure' = unsure /\ results' = results
      BY <2>1 DEF StepDone, StepFails, TouchDone
    <3>2. \A t \in unsure : stage'[t] = stage[t]
      BY <2>0, <2>1 DEF StepDone, StepFails, TouchDone, TypeOK, ServerTypeOK
    <3>3. QED
      BY <3>1, <3>2 DEF DoubtInv
  <2>2. CASE GiveUp(u)
    <3>1. unsure' = unsure /\ u \notin unsure
      BY <2>0, <2>2 DEF GiveUp
    <3>2. \A t \in unsure : stage'[t] = stage[t] /\ results'[t] = results[t]
      BY <3>1, <2>2 DEF GiveUp, EndsInFailure, TypeOK, ServerTypeOK
    <3>3. QED
      BY <3>1, <3>2 DEF DoubtInv
  <2>3. CASE CommitRaises(u)
    <3>1. /\ unsure' = unsure \/ unsure' = unsure \union {u}
          /\ \A t \in Task \ {u} : stage'[t] = stage[t] /\ results'[t] = results[t]
          /\ stage'[u] = "over" /\ results'[u] = "FAILURE"
      BY <2>3 DEF CommitRaises, EndsInFailure, TypeOK, ServerTypeOK
    <3>2. unsure \subseteq Task
      BY DEF TypeOK, ServerTypeOK
    <3>3. QED
      BY <3>1, <3>2 DEF DoubtInv, Ended
  <2>4. CASE Commit(u)
    <3>1. unsure' = unsure /\ u \notin unsure
      BY <2>0, <2>4 DEF Commit
    <3>2. \A t \in unsure : stage'[t] = stage[t] /\ results'[t] = results[t]
      BY <3>1, <2>4 DEF Commit, TypeOK, ServerTypeOK
    <3>3. QED
      BY <3>1, <3>2 DEF DoubtInv
  <2>5. CASE Settle(u)
    <3>1. /\ unsure' = unsure /\ results' = results
          /\ \A t \in unsure : stage'[t] = stage[t] \/ stage'[t] = "over"
      BY <2>5 DEF Settle, TypeOK, ServerTypeOK
    <3>2. QED
      BY <3>1 DEF DoubtInv, Ended
  <2>6. QED
    BY <2>1, <2>2, <2>3, <2>4, <2>5 DEF Worker
<1>2. CASE \E p \in Process : Restart(p)
  <2> PICK p \in Process : Restart(p)
    BY <1>2
  <2>1. /\ unsure' = unsure /\ unsure \subseteq Task
        /\ \A t \in Task : /\ stage'[t] = stage[t] \/ stage'[t] = "lost"
                           /\ results'[t] = results[t] \/ results'[t] = "none"
    BY DEF Restart, TypeOK, ServerTypeOK
  <2>2. QED
    BY <2>1 DEF DoubtInv, Ended
<1>3. CASE \E b \in Page : Browser(b)
  <2>1. unsure' = unsure /\ results' = results
        /\ \A t \in Task : stage'[t] = stage[t] \/ stage[t] = "new"
    BY <1>3 DEF Browser, Submit, Refuse, PostAnswered, PostLost, ReviewAnswered,
       ReviewFailed, Approve, Reset, Toggle, Poll, Reconnect, Refetch, Enqueue, server, TypeOK, ServerTypeOK
  <2>2. unsure \subseteq Task
    BY DEF TypeOK, ServerTypeOK
  <2>3. QED
    BY <2>1, <2>2, StageFacts DEF DoubtInv
<1>4. CASE UNCHANGED vars
  BY <1>4 DEF vars, server, DoubtInv
<1>5. QED
  BY <1>1, <1>2, <1>3, <1>4 DEF Next

\* What a step of a page leaves to the others.
LEMMA PageFrame ==
  ASSUME TypeOK, NEW b \in Page, Browser(b)
  PROVE  \A c \in Page \ {b} :
           post'[c] = post[c] /\ taskId'[c] = taskId[c] /\ screen'[c] = screen[c]
<1> USE DEF TypeOK, PageTypeOK
<1>1. CASE Submit(b) \/ Refuse(b) \/ PostAnswered(b) \/ PostLost(b)
  BY <1>1 DEF Submit, Refuse, PostAnswered, PostLost
<1>2. CASE ReviewAnswered(b) \/ ReviewFailed(b) \/ Approve(b) \/ Reset(b)
  BY <1>2 DEF ReviewAnswered, ReviewFailed, Approve, Reset
<1>3. CASE \E x \in Task \union Older : Toggle(b, x)
  BY <1>3 DEF Toggle
<1>4. CASE \E p \in Process : Refetch(b, p)
  BY <1>4 DEF Refetch
<1>5. CASE \E p \in Taking, t \in Task : Enqueue(b, p, t)
  BY <1>5 DEF Enqueue
<1>6. QED
  BY <1>1, <1>2, <1>3, <1>4, <1>5 DEF Browser, Poll, Reconnect

\* A run that was started stays so.
LEMMA StageGrows ==
  ASSUME TypeOK, [Next]_vars, NEW t \in Task, stage[t] # "new"
  PROVE  stage'[t] # "new"
<1>0. stage \in [Task -> Stages]
  BY DEF TypeOK, ServerTypeOK
<1>1. CASE \E u \in Task : Worker(u) \/ TouchDone(u)
  <2> PICK u \in Task : Worker(u) \/ TouchDone(u)
    BY <1>1
  <2>1. CASE StepDone(u)
    BY <1>0, <2>1 DEF StepDone, NextStep, Steps
  <2>2. QED
    BY <1>0, <2>1 DEF Worker, StepFails, GiveUp, CommitRaises, EndsInFailure, Commit, Settle,
      TouchDone
<1>2. CASE \E p \in Process : Restart(p)
  BY <1>0, <1>2 DEF Restart
<1>3. CASE \E b \in Page : Browser(b)
  BY <1>0, <1>3 DEF Browser, Submit, Refuse, PostAnswered, PostLost, ReviewAnswered,
     ReviewFailed, Approve, Reset, Toggle, Poll, Reconnect, Refetch, Enqueue, server
<1>4. CASE UNCHANGED vars
  BY <1>4 DEF vars, server
<1>5. QED
  BY <1>1, <1>2, <1>3, <1>4 DEF Next

\* Which run a page names, after any of its steps.
LEMMA NamesMove ==
  ASSUME TypeOK, NEW b \in Page, Browser(b)
  PROVE  \/ post'[b] = post[b] /\ taskId'[b] = taskId[b]
         \/ post'[b] \notin Task /\ taskId'[b] \in {taskId[b], NoTask}
         \/ post'[b] = post[b] /\ taskId'[b] = NoTask
         \/ post[b] \in Task /\ post'[b] \notin Task /\ taskId'[b] = post[b]
         \/ /\ post'[b] \in Task /\ stage[post'[b]] = "new" /\ stage'[post'[b]] # "new"
            /\ taskId'[b] = taskId[b]
<1> USE DEF TypeOK, PageTypeOK, ServerTypeOK
<1>1. CASE Submit(b) \/ Refuse(b) \/ PostLost(b)
  BY <1>1, NamesAssumption DEF Submit, Refuse, PostLost
<1>2. CASE PostAnswered(b)
  BY <1>2, NamesAssumption DEF PostAnswered
<1>3. CASE ReviewAnswered(b) \/ ReviewFailed(b) \/ Approve(b) \/ Reset(b)
  BY <1>3 DEF ReviewAnswered, ReviewFailed, Approve, Reset
<1>4. CASE \E x \in Task \union Older : Toggle(b, x)
  BY <1>4 DEF Toggle
<1>5. CASE \E p \in Process : Refetch(b, p)
  BY <1>5 DEF Refetch
<1>6. CASE \E p \in Taking, t \in Task : Enqueue(b, p, t)
  BY <1>6 DEF Enqueue
<1>7. QED
  BY <1>1, <1>2, <1>3, <1>4, <1>5, <1>6 DEF Browser, Poll, Reconnect

LEMMA StepFresh ==
  ASSUME TypeOK, FreshIds, [Next]_vars
  PROVE  FreshIds'
<1>0. \A t \in Task : stage[t] # "new" => stage'[t] # "new"
  BY StageGrows
<1>1. CASE UNCHANGED <<post, taskId>>
  BY <1>0, <1>1 DEF FreshIds
<1>2. ASSUME NEW b \in Page, Browser(b)
      PROVE  FreshIds'
  <2>1. \A c \in Page \ {b} : post'[c] = post[c] /\ taskId'[c] = taskId[c]
    BY <1>2, PageFrame
  <2>2. CASE post'[b] = post[b] /\ taskId'[b] = taskId[b]
    BY <1>0, <2>1, <2>2 DEF FreshIds
  <2>3. CASE post'[b] \notin Task /\ taskId'[b] \in {taskId[b], NoTask}
    BY <1>0, <2>1, <2>3, NamesAssumption DEF FreshIds
  <2>4. CASE post'[b] = post[b] /\ taskId'[b] = NoTask
    BY <1>0, <2>1, <2>4, NamesAssumption DEF FreshIds
  <2>5. CASE post[b] \in Task /\ post'[b] \notin Task /\ taskId'[b] = post[b]
    BY <1>0, <2>1, <2>5 DEF FreshIds
  <2>6. CASE /\ post'[b] \in Task /\ stage[post'[b]] = "new" /\ stage'[post'[b]] # "new"
             /\ taskId'[b] = taskId[b]
    BY <1>0, <2>1, <2>6 DEF FreshIds
  <2>7. QED
    BY <1>2, <2>2, <2>3, <2>4, <2>5, <2>6, NamesMove
<1>3. QED
  BY <1>1, <1>2, ServerLeavesPages DEF Next, vars, page

LEMMA LedgerInvariance == Spec => []LedgerInv
<1>1. RunInv /\ RunInv' /\ LedgerInv /\ [Next]_vars => LedgerInv'
  BY StepDoubt, StepFresh DEF RunInv, LedgerInv
<1>2. QED
  BY <1>1, InitLedger, Invariance, PTL DEF Spec

LedgerState ==
  <<[t \in Task |-> LifeOf(t)], taskId, [b \in Page |-> VerdictOf(b)]>>

\* The life of a task, by where it is.
LEMMA LifeCases ==
  ASSUME RunInv, NEW t \in Task
  PROVE  /\ stage[t] = "new" => LifeOf(t) = "new"
         /\ stage[t] \in Steps \union {"commit"} => LifeOf(t) = "running"
         /\ stage[t] \in Ended =>
              LifeOf(t) = IF rows[t] = {} THEN "gone"
                          ELSE IF t \in unsure THEN "doubtful" ELSE "kept"
<1>1. Fresh(t) /\ Working(t)
  BY DEF RunInv, TasksInv, TaskInv
<1>2. QED
  BY <1>1, StageFacts DEF LifeOf, Fresh, Working

\* What has ended has ended for good.
LEMMA LifeEnded ==
  ASSUME RunInv, RunInv', [Next]_vars, NEW t \in Task, stage[t] \in Ended
  PROVE  LifeOf(t)' = LifeOf(t)
<1>1. stage'[t] \in Ended /\ rows'[t] = rows[t] /\ (t \in unsure' <=> t \in unsure)
  BY RowsKept DEF RunInv
<1>2. QED
  BY <1>1, StageFacts DEF LifeOf

\* Pages see nothing of a step of the server.
LEMMA LedgerUnseen ==
  ASSUME UNCHANGED page
  PROVE  taskId' = taskId /\ [b \in Page |-> VerdictOf(b)]' = [b \in Page |-> VerdictOf(b)]
BY DEF page, VerdictOf

\* A coroutine ends, and its run is kept or gone.
LEMMA LedgerEnds ==
  ASSUME RunInv, RunInv', NEW u \in Task, stage[u] \in Steps \union {"commit"},
         stage'[u] \in Ended, u \notin unsure', UNCHANGED page,
         \A t \in Task \ {u} : LifeOf(t)' = LifeOf(t)
  PROVE  Runs!Next
<1>1. LifeOf(u) = "running"
  BY LifeCases
<1>2. LifeOf(u)' = IF rows'[u] = {} THEN "gone" ELSE "kept"
  BY StageFacts DEF LifeOf
<1>3. u \in Runs!Running
  BY <1>1 DEF Runs!Running
<1>4. CASE rows'[u] = {}
  <2>1. Runs!End({}, {u})
    BY <1>2, <1>4, LedgerUnseen DEF Runs!End
  <2>2. QED
    BY <1>3, <2>1 DEF Runs!Next
<1>5. CASE rows'[u] # {}
  <2>1. Runs!End({u}, {})
    BY <1>2, <1>5, LedgerUnseen DEF Runs!End
  <2>2. QED
    BY <1>3, <2>1 DEF Runs!Next
<1>6. QED
  BY <1>4, <1>5

\* A coroutine leaves the other tasks where they are.
LEMMA WorkerFrame ==
  ASSUME TypeOK, NEW u \in Task, Worker(u) \/ TouchDone(u)
  PROVE  /\ UNCHANGED page
         /\ \A t \in Task \ {u} : /\ stage'[t] = stage[t] /\ rows'[t] = rows[t]
                                  /\ t \in unsure' <=> t \in unsure
         /\ \A t \in Task \ {u} : LifeOf(t)' = LifeOf(t)
<1>1. UNCHANGED page
  BY ServerLeavesPages
<1>2. \A t \in Task \ {u} : /\ stage'[t] = stage[t] /\ rows'[t] = rows[t]
                            /\ t \in unsure' <=> t \in unsure
  <2>1. CASE StepDone(u) \/ StepFails(u) \/ TouchDone(u)
    BY <2>1 DEF StepDone, StepFails, TouchDone, TypeOK, ServerTypeOK
  <2>2. CASE GiveUp(u) \/ CommitRaises(u)
    BY <2>2 DEF GiveUp, CommitRaises, EndsInFailure, TypeOK, ServerTypeOK
  <2>3. CASE Commit(u) \/ Settle(u)
    BY <2>3 DEF Commit, Settle, TypeOK, ServerTypeOK
  <2>4. QED
    BY <2>1, <2>2, <2>3 DEF Worker
<1>3. QED
  BY <1>1, <1>2 DEF LifeOf

LEMMA LedgerWorker ==
  ASSUME RunInv, RunInv', LedgerInv, LedgerInv', NEW u \in Task,
         Worker(u) \/ TouchDone(u)
  PROVE  Runs!Next \/ UNCHANGED LedgerState
<1>0. /\ TypeOK /\ UNCHANGED page /\ \A t \in Task \ {u} : LifeOf(t)' = LifeOf(t)
      /\ stage \in [Task -> Stages] /\ rows \in [Task -> SUBSET Tables]
      /\ unsure \in SUBSET Task
  BY WorkerFrame DEF RunInv, TypeOK, ServerTypeOK
<1>1. ASSUME LifeOf(u)' = LifeOf(u)
      PROVE  UNCHANGED LedgerState
  BY <1>0, <1>1, LedgerUnseen DEF LedgerState
<1>2. CASE StepDone(u) \/ StepFails(u) \/ TouchDone(u)
  <2>1. stage[u] \in Steps
    BY <1>2 DEF StepDone, StepFails, TouchDone, Steps
  <2>2. stage'[u] \in Steps \union {"commit"}
    BY <1>0, <1>2, <2>1 DEF StepDone, StepFails, TouchDone, NextStep, Steps
  <2>3. rows' = rows
    BY <1>2 DEF StepDone, StepFails, TouchDone
  <2>4. rows[u] = {}
    BY <2>1 DEF RunInv, TasksInv, TaskInv, Working
  <2>5. LifeOf(u)' = "running" /\ LifeOf(u) = "running"
    BY <2>1, <2>2, <2>3, <2>4, StageFacts DEF LifeOf
  <2>6. QED
    BY <1>1, <2>5
<1>3. CASE GiveUp(u)
  <2>1. stage[u] \in Steps /\ stage'[u] = "over" /\ unsure' = unsure
    BY <1>0, <1>3 DEF GiveUp, EndsInFailure
  <2>2. u \notin unsure
    BY <2>1 DEF RunInv, TasksInv, TaskInv, Working
  <2>3. QED
    BY <1>0, <2>1, <2>2, LedgerEnds DEF Ended
<1>4. CASE Commit(u)
  <2>1. stage[u] = "commit" /\ stage'[u] = "settle" /\ unsure' = unsure
    BY <1>0, <1>4 DEF Commit
  <2>2. u \notin unsure
    BY <2>1 DEF RunInv, TasksInv, TaskInv, Working
  <2>3. QED
    BY <1>0, <2>1, <2>2, LedgerEnds DEF Ended
<1>5. CASE CommitRaises(u)
  <2>1. stage[u] = "commit" /\ stage'[u] = "over"
    BY <1>0, <1>5 DEF CommitRaises, EndsInFailure
  <2>2. u \notin unsure /\ LifeOf(u) = "running"
    BY <2>1, LifeCases DEF RunInv, TasksInv, TaskInv, Working
  <2>3. CASE unsure' = unsure
    BY <1>0, <2>1, <2>2, <2>3, LedgerEnds DEF Ended
  <2>4. CASE unsure' # unsure
    <3>1. work[u] # {} /\ rows'[u] = rows[u] \union work[u] /\ u \in unsure'
      BY <1>0, <1>5, <2>4 DEF CommitRaises
    <3>2. LifeOf(u)' = "doubtful"
      BY <3>1 DEF LifeOf
    <3>3. Runs!Doubt(u)
      BY <1>0, <2>2, <3>2, LedgerUnseen DEF Runs!Doubt
    <3>4. QED
      BY <3>3 DEF Runs!Next
  <2>5. QED
    BY <2>3, <2>4
<1>6. CASE Settle(u)
  <2>1. stage[u] = "settle" /\ stage'[u] = "over" /\ UNCHANGED <<rows, unsure>>
    BY <1>0, <1>6 DEF Settle
  <2>2. LifeOf(u)' = LifeOf(u)
    BY <2>1 DEF LifeOf, Steps
  <2>3. QED
    BY <1>1, <2>2
<1>7. QED
  BY <1>2, <1>3, <1>4, <1>5, <1>6 DEF Worker

\* The runs of a process that dies end together, those whose commit was made as kept.
LEMMA LedgerRestart ==
  ASSUME RunInv, RunInv', LedgerInv, NEW p \in Process, Restart(p)
  PROVE  Runs!Next
<1> DEFINE kept == {t \in Runs!Running : LifeOf(t)' = "kept"}
           gone == {t \in Runs!Running : LifeOf(t)' = "gone"}
<1>0. /\ stage \in [Task -> Stages] /\ unsure' = unsure /\ UNCHANGED page
  BY DEF Restart, RunInv, TypeOK, ServerTypeOK
<1>1. \A t \in Task : \/ /\ stage'[t] = stage[t] /\ rows'[t] = rows[t]
                      \/ stage'[t] = "lost" /\ stage[t] \in Steps \union {"commit", "settle"}
  BY DEF Restart, RunInv, TypeOK, ServerTypeOK
<1>2. ASSUME NEW t \in Task
      PROVE  LifeOf(t)' = IF t \in kept THEN "kept" ELSE IF t \in gone THEN "gone"
                          ELSE LifeOf(t)
  <2>1. CASE stage'[t] = stage[t] /\ rows'[t] = rows[t]
    <3>1. LifeOf(t)' = LifeOf(t)
      BY <1>0, <2>1 DEF LifeOf
    <3>2. t \in Runs!Running => LifeOf(t) = "running"
      BY DEF Runs!Running
    <3>3. QED
      BY <3>1, <3>2
  <2>2. CASE stage[t] = "settle"
    <3>1. stage[t] \in Ended
      BY <2>2 DEF Ended
    <3>2. LifeOf(t)' = LifeOf(t)
      BY <3>1, LifeEnded DEF Next
    <3>3. QED
      BY <3>2
  <2>3. CASE stage'[t] = "lost" /\ stage[t] \in Steps \union {"commit"}
    <3>1. t \in Runs!Running
      BY <2>3, LifeCases DEF Runs!Running
    <3>2. t \notin unsure'
      BY <1>0, <2>3 DEF RunInv, TasksInv, TaskInv, Working
    <3>3. LifeOf(t)' \in {"kept", "gone"}
      BY <2>3, <3>2 DEF LifeOf, Steps
    <3>4. QED
      BY <3>1, <3>3
  <2>4. QED
    BY <1>1, <2>1, <2>2, <2>3
<1>3. Runs!End(kept, gone)
  <2>1. [t \in Task |-> LifeOf(t)]'
          = [t \in Task |-> IF t \in kept THEN "kept" ELSE IF t \in gone THEN "gone"
                            ELSE [x \in Task |-> LifeOf(x)][t]]
    BY <1>2
  <2> HIDE DEF kept, gone
  <2>2. QED
    BY <1>0, <2>1, LedgerUnseen DEF Runs!End
<1>4. kept \in SUBSET Runs!Running /\ gone \in SUBSET Runs!Running
  OBVIOUS
<1>5. QED
  BY <1>3, <1>4 DEF Runs!Next

\* What a page is told, by any process and at any time, agrees with the run.
LEMMA LedgerPoll ==
  ASSUME RunInv, LedgerInv, NEW b \in Page, NEW p \in Process, Refetch(b, p)
  PROVE  Runs!Next
<1> DEFINE t == taskId[b]
           s == Answer(p, t)
<1>1. /\ t \in Task /\ screen' = [screen EXCEPT ![b] = s]
      /\ UNCHANGED <<server, taskId>> /\ screen \in [Page -> Screens]
  BY DEF Refetch, RunInv, TypeOK, PageTypeOK
<1>2. \A c \in Page \ {b} : VerdictOf(c)' = VerdictOf(c)
  BY <1>1 DEF VerdictOf
<1>3. [x \in Task |-> LifeOf(x)]' = [x \in Task |-> LifeOf(x)]
  BY <1>1 DEF server, LifeOf
<1>4. screen'[b] = s
  BY <1>1
<1>5. CASE s.result = "none"
  <2>1. VerdictOf(b)' = "none"
    BY <1>4, <1>5 DEF VerdictOf
  <2>2. [c \in Page |-> VerdictOf(c)]'
          = [[c \in Page |-> VerdictOf(c)] EXCEPT ![b] = "none"]
    BY <1>2, <2>1
  <2>3. Runs!Tell(b, "none")
    BY <1>1, <1>3, <2>2 DEF Runs!Tell
  <2>4. QED
    BY <2>3 DEF Runs!Next
<1>6. CASE s.result # "none"
  <2>1. results[t] = s.result /\ results[t] \in {"SUCCESS", "PARTIAL", "FAILURE"}
    BY <1>1, <1>6, AnswerType DEF RunInv, TypeOK, ServerTypeOK, Results
  <2>2. stage[t] \in Ended /\ Told(t)
    BY <1>1, <2>1, TaskCases DEF RunInv, TasksInv, TaskInv
  <2>3. LifeOf(t) = IF rows[t] = {} THEN "gone"
                    ELSE IF t \in unsure THEN "doubtful" ELSE "kept"
    BY <1>1, <2>2, LifeCases
  <2>4. CASE s.result = "SUCCESS"
    <3>1. VerdictOf(b)' = "success"
      BY <1>4, <2>4 DEF VerdictOf
    <3>2. rows[t] = Tables /\ t \notin unsure
      BY <2>1, <2>2, <2>4 DEF Told, LedgerInv, DoubtInv
    <3>3. LifeOf(t) = "kept"
      BY <2>3, <3>2 DEF Tables
    <3>4. [c \in Page |-> VerdictOf(c)]'
            = [[c \in Page |-> VerdictOf(c)] EXCEPT ![b] = "success"]
      BY <1>2, <3>1
    <3>5. Runs!Tell(b, "success")
      BY <1>1, <1>3, <3>3, <3>4 DEF Runs!Tell
    <3>6. QED
      BY <3>5 DEF Runs!Next
  <2>5. CASE s.result \in {"PARTIAL", "FAILURE"}
    <3>1. VerdictOf(b)' = "failure"
      BY <1>4, <2>5 DEF VerdictOf
    <3>2. LifeOf(t) \in {"gone", "doubtful"}
      BY <2>1, <2>2, <2>3, <2>5 DEF Told
    <3>3. [c \in Page |-> VerdictOf(c)]'
            = [[c \in Page |-> VerdictOf(c)] EXCEPT ![b] = "failure"]
      BY <1>2, <3>1
    <3>4. Runs!Tell(b, "failure")
      BY <1>1, <1>3, <3>2, <3>3 DEF Runs!Tell
    <3>5. QED
      BY <3>4 DEF Runs!Next
  <2>6. QED
    BY <2>1, <2>4, <2>5
<1>7. QED
  BY <1>5, <1>6

LEMMA LedgerBrowser ==
  ASSUME RunInv, RunInv', LedgerInv, NEW b \in Page, Browser(b)
  PROVE  Runs!Next \/ UNCHANGED LedgerState
<1>0. /\ taskId \in [Page -> Task \union {NoTask}] /\ screen \in [Page -> Screens]
      /\ post \in [Page -> {"idle", "sent"} \union Task] /\ stage \in [Task -> Stages]
  BY DEF RunInv, TypeOK, PageTypeOK, ServerTypeOK
<1>1. ASSUME UNCHANGED <<server, taskId, screen>>
      PROVE  UNCHANGED LedgerState
  BY <1>1 DEF LedgerState, LifeOf, VerdictOf, server
<1>2. CASE \E p \in Process : Refetch(b, p)
  BY <1>2, LedgerPoll
<1>3. CASE PostAnswered(b)
  <2>1. /\ post[b] \in Task /\ taskId' = [taskId EXCEPT ![b] = post[b]]
        /\ screen' = [screen EXCEPT ![b] = NoRun] /\ UNCHANGED server
    BY <1>3 DEF PostAnswered
  <2>2. stage[post[b]] # "new" /\ \A c \in Page : taskId[c] # post[b]
    BY <2>1 DEF LedgerInv, FreshIds
  <2>3. LifeOf(post[b]) # "new"
    BY <2>2 DEF LifeOf
  <2>4. [x \in Task |-> LifeOf(x)]' = [x \in Task |-> LifeOf(x)]
    BY <2>1 DEF server, LifeOf
  <2>5. VerdictOf(b)' = "none" /\ \A c \in Page \ {b} : VerdictOf(c)' = VerdictOf(c)
    BY <1>0, <2>1 DEF VerdictOf, NoRun
  <2>6. [c \in Page |-> VerdictOf(c)]' = [[c \in Page |-> VerdictOf(c)] EXCEPT ![b] = "none"]
    BY <2>5
  <2>7. Runs!Follow(b, post[b])
    BY <2>1, <2>2, <2>3, <2>4, <2>6 DEF Runs!Follow
  <2>8. QED
    BY <2>1, <2>7 DEF Runs!Next
<1>4. CASE Reset(b)
  <2>1. /\ taskId' = [taskId EXCEPT ![b] = NoTask]
        /\ screen' = [screen EXCEPT ![b] = NoRun] /\ UNCHANGED server
    BY <1>4 DEF Reset
  <2>2. [x \in Task |-> LifeOf(x)]' = [x \in Task |-> LifeOf(x)]
    BY <2>1 DEF server, LifeOf
  <2>3. VerdictOf(b)' = "none" /\ \A c \in Page \ {b} : VerdictOf(c)' = VerdictOf(c)
    BY <1>0, <2>1 DEF VerdictOf, NoRun
  <2>4. [c \in Page |-> VerdictOf(c)]' = [[c \in Page |-> VerdictOf(c)] EXCEPT ![b] = "none"]
    BY <2>3
  <2>5. Runs!Leave(b)
    BY <2>1, <2>2, <2>4 DEF Runs!Leave
  <2>6. QED
    BY <2>5 DEF Runs!Next
<1>5. CASE \E p \in Taking, t \in Task : Enqueue(b, p, t)
  <2> PICK p \in Taking, t \in Task : Enqueue(b, p, t)
    BY <1>5
  <2>1. /\ stage[t] = "new" /\ stage' = [stage EXCEPT ![t] = "icp"]
        /\ UNCHANGED <<rows, unsure, taskId, screen>>
    BY DEF Enqueue
  <2>2. rows[t] = {}
    BY <2>1 DEF RunInv, TasksInv, TaskInv, Fresh
  <2>3. LifeOf(t) = "new" /\ LifeOf(t)' = "running"
    BY <1>0, <2>1, <2>2 DEF LifeOf, Steps
  <2>4. \A u \in Task \ {t} : LifeOf(u)' = LifeOf(u)
    BY <1>0, <2>1 DEF LifeOf
  <2>5. [u \in Task |-> LifeOf(u)]' = [[u \in Task |-> LifeOf(u)] EXCEPT ![t] = "running"]
    BY <2>3, <2>4
  <2>6. [c \in Page |-> VerdictOf(c)]' = [c \in Page |-> VerdictOf(c)]
    BY <2>1 DEF VerdictOf
  <2>7. Runs!Start(t)
    BY <2>1, <2>3, <2>5, <2>6 DEF Runs!Start
  <2>8. QED
    BY <2>7 DEF Runs!Next
<1>6. QED
  BY <1>1, <1>2, <1>3, <1>4, <1>5 DEF Browser, Submit, Refuse, PostLost, ReviewAnswered,
    ReviewFailed, Approve, Toggle, Poll, Reconnect

LEMMA LedgerStep ==
  RunInv /\ RunInv' /\ LedgerInv /\ LedgerInv' /\ [Next]_vars => [Runs!Next]_(Runs!vars)
<1> SUFFICES ASSUME RunInv, RunInv', LedgerInv, LedgerInv', [Next]_vars
             PROVE  Runs!Next \/ UNCHANGED LedgerState
  BY DEF LedgerState, Runs!vars
<1>1. CASE UNCHANGED vars
  BY <1>1 DEF vars, server, page, LedgerState, LifeOf, VerdictOf
<1>2. QED
  BY <1>1, LedgerWorker, LedgerRestart, LedgerBrowser DEF Next

\* Runs and pages implement RunLedger, for any number of pages, processes, runs and
\* restarts: the end of a run is decided once, a run has one page at most, and what a
\* page is told of that end is so, whenever it asks and whoever answers.
THEOREM RunsKept == Spec => KeepsRuns
<1>1. Init => Runs!Init
  BY DEF Init, Runs!Init, LifeOf, VerdictOf, NoRun
<1>2. QED
  BY <1>1, LedgerStep, Invariance, LedgerInvariance, PTL DEF Spec, KeepsRuns, Runs!Spec
=============================================================================
