------------------------- MODULE OutreachSendProofs -------------------------
(***************************************************************************)
(* Theorems about OutreachSend, for any number of rows, prospects and      *)
(* sessions and any of its bounds.                                         *)
(***************************************************************************)
EXTENDS OutreachSendInvariant, TLAPS

-----------------------------------------------------------------------------
(* The helpers keep their types.                                            *)

LEMMA EmptyType == /\ NothingLoaded \in ProspectObject
                   /\ Clean \in InMemory
                   /\ NoneSent \in [Sequence -> Nat]
BY DEF NothingLoaded, ProspectObject, Clean, InMemory, NoneSent

LEMMA FlushedType ==
  ASSUME TypeOK, NEW w \in Sender
  PROVE  Flushed(w) \in [Sequence -> RowStatus]
BY DEF TypeOK, InMemory, Flushed, Dirty, Exists, RowStatus, EmailStatus

LEMMA ConcludedType ==
  ASSUME TypeOK, NEW w \in Sender, cur[w] \in Sequence,
         NEW pend \in InMemory,
         NEW st \in {"Sent", "Failed"}
  PROVE  Concluded(w, pend, st) \in InMemory
BY DEF TypeOK, Concluded, InMemory

LEMMA LoadType ==
  ASSUME TypeOK, NEW w \in Sender, NEW s \in Sequence
  PROVE  Load(w, s) \in ProspectObject
<1>1. CASE loaded[w].who = ProspectOf[s]
  BY <1>1 DEF TypeOK, Load
<1>2. CASE loaded[w].who # ProspectOf[s]
  <2>1. ProspectOf[s] \in Prospect /\ suppressed[ProspectOf[s]] \in BOOLEAN
    BY RowAssumption DEF TypeOK
  <2>2. QED
    BY <1>2, <2>1 DEF Load, ProspectObject
<1>3. QED
  BY <1>1, <1>2

LEMMA TakeType ==
  ASSUME TypeOK, NEW w \in Sender, NEW s \in Sequence, Take(w, s)
  PROVE  /\ todo' \in [Sender -> SUBSET Sequence]
         /\ loaded' \in [Sender -> ProspectObject]
<1>1. todo' \in [Sender -> SUBSET Sequence]
  BY DEF TypeOK, Take
<1>2. Load(w, s) \in ProspectObject
  BY LoadType
<1>3. loaded \in [Sender -> ProspectObject] /\ loaded' = [loaded EXCEPT ![w] = Load(w, s)]
  BY DEF TypeOK, Take
<1>4. QED
  BY <1>1, <1>2, <1>3

LEMMA CloseType ==
  ASSUME TypeOK, NEW w \in Sender, Close(w)
  PROVE  /\ pc' \in [Sender -> SessionStates]
         /\ todo' \in [Sender -> SUBSET Sequence]
         /\ cur' \in [Sender -> Sequence \union {NoSeq}]
         /\ seen' \in [Sender -> EmailStatus]
         /\ loaded' \in [Sender -> ProspectObject]
         /\ pending' \in [Sender -> InMemory]
         /\ suppressedSince' \in [Sender -> SUBSET Prospect]
         /\ \A v \in Sender : pc'[v] \in {"gated", "cleared", "recording", "writing"}
                                => cur'[v] \in Sequence
<1>1. NothingLoaded \in ProspectObject /\ Clean \in InMemory
  BY EmptyType
<1>2. QED
  BY <1>1 DEF TypeOK, Close, SessionStates, EmailStatus

LEMMA AbandonType ==
  ASSUME TypeOK, NEW w \in Sender, Abandon(w), isRunning' \in BOOLEAN, mishaps' \in Nat
  PROVE  TypeOK'
<1>1. lostBy' \in [Sender -> [Sequence -> Nat]]
  BY DEF TypeOK, Abandon
<1>2. QED
  BY <1>1, CloseType DEF TypeOK, Abandon

-----------------------------------------------------------------------------
(* Type correctness.                                                        *)

LEMMA TypeInit == Init => TypeOK
<1> SUFFICES ASSUME Init
             PROVE  TypeOK
  OBVIOUS
<1>1. suppressed \in [Prospect -> BOOLEAN] /\ isRunning \in BOOLEAN
  BY DEF Init
<1>2. /\ loaded \in [Sender -> ProspectObject]
      /\ pending \in [Sender -> InMemory]
      /\ delivered \in [Sender -> [Sequence -> Nat]]
      /\ lostBy \in [Sender -> [Sequence -> Nat]]
      /\ scheds \in [Sequence -> Nat]
  BY EmptyType DEF Init
<1>3. QED
  BY <1>1, <1>2 DEF Init, TypeOK, SessionStates, RowStatus, EmailStatus

LEMMA TypeEnvironment ==
  ASSUME TypeOK, Environment
  PROVE  TypeOK'
<1>1. ASSUME NEW s \in Sequence, PutScheduled(s)
      PROVE  TypeOK'
  BY <1>1 DEF TypeOK, PutScheduled, session, RowStatus, EmailStatus
<1>2. ASSUME NEW s \in Sequence, Create(s)
      PROVE  TypeOK'
  BY <1>2 DEF TypeOK, Create, session, history, RowStatus, EmailStatus
<1>3. ASSUME NEW s \in Sequence, Update(s)
      PROVE  TypeOK'
  <2>1. CASE PutScheduled(s)
    BY <1>1, <2>1
  <2>2. CASE \E st \in UserStatus \ {"Scheduled"} : status' = [status EXCEPT ![s] = st]
    <3>1. status' \in [Sequence -> RowStatus]
      BY <2>2, RowAssumption DEF TypeOK, RowStatus
    <3>2. QED
      BY <1>1, <1>3, <3>1 DEF TypeOK, Update, session, history
  <2>3. QED
    BY <1>3, <2>1, <2>2 DEF Update
<1>4. ASSUME NEW s \in Sequence, Delete(s)
      PROVE  TypeOK'
  BY <1>4 DEF TypeOK, Delete, session, history, RowStatus
<1>5. ASSUME NEW s \in Sequence, TrackingEvent(s)
      PROVE  TypeOK'
  BY <1>5, RowAssumption DEF TypeOK, TrackingEvent, session, history, RowStatus, EmailStatus
<1>6. ASSUME NEW p \in Prospect, Suppress(p)
      PROVE  TypeOK'
  BY <1>6 DEF TypeOK, Suppress, session, history
<1>7. ASSUME NEW p \in Prospect, Unsuppress(p)
      PROVE  TypeOK'
  BY <1>7 DEF TypeOK, Unsuppress, session
<1>8. QED
  BY <1>1, <1>2, <1>3, <1>4, <1>5, <1>6, <1>7
     DEF Environment, AutopilotCreate, ScheduleSend

LEMMA TypeWork ==
  ASSUME TypeOK, NEW w \in Sender, Work(w)
  PROVE  TypeOK'
<1>1. ASSUME NEW B \in SUBSET Sequence, Begin(w, B)
      PROVE  TypeOK'
  BY <1>1 DEF TypeOK, Begin, SessionStates
<1>2. CASE TickStart(w) \/ ManualStart(w)
  BY <1>1, <1>2 DEF TickStart, ManualStart, Oldest, Limited, Due, Scheduled
<1>3. ASSUME NEW s \in Sequence, TickSkip(w, s) \/ ManualSkip(w, s)
      PROVE  TypeOK'
  <2>1. Take(w, s)
    BY <1>3 DEF TickSkip, ManualSkip
  <2>2. QED
    BY <1>3, <2>1, TakeType DEF TypeOK, TickSkip, ManualSkip, table, history
<1>4. ASSUME NEW s \in Sequence, TickTake(w, s) \/ ManualTake(w, s)
      PROVE  TypeOK'
  <2>1. Take(w, s)
    BY <1>4 DEF TickTake, ManualTake
  <2>2. pc' \in [Sender -> SessionStates] /\ cur' = [cur EXCEPT ![w] = s]
    BY <1>4 DEF TypeOK, TickTake, ManualTake, SessionStates
  <2>3. /\ todo' \in [Sender -> SUBSET Sequence]
        /\ loaded' \in [Sender -> ProspectObject]
    BY <2>1, TakeType
  <2>4. \A v \in Sender : v # w => pc'[v] = pc[v] /\ cur'[v] = cur[v]
    BY <1>4 DEF TypeOK, TickTake, ManualTake
  <2>5. QED
    BY <1>4, <2>2, <2>3, <2>4 DEF TypeOK, TickTake, ManualTake, table, history
<1>5. ASSUME NEW s \in Sequence, NEW force \in BOOLEAN, RequestStart(w, s, force)
      PROVE  TypeOK'
  BY <1>5 DEF TypeOK, RequestStart, Exists, table, history, SessionStates
<1>6. CASE QuotaCommits(w)
  BY <1>6, FlushedType, EmptyType DEF TypeOK, QuotaCommits, history
<1>7. CASE QuotaAllows(w)
  BY <1>7 DEF TypeOK, QuotaAllows, table, history, SessionStates
<1>8. CASE QuotaDenies(w) \/ Refused(w)
  <2>1. cur[w] \in Sequence
    BY <1>8 DEF TypeOK, QuotaDenies, Refused
  <2>2. Concluded(w, pending[w], "Failed") \in InMemory
    BY <2>1, ConcludedType DEF TypeOK
  <2>3. CASE QuotaDenies(w)
    BY <2>3, <2>1, <2>2
       DEF TypeOK, QuotaDenies, Conclude, table, history, SessionStates
  <2>4. CASE Refused(w)
    BY <2>4, <2>1, <2>2
       DEF TypeOK, Refused, Conclude, table, history, SessionStates
  <2>5. QED
    BY <1>8, <2>3, <2>4
<1>9. CASE ResponseLost(w)
  BY <1>9, ConcludedType
     DEF TypeOK, ResponseLost, Conclude, Count, table, SessionStates
<1>10. CASE AcceptedSystem(w)
  BY <1>10, ConcludedType
     DEF TypeOK, AcceptedSystem, Conclude, Count, table, SessionStates
<1>11. CASE AcceptedUser(w)
  <2>1. cur[w] \in Sequence
    BY <1>11 DEF TypeOK, AcceptedUser
  <2>2. [pending[w] EXCEPT ![cur[w]] = "Sent"] \in InMemory
    BY <2>1 DEF TypeOK, InMemory
  <2>3. pending' \in [Sender -> InMemory]
    BY <1>11, <2>2 DEF TypeOK, AcceptedUser
  <2>4. delivered' \in [Sender -> [Sequence -> Nat]]
    BY <1>11, <2>1 DEF TypeOK, AcceptedUser, Count
  <2>5. QED
    BY <1>11, <2>1, <2>3, <2>4 DEF TypeOK, AcceptedUser, table, SessionStates
<1>12. CASE RecordSend(w)
  <2>1. Clean \in InMemory
    BY EmptyType
  <2>2. cur[w] \in Sequence
    BY <1>12 DEF TypeOK, RecordSend
  <2>3. Concluded(w, Clean, "Sent") \in InMemory
    BY <2>1, <2>2, ConcludedType
  <2>4. QED
    <3>1. Flushed(w) \in [Sequence -> RowStatus]
      BY FlushedType
    <3>2. pending' \in [Sender -> InMemory]
      BY <1>12, <2>1, <2>3 DEF TypeOK, RecordSend, Conclude
    <3>3. pc' \in [Sender -> SessionStates]
      BY <1>12 DEF TypeOK, RecordSend, Conclude, SessionStates
    <3>4. \A v \in Sender : v # w => pc'[v] = pc[v]
      BY <1>12 DEF TypeOK, RecordSend, Conclude
    <3>5. QED
      BY <1>12, <2>2, <3>1, <3>2, <3>3, <3>4 DEF TypeOK, RecordSend, history
<1>13. CASE Finish(w) \/ RequestCommit(w)
  BY <1>13, CloseType, FlushedType DEF TypeOK, Finish, RequestCommit
<1>14. CASE Fail(w) \/ StaleRow(w)
  <2>1. Abandon(w)
    BY <1>14 DEF Fail, StaleRow
  <2>2. mishaps \in Nat /\ (mishaps' = mishaps + 1 \/ mishaps' = mishaps)
    BY <1>14 DEF TypeOK, Fail, StaleRow
  <2>3. isRunning' = isRunning \/ isRunning' = FALSE
    BY <1>14 DEF Fail, StaleRow
  <2>4. isRunning' \in BOOLEAN
    BY <2>3 DEF TypeOK
  <2>5. QED
    BY <2>1, <2>2, <2>4, AbandonType
<1>15. QED
  BY <1>2, <1>3, <1>4, <1>5, <1>6, <1>7, <1>8, <1>9, <1>10, <1>11, <1>12, <1>13,
     <1>14 DEF Work

LEMMA TypeStutter == TypeOK /\ UNCHANGED vars => TypeOK'
BY DEF TypeOK, vars, table, session, history

\* Every variable stays in its range, whatever the interleaving.
THEOREM TypeCorrect == Spec => []TypeOK
<1>1. TypeOK /\ [Next]_vars => TypeOK'
  BY TypeEnvironment, TypeWork, TypeStutter DEF Next
<1>2. QED
  BY TypeInit, <1>1, PTL DEF Spec

-----------------------------------------------------------------------------
(* Who changes what.                                                        *)

\* Users and webhooks leave the sessions alone.
LEMMA EnvironmentFrame ==
  ASSUME Environment
  PROVE  UNCHANGED <<session, delivered, lostBy>>
BY DEF Environment, Create, AutopilotCreate, ScheduleSend, PutScheduled, Update,
       Delete, TrackingEvent, Suppress, Unsuppress, session, history

\* A session leaves the other sessions alone.
LEMMA WorkFrame ==
  ASSUME TypeOK, NEW w \in Sender, NEW v \in Sender, v # w, Work(w)
  PROVE  /\ pc'[v] = pc[v] /\ todo'[v] = todo[v] /\ cur'[v] = cur[v]
         /\ loaded'[v] = loaded[v] /\ pending'[v] = pending[v]
         /\ delivered'[v] = delivered[v] /\ lostBy'[v] = lostBy[v]
         /\ suppressedSince'[v] = suppressedSince[v]
<1> USE DEF TypeOK, table, history
<1>1. CASE TickStart(w) \/ ManualStart(w)
  BY <1>1 DEF TickStart, ManualStart, Begin
<1>2. ASSUME NEW s \in Sequence,
             \/ TickSkip(w, s) \/ TickTake(w, s) \/ ManualSkip(w, s)
             \/ ManualTake(w, s) \/ \E force \in BOOLEAN : RequestStart(w, s, force)
      PROVE  /\ pc'[v] = pc[v] /\ todo'[v] = todo[v] /\ cur'[v] = cur[v]
             /\ loaded'[v] = loaded[v] /\ pending'[v] = pending[v]
             /\ delivered'[v] = delivered[v] /\ lostBy'[v] = lostBy[v]
             /\ suppressedSince'[v] = suppressedSince[v]
  BY <1>2 DEF TickSkip, TickTake, ManualSkip, ManualTake, RequestStart, Take
<1>3. CASE QuotaCommits(w) \/ QuotaAllows(w) \/ QuotaDenies(w) \/ Refused(w)
  BY <1>3 DEF QuotaCommits, QuotaAllows, QuotaDenies, Refused, Conclude
<1>4. CASE ResponseLost(w)
  BY <1>4 DEF ResponseLost, Conclude, Count
<1>5. CASE AcceptedSystem(w) \/ AcceptedUser(w)
  BY <1>5 DEF AcceptedSystem, AcceptedUser, Conclude, Count
<1>6. CASE RecordSend(w)
  BY <1>6 DEF RecordSend, Conclude
<1>7. CASE Finish(w) \/ RequestCommit(w)
  BY <1>7 DEF Finish, RequestCommit, Close
<1>8. CASE Fail(w) \/ StaleRow(w)
  BY <1>8 DEF Fail, StaleRow, Abandon, Close
<1>9. QED
  BY <1>1, <1>2, <1>3, <1>4, <1>5, <1>6, <1>7, <1>8 DEF Work

-----------------------------------------------------------------------------
(* What a tick or a manual tick holds between two of its steps.             *)

LEMMA CloseSession ==
  ASSUME TypeOK, NEW w \in Loop, Close(w)
  PROVE  SessionInv(w)'
<1>1. /\ pc'[w] = "idle" /\ todo'[w] = {} /\ pending'[w] = Clean
      /\ loaded'[w] = NothingLoaded
  BY DEF TypeOK, Close, Sender, Loop
<1>2. \A s \in Sequence : pending'[w][s] = "Clean"
  BY <1>1 DEF Clean
<1>3. QED
  BY <1>1, <1>2, RowAssumption DEF SessionInv, IdleHoldsNothing, TakenOnce, OnlySentHeld,
     UserHeld, NothingLoaded

LEMMA SessionWork ==
  ASSUME TypeOK, NEW w \in Loop, SessionInv(w), Work(w)
  PROVE  SessionInv(w)'
<1> USE DEF SessionInv, IdleHoldsNothing, TakenOnce, OnlySentHeld, UserHeld, TypeOK,
            InMemory
<1>w. w \in Sender /\ w \notin Request
  BY SenderAssumption DEF Sender, Loop
<1>1. ASSUME NEW B \in SUBSET Sequence, Begin(w, B)
      PROVE  SessionInv(w)'
  BY <1>1, <1>w DEF Begin, Clean
<1>2. CASE TickStart(w) \/ ManualStart(w)
  BY <1>1, <1>2 DEF TickStart, ManualStart, Oldest, Limited, Due, Scheduled
<1>3. ASSUME NEW s \in Sequence, TickSkip(w, s) \/ ManualSkip(w, s)
      PROVE  SessionInv(w)'
  BY <1>3, <1>w DEF TickSkip, ManualSkip, Take, table, history
<1>4. ASSUME NEW s \in Sequence, TickTake(w, s) \/ ManualTake(w, s)
      PROVE  SessionInv(w)'
  BY <1>4, <1>w DEF TickTake, ManualTake, Take, table, history
<1>6. CASE QuotaCommits(w)
  <2>1. /\ pc' = pc /\ todo' = todo /\ cur' = cur /\ loaded' = loaded
        /\ pc[w] = "gated" /\ pending'[w] = Clean
    BY <1>6, <1>w DEF QuotaCommits
  <2>2. \A s \in Sequence : Clean[s] = "Clean"
    BY DEF Clean
  <2>3. QED
    BY <2>1, <2>2, <1>w, RowAssumption
<1>7. CASE QuotaAllows(w)
  BY <1>7, <1>w DEF QuotaAllows, table, history
<1>8. CASE QuotaDenies(w) \/ Refused(w)
  BY <1>8, <1>w DEF QuotaDenies, Refused, Conclude, Concluded, table, history
<1>9. CASE ResponseLost(w)
  BY <1>9, <1>w DEF ResponseLost, Conclude, Concluded, table
<1>10. CASE AcceptedSystem(w)
  BY <1>10, <1>w DEF AcceptedSystem, Conclude, Concluded, table
<1>11. CASE AcceptedUser(w)
  BY <1>11, <1>w DEF AcceptedUser, table
<1>12. CASE RecordSend(w)
  <2>1. /\ todo' = todo /\ cur' = cur /\ loaded' = loaded
        /\ pc[w] = "recording" /\ pc'[w] = "loop" /\ cur[w] \in Sequence
    BY <1>12, <1>w DEF RecordSend, Conclude
  <2>2. pending'[w] = IF w \in Tick THEN Clean ELSE [Clean EXCEPT ![cur[w]] = "Sent"]
    BY <1>12, <1>w DEF RecordSend, Conclude, Concluded
  <2>3. \A s \in Sequence : pending'[w][s] =
          IF w \notin Tick /\ s = cur[w] THEN "Sent" ELSE "Clean"
    BY <2>1, <2>2 DEF Clean
  <2>4. QED
    BY <2>1, <2>3, <1>w, RowAssumption, SenderAssumption
<1>13. CASE Finish(w) \/ RequestCommit(w) \/ Fail(w) \/ StaleRow(w)
  BY <1>13, CloseSession DEF Finish, RequestCommit, Fail, StaleRow, Abandon
<1>15. QED
  BY <1>2, <1>3, <1>4, <1>6, <1>7, <1>8, <1>9, <1>10, <1>11, <1>12, <1>13, <1>w
     DEF Work, RequestStart

-----------------------------------------------------------------------------
(* Deliveries never outrun schedulings.                                     *)

\* A commit never puts a row into Scheduled, and what it leaves there was not held.
LEMMA FlushSchedulesNothing ==
  ASSUME TypeOK, NEW w \in Sender, NEW s \in Sequence, Flushed(w)[s] = "Scheduled"
  PROVE  status[s] = "Scheduled" /\ pending[w][s] = "Clean"
BY DEF TypeOK, InMemory, Flushed, Dirty, Exists, EmailStatus

LEMMA WorkSchedulesNothing ==
  ASSUME TypeOK, NEW w \in Sender, Work(w)
  PROVE  /\ scheds' = scheds
         /\ \A s \in Sequence : status'[s] = "Scheduled" => status[s] = "Scheduled"
<1>1. scheds' = scheds /\ (status' = status \/ status' = Flushed(w))
  BY DEF Work, TickStart, ManualStart, Begin, TickSkip, TickTake, ManualSkip, ManualTake,
         RequestStart, QuotaCommits, QuotaAllows, QuotaDenies, Refused, ResponseLost,
         AcceptedSystem, AcceptedUser, RecordSend, Finish, RequestCommit, Fail, StaleRow,
         Abandon, table, history
<1>2. QED
  BY <1>1, FlushSchedulesNothing

LEMMA EnvironmentSchedules ==
  ASSUME TypeOK, Environment, NEW s \in Sequence
  PROVE  /\ scheds'[s] \in Nat /\ scheds'[s] >= scheds[s]
         /\ status'[s] = "Scheduled" /\ status[s] # "Scheduled" =>
              scheds'[s] = scheds[s] + 1
<1> USE DEF TypeOK, session, history
<1>1. ASSUME NEW r \in Sequence, PutScheduled(r)
      PROVE  /\ scheds'[s] \in Nat /\ scheds'[s] >= scheds[s]
             /\ status'[s] = "Scheduled" /\ status[s] # "Scheduled" =>
                  scheds'[s] = scheds[s] + 1
  BY <1>1 DEF PutScheduled
<1>2. ASSUME NEW r \in Sequence,
             \/ Create(r) \/ Delete(r) \/ TrackingEvent(r)
             \/ \E st \in UserStatus \ {"Scheduled"} :
                  status' = [status EXCEPT ![r] = st] /\ scheds' = scheds
      PROVE  scheds' = scheds /\ (status'[s] = "Scheduled" => status[s] = "Scheduled")
  BY <1>2, RowAssumption DEF Create, Delete, TrackingEvent
<1>3. ASSUME NEW p \in Prospect, Suppress(p) \/ Unsuppress(p)
      PROVE  scheds' = scheds /\ status' = status
  BY <1>3 DEF Suppress, Unsuppress
<1>4. QED
  BY <1>1, <1>2, <1>3 DEF Environment, AutopilotCreate, ScheduleSend, Update

LEMMA BudgetEnvironment ==
  ASSUME TypeOK, NEW w \in Loop, Budget(w), Environment
  PROVE  Budget(w)'
<1>w. w \in Sender
  BY DEF Sender, Loop
<1>1. /\ todo'[w] = todo[w] /\ pc'[w] = pc[w] /\ cur'[w] = cur[w]
      /\ Unrecorded(w)' = Unrecorded(w)
      /\ delivered'[w] = delivered[w] /\ lostBy'[w] = lostBy[w]
  BY EnvironmentFrame DEF session, Unrecorded
<1>2. SUFFICES ASSUME NEW s \in Sequence
      PROVE  delivered[w][s] + (IF Open(w, s)' THEN 1 ELSE 0) <= scheds'[s] + lostBy[w][s]
  BY <1>1 DEF Budget
<1>3. /\ delivered[w][s] \in Nat /\ lostBy[w][s] \in Nat /\ scheds[s] \in Nat
      /\ scheds'[s] \in Nat /\ scheds'[s] >= scheds[s]
  BY <1>w, EnvironmentSchedules DEF TypeOK
<1>4. CASE Open(w, s)' /\ ~Open(w, s)
  <2>1. scheds'[s] = scheds[s] + 1
    BY <1>1, <1>4, EnvironmentSchedules DEF Open
  <2>2. delivered[w][s] <= scheds[s] + lostBy[w][s]
    BY <1>3, <1>4 DEF Budget
  <2>3. QED
    BY <1>3, <2>1, <2>2
<1>5. CASE ~Open(w, s)' \/ Open(w, s)
  <2>1. delivered[w][s] + (IF Open(w, s) THEN 1 ELSE 0) <= scheds[s] + lostBy[w][s]
    BY DEF Budget
  <2>2. QED
    BY <1>3, <1>5, <2>1
<1>6. QED
  BY <1>4, <1>5

LEMMA BudgetOther ==
  ASSUME TypeOK, NEW w \in Loop, Budget(w), NEW v \in Sender, v # w, Work(v)
  PROVE  Budget(w)'
<1>w. w \in Sender
  BY DEF Sender, Loop
<1>1. /\ todo'[w] = todo[w] /\ pc'[w] = pc[w] /\ cur'[w] = cur[w]
      /\ Unrecorded(w)' = Unrecorded(w)
      /\ delivered'[w] = delivered[w] /\ lostBy'[w] = lostBy[w]
  BY <1>w, WorkFrame DEF Unrecorded
<1>2. ASSUME NEW s \in Sequence
      PROVE  Open(w, s)' => Open(w, s)
  BY <1>1, WorkSchedulesNothing DEF Open
<1>3. scheds' = scheds
  BY WorkSchedulesNothing
<1>4. ASSUME NEW s \in Sequence
      PROVE  /\ delivered[w][s] \in Nat /\ lostBy[w][s] \in Nat /\ scheds[s] \in Nat
             /\ delivered[w][s] + (IF Open(w, s) THEN 1 ELSE 0) <= scheds[s] + lostBy[w][s]
  BY <1>w DEF TypeOK, Budget
<1>5. QED
  BY <1>1, <1>2, <1>3, <1>4 DEF Budget

\* A step that delivers and loses nothing, and opens nothing.
LEMMA BudgetQuiet ==
  ASSUME TypeOK, NEW w \in Loop, Budget(w), scheds' = scheds,
         delivered'[w] = delivered[w], lostBy'[w] = lostBy[w],
         \A s \in Sequence : Open(w, s)' => Open(w, s)
  PROVE  Budget(w)'
<1>1. ASSUME NEW s \in Sequence
      PROVE  /\ delivered[w][s] \in Nat /\ lostBy[w][s] \in Nat /\ scheds[s] \in Nat
             /\ delivered[w][s] + (IF Open(w, s) THEN 1 ELSE 0) <= scheds[s] + lostBy[w][s]
  BY DEF TypeOK, Budget, Loop, Sender
<1>2. QED
  BY <1>1 DEF Budget

\* A commit of the session itself: what it held is no longer Scheduled.
LEMMA BudgetCommit ==
  ASSUME TypeOK, NEW w \in Loop, SessionInv(w), Budget(w), scheds' = scheds,
         delivered'[w] = delivered[w], lostBy'[w] = lostBy[w], status' = Flushed(w),
         todo'[w] \subseteq todo[w],
         pc'[w] \in {"gated", "cleared"} => pc[w] \in {"gated", "cleared"} /\ cur'[w] = cur[w],
         pc[w] = "recording" => pending[w][cur[w]] = "Sent" \/ cur[w] \in Unrecorded(w)'
  PROVE  Budget(w)'
<1>1. ASSUME NEW s \in Sequence, Open(w, s)'
      PROVE  Open(w, s)
  <2>1. CASE status'[s] = "Scheduled" /\ s \notin Unrecorded(w)'
    <3>1. status[s] = "Scheduled" /\ pending[w][s] = "Clean"
      BY <2>1, FlushSchedulesNothing DEF Loop, Sender
    <3>2. QED
      BY <2>1, <3>1 DEF Open, Unrecorded
  <2>2. QED
    BY <1>1, <2>1 DEF Open
<1>2. QED
  BY <1>1, BudgetQuiet

\* MailBridge took the row in hand: the delivery the budget still had room for.
LEMMA BudgetAccepted ==
  ASSUME TypeOK, NEW w \in Loop, SessionInv(w), Budget(w),
         AcceptedSystem(w) \/ AcceptedUser(w)
  PROVE  Budget(w)'
<1>w. w \in Sender /\ w \notin Request /\ cur[w] \in Sequence /\ pc[w] = "cleared"
  BY SenderAssumption DEF Sender, Loop, TypeOK, AcceptedSystem, AcceptedUser
<1>1. /\ delivered' = Count(w, cur[w]) /\ lostBy' = lostBy /\ scheds' = scheds
      /\ todo' = todo /\ cur' = cur /\ status' = status
      /\ pc'[w] \in {"loop", "recording"}
      /\ pending[w][cur[w]] = "Clean" /\ cur[w] \notin todo[w]
  BY <1>w DEF AcceptedSystem, AcceptedUser, Conclude, table, TypeOK, SessionInv, TakenOnce
<1>2. Unrecorded(w)' = Unrecorded(w) \union {cur[w]}
  BY <1>w, <1>1
     DEF AcceptedSystem, AcceptedUser, Conclude, Concluded, Unrecorded, TypeOK, InMemory
<1>3. SUFFICES ASSUME NEW s \in Sequence
      PROVE  delivered'[w][s] + (IF Open(w, s)' THEN 1 ELSE 0) <= scheds[s] + lostBy[w][s]
  BY <1>1 DEF Budget
<1>4. /\ delivered[w][s] \in Nat /\ lostBy[w][s] \in Nat /\ scheds[s] \in Nat
      /\ delivered[w][s] + (IF Open(w, s) THEN 1 ELSE 0) <= scheds[s] + lostBy[w][s]
  BY <1>w DEF TypeOK, Budget
<1>5. delivered'[w][s] = delivered[w][s] + (IF s = cur[w] THEN 1 ELSE 0)
  BY <1>w, <1>1, <1>4 DEF TypeOK, Count
<1>6. CASE s = cur[w]
  <2>1. Open(w, s) /\ ~Open(w, s)'
    BY <1>w, <1>1, <1>2, <1>6 DEF Open
  <2>2. QED
    BY <1>4, <1>5, <1>6, <2>1
<1>7. CASE s # cur[w]
  <2>1. Open(w, s)' => Open(w, s)
    BY <1>1, <1>2, <1>7 DEF Open
  <2>2. QED
    BY <1>4, <1>5, <1>7, <2>1
<1>8. QED
  BY <1>6, <1>7

\* The answer was lost: one more delivery, and one more loss to account for it.
LEMMA BudgetLost ==
  ASSUME TypeOK, NEW w \in Loop, SessionInv(w), Budget(w), ResponseLost(w)
  PROVE  Budget(w)'
<1>w. w \in Sender /\ w \notin Request /\ cur[w] \in Sequence /\ pc[w] = "cleared"
  BY SenderAssumption DEF Sender, Loop, TypeOK, ResponseLost
<1>1. /\ delivered' = Count(w, cur[w]) /\ lostBy' = [lostBy EXCEPT ![w][cur[w]] = @ + 1]
      /\ scheds' = scheds /\ status' = status /\ todo' = todo /\ cur' = cur
      /\ pc'[w] = "loop" /\ pending'[w] = pending[w]
  BY <1>w DEF ResponseLost, Conclude, Concluded, table, TypeOK
<1>2. SUFFICES ASSUME NEW s \in Sequence
      PROVE  delivered'[w][s] + (IF Open(w, s)' THEN 1 ELSE 0) <= scheds[s] + lostBy'[w][s]
  BY <1>1 DEF Budget
<1>3. /\ delivered[w][s] \in Nat /\ lostBy[w][s] \in Nat /\ scheds[s] \in Nat
      /\ delivered[w][s] + (IF Open(w, s) THEN 1 ELSE 0) <= scheds[s] + lostBy[w][s]
  BY <1>w DEF TypeOK, Budget
<1>4. /\ delivered'[w][s] = delivered[w][s] + (IF s = cur[w] THEN 1 ELSE 0)
      /\ lostBy'[w][s] = lostBy[w][s] + (IF s = cur[w] THEN 1 ELSE 0)
  BY <1>w, <1>1, <1>3 DEF TypeOK, Count
<1>5. Open(w, s)' => Open(w, s)
  BY <1>w, <1>1 DEF Open, Unrecorded
<1>6. QED
  BY <1>3, <1>4, <1>5

\* What a session held when it was abandoned has been counted as lost.
LEMMA BudgetAbandon ==
  ASSUME TypeOK, NEW w \in Loop, SessionInv(w), Budget(w), Abandon(w)
  PROVE  Budget(w)'
<1>w. w \in Sender
  BY DEF Sender, Loop
<1>1. /\ delivered' = delivered /\ scheds' = scheds /\ status' = status
      /\ todo'[w] = {} /\ pc'[w] = "idle" /\ pending'[w] = Clean
  BY <1>w DEF Abandon, Close, TypeOK
<1>2. SUFFICES ASSUME NEW s \in Sequence
      PROVE  delivered[w][s] + (IF Open(w, s)' THEN 1 ELSE 0) <= scheds[s] + lostBy'[w][s]
  BY <1>1 DEF Budget
<1>3. /\ delivered[w][s] \in Nat /\ lostBy[w][s] \in Nat /\ scheds[s] \in Nat
      /\ delivered[w][s] + (IF Open(w, s) THEN 1 ELSE 0) <= scheds[s] + lostBy[w][s]
  BY <1>w DEF TypeOK, Budget
<1>4. lostBy'[w][s] = lostBy[w][s] + (IF s \in Unrecorded(w) THEN 1 ELSE 0)
  BY <1>w, <1>3 DEF Abandon, TypeOK
<1>5. s \notin Unrecorded(w) /\ Open(w, s)' => Open(w, s)
  BY <1>1 DEF Open
<1>6. QED
  BY <1>3, <1>4, <1>5

LEMMA BudgetOwn ==
  ASSUME TypeOK, NEW w \in Loop, SessionInv(w), Budget(w), Work(w)
  PROVE  Budget(w)'
<1>w. w \in Sender /\ w \notin Request
  BY SenderAssumption DEF Sender, Loop
<1>1. ASSUME NEW B \in SUBSET Scheduled, Begin(w, B)
      PROVE  Budget(w)'
  <2>1. Unrecorded(w) = {}
    BY <1>1 DEF Begin, Unrecorded, SessionInv, IdleHoldsNothing, Clean
  <2>2. \A s \in Sequence : Open(w, s)' => Open(w, s)
    BY <1>1, <1>w, <2>1 DEF Begin, Open, Scheduled, TypeOK
  <2>3. QED
    BY <1>1, <2>2, BudgetQuiet DEF Begin
<1>2. CASE TickStart(w) \/ ManualStart(w)
  BY <1>1, <1>2 DEF TickStart, ManualStart, Oldest, Limited, Due
<1>3. ASSUME NEW s \in Sequence,
             TickSkip(w, s) \/ ManualSkip(w, s) \/ TickTake(w, s) \/ ManualTake(w, s)
      PROVE  Budget(w)'
  <2>1. /\ pending' = pending /\ status' = status /\ delivered' = delivered
        /\ lostBy' = lostBy /\ scheds' = scheds /\ Take(w, s)
    BY <1>3 DEF TickSkip, ManualSkip, TickTake, ManualTake, table, history
  <2>2. todo'[w] = todo[w] \ {s} /\ s \in todo[w] /\ pc[w] = "loop"
    BY <2>1, <1>w DEF Take, TypeOK
  <2>3. pc'[w] = "loop" \/ (pc'[w] \in {"gated", "cleared"} /\ cur'[w] = s)
    <3>1. CASE TickSkip(w, s) \/ ManualSkip(w, s)
      BY <2>2, <3>1 DEF TickSkip, ManualSkip
    <3>2. CASE TickTake(w, s) \/ ManualTake(w, s)
      BY <1>w, <3>2 DEF TickTake, ManualTake, TypeOK
    <3>3. QED
      BY <1>3, <3>1, <3>2
  <2>4. \A r \in Sequence : Open(w, r)' => Open(w, r)
    BY <2>1, <2>2, <2>3 DEF Open, Unrecorded
  <2>5. QED
    BY <2>1, <2>4, BudgetQuiet
<1>4. CASE QuotaAllows(w) \/ QuotaDenies(w) \/ Refused(w)
  <2>1. /\ pending'[w] = pending[w] /\ status' = status /\ delivered' = delivered
        /\ lostBy' = lostBy /\ scheds' = scheds /\ todo' = todo /\ cur' = cur
        /\ pc[w] \in {"gated", "cleared"} /\ pc'[w] \in {"loop", "cleared"}
    BY <1>4, <1>w DEF QuotaAllows, QuotaDenies, Refused, Conclude, Concluded, table,
                      history, TypeOK
  <2>2. \A r \in Sequence : Open(w, r)' => Open(w, r)
    BY <2>1 DEF Open, Unrecorded
  <2>3. QED
    BY <2>1, <2>2, BudgetQuiet
<1>5. CASE QuotaCommits(w)
  BY <1>5, <1>w, BudgetCommit DEF QuotaCommits, history
<1>6. CASE RecordSend(w)
  <2>1. /\ status' = Flushed(w) /\ todo' = todo /\ pc'[w] = "loop" /\ delivered' = delivered
        /\ lostBy' = lostBy /\ scheds' = scheds /\ cur[w] \in Sequence /\ cur' = cur
        /\ pc[w] = "recording"
    BY <1>6, <1>w DEF RecordSend, Conclude, history, TypeOK
  <2>2. pending[w][cur[w]] = "Sent" \/ cur[w] \in Unrecorded(w)'
    <3>1. CASE w \in Tick
      BY <2>1, <3>1 DEF SessionInv, OnlySentHeld
    <3>2. CASE w \notin Tick
      <4>1. pending'[w] = [Clean EXCEPT ![cur[w]] = "Sent"]
        BY <1>6, <1>w, <3>2 DEF RecordSend, Conclude, Concluded, TypeOK
      <4>2. QED
        BY <2>1, <4>1 DEF Clean, Unrecorded
    <3>3. QED
      BY <3>1, <3>2
  <2>3. QED
    BY <2>1, <2>2, BudgetCommit
<1>7. CASE Finish(w) \/ RequestCommit(w)
  <2>1. /\ status' = Flushed(w) /\ todo'[w] = {} /\ pc'[w] = "idle"
        /\ delivered' = delivered /\ lostBy' = lostBy /\ scheds' = scheds
        /\ pc[w] # "recording"
    BY <1>7, <1>w DEF Finish, RequestCommit, Close, TypeOK
  <2>2. QED
    BY <2>1, BudgetCommit
<1>8. QED
  BY <1>2, <1>3, <1>4, <1>5, <1>6, <1>7, <1>w, BudgetAccepted, BudgetLost, BudgetAbandon
     DEF Work, RequestStart, Fail, StaleRow

-----------------------------------------------------------------------------
(* The theorems.                                                            *)

LEMMA SendInit == Init => SendInv
<1> SUFFICES ASSUME Init
             PROVE  SendInv
  OBVIOUS
<1>1. ASSUME NEW w \in Loop
      PROVE  SessionInv(w) /\ Budget(w)
  <2>1. /\ pc[w] = "idle" /\ todo[w] = {} /\ pending[w] = Clean
        /\ loaded[w] = NothingLoaded /\ cur[w] = NoSeq
        /\ delivered[w] = NoneSent /\ lostBy[w] = NoneSent /\ scheds = NoneSent
    BY DEF Init, Loop, Sender
  <2>2. SessionInv(w)
    BY <2>1, RowAssumption DEF SessionInv, IdleHoldsNothing, TakenOnce, OnlySentHeld,
       UserHeld, NothingLoaded, Clean
  <2>3. \A s \in Sequence : ~Open(w, s)
    BY <2>1 DEF Init, Open
  <2>4. QED
    BY <2>1, <2>2, <2>3 DEF Budget, NoneSent
<1>2. QED
  BY <1>1, TypeInit DEF SendInv

LEMMA SendStep == SendInv /\ [Next]_vars => SendInv'
<1> SUFFICES ASSUME SendInv, [Next]_vars
             PROVE  SendInv'
  OBVIOUS
<1>1. TypeOK /\ TypeOK'
  BY TypeEnvironment, TypeWork, TypeStutter DEF SendInv, Next
<1>2. SUFFICES ASSUME NEW w \in Loop
      PROVE  SessionInv(w)' /\ Budget(w)'
  BY <1>1 DEF SendInv
<1>3. SessionInv(w) /\ Budget(w) /\ w \in Sender
  BY DEF SendInv, Loop, Sender
<1>4. CASE Environment
  <2>1. UNCHANGED session
    BY <1>4, EnvironmentFrame
  <2>2. SessionInv(w)'
    BY <1>3, <2>1 DEF session, SessionInv, IdleHoldsNothing, TakenOnce, OnlySentHeld, UserHeld
  <2>3. QED
    BY <1>1, <1>3, <1>4, <2>2, BudgetEnvironment
<1>5. CASE Work(w)
  BY <1>1, <1>3, <1>5, SessionWork, BudgetOwn
<1>6. ASSUME NEW v \in Sender, v # w, Work(v)
      PROVE  SessionInv(w)' /\ Budget(w)'
  <2>1. /\ pc'[w] = pc[w] /\ todo'[w] = todo[w] /\ cur'[w] = cur[w]
        /\ loaded'[w] = loaded[w] /\ pending'[w] = pending[w]
    BY <1>1, <1>3, <1>6, WorkFrame
  <2>2. SessionInv(w)'
    BY <1>3, <2>1 DEF SessionInv, IdleHoldsNothing, TakenOnce, OnlySentHeld, UserHeld
  <2>3. QED
    BY <1>1, <1>3, <1>6, <2>2, BudgetOther
<1>7. CASE UNCHANGED vars
  BY <1>3, <1>7 DEF vars, table, session, history, SessionInv, IdleHoldsNothing, TakenOnce,
     OnlySentHeld, UserHeld, Budget, Open, Unrecorded
<1>8. QED
  BY <1>4, <1>5, <1>6, <1>7 DEF Next

\* A session delivers a row at most once for every time the row was put into
\* Scheduled, plus once for every record it lost.
THEOREM OncePerSchedulingHolds == Spec => []OncePerScheduling
<1>1. SendInv => OncePerScheduling
  <2> SUFFICES ASSUME SendInv, NEW w \in Loop, NEW s \in Sequence
               PROVE  delivered[w][s] <= scheds[s] + lostBy[w][s]
    BY DEF OncePerScheduling, Loop
  <2>1. /\ delivered[w][s] \in Nat /\ lostBy[w][s] \in Nat /\ scheds[s] \in Nat
        /\ delivered[w][s] + (IF Open(w, s) THEN 1 ELSE 0) <= scheds[s] + lostBy[w][s]
    BY DEF SendInv, TypeOK, Budget, Loop, Sender
  <2>2. QED
    BY <2>1
<1>2. QED
  BY SendInit, SendStep, <1>1, PTL DEF Spec

\* A crash costs a user at most one recorded delivery of a tick, and one besides
\* the row in flight of a manual tick.
THEOREM UserExposureHolds == Spec => []UserExposure
<1>1. SendInv => UserExposure
  <2> SUFFICES ASSUME SendInv
               PROVE  UserExposure
    OBVIOUS
  <2>1. ASSUME NEW w \in Loop
        PROVE  OnlySentHeld(w) /\ UserHeld(w) /\ pending[w] \in InMemory
    BY DEF SendInv, SessionInv, TypeOK, Loop, Sender
  <2>2. \A w \in Tick : \A s, t \in Unrecorded(w) \intersect UserOwned : s = t
    BY <2>1 DEF Loop, UserHeld, Unrecorded
  <2>3. \A w \in Manual : \A s, t \in Dirty(w) \intersect UserOwned : s = t
    BY <2>1 DEF Loop, UserHeld, OnlySentHeld, Dirty, InMemory
  <2>4. QED
    BY <2>2, <2>3 DEF UserExposure
<1>2. QED
  BY SendInit, SendStep, <1>1, PTL DEF Spec

-----------------------------------------------------------------------------
(* No email is invented.                                                    *)

LEMMA ReportedWork ==
  ASSUME TypeOK, NEW w \in Sender, Work(w), NEW s \in Sequence,
         lostBy[w][s] + (IF s \in Unrecorded(w) THEN 1 ELSE 0) <= delivered[w][s]
  PROVE  /\ delivered'[w][s] >= delivered[w][s]
         /\ lostBy'[w][s] + (IF s \in Unrecorded(w)' THEN 1 ELSE 0) <= delivered'[w][s]
<1> DEFINE Goal == /\ delivered'[w][s] >= delivered[w][s]
                   /\ lostBy'[w][s] + (IF s \in Unrecorded(w)' THEN 1 ELSE 0)
                        <= delivered'[w][s]
<1>a. /\ delivered[w][s] \in Nat /\ lostBy[w][s] \in Nat
  BY DEF TypeOK
<1>b. ASSUME delivered'[w] = delivered[w], lostBy'[w] = lostBy[w],
             Unrecorded(w)' \subseteq Unrecorded(w)
      PROVE  Goal
  BY <1>a, <1>b
<1>1. CASE TickStart(w) \/ ManualStart(w)
  BY <1>1, <1>b DEF TickStart, ManualStart, Begin, Unrecorded, TypeOK
<1>2. ASSUME NEW r \in Sequence,
             TickSkip(w, r) \/ ManualSkip(w, r) \/ TickTake(w, r) \/ ManualTake(w, r)
      PROVE  Goal
  <2>1. pending' = pending /\ delivered' = delivered /\ lostBy' = lostBy
    BY <1>2 DEF TickSkip, ManualSkip, TickTake, ManualTake, history
  <2>2. pc'[w] # "recording"
    BY <1>2 DEF TickSkip, ManualSkip, TickTake, ManualTake, Take, TypeOK
  <2>3. QED
    BY <2>1, <2>2, <1>b DEF Unrecorded
<1>3. ASSUME NEW r \in Sequence, NEW force \in BOOLEAN, RequestStart(w, r, force)
      PROVE  Goal
  BY <1>3, <1>b DEF RequestStart, Unrecorded, history, TypeOK
<1>4. CASE QuotaCommits(w)
  BY <1>4, <1>b DEF QuotaCommits, Unrecorded, Clean, history, TypeOK
<1>5. CASE QuotaAllows(w)
  BY <1>5, <1>b DEF QuotaAllows, Unrecorded, history, TypeOK
<1>6. CASE QuotaDenies(w) \/ Refused(w) \/ ResponseLost(w)
  <2>1. cur[w] \in Sequence
    BY <1>6 DEF QuotaDenies, Refused, ResponseLost, TypeOK
  <2>2. Unrecorded(w)' \subseteq Unrecorded(w)
    BY <1>6, <2>1 DEF QuotaDenies, Refused, ResponseLost, Conclude, Concluded, Unrecorded,
                      TypeOK, InMemory
  <2>3. CASE QuotaDenies(w) \/ Refused(w)
    BY <2>2, <2>3, <1>b DEF QuotaDenies, Refused, history
  <2>4. CASE ResponseLost(w)
    <3>1. /\ delivered'[w][s] = delivered[w][s] + (IF s = cur[w] THEN 1 ELSE 0)
          /\ lostBy'[w][s] = lostBy[w][s] + (IF s = cur[w] THEN 1 ELSE 0)
      BY <1>a, <2>1, <2>4 DEF ResponseLost, Count, TypeOK
    <3>2. QED
      BY <1>a, <2>2, <3>1
  <2>5. QED
    BY <1>6, <2>3, <2>4
<1>7. CASE AcceptedSystem(w) \/ AcceptedUser(w)
  <2>1. cur[w] \in Sequence /\ lostBy' = lostBy
    BY <1>7 DEF AcceptedSystem, AcceptedUser, TypeOK
  <2>2. Unrecorded(w)' \subseteq Unrecorded(w) \union {cur[w]}
    BY <1>7, <2>1 DEF AcceptedSystem, AcceptedUser, Conclude, Concluded, Unrecorded,
                      TypeOK, InMemory
  <2>3. delivered'[w][s] = delivered[w][s] + (IF s = cur[w] THEN 1 ELSE 0)
    BY <1>7, <1>a, <2>1 DEF AcceptedSystem, AcceptedUser, Count, TypeOK
  <2>4. QED
    BY <1>a, <2>1, <2>2, <2>3
<1>8. CASE RecordSend(w)
  <2>1. cur[w] \in Sequence /\ pc[w] = "recording" /\ cur' = cur /\ pc'[w] # "recording"
    BY <1>8 DEF RecordSend, Conclude, TypeOK
  <2>2. pending'[w] \in {Clean, Concluded(w, Clean, "Sent")}
    BY <1>8 DEF RecordSend, Conclude, TypeOK
  <2>3. Unrecorded(w)' \subseteq {cur[w]}
    BY <2>1, <2>2 DEF Unrecorded, Concluded, Clean
  <2>4. Unrecorded(w)' \subseteq Unrecorded(w)
    BY <2>1, <2>3 DEF Unrecorded
  <2>5. QED
    BY <1>8, <2>4, <1>b DEF RecordSend, history
<1>9. CASE Finish(w) \/ RequestCommit(w)
  BY <1>9, <1>b DEF Finish, RequestCommit, Close, Unrecorded, Clean, TypeOK
<1>10. CASE Fail(w) \/ StaleRow(w)
  <2>1. Abandon(w)
    BY <1>10 DEF Fail, StaleRow
  <2>2. Unrecorded(w)' = {}
    BY <2>1 DEF Abandon, Close, Unrecorded, Clean, TypeOK
  <2>3. /\ delivered' = delivered
        /\ lostBy'[w][s] = lostBy[w][s] + (IF s \in Unrecorded(w) THEN 1 ELSE 0)
    BY <1>a, <2>1 DEF Abandon, TypeOK
  <2>4. QED
    BY <1>a, <2>2, <2>3
<1>11. QED
  BY <1>1, <1>2, <1>3, <1>4, <1>5, <1>6, <1>7, <1>8, <1>9, <1>10 DEF Work

LEMMA ReportedStep ==
  ASSUME TypeOK, TypeOK', SentWasDelivered, [Next]_vars
  PROVE  SentWasDelivered'
<1> USE DEF TypeOK, InMemory
<1>a. \A v \in Sender, s \in Sequence :
        /\ delivered[v][s] \in Nat /\ lostBy[v][s] \in Nat
        /\ lostBy[v][s] + (IF s \in Unrecorded(v) THEN 1 ELSE 0) <= delivered[v][s]
  BY DEF SentWasDelivered
<1>1. CASE Environment
  <2>1. /\ delivered' = delivered /\ lostBy' = lostBy
        /\ \A v \in Sender : Unrecorded(v)' = Unrecorded(v)
    BY <1>1, EnvironmentFrame DEF session, Unrecorded
  <2>2. ASSUME "Sent" \notin UserStatus \union EventStatus, NEW s \in Sequence,
               status'[s] = "Sent"
        PROVE  status[s] = "Sent"
    <3>1. ASSUME NEW r \in Sequence,
                 \/ Create(r) \/ PutScheduled(r) \/ Delete(r) \/ TrackingEvent(r)
                 \/ Update(r)
          PROVE  status[s] = "Sent"
      BY <2>2, <3>1 DEF Create, PutScheduled, Delete, TrackingEvent, Update
    <3>2. ASSUME NEW p \in Prospect, Suppress(p) \/ Unsuppress(p)
          PROVE  status[s] = "Sent"
      BY <2>2, <3>2 DEF Suppress, Unsuppress
    <3>3. QED
      BY <1>1, <3>1, <3>2 DEF Environment, AutopilotCreate, ScheduleSend
  <2>3. QED
    BY <2>1, <2>2 DEF SentWasDelivered
<1>2. CASE UNCHANGED vars
  BY <1>2 DEF vars, table, session, history, SentWasDelivered, Unrecorded
<1>3. ASSUME NEW w \in Sender, Work(w)
      PROVE  SentWasDelivered'
  <2>1. \A v \in Sender : v # w => /\ delivered'[v] = delivered[v] /\ lostBy'[v] = lostBy[v]
                                    /\ Unrecorded(v)' = Unrecorded(v)
    BY <1>3, WorkFrame DEF Unrecorded
  <2>2. \A s \in Sequence : status'[s] = "Sent" =>
          status[s] = "Sent" \/ s \in Unrecorded(w)
    <3>1. status' = status \/ status' = Flushed(w)
      BY <1>3
         DEF Work, TickStart, ManualStart, Begin, TickSkip, TickTake, ManualSkip, ManualTake,
         RequestStart, QuotaCommits, QuotaAllows, QuotaDenies, Refused, ResponseLost,
         AcceptedSystem, AcceptedUser, RecordSend, Finish, RequestCommit, Fail, StaleRow,
         Abandon, table, history
    <3>2. QED
      BY <3>1 DEF Flushed, Unrecorded, Dirty
  <2>3. \A s \in Sequence :
          /\ delivered'[w][s] >= delivered[w][s]
          /\ lostBy'[w][s] + (IF s \in Unrecorded(w)' THEN 1 ELSE 0) <= delivered'[w][s]
    BY <1>3, <1>a, ReportedWork
  <2>4. ASSUME "Sent" \notin UserStatus \union EventStatus, NEW s \in Sequence,
               status'[s] = "Sent"
        PROVE  \E v \in Sender : delivered'[v][s] > 0
    <3>1. PICK v \in Sender : delivered[v][s] > 0
      <4>1. CASE status[s] = "Sent"
        BY <2>4, <4>1 DEF SentWasDelivered
      <4>2. CASE s \in Unrecorded(w)
        <5>1. delivered[w][s] > 0
          BY <1>a, <4>2
        <5>2. QED
          BY <5>1
      <4>3. QED
        BY <2>2, <2>4, <4>1, <4>2
    <3>2. delivered'[v][s] >= delivered[v][s]
      <4>1. CASE v = w
        BY <2>3, <4>1
      <4>2. CASE v # w
        <5>1. delivered'[v] = delivered[v] /\ delivered[v][s] \in Nat
          BY <1>a, <2>1, <4>2
        <5>2. QED
          BY <5>1
      <4>3. QED
        BY <4>1, <4>2
    <3>3. delivered'[v][s] > 0
      BY <1>a, <3>1, <3>2
    <3>4. QED
      BY <3>3
  <2>5. QED
    BY <1>a, <2>1, <2>3, <2>4 DEF SentWasDelivered
<1>4. QED
  BY <1>1, <1>2, <1>3 DEF Next

\* A row that reads Sent has been taken by MailBridge, and no session claims or
\* loses a delivery it did not make.
THEOREM SentWasDeliveredHolds == Spec => []SentWasDelivered
<1>1. Init => SentWasDelivered
  BY DEF Init, SentWasDelivered, Unrecorded, NoneSent, Clean
<1>2. TypeOK /\ TypeOK' /\ SentWasDelivered /\ [Next]_vars => SentWasDelivered'
  BY ReportedStep
<1>3. QED
  BY TypeCorrect, <1>1, <1>2, PTL DEF Spec

-----------------------------------------------------------------------------
(* A tick does not mail a prospect it could know to be suppressed.           *)

LEMMA KnowInit == Init => \A w \in Tick : KnowsSuppressed(w)
BY RowAssumption DEF Init, KnowsSuppressed, NothingLoaded, Sender

\* A delivery of session w is of the row in hand, which had passed the gates.
LEMMA DeliveryInHand ==
  ASSUME TypeOK, NEW w \in Sender, NEW s \in Sequence, Work(w),
         delivered'[w][s] > delivered[w][s]
  PROVE  pc[w] = "cleared" /\ s = cur[w]
<1>1. delivered' = delivered \/ (delivered' = Count(w, cur[w]) /\ pc[w] = "cleared")
  BY DEF Work, TickStart, ManualStart, Begin, TickSkip, TickTake, ManualSkip, ManualTake,
         RequestStart, QuotaCommits, QuotaAllows, QuotaDenies, Refused, ResponseLost,
         AcceptedSystem, AcceptedUser, RecordSend, Finish, RequestCommit, Fail, StaleRow,
         Abandon, history
<1>2. delivered[w][s] \in Nat
  BY DEF TypeOK
<1>3. delivered' = Count(w, cur[w]) /\ pc[w] = "cleared"
  BY <1>1, <1>2
<1>4. s # cur[w] => delivered'[w][s] = delivered[w][s]
  BY <1>3 DEF Count, TypeOK
<1>5. QED
  BY <1>2, <1>3, <1>4

LEMMA KnowWork ==
  ASSUME TypeOK, NEW w \in Tick, SessionInv(w), KnowsSuppressed(w), Work(w)
  PROVE  KnowsSuppressed(w)'
<1> USE DEF KnowsSuppressed
<1>w. w \in Sender /\ w \notin Request /\ w \notin Manual /\ w \in Loop
  BY SenderAssumption DEF Sender, Loop
<1>1. suppressed' = suppressed
  BY DEF Work, TickStart, ManualStart, Begin, TickSkip, TickTake, ManualSkip, ManualTake,
         RequestStart, QuotaCommits, QuotaAllows, QuotaDenies, Refused, ResponseLost,
         AcceptedSystem, AcceptedUser, RecordSend, Finish, RequestCommit, Fail, StaleRow,
         Abandon, table
<1>2. ASSUME NEW B \in SUBSET Sequence, Begin(w, B)
      PROVE  KnowsSuppressed(w)'
  <2>1. /\ suppressedSince'[w] = {p \in Prospect : suppressed[p]}
        /\ loaded'[w].who = NoProspect /\ pc'[w] = "loop"
    BY <1>2, <1>w DEF Begin, TypeOK, SessionInv, IdleHoldsNothing
  <2>2. QED
    BY <1>1, <2>1, RowAssumption
<1>3. CASE TickStart(w)
  BY <1>2, <1>3 DEF TickStart, Oldest, Limited, Due, Scheduled
<1>4. ASSUME NEW s \in Sequence, TickSkip(w, s) \/ TickTake(w, s)
      PROVE  KnowsSuppressed(w)'
  <2>1. /\ suppressedSince' = suppressedSince /\ Take(w, s)
    BY <1>4 DEF TickSkip, TickTake, history
  <2>2. loaded'[w] = Load(w, s) /\ pc[w] = "loop"
    BY <2>1, <1>w DEF Take, TypeOK
  <2>3. /\ Load(w, s).who = ProspectOf[s]
        /\ ProspectOf[s] \in suppressedSince[w] => Load(w, s).suppressed
    BY DEF Load
  <2>4. CASE TickSkip(w, s)
    BY <1>1, <2>1, <2>2, <2>3, <2>4 DEF TickSkip
  <2>5. CASE TickTake(w, s)
    <3>1. cur'[w] = s /\ ~Load(w, s).suppressed
      BY <1>w, <2>5 DEF TickTake, TypeOK
    <3>2. QED
      BY <1>1, <2>1, <2>2, <2>3, <3>1
  <2>6. QED
    BY <1>4, <2>4, <2>5
<1>5. CASE \/ QuotaCommits(w) \/ QuotaAllows(w) \/ QuotaDenies(w) \/ Refused(w)
           \/ ResponseLost(w) \/ AcceptedSystem(w) \/ AcceptedUser(w) \/ RecordSend(w)
  <2>1. suppressedSince' = suppressedSince /\ loaded' = loaded /\ cur' = cur
    BY <1>5, <1>w DEF QuotaCommits, QuotaAllows, QuotaDenies, Refused, ResponseLost,
       AcceptedSystem, AcceptedUser, RecordSend, history
  <2>2. pc'[w] \in {"gated", "cleared"} => pc[w] \in {"gated", "cleared"}
    BY <1>5, <1>w DEF QuotaCommits, QuotaAllows, QuotaDenies, Refused, ResponseLost,
       AcceptedSystem, AcceptedUser, RecordSend, Conclude, TypeOK
  <2>3. QED
    BY <1>1, <2>1, <2>2
<1>6. CASE Finish(w) \/ RequestCommit(w) \/ Fail(w) \/ StaleRow(w)
  <2>1. suppressedSince'[w] = {} /\ pc'[w] = "idle"
    BY <1>6, <1>w DEF Finish, RequestCommit, Fail, StaleRow, Abandon, Close, TypeOK
  <2>2. QED
    BY <2>1
<1>7. QED
  BY <1>3, <1>4, <1>5, <1>6, <1>w DEF Work, ManualStart, ManualSkip, ManualTake, RequestStart

LEMMA KnowStep == KnowInv /\ [Next]_vars => KnowInv'
<1> SUFFICES ASSUME KnowInv, [Next]_vars
             PROVE  KnowInv'
  OBVIOUS
<1>1. SendInv /\ SendInv' /\ TypeOK
  BY SendStep DEF KnowInv, SendInv
<1>2. SUFFICES ASSUME NEW w \in Tick
      PROVE  KnowsSuppressed(w)'
  BY <1>1 DEF KnowInv
<1>3. KnowsSuppressed(w) /\ SessionInv(w) /\ w \in Sender
  BY DEF KnowInv, SendInv, Loop, Sender
<1>4. CASE Environment
  <2>1. UNCHANGED session
    BY <1>4, EnvironmentFrame
  <2>2. ASSUME NEW s \in Sequence, \/ Create(s) \/ PutScheduled(s) \/ Update(s)
                                   \/ Delete(s) \/ TrackingEvent(s)
        PROVE  suppressed' = suppressed /\ suppressedSince' = suppressedSince
    BY <2>2 DEF Create, PutScheduled, Update, Delete, TrackingEvent, history
  <2>3. ASSUME NEW p \in Prospect, Suppress(p)
        PROVE  KnowsSuppressed(w)'
    <3>1. suppressedSince' = suppressedSince /\ suppressed' = [suppressed EXCEPT ![p] = TRUE]
      BY <2>3 DEF Suppress, history
    <3>2. \A r \in Prospect : suppressed[r] => suppressed'[r]
      BY <3>1 DEF TypeOK
    <3>3. suppressedSince[w] \subseteq Prospect
      BY <1>1, <1>3 DEF TypeOK
    <3>4. QED
      BY <1>3, <2>1, <3>1, <3>2, <3>3 DEF KnowsSuppressed, session
  <2>4. ASSUME NEW p \in Prospect, Unsuppress(p)
        PROVE  KnowsSuppressed(w)'
    <3>1. /\ suppressedSince'[w] = suppressedSince[w] \ {p}
          /\ suppressed' = [suppressed EXCEPT ![p] = FALSE]
      BY <1>3, <2>4 DEF Unsuppress
    <3>2. \A r \in Prospect : r # p => suppressed'[r] = suppressed[r]
      BY <1>1, <3>1 DEF TypeOK
    <3>3. suppressedSince[w] \subseteq Prospect
      BY <1>1, <1>3 DEF TypeOK
    <3>4. QED
      BY <1>3, <2>1, <3>1, <3>2, <3>3 DEF KnowsSuppressed, session
  <2>5. QED
    BY <1>3, <1>4, <2>1, <2>2, <2>3, <2>4
       DEF Environment, AutopilotCreate, ScheduleSend, KnowsSuppressed, session
<1>5. CASE Work(w)
  BY <1>1, <1>3, <1>5, KnowWork
<1>6. ASSUME NEW v \in Sender, v # w, Work(v)
      PROVE  KnowsSuppressed(w)'
  <2>1. /\ pc'[w] = pc[w] /\ cur'[w] = cur[w] /\ loaded'[w] = loaded[w]
        /\ suppressedSince'[w] = suppressedSince[w]
    BY <1>1, <1>3, <1>6, WorkFrame
  <2>2. suppressed' = suppressed
    BY <1>6
       DEF Work, TickStart, ManualStart, Begin, TickSkip, TickTake, ManualSkip, ManualTake,
         RequestStart, QuotaCommits, QuotaAllows, QuotaDenies, Refused, ResponseLost,
         AcceptedSystem, AcceptedUser, RecordSend, Finish, RequestCommit, Fail, StaleRow,
         Abandon, table
  <2>3. QED
    BY <1>3, <2>1, <2>2 DEF KnowsSuppressed
<1>7. CASE UNCHANGED vars
  BY <1>3, <1>7 DEF vars, table, session, history, KnowsSuppressed
<1>8. QED
  BY <1>4, <1>5, <1>6, <1>7 DEF Next

\* run_tick never mails a prospect that was suppressed when the tick began and
\* has been ever since.
THEOREM TickHonoursSuppressionHolds == Spec => TickHonoursSuppression
<1>1. Init => KnowInv
  BY SendInit, KnowInit DEF KnowInv
<1>2. KnowInv /\ [Next]_vars => [\A w \in Tick, s \in Sequence : ~MailsPast(w, s)]_vars
  <2> SUFFICES ASSUME KnowInv, Next, NEW w \in Tick, NEW s \in Sequence, MailsPast(w, s)
               PROVE  FALSE
    OBVIOUS
  <2>1. TypeOK /\ KnowsSuppressed(w) /\ w \in Sender /\ delivered[w][s] \in Nat
    BY DEF KnowInv, SendInv, Sender, TypeOK
  <2>2. delivered'[w][s] # delivered[w][s]
    BY <2>1 DEF MailsPast
  <2>3. Work(w)
    <3>1. ~Environment
      BY <2>2, EnvironmentFrame
    <3>2. \A v \in Sender : v # w => ~Work(v)
      BY <2>1, <2>2, WorkFrame
    <3>3. QED
      BY <3>1, <3>2 DEF Next
  <2>4. pc[w] = "cleared" /\ s = cur[w]
    BY <2>1, <2>3, DeliveryInHand DEF MailsPast
  <2>5. QED
    BY <2>1, <2>4 DEF KnowsSuppressed, MailsPast
<1>3. QED
  BY <1>1, <1>2, KnowStep, PTL DEF Spec, TickHonoursSuppression

-----------------------------------------------------------------------------
(* The refinement of SendLedger.                                            *)

LedgerState == <<scheds, [w \in Loop |-> delivered[w]], [w \in Loop |-> lostBy[w]]>>

LEMMA LoopSenders == \A w \in Loop : w \in Sender /\ w \notin Request
BY SenderAssumption DEF Sender, Loop

\* What the invariants say of a row that is about to be sent, and of a row that
\* is about to be forgotten.
LEMMA LedgerFacts ==
  ASSUME SendInv, SentWasDelivered, NEW w \in Loop, NEW s \in Sequence
  PROVE  /\ delivered[w][s] \in Nat /\ lostBy[w][s] \in Nat /\ scheds[s] \in Nat
         /\ pc[w] = "cleared" /\ cur[w] = s =>
              delivered[w][s] < scheds[s] + lostBy[w][s]
         /\ s \in Unrecorded(w) => lostBy[w][s] < delivered[w][s]
<1>1. /\ w \in Sender
      /\ delivered[w][s] \in Nat /\ lostBy[w][s] \in Nat /\ scheds[s] \in Nat
  BY LoopSenders DEF SendInv, TypeOK
<1>2. delivered[w][s] + (IF Open(w, s) THEN 1 ELSE 0) <= scheds[s] + lostBy[w][s]
  BY DEF SendInv, Budget
<1>3. pc[w] = "cleared" /\ cur[w] = s => Open(w, s)
  BY DEF Open
<1>4. lostBy[w][s] + (IF s \in Unrecorded(w) THEN 1 ELSE 0) <= delivered[w][s]
  BY <1>1 DEF SentWasDelivered
<1>5. QED
  BY <1>1, <1>2, <1>3, <1>4

\* A mail of a tick or a manual tick is a licensed mail of the ledger.
LEMMA LedgerAccepted ==
  ASSUME SendInv, SentWasDelivered, NEW w \in Loop, NEW e \in Sequence,
         cur[w] = e, AcceptedSystem(w) \/ AcceptedUser(w)
  PROVE  Ledger!Mail(w, e)
<1>1. /\ w \in Sender /\ cur[w] = e /\ pc[w] = "cleared"
      /\ delivered' = [delivered EXCEPT ![w][e] = @ + 1]
      /\ lostBy' = lostBy /\ scheds' = scheds
      /\ delivered \in [Sender -> [Sequence -> Nat]]
  BY LoopSenders DEF SendInv, TypeOK, AcceptedSystem, AcceptedUser, Count
<1>2. delivered[w][e] < scheds[e] + lostBy[w][e]
  BY <1>1, LedgerFacts
<1>3. [v \in Loop |-> delivered'[v]]
        = [[v \in Loop |-> delivered[v]] EXCEPT ![w][e] = @ + 1]
  BY <1>1, LoopSenders
<1>4. QED
  BY <1>1, <1>2, <1>3 DEF Ledger!Mail, Ledger!Licensed

LEMMA LedgerUnanswered ==
  ASSUME SendInv, SentWasDelivered, NEW w \in Loop, NEW e \in Sequence,
         cur[w] = e, ResponseLost(w)
  PROVE  Ledger!MailUnanswered(w, e)
<1>1. /\ w \in Sender /\ cur[w] = e /\ pc[w] = "cleared"
      /\ delivered' = [delivered EXCEPT ![w][e] = @ + 1]
      /\ lostBy' = [lostBy EXCEPT ![w][e] = @ + 1] /\ scheds' = scheds
      /\ delivered \in [Sender -> [Sequence -> Nat]]
      /\ lostBy \in [Sender -> [Sequence -> Nat]]
  BY LoopSenders DEF SendInv, TypeOK, ResponseLost, Count
<1>2. delivered[w][e] < scheds[e] + lostBy[w][e]
  BY <1>1, LedgerFacts
<1>3. [v \in Loop |-> delivered'[v]]
        = [[v \in Loop |-> delivered[v]] EXCEPT ![w][e] = @ + 1]
  BY <1>1, LoopSenders
<1>4. [v \in Loop |-> lostBy'[v]]
        = [[v \in Loop |-> lostBy[v]] EXCEPT ![w][e] = @ + 1]
  BY <1>1, LoopSenders
<1>5. QED
  BY <1>1, <1>2, <1>3, <1>4 DEF Ledger!MailUnanswered, Ledger!Licensed

\* A session that ends without a commit forgets what it had not recorded.
LEMMA LedgerForgets ==
  ASSUME SendInv, SentWasDelivered, NEW w \in Loop, Fail(w) \/ StaleRow(w)
  PROVE  \E E \in SUBSET Sequence : Ledger!Forget(w, E)
<1> PICK E \in SUBSET Sequence : E = Unrecorded(w) \intersect Sequence
  OBVIOUS
<1>1. /\ w \in Sender /\ delivered' = delivered /\ scheds' = scheds
      /\ lostBy' = [lostBy EXCEPT ![w] =
           [s \in Sequence |-> IF s \in Unrecorded(w) THEN @[s] + 1 ELSE @[s]]]
      /\ lostBy \in [Sender -> [Sequence -> Nat]]
  BY LoopSenders DEF SendInv, TypeOK, Fail, StaleRow, Abandon
<1>2. \A e \in E : lostBy[w][e] < delivered[w][e]
  BY LedgerFacts
<1>3. [v \in Loop |-> lostBy'[v]]
        = [[v \in Loop |-> lostBy[v]] EXCEPT
             ![w] = [e \in Sequence |-> IF e \in E THEN @[e] + 1 ELSE @[e]]]
  BY <1>1, LoopSenders
<1>4. Ledger!Forget(w, E)
  BY <1>1, <1>2, <1>3 DEF Ledger!Forget
<1>5. QED
  BY <1>4

\* Every other step of any session is a stutter of the ledger.
LEMMA LedgerQuiet ==
  ASSUME SendInv, NEW w \in Sender, Work(w),
         \/ w \notin Loop
         \/ ~(AcceptedSystem(w) \/ AcceptedUser(w) \/ ResponseLost(w)
                \/ Fail(w) \/ StaleRow(w))
  PROVE  UNCHANGED LedgerState
<1>1. scheds' = scheds /\ TypeOK
  BY WorkSchedulesNothing DEF SendInv
<1>2. ASSUME NEW v \in Loop
      PROVE  delivered'[v] = delivered[v] /\ lostBy'[v] = lostBy[v]
  <2>1. CASE v # w
    BY <1>1, <2>1, WorkFrame, LoopSenders
  <2>2. CASE v = w
    BY <2>2
       DEF Work, TickStart, ManualStart, Begin, TickSkip, TickTake, ManualSkip,
         ManualTake, RequestStart, QuotaCommits, QuotaAllows, QuotaDenies, Refused,
         RecordSend, Finish, RequestCommit, history
  <2>3. QED
    BY <2>1, <2>2
<1>3. QED
  BY <1>1, <1>2 DEF LedgerState

LEMMA LedgerEnvironment ==
  ASSUME TypeOK, Environment
  PROVE  (\E s \in Sequence : Ledger!Schedule(s)) \/ UNCHANGED LedgerState
<1>1. delivered' = delivered /\ lostBy' = lostBy
  BY EnvironmentFrame
<1>2. scheds' = scheds \/ \E s \in Sequence : scheds' = [scheds EXCEPT ![s] = @ + 1]
  BY DEF Environment, Create, AutopilotCreate, ScheduleSend, PutScheduled, Update,
       Delete, TrackingEvent, Suppress, Unsuppress, history
<1>3. QED
  BY <1>1, <1>2 DEF Ledger!Schedule, LedgerState

LEMMA SentFromType ==
  ASSUME SendInv, NEW w \in Sender, pc[w] = "cleared"
  PROVE  cur[w] \in Sequence
BY DEF SendInv, TypeOK

LEMMA LedgerStep ==
  SendInv /\ SentWasDelivered /\ [Next]_vars => [Ledger!Next]_(Ledger!vars)
<1> SUFFICES ASSUME SendInv, SentWasDelivered, [Next]_vars
             PROVE  Ledger!Next \/ UNCHANGED LedgerState
  BY DEF LedgerState, Ledger!vars
<1>1. CASE UNCHANGED vars
  BY <1>1 DEF vars, history, LedgerState
<1>2. CASE Environment
  BY <1>2, LedgerEnvironment DEF SendInv, Ledger!Next
<1>3. ASSUME NEW w \in Sender, Work(w)
      PROVE  Ledger!Next \/ UNCHANGED LedgerState
  <2>1. CASE w \in Loop /\ (AcceptedSystem(w) \/ AcceptedUser(w))
    <3>1. PICK e \in Sequence : e = cur[w]
      BY <2>1, SentFromType DEF AcceptedSystem, AcceptedUser
    <3>2. w \in Loop /\ Ledger!Mail(w, e)
      BY <2>1, <3>1, LedgerAccepted
    <3>3. QED
      BY <3>1, <3>2 DEF Ledger!Next
  <2>2. CASE w \in Loop /\ ResponseLost(w)
    <3>1. PICK e \in Sequence : e = cur[w]
      BY <2>2, SentFromType DEF ResponseLost
    <3>2. w \in Loop /\ Ledger!MailUnanswered(w, e)
      BY <2>2, <3>1, LedgerUnanswered
    <3>3. QED
      BY <3>1, <3>2 DEF Ledger!Next
  <2>3. CASE w \in Loop /\ (Fail(w) \/ StaleRow(w))
    BY <2>3, LedgerForgets DEF Ledger!Next
  <2>4. QED
    BY <1>3, <2>1, <2>2, <2>3, LedgerQuiet
<1>4. QED
  BY <1>1, <1>2, <1>3 DEF Next

\* run_tick and manual_tick implement SendLedger: every step of OutreachSend is a
\* step of the ledger or leaves it alone.
THEOREM LedgerKept == Spec => KeepsLedger
<1>1. Init => Ledger!Init
  <2> SUFFICES ASSUME Init PROVE Ledger!Init
    OBVIOUS
  <2>1. /\ scheds = NoneSent
        /\ \A w \in Loop : delivered[w] = NoneSent /\ lostBy[w] = NoneSent
    BY LoopSenders DEF Init
  <2>2. QED
    BY <2>1 DEF Ledger!Init, Ledger!None, NoneSent
<1>2. Spec => []SendInv
  BY SendInit, SendStep, PTL DEF Spec
<1>3. QED
  BY <1>1, <1>2, LedgerStep, SentWasDeliveredHolds, PTL DEF Spec, KeepsLedger, Ledger!Spec
=============================================================================
