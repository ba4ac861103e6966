---------------------------- MODULE OutreachSend ----------------------------
(***************************************************************************)
(* How one tenant's Sequence rows (one row = one email of a cadence) are   *)
(* sent.  Three kinds of session read rows, hand them to MailBridge and    *)
(* write the outcome back:                                                 *)
(*   Tick     run_tick, the APScheduler job; one per API process           *)
(*   Manual   manual_tick, POST /scheduler/tick                            *)
(*   Request  send_email, POST /sequences/{id}/send-email                  *)
(* Every session owns a SQLAlchemy session (autoflush off, expire_on_commit *)
(* off): rows are read once, changes are kept in memory and reach the      *)
(* database only in a commit.  There are no row locks, so users, webhooks  *)
(* and the other sessions change rows in between.  MailBridge is external. *)
(***************************************************************************)
EXTENDS Naturals, FiniteSets

CONSTANTS
  Sequence,        \* the Sequence rows that may come to exist
  Prospect,        \* the recipients
  ProspectOf,      \* Sequence.prospectId
  UserOwned,       \* rows whose owner_user_id is not 'system'
  Touch,           \* Sequence.touchNumber
  CreatedAt,       \* Sequence.createdAt, as a rank; ties are possible
  Tick, Manual, Request,
  TouchLimit,      \* touchNumber <= 6 in the query of run_tick
  BatchLimit,      \* LIMIT 500 in the query of run_tick
  ManualLimit,     \* max_send of manual_tick
  UserStatus,      \* the statuses users write with PUT /sequences/{id}
  EventStatus,     \* the statuses tracking events bring
  MaxSched,        \* bound: how often one row is put into Scheduled
  MaxMishap,       \* bound: failed sessions and lost MailBridge responses
  MaxAsk,          \* bound: emails one request session sends of one row
  NoSeq, NoProspect

Sender == Tick \union Manual \union Request

EmailStatus == {"Draft", "QaFailed", "QaPassed", "Scheduled",
                "Sent", "Replied", "Bounced", "Failed"}

\* "Absent": no row yet; "Deleted": the row is gone (its cuid never returns).
RowStatus == EmailStatus \union {"Absent", "Deleted"}

ASSUME SenderAssumption ==
  /\ Tick \intersect Manual = {}
  /\ Tick \intersect Request = {}
  /\ Manual \intersect Request = {}

ASSUME RowAssumption ==
  /\ ProspectOf \in [Sequence -> Prospect]
  /\ Touch \in [Sequence -> Nat]
  /\ CreatedAt \in [Sequence -> Nat]
  /\ UserOwned \subseteq Sequence
  /\ UserStatus \subseteq EmailStatus
  /\ EventStatus \subseteq {"Sent", "Replied", "Bounced", "Failed"}
  /\ NoSeq \notin Sequence
  /\ NoProspect \notin Prospect

ASSUME BoundAssumption ==
  /\ TouchLimit \in Nat /\ BatchLimit \in Nat /\ ManualLimit \in Nat
  /\ MaxSched \in Nat /\ MaxMishap \in Nat /\ MaxAsk \in Nat

VARIABLES
  \* the tenant's schema, committed
  status,          \* Sequence.status
  suppressed,      \* Prospect.suppressed
  isRunning,       \* SchedulerStatus.isRunning
  \* the sessions
  pc,              \* where each session is
  todo,            \* rows fetched and not yet taken
  cur,             \* the row being handled
  seen,            \* Request: status of the row when it was loaded
  loaded,          \* the Prospect object alive in the identity map
  pending,         \* status set in memory, "Clean" when nothing is
  \* history
  delivered,       \* emails MailBridge accepted, per session and row
  scheds,          \* how often a row was put into Scheduled
  lostBy,          \* deliveries whose record a session lost
  suppressedSince, \* prospects suppressed ever since the session began
  mishaps

table   == <<status, suppressed, isRunning>>
session == <<pc, todo, cur, seen, loaded, pending>>
history == <<delivered, scheds, lostBy, suppressedSince, mishaps>>
vars    == <<table, session, history>>

NothingLoaded == [who |-> NoProspect, suppressed |-> FALSE]
Clean == [s \in Sequence |-> "Clean"]
NoneSent == [s \in Sequence |-> 0]

Dirty(w) == {s \in Sequence : pending[w][s] # "Clean"}

Exists(s) == status[s] \in EmailStatus

Init ==
  /\ status = [s \in Sequence |-> "Absent"]
  /\ suppressed = [p \in Prospect |-> FALSE]
  /\ isRunning = FALSE
  /\ pc = [w \in Sender |-> "idle"]
  /\ todo = [w \in Sender |-> {}]
  /\ cur = [w \in Sender |-> NoSeq]
  /\ seen = [w \in Sender |-> "Draft"]
  /\ loaded = [w \in Sender |-> NothingLoaded]
  /\ pending = [w \in Sender |-> Clean]
  /\ delivered = [w \in Sender |-> NoneSent]
  /\ scheds = NoneSent
  /\ lostBy = [w \in Sender |-> NoneSent]
  /\ suppressedSince = [w \in Sender |-> {}]
  /\ mishaps = 0

-----------------------------------------------------------------------------
(* Users and webhooks.  Each handler reads one row, changes it and commits. *)

\* SequenceService.create and auto_generate_for_campaign
Create(s) ==
  /\ status[s] = "Absent"
  /\ status' = [status EXCEPT ![s] = "Draft"]
  /\ UNCHANGED <<suppressed, isRunning, session, history>>

\* Putting a row into Scheduled, whatever its status was.
PutScheduled(s) ==
  /\ scheds[s] < MaxSched
  /\ status' = [status EXCEPT ![s] = "Scheduled"]
  /\ scheds' = [scheds EXCEPT ![s] = @ + 1]
  /\ UNCHANGED <<suppressed, isRunning, session,
                 delivered, lostBy, suppressedSince, mishaps>>

\* run_email_generation of the autopilot inserts rows that are Scheduled already
AutopilotCreate(s) == status[s] = "Absent" /\ PutScheduled(s)

\* schedule_send: the test for Draft / QaPassed has an empty body
ScheduleSend(s) == Exists(s) /\ PutScheduled(s)

\* SequenceService.update: any status the schema allows
Update(s) ==
  /\ Exists(s)
  /\ \/ "Scheduled" \in UserStatus /\ PutScheduled(s)
     \/ /\ \E st \in UserStatus \ {"Scheduled"} :
             status' = [status EXCEPT ![s] = st]
        /\ UNCHANGED <<suppressed, isRunning, session, history>>

Delete(s) ==
  /\ Exists(s)
  /\ status' = [status EXCEPT ![s] = "Deleted"]
  /\ UNCHANGED <<suppressed, isRunning, session, history>>

\* apply_tracking_event: overwrites the status, whatever it was
TrackingEvent(s) ==
  /\ Exists(s)
  /\ \E st \in EventStatus :
       status' = [status EXCEPT ![s] = st]
  /\ UNCHANGED <<suppressed, isRunning, session, history>>

\* consent withdrawal, objection, restriction; ProspectService.update
Suppress(p) ==
  /\ ~suppressed[p]
  /\ suppressed' = [suppressed EXCEPT ![p] = TRUE]
  /\ UNCHANGED <<status, isRunning, session, history>>

\* ProspectService.update with suppressed = false
Unsuppress(p) ==
  /\ suppressed[p]
  /\ suppressed' = [suppressed EXCEPT ![p] = FALSE]
  /\ suppressedSince' = [w \in Sender |-> suppressedSince[w] \ {p}]
  /\ UNCHANGED <<status, isRunning, session,
                 delivered, scheds, lostBy, mishaps>>

Environment ==
  \/ \E s \in Sequence : \/ Create(s) \/ AutopilotCreate(s) \/ ScheduleSend(s)
                         \/ Update(s) \/ Delete(s) \/ TrackingEvent(s)
  \/ \E p \in Prospect : Suppress(p) \/ Unsuppress(p)

-----------------------------------------------------------------------------
(* What a commit of session w does to the table.  An UPDATE of several rows *)
(* skips a row that was deleted meanwhile; an UPDATE of that row alone       *)
(* raises StaleDataError (see StaleRow).                                     *)

Flushed(w) ==
  [s \in Sequence |-> IF s \in Dirty(w) /\ Exists(s) THEN pending[w][s]
                                                     ELSE status[s]]

CanFlush(w) == \A s \in Sequence : Dirty(w) = {s} => Exists(s)

\* The batch a LIMIT leaves of the rows S, with and without ORDER BY createdAt.
Limited(S, n) == {B \in SUBSET S : IF Cardinality(S) <= n
                                   THEN B = S ELSE Cardinality(B) = n}
Oldest(S, n)  == {B \in Limited(S, n) : \A s \in B, t \in S \ B :
                                           CreatedAt[s] <= CreatedAt[t]}

Scheduled == {s \in Sequence : status[s] = "Scheduled"}
\* (faulty variant: the status filter of the query is missing)
Due_AnyStatus == {s \in Sequence : Exists(s) /\ Touch[s] <= TouchLimit}

Due       == {s \in Scheduled : Touch[s] <= TouchLimit}

Begin(w, batch) ==
  /\ pc[w] = "idle"
  /\ todo' = [todo EXCEPT ![w] = batch]
  /\ pc' = [pc EXCEPT ![w] = "loop"]
  /\ isRunning' = TRUE
  /\ suppressedSince' = [suppressedSince EXCEPT
                           ![w] = {p \in Prospect : suppressed[p]}]
  /\ UNCHANGED <<status, suppressed, cur, seen, loaded, pending,
                 delivered, scheds, lostBy, mishaps>>

\* (faulty variant: isRunning used as a guard against re-entrancy)
TickStart_Guarded(w) ==
  w \in Tick /\ ~isRunning /\ \E B \in Oldest(Due, BatchLimit) : Begin(w, B)

\* run_tick up to the query; manual_tick up to the query
TickStart(w)   == w \in Tick /\ \E B \in Oldest(Due, BatchLimit) : Begin(w, B)
ManualStart(w) == w \in Manual /\ \E B \in Limited(Scheduled, ManualLimit) :
                                    Begin(w, B)

\* The Prospect a SELECT yields: the object that is still alive in the identity
\* map when the previous row had the same prospect, a fresh one otherwise.
Load(w, s) ==
  LET p == ProspectOf[s] IN
  IF loaded[w].who = p THEN loaded[w]
                       ELSE [who |-> p, suppressed |-> suppressed[p]]

Take(w, s) ==
  /\ pc[w] = "loop"
  /\ s \in todo[w]
  /\ todo' = [todo EXCEPT ![w] = @ \ {s}]
  /\ loaded' = [loaded EXCEPT ![w] = Load(w, s)]

\* A row run_tick gives up before dispatch: suppressed or no email, outside
\* business hours, or held back by the PARTIAL throttle.
TickSkip(w, s) ==
  /\ w \in Tick
  /\ Take(w, s)
  /\ \A t \in todo[w] : CreatedAt[s] <= CreatedAt[t]
  /\ UNCHANGED <<table, pc, cur, seen, pending, history>>

TickTake(w, s) ==
  /\ w \in Tick
  /\ Take(w, s)
  /\ \A t \in todo[w] : CreatedAt[s] <= CreatedAt[t]
  /\ ~Load(w, s).suppressed
  /\ cur' = [cur EXCEPT ![w] = s]
  /\ pc' = [pc EXCEPT ![w] = IF s \in UserOwned THEN "gated" ELSE "cleared"]
  /\ UNCHANGED <<table, seen, pending, history>>

\* manual_tick looks at the email address only
ManualSkip(w, s) ==
  /\ w \in Manual
  /\ Take(w, s)
  /\ UNCHANGED <<table, pc, cur, seen, pending, history>>

ManualTake(w, s) ==
  /\ w \in Manual
  /\ Take(w, s)
  /\ cur' = [cur EXCEPT ![w] = s]
  /\ pc' = [pc EXCEPT ![w] = IF s \in UserOwned THEN "gated" ELSE "cleared"]
  /\ UNCHANGED <<table, seen, pending, history>>

\* send_email: the QA gate, unless force
RequestStart(w, s, force) ==
  /\ w \in Request
  /\ pc[w] = "idle"
  /\ Exists(s)
  /\ force \/ status[s] \in {"QaPassed", "Scheduled"}
  /\ delivered[w][s] < MaxAsk
  /\ cur' = [cur EXCEPT ![w] = s]
  /\ seen' = [seen EXCEPT ![w] = status[s]]
  /\ pc' = [pc EXCEPT ![w] = IF s \in UserOwned THEN "gated" ELSE "cleared"]
  /\ UNCHANGED <<table, todo, loaded, pending, history>>

-----------------------------------------------------------------------------
(* From the quota check to the answer of MailBridge.                        *)

\* (faulty variants: the outcome is not written; the answer is not looked at)
Concluded_Nothing(w, pend, st) == pend
Concluded_Blind(w, pend, st) == [pend EXCEPT ![cur[w]] = "Sent"]

\* What is set in memory once it is known whether the email was accepted.
\* send_email writes Failed too, and the ORM emits no UPDATE for a status equal
\* to the one it loaded.
Concluded(w, pend, st) ==
  IF w \in Request
  THEN [pend EXCEPT ![cur[w]] = IF seen[w] = st THEN "Clean" ELSE st]
  ELSE IF st = "Sent" THEN [pend EXCEPT ![cur[w]] = "Sent"] ELSE pend

Conclude(w, pend, st) ==
  /\ pending' = [pending EXCEPT ![w] = Concluded(w, pend, st)]
  /\ pc' = [pc EXCEPT ![w] = IF w \in Request THEN "writing" ELSE "loop"]

\* check_can_send; it commits when it creates today's row, rolls the window or
\* changes the throttle, and such a commit flushes the whole session.
QuotaCommits(w) ==
  /\ pc[w] = "gated"
  /\ Dirty(w) # {}
  /\ CanFlush(w)
  /\ status' = Flushed(w)
  /\ pending' = [pending EXCEPT ![w] = Clean]
  /\ UNCHANGED <<suppressed, isRunning, pc, todo, cur, seen, loaded, history>>

QuotaAllows(w) ==
  /\ pc[w] = "gated"
  /\ pc' = [pc EXCEPT ![w] = "cleared"]
  /\ UNCHANGED <<table, todo, cur, seen, loaded, pending, history>>

QuotaDenies(w) ==
  /\ pc[w] = "gated"
  /\ Conclude(w, pending[w], "Failed")
  /\ UNCHANGED <<table, todo, cur, seen, loaded, history>>

\* (faulty variant: Sent is written before the gates are asked)
Refused_AsSent(w) ==
  /\ pc[w] = "cleared"
  /\ Conclude(w, pending[w], "Sent")
  /\ UNCHANGED <<table, todo, cur, seen, loaded, history>>

\* DNS, warm-up or daily-cap gate closed, or MailBridge did not take the email
Refused(w) ==
  /\ pc[w] = "cleared"
  /\ Conclude(w, pending[w], "Failed")
  /\ UNCHANGED <<table, todo, cur, seen, loaded, history>>

Count(w, s) == [delivered EXCEPT ![w][s] = @ + 1]

\* MailBridge took the email and the answer did not arrive (timeout, 5xx behind
\* a proxy, no message_id): the caller treats it as not sent.
ResponseLost(w) ==
  /\ pc[w] = "cleared"
  /\ mishaps < MaxMishap
  /\ Conclude(w, pending[w], "Failed")
  /\ delivered' = Count(w, cur[w])
  /\ lostBy' = [lostBy EXCEPT ![w][cur[w]] = @ + 1]
  /\ mishaps' = mishaps + 1
  /\ UNCHANGED <<table, todo, cur, seen, loaded, scheds, suppressedSince>>

\* A row of 'system': no quota to record, the status waits for a later commit.
AcceptedSystem(w) ==
  /\ pc[w] = "cleared"
  /\ cur[w] \notin UserOwned
  /\ Conclude(w, pending[w], "Sent")
  /\ delivered' = Count(w, cur[w])
  /\ UNCHANGED <<table, todo, cur, seen, loaded,
                 scheds, lostBy, suppressedSince, mishaps>>

\* A user's row: run_tick sets Sent before record_send; MailBridgeService.send
\* calls record_send itself, before its caller sets Sent.
AcceptedUser(w) ==
  /\ pc[w] = "cleared"
  /\ cur[w] \in UserOwned
  /\ pending' = IF w \in Tick THEN [pending EXCEPT ![w][cur[w]] = "Sent"]
                              ELSE pending
  /\ pc' = [pc EXCEPT ![w] = "recording"]
  /\ delivered' = Count(w, cur[w])
  /\ UNCHANGED <<table, todo, cur, seen, loaded,
                 scheds, lostBy, suppressedSince, mishaps>>

\* (faulty variants: the counter is rolled back, and the status with it; the
\* counter is only kept in memory, like the status)
RecordSend_RollsBack(w) ==
  /\ pc[w] = "recording"
  /\ pending' = [pending EXCEPT ![w] = Clean]
  /\ pc' = [pc EXCEPT ![w] = "loop"]
  /\ UNCHANGED <<table, todo, cur, seen, loaded, history>>
RecordSend_NoCommit(w) ==
  /\ pc[w] = "recording"
  /\ Conclude(w, pending[w], "Sent")
  /\ UNCHANGED <<table, todo, cur, seen, loaded, history>>

\* record_send commits, and with the counter everything the session holds.
RecordSend(w) ==
  /\ pc[w] = "recording"
  /\ CanFlush(w)
  /\ status' = Flushed(w)
  /\ IF w \in Tick
     THEN /\ pending' = [pending EXCEPT ![w] = Clean]
          /\ pc' = [pc EXCEPT ![w] = "loop"]
     ELSE Conclude(w, Clean, "Sent")
  /\ UNCHANGED <<suppressed, isRunning, todo, cur, seen, loaded, history>>

-----------------------------------------------------------------------------
(* The end of a session.                                                    *)

\* Deliveries whose Sent is not committed yet.
Unrecorded(w) ==
  {s \in Sequence : pending[w][s] = "Sent"}
    \union (IF pc[w] = "recording" THEN {cur[w]} ELSE {})

\* (faulty variants: the session stays where it was; its identity map survives)
Close_Stays(w) ==
  /\ todo' = [todo EXCEPT ![w] = {}]
  /\ cur' = [cur EXCEPT ![w] = NoSeq]
  /\ seen' = [seen EXCEPT ![w] = "Draft"]
  /\ loaded' = [loaded EXCEPT ![w] = NothingLoaded]
  /\ pending' = [pending EXCEPT ![w] = Clean]
  /\ suppressedSince' = [suppressedSince EXCEPT ![w] = {}]
  /\ UNCHANGED pc
Close_KeepsLoaded(w) ==
  /\ pc' = [pc EXCEPT ![w] = "idle"]
  /\ todo' = [todo EXCEPT ![w] = {}]
  /\ cur' = [cur EXCEPT ![w] = NoSeq]
  /\ seen' = [seen EXCEPT ![w] = "Draft"]
  /\ pending' = [pending EXCEPT ![w] = Clean]
  /\ suppressedSince' = [suppressedSince EXCEPT ![w] = {}]
  /\ UNCHANGED loaded

Close(w) ==
  /\ pc' = [pc EXCEPT ![w] = "idle"]
  /\ todo' = [todo EXCEPT ![w] = {}]
  /\ cur' = [cur EXCEPT ![w] = NoSeq]
  /\ seen' = [seen EXCEPT ![w] = "Draft"]
  /\ loaded' = [loaded EXCEPT ![w] = NothingLoaded]
  /\ pending' = [pending EXCEPT ![w] = Clean]
  /\ suppressedSince' = [suppressedSince EXCEPT ![w] = {}]

\* The last commit, then the commit of the finally block.
Finish(w) ==
  /\ pc[w] = "loop" /\ todo[w] = {}
  /\ CanFlush(w)
  /\ status' = Flushed(w)
  /\ isRunning' = FALSE
  /\ Close(w)
  /\ UNCHANGED <<suppressed, delivered, scheds, lostBy, mishaps>>

RequestCommit(w) ==
  /\ pc[w] = "writing"
  /\ CanFlush(w)
  /\ status' = Flushed(w)
  /\ Close(w)
  /\ UNCHANGED <<suppressed, isRunning, delivered, scheds, lostBy, mishaps>>

\* The session ends without a commit and what it held in memory is gone.
Abandon(w) ==
  /\ Close(w)
  /\ lostBy' = [lostBy EXCEPT ![w] =
       [s \in Sequence |-> IF s \in Unrecorded(w) THEN @[s] + 1 ELSE @[s]]]
  /\ UNCHANGED <<status, suppressed, delivered, scheds>>

\* The process stops, a commit fails or a statement fails: a session refuses all
\* further work after a failed flush, so the remaining rows are skipped and the
\* commit that would write the held rows fails too.  The last commit, of isRunning
\* alone, succeeds when only a statement had failed.
Fail(w) ==
  /\ pc[w] # "idle"
  /\ mishaps < MaxMishap
  /\ mishaps' = mishaps + 1
  /\ isRunning' \in IF w \in Request THEN {isRunning} ELSE {isRunning, FALSE}
  /\ Abandon(w)

\* The only row to update has been deleted: StaleDataError, same consequences.
StaleRow(w) ==
  /\ ~CanFlush(w)
  /\ \/ pc[w] \in {"gated", "recording", "writing"}
     \/ pc[w] = "loop" /\ todo[w] = {}
  /\ Abandon(w)
  /\ UNCHANGED <<isRunning, mishaps>>

Work(w) ==
  \/ TickStart(w) \/ ManualStart(w)
  \/ \E s \in Sequence : \/ TickSkip(w, s) \/ TickTake(w, s)
                         \/ ManualSkip(w, s) \/ ManualTake(w, s)
                         \/ \E force \in BOOLEAN : RequestStart(w, s, force)
  \/ QuotaCommits(w) \/ QuotaAllows(w) \/ QuotaDenies(w)
  \/ Refused(w) \/ ResponseLost(w) \/ AcceptedSystem(w) \/ AcceptedUser(w)
  \/ RecordSend(w) \/ Finish(w) \/ RequestCommit(w)
  \/ Fail(w) \/ StaleRow(w)

Next == Environment \/ \E w \in Sender : Work(w)

Spec == Init /\ [][Next]_vars

-----------------------------------------------------------------------------
(* What the code guarantees.                                                *)

ProspectObject == [who : Prospect \union {NoProspect}, suppressed : BOOLEAN]
InMemory == [Sequence -> {"Clean", "Sent", "Failed"}]
SessionStates == {"idle", "loop", "gated", "cleared", "recording", "writing"}

\* Every variable stays in its range.
TypeOK ==
  /\ status \in [Sequence -> RowStatus]
  /\ suppressed \in [Prospect -> BOOLEAN]
  /\ isRunning \in BOOLEAN
  /\ pc \in [Sender -> SessionStates]
  /\ todo \in [Sender -> SUBSET Sequence]
  /\ cur \in [Sender -> Sequence \union {NoSeq}]
  /\ seen \in [Sender -> EmailStatus]
  /\ loaded \in [Sender -> ProspectObject]
  /\ pending \in [Sender -> InMemory]
  /\ delivered \in [Sender -> [Sequence -> Nat]]
  /\ scheds \in [Sequence -> Nat]
  /\ lostBy \in [Sender -> [Sequence -> Nat]]
  /\ suppressedSince \in [Sender -> SUBSET Prospect]
  /\ mishaps \in Nat
  /\ \A w \in Sender : pc[w] \in {"gated", "cleared", "recording", "writing"}
                         => cur[w] \in Sequence

\* However ticks, manual ticks, requests, users and webhooks interleave, one
\* session (run_tick or manual_tick of one process, over all its runs) sends a
\* row at most once per time somebody put the row into Scheduled, plus once for
\* every time it lost the record of a delivery (crash, failed commit, lost
\* answer).  Two sessions may both send the row: nothing reserves it.
OncePerScheduling ==
  \A w \in Tick \union Manual, s \in Sequence :
    delivered[w][s] <= scheds[s] + lostBy[w][s]

\* What one crash can cost a user: record_send commits after every send of a
\* user's row, so run_tick never holds more than one delivered user row whose
\* Sent is not in the database, and manual_tick (which sets Sent after
\* record_send) holds at most one besides the row in flight.
UserExposure ==
  /\ \A w \in Tick : \A s, t \in Unrecorded(w) \intersect UserOwned : s = t
  /\ \A w \in Manual : \A s, t \in Dirty(w) \intersect UserOwned : s = t

\* An email is never invented.  A row that reads Sent in the database was taken
\* by MailBridge in some session, and what a session still holds or has lost is
\* part of what it delivered, whichever commit carries the status (the session's
\* own, or one the quota service issues on the same session).  Users and tracking
\* events can write Sent as well; the first part is about a tenant where they do not.
SentWasDelivered ==
  /\ "Sent" \notin UserStatus \union EventStatus =>
       \A s \in Sequence : status[s] = "Sent" =>
                            \E w \in Sender : delivered[w][s] > 0
  /\ \A w \in Sender, s \in Sequence :
       lostBy[w][s] + (IF s \in Unrecorded(w) THEN 1 ELSE 0) <= delivered[w][s]

\* run_tick never mails a prospect that has been suppressed ever since the tick
\* began, in spite of Prospect objects it reuses from its identity map.
MailsPast(w, s) ==
  delivered'[w][s] > delivered[w][s] /\ ProspectOf[s] \in suppressedSince[w]
TickHonoursSuppression == [][\A w \in Tick, s \in Sequence : ~MailsPast(w, s)]_vars

-----------------------------------------------------------------------------
(* Liveness.  The interval job starts a tick again and again, and a tick     *)
(* never stops between two steps for good (every await has a timeout).  The  *)
(* gates that hold a row back are recurrent: business hours come back, the   *)
(* hash of the PARTIAL throttle changes with the tick, the quota is reset    *)
(* every day and MailBridge recovers; hence strong fairness for them.        *)

Proceed(w) ==
  \/ TickStart(w) \/ (\E s \in Sequence : TickSkip(w, s) \/ TickTake(w, s))
  \/ QuotaAllows(w) \/ QuotaDenies(w)
  \/ Refused(w) \/ AcceptedSystem(w) \/ AcceptedUser(w)
  \/ RecordSend(w) \/ Finish(w) \/ StaleRow(w)

GatesReopen(w, s) ==
  /\ SF_vars(TickTake(w, s))
  /\ SF_vars(cur[w] = s /\ QuotaAllows(w))
  /\ SF_vars(cur[w] = s /\ (AcceptedSystem(w) \/ AcceptedUser(w)))

FairSpec ==
  /\ Spec
  /\ \A w \in Tick : /\ WF_vars(Proceed(w))
                     /\ \A s \in Sequence : GatesReopen(w, s)

Waiting(s) == status[s] = "Scheduled" /\ ~suppressed[ProspectOf[s]]

\* A row within the first TouchLimit touches does not stay Scheduled for ever
\* while its prospect may be mailed: some tick of the API process sends it, in
\* spite of crashes, closed gates and the other rows of the batch.  schedule_send
\* says: "Phase 5 scheduler will pick it up"; with a backlog of suppressed rows
\* longer than the batch it does not.
EligiblePickedUp ==
  \A s \in Sequence : Touch[s] <= TouchLimit => []<>~Waiting(s)
=============================================================================
