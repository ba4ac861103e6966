--------------------------- MODULE UserEmailQuota ---------------------------
(***************************************************************************)
(* The email quota of one user (UserEmailQuotaService): a row of           *)
(* user_email_quotas per UTC day with counters and a throttle.  Ticks and  *)
(* send-email requests ask check_can_send, send, and call record_send;     *)
(* tracking webhooks call record_bounce and record_complaint.              *)
(*                                                                         *)
(* Every call works on an ORM object that one SELECT loaded.  Its commits  *)
(* write the columns that differ from what was loaded, as absolute values, *)
(* and db.get returns the same object, so what other sessions wrote since  *)
(* is not seen.  Nothing is locked.                                        *)
(*                                                                         *)
(* Only today's row is kept: no call reads the row of an earlier day, and  *)
(* what a call that began yesterday writes goes to yesterday's row.  The   *)
(* reset of a row whose window_start is 24 hours old can never happen,     *)
(* window_start being a time of the row's own day.                         *)
(***************************************************************************)
EXTENDS Integers, FiniteSets

CONSTANTS
  Sessions,        \* database sessions that work for this user
  Hours,           \* ticks of the clock in a day
  DailyQuota,      \* daily_send_quota of the sender identity
  BounceMin,       \* 20 emails before the bounce rate counts
  BounceDen,       \* BOUNCE_RATE_THRESHOLD is 1/20
  BounceHours,     \* BOUNCE_THROTTLE_HOURS
  SpamMin,         \* 1000 emails before the complaint rate counts
  SpamDen,         \* SPAM_COMPLAINT_THRESHOLD is 1/1000
  SpamHours,       \* SPAM_THROTTLE_HOURS
  MaxMail,         \* bound: emails of a day
  MaxEvent         \* bound: bounces, and complaints, of a day

ASSUME QuotaAssumption ==
  /\ Hours \in Nat \ {0} /\ DailyQuota \in Nat \ {0}
  /\ BounceMin \in Nat /\ BounceDen \in Nat /\ BounceHours \in Nat \ {0}
  /\ SpamMin \in Nat /\ SpamDen \in Nat /\ SpamHours \in Nat \ {0}
  /\ MaxMail \in Nat /\ MaxEvent \in Nat

ASSUME SessionsAssumption == IsFiniteSet(Sessions)

Counters == {"sent", "bounced", "complaints"}

\* UserEmailQuota; until is 0 for NULL
Quota == [sent : Nat, bounced : Nat, complaints : Nat, throttled : BOOLEAN, until : Nat]
Fresh == [sent |-> 0, bounced |-> 0, complaints |-> 0, throttled |-> FALSE, until |-> 0]

Operation == {"none", "check", "send", "bounce", "complaint", "status"}

VARIABLES
  hour,      \* of the day
  exists,    \* today's row is there
  quota,     \* today's row
  pc, op,    \* where a session is, and in which call
  hand,      \* its UserEmailQuota object
  now,       \* reset_daily_if_needed's now; 0 when no throttle is compared with it
  today,     \* its object is today's row
  \* history
  counted,   \* increments committed to today's row
  accepted,  \* emails MailBridge accepted today
  lost,      \* emails whose record was lost today, or overwritten
  disturbed  \* two sessions have overlapped, or one failed

session == <<pc, op, hand, now, today>>
history == <<counted, accepted, lost, disturbed>>
vars == <<hour, exists, quota, session, history>>

NothingCounted == [c \in Counters |-> 0]

Init ==
  /\ hour = 0
  /\ exists = FALSE
  /\ quota = Fresh
  /\ pc = [s \in Sessions |-> "idle"]
  /\ op = [s \in Sessions |-> "none"]
  /\ hand = [s \in Sessions |-> Fresh]
  /\ now = [s \in Sessions |-> 0]
  /\ today = [s \in Sessions |-> TRUE]
  /\ counted = NothingCounted
  /\ accepted = 0
  /\ lost = 0
  /\ disturbed = FALSE

-----------------------------------------------------------------------------
(* Time.                                                                    *)

\* datetime.now() on the scale of the session's day
Time(s) == IF today[s] THEN hour ELSE hour + Hours

HourPasses ==
  /\ hour + 1 < Hours
  /\ hour' = hour + 1
  /\ UNCHANGED <<exists, quota, session, history>>

\* faulty variant: the SELECT of the row has no date
Midnight_OneRow ==
  /\ hour + 1 = Hours
  /\ \A s \in Sessions : today[s]
  /\ hour' = 0
  /\ counted' = NothingCounted
  /\ accepted' = 0
  /\ lost' = 0
  /\ UNCHANGED <<exists, quota, session, disturbed>>

\* Nobody has asked for the new day's row yet.  Bound: no call takes a day.
Midnight ==
  /\ hour + 1 = Hours
  /\ \A s \in Sessions : today[s]
  /\ hour' = 0
  /\ exists' = FALSE
  /\ quota' = Fresh
  /\ today' = [s \in Sessions |-> pc[s] = "idle"]
  /\ counted' = NothingCounted
  /\ accepted' = 0
  /\ lost' = 0
  /\ UNCHANGED <<pc, op, hand, now, disturbed>>

-----------------------------------------------------------------------------
(* Sessions.                                                                *)

\* The UPDATE of a commit: the columns in which the object differs from what
\* was loaded or last written.
Saved(q, old, new) ==
  [sent       |-> IF new.sent = old.sent THEN q.sent ELSE new.sent,
   bounced    |-> IF new.bounced = old.bounced THEN q.bounced ELSE new.bounced,
   complaints |-> IF new.complaints = old.complaints THEN q.complaints ELSE new.complaints,
   throttled  |-> IF new.throttled = old.throttled THEN q.throttled ELSE new.throttled,
   until      |-> IF new.until = old.until THEN q.until ELSE new.until]

Commit(s, new) ==
  /\ quota' = IF today[s] THEN Saved(quota, hand[s], new) ELSE quota
  /\ hand' = [hand EXCEPT ![s] = new]

\* The call is over, its object is dropped.
Return(s) ==
  /\ pc' = [pc EXCEPT ![s] = "idle"]
  /\ op' = [op EXCEPT ![s] = "none"]
  /\ hand' = [hand EXCEPT ![s] = Fresh]
  /\ now' = [now EXCEPT ![s] = 0]
  /\ today' = [today EXCEPT ![s] = TRUE]

Column(o) == CASE o = "send" -> "sent" [] o = "bounce" -> "bounced"
               [] o = "complaint" -> "complaints"

\* get_or_create_quota: SELECT ... WHERE user_id AND date = today
Load(s, o) ==
  /\ pc' = [pc EXCEPT ![s] = IF exists THEN "loaded" ELSE "absent"]
  /\ op' = [op EXCEPT ![s] = o]
  /\ hand' = [hand EXCEPT ![s] = quota]
  /\ now' = [now EXCEPT ![s] = IF quota.throttled THEN hour ELSE 0]
  /\ today' = [today EXCEPT ![s] = TRUE]
  /\ UNCHANGED <<hour, exists, quota, counted, accepted, lost>>

\* check_can_send, record_bounce, record_complaint, get_user_quota_status
Call(s, o) ==
  /\ pc[s] = "idle"
  /\ o \in {"bounce", "complaint"} => counted[Column(o)] < MaxEvent
  /\ disturbed' = (disturbed \/ \E t \in Sessions : pc[t] # "idle")
  /\ Load(s, o)

\* record_send, after MailBridge took the email
RecordSend(s) == pc[s] = "unrecorded" /\ Load(s, "send") /\ UNCHANGED disturbed

\* get_or_create_quota: INSERT
Create(s) ==
  /\ pc[s] = "absent"
  /\ today[s] => ~exists
  /\ exists' = (exists \/ today[s])
  /\ pc' = [pc EXCEPT ![s] = "loaded"]
  /\ UNCHANGED <<hour, quota, op, hand, now, today, history>>

\* Today's row misses an email that this session should record.
Owes(s) == pc[s] = "unrecorded" \/ (op[s] = "send" /\ today[s])

Forget(s) == lost' = IF Owes(s) THEN lost + 1 ELSE lost

\* UNIQUE(user_id, date): somebody was faster.  The callers swallow the error:
\* a check denies, a record is lost.
Conflict(s) ==
  /\ pc[s] = "absent"
  /\ today[s] => exists
  /\ disturbed' = TRUE
  /\ Forget(s)
  /\ Return(s)
  /\ UNCHANGED <<hour, exists, quota, counted, accepted>>

\* faulty variant: the flag alone
Unthrottled_Flag(h) == [h EXCEPT !.throttled = FALSE]

Unthrottled(h) == [h EXCEPT !.throttled = FALSE, !.until = 0]
Throttled(h, t) == [h EXCEPT !.throttled = TRUE, !.until = t]

\* reset_daily_if_needed judges by its own now, check_can_send by a later one.
Expired(s) == hand[s].throttled /\ now[s] >= hand[s].until
Elapsed(s) ==
  \/ Expired(s)
  \/ op[s] = "check" /\ hand[s].throttled /\ Time(s) >= hand[s].until

ClearThrottle(s) ==
  /\ pc[s] = "loaded" /\ Elapsed(s)
  /\ Commit(s, Unthrottled(hand[s]))
  /\ now' = [now EXCEPT ![s] = 0]
  /\ UNCHANGED <<hour, exists, pc, op, today, history>>

\* The object after reset_daily_if_needed
Ready(s, o) == pc[s] = "loaded" /\ op[s] = o /\ ~Expired(s)

SpamExceeded(h) == h.sent >= SpamMin /\ h.complaints > 0 /\ h.complaints * SpamDen >= h.sent
BounceExceeded(h) == h.sent >= BounceMin /\ h.bounced > 0 /\ h.bounced * BounceDen >= h.sent

\* faulty variant: count is left out
Spent_OffByOne(h) == h.sent > DailyQuota

\* faulty variant: count is added twice
Spent_Twice(h) == h.sent + 2 > DailyQuota

\* emails_sent + count > daily_quota
Spent(h) == h.sent + 1 > DailyQuota

CheckThrottled(s) ==
  /\ Ready(s, "check")
  /\ hand[s].throttled /\ Time(s) < hand[s].until
  /\ Return(s)
  /\ UNCHANGED <<hour, exists, quota, history>>

CheckQuota(s) ==
  /\ Ready(s, "check") /\ ~hand[s].throttled
  /\ Spent(hand[s])
  /\ Return(s)
  /\ UNCHANGED <<hour, exists, quota, history>>

\* _apply_throttle and its commit; the call ends with it
Throttle(s, hours) ==
  /\ quota' = IF today[s] THEN Saved(quota, hand[s], Throttled(hand[s], Time(s) + hours))
                          ELSE quota
  /\ Return(s)
  /\ UNCHANGED <<hour, exists, history>>

CheckTrips(s) ==
  /\ Ready(s, "check") /\ ~hand[s].throttled /\ ~Spent(hand[s])
  /\ \/ SpamExceeded(hand[s]) /\ Throttle(s, SpamHours)
     \/ ~SpamExceeded(hand[s]) /\ BounceExceeded(hand[s]) /\ Throttle(s, BounceHours)

\* The email may go; the object is dropped.
CheckOk(s) ==
  /\ Ready(s, "check") /\ ~hand[s].throttled /\ ~Spent(hand[s])
  /\ ~SpamExceeded(hand[s]) /\ ~BounceExceeded(hand[s])
  /\ pc' = [pc EXCEPT ![s] = "sending"]
  /\ hand' = [hand EXCEPT ![s] = Fresh]
  /\ now' = [now EXCEPT ![s] = 0]
  /\ UNCHANGED <<hour, exists, quota, op, today, history>>

\* MailBridge takes the email.  Bound: MaxMail of them a day.
Accept(s) ==
  /\ pc[s] = "sending" /\ accepted < MaxMail
  /\ accepted' = accepted + 1
  /\ pc' = [pc EXCEPT ![s] = "unrecorded"]
  /\ UNCHANGED <<hour, exists, quota, op, hand, now, today, counted, lost, disturbed>>

\* MailBridge, or a later gate of the caller, refuses.
Refuse(s) ==
  /\ pc[s] = "sending"
  /\ Return(s)
  /\ UNCHANGED <<hour, exists, quota, history>>

\* faulty variant: the increment is committed twice
Increment_Twice(h, c) == [h EXCEPT ![c] = @ + 2]

\* faulty variant: count is subtracted
Increment_Negated(h, c) == [h EXCEPT ![c] = @ - 1]

Increment(h, c) == [h EXCEPT ![c] = @ + 1]

Count(s) ==
  counted' = IF today[s] THEN [counted EXCEPT ![Column(op[s])] = @ + 1] ELSE counted

\* The emails that others have counted since the object was loaded
Overwritten(s) ==
  IF today[s] /\ quota.sent > hand[s].sent THEN quota.sent - hand[s].sent ELSE 0

\* faulty variant: += count and a flush, which nobody commits
FinishSend_NoCommit(s) ==
  /\ Ready(s, "send")
  /\ Return(s)
  /\ UNCHANGED <<hour, exists, quota, history>>

\* record_send: += count, commit
FinishSend(s) ==
  /\ Ready(s, "send")
  /\ quota' = IF today[s] THEN Saved(quota, hand[s], Increment(hand[s], "sent")) ELSE quota
  /\ Count(s)
  /\ lost' = lost + Overwritten(s)
  /\ Return(s)
  /\ UNCHANGED <<hour, exists, accepted, disturbed>>

\* record_bounce, record_complaint: += count, commit; the rates come next
RecordEvent(s) ==
  /\ Ready(s, "bounce") \/ Ready(s, "complaint")
  /\ Commit(s, Increment(hand[s], Column(op[s])))
  /\ Count(s)
  /\ pc' = [pc EXCEPT ![s] = "judging"]
  /\ now' = [now EXCEPT ![s] = 0]
  /\ UNCHANGED <<hour, exists, op, today, accepted, lost, disturbed>>

Judge(s) ==
  /\ pc[s] = "judging" /\ ~hand[s].throttled
  /\ \/ op[s] = "bounce" /\ BounceExceeded(hand[s]) /\ Throttle(s, BounceHours)
     \/ op[s] = "complaint" /\ SpamExceeded(hand[s]) /\ Throttle(s, SpamHours)

Acquit(s) ==
  /\ pc[s] = "judging"
  /\ \/ hand[s].throttled
     \/ op[s] = "bounce" /\ ~BounceExceeded(hand[s])
     \/ op[s] = "complaint" /\ ~SpamExceeded(hand[s])
  /\ Return(s)
  /\ UNCHANGED <<hour, exists, quota, history>>

\* get_user_quota_status
Status(s) ==
  /\ Ready(s, "status")
  /\ Return(s)
  /\ UNCHANGED <<hour, exists, quota, history>>

\* The process stops, a statement fails, or MailBridge's answer is lost.
Fail(s) ==
  /\ pc[s] # "idle"
  /\ disturbed' = TRUE
  /\ Forget(s)
  /\ Return(s)
  /\ UNCHANGED <<hour, exists, quota, counted, accepted>>

Proceed(s) ==
  \/ RecordSend(s) \/ Create(s) \/ Conflict(s) \/ ClearThrottle(s)
  \/ CheckThrottled(s) \/ CheckQuota(s) \/ CheckTrips(s) \/ CheckOk(s)
  \/ Accept(s) \/ Refuse(s) \/ FinishSend(s)
  \/ RecordEvent(s) \/ Judge(s) \/ Acquit(s) \/ Status(s)

Next ==
  \/ HourPasses \/ Midnight
  \/ \E s \in Sessions :
       \/ \E o \in {"check", "bounce", "complaint", "status"} : Call(s, o)
       \/ Proceed(s) \/ Fail(s)

Spec == Init /\ [][Next]_vars

\* Time passes, and a call under way at midnight ends: its awaits have timeouts.
FairSpec ==
  /\ Spec
  /\ WF_vars(HourPasses \/ Midnight)
  /\ \A s \in Sessions : WF_vars(~today[s] /\ Proceed(s))

-----------------------------------------------------------------------------
(* Properties.                                                              *)

TypeOK ==
  /\ hour \in Nat
  /\ exists \in BOOLEAN
  /\ quota \in Quota
  /\ pc \in [Sessions -> {"idle", "absent", "loaded", "sending", "unrecorded", "judging"}]
  /\ op \in [Sessions -> Operation]
  /\ hand \in [Sessions -> Quota]
  /\ now \in [Sessions -> Nat]
  /\ today \in [Sessions -> BOOLEAN]
  /\ counted \in [Counters -> Nat]
  /\ accepted \in Nat
  /\ lost \in Nat
  /\ disturbed \in BOOLEAN

\* Stale objects lose increments and never invent one: whatever sessions
\* interleave, a counter is at most what was recorded today.
NeverOvercounts == \A c \in Counters : quota[c] <= counted[c]

\* A throttle always has an end, although clearing and setting it are commits of
\* sessions that do not see each other: throttled_until = NULL would be a throttle
\* for the rest of the day.
ThrottleHasEnd == quota.throttled <=> quota.until > 0

\* Nobody is told daily_quota_exceeded who has not used the quota of the day.
DeniedOnlyWhenSpent ==
  [][\A s \in Sessions : CheckQuota(s) /\ today[s] => counted.sent >= DailyQuota]_vars

\* While no two sessions overlap and none fails, a user's emails of a day stay
\* within the quota, also across midnight.  (With overlaps they do not:
\* check_can_send reserves nothing.)
CapHoldsAlone == ~disturbed => accepted <= DailyQuota

\* What overlapping costs.  check_can_send reserves nothing, so that every session
\* may pass the last place of the quota; but beyond one email per other session
\* only those can exceed it that the row has not kept: because a session failed,
\* lost the race for the day's INSERT, or overwrote what others had counted.
OvershootBounded == accepted <= DailyQuota + lost + (Cardinality(Sessions) - 1)

Blocked == quota.throttled \/ quota.sent >= DailyQuota

\* No user stays without quota for ever.
QuotaReturns == []<>~Blocked
=============================================================================
