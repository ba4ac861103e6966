------------------------ MODULE UserEmailQuotaProofs ------------------------
(* Theorems of UserEmailQuota, for every number of sessions and every value *)
(* of the quota and the thresholds.                                         *)
EXTENDS UserEmailQuota, FiniteSetTheorems, TLAPS

Places == {"idle", "absent", "loaded", "sending", "unrecorded", "judging"}

-----------------------------------------------------------------------------
(* What the operators on rows return.                                       *)

LEMMA FreshType == Fresh \in Quota
BY DEF Fresh, Quota

\* The written row has the types of the row and of the object.
LEMMA SavedType ==
  ASSUME NEW q \in Quota, NEW h \in Quota, NEW n \in Quota
  PROVE  Saved(q, h, n) \in Quota
BY DEF Saved, Quota

LEMMA UnthrottledType ==
  ASSUME NEW h \in Quota
  PROVE  Unthrottled(h) \in Quota
BY DEF Unthrottled, Quota

LEMMA ThrottledType ==
  ASSUME NEW h \in Quota, NEW t \in Nat
  PROVE  Throttled(h, t) \in Quota
BY DEF Throttled, Quota

LEMMA IncrementType ==
  ASSUME NEW h \in Quota, NEW c \in Counters
  PROVE  Increment(h, c) \in Quota
BY DEF Increment, Quota, Counters

\* A commit leaves a column alone or gives it the object's value.
LEMMA SavedColumn ==
  ASSUME NEW q \in Quota, NEW h \in Quota, NEW n \in Quota, NEW c \in Counters
  PROVE  Saved(q, h, n)[c] = IF n[c] = h[c] THEN q[c] ELSE n[c]
BY DEF Saved, Quota, Counters

\* The two columns of the throttle are written together.
LEMMA SavedThrottle ==
  ASSUME NEW q \in Quota, NEW h \in Quota, NEW n \in Quota,
         q.throttled <=> q.until > 0,
         h.throttled <=> h.until > 0,
         n.throttled <=> n.until > 0,
         n.throttled = h.throttled => n.until = h.until
  PROVE  Saved(q, h, n).throttled <=> Saved(q, h, n).until > 0
BY DEF Saved, Quota

LEMMA IncrementColumn ==
  ASSUME NEW h \in Quota, NEW c \in Counters, NEW d \in Counters
  PROVE  Increment(h, c)[d] = IF c = d THEN h[d] + 1 ELSE h[d]
BY DEF Increment, Quota, Counters

-----------------------------------------------------------------------------
(* Type correctness.                                                        *)

\* The session part of a state, kept apart to keep the steps small.
SessionType ==
  /\ pc \in [Sessions -> Places]
  /\ op \in [Sessions -> Operation]
  /\ hand \in [Sessions -> Quota]
  /\ now \in [Sessions -> Nat]
  /\ today \in [Sessions -> BOOLEAN]

LEMMA ReturnType ==
  ASSUME TypeOK, NEW s \in Sessions, Return(s)
  PROVE  SessionType'
BY FreshType DEF TypeOK, Return, SessionType, Places, Operation

LEMMA LoadType ==
  ASSUME TypeOK, NEW s \in Sessions, NEW o \in Operation, Load(s, o)
  PROVE  SessionType'
BY DEF TypeOK, Load, SessionType, Places

LEMMA TimeType ==
  ASSUME TypeOK, NEW s \in Sessions
  PROVE  Time(s) \in Nat
BY QuotaAssumption DEF TypeOK, Time

LEMMA ColumnType ==
  ASSUME NEW o \in {"send", "bounce", "complaint"}
  PROVE  Column(o) \in Counters
BY DEF Column, Counters

LEMMA CountType ==
  ASSUME TypeOK, NEW s \in Sessions, op[s] \in {"send", "bounce", "complaint"}, Count(s)
  PROVE  counted' \in [Counters -> Nat]
BY ColumnType DEF TypeOK, Count

LEMMA ForgetType ==
  ASSUME TypeOK, NEW s \in Sessions, Forget(s)
  PROVE  lost' \in Nat
BY DEF TypeOK, Forget

LEMMA OverwrittenType ==
  ASSUME TypeOK, NEW s \in Sessions
  PROVE  Overwritten(s) \in Nat
BY DEF TypeOK, Overwritten, Quota

LEMMA ThrottleType ==
  ASSUME TypeOK, NEW s \in Sessions, NEW h \in Nat, Throttle(s, h)
  PROVE  TypeOK'
<1>1. Throttled(hand[s], Time(s) + h) \in Quota
  BY TimeType, ThrottledType DEF TypeOK
<1>2. quota' \in Quota
  BY <1>1, SavedType DEF Throttle, TypeOK
<1>3. SessionType'
  BY ReturnType DEF Throttle
<1>4. QED
  BY <1>2, <1>3 DEF Throttle, TypeOK, SessionType, Places, history

LEMMA InitType == Init => TypeOK
<1> SUFFICES ASSUME Init
             PROVE  TypeOK
  OBVIOUS
<1>1. today \in [Sessions -> BOOLEAN] /\ exists \in BOOLEAN /\ disturbed \in BOOLEAN
  BY DEF Init
<1>2. QED
  BY <1>1, FreshType DEF Init, TypeOK, NothingCounted, Operation

LEMMA StepType == TypeOK /\ [Next]_vars => TypeOK'
<1> SUFFICES ASSUME TypeOK, [Next]_vars
             PROVE  TypeOK'
  OBVIOUS
<1>1. CASE HourPasses
  BY <1>1 DEF HourPasses, TypeOK, session, history
<1>2. CASE Midnight
  <2>1. today' \in [Sessions -> BOOLEAN]
    BY <1>2 DEF Midnight
  <2>2. QED
    BY <1>2, <2>1, FreshType DEF Midnight, TypeOK, NothingCounted
<1>3. ASSUME NEW s \in Sessions, NEW o \in {"check", "bounce", "complaint", "status"},
             Call(s, o)
      PROVE  TypeOK'
  <2>1. SessionType'
    BY <1>3, LoadType DEF Call, Operation
  <2>2. disturbed' \in BOOLEAN
    BY <1>3 DEF Call
  <2>3. QED
    BY <1>3, <2>1, <2>2 DEF Call, Load, TypeOK, SessionType, Places
<1>4. ASSUME NEW s \in Sessions, Proceed(s)
      PROVE  TypeOK'
  <2>1. CASE RecordSend(s)
    <3>1. SessionType'
      BY <2>1, LoadType DEF RecordSend, Operation
    <3>2. QED
      BY <2>1, <3>1 DEF RecordSend, Load, TypeOK, SessionType, Places
  <2>2. CASE Create(s)
    BY <2>2 DEF Create, TypeOK, history
  <2>3. CASE Conflict(s)
    <3>1. SessionType'
      BY <2>3, ReturnType DEF Conflict
    <3>2. QED
      BY <2>3, <3>1, ForgetType DEF Conflict, TypeOK, SessionType, Places
  <2>4. CASE ClearThrottle(s)
    <3>1. Unthrottled(hand[s]) \in Quota
      BY UnthrottledType DEF TypeOK
    <3>2. quota' \in Quota /\ hand' \in [Sessions -> Quota]
      BY <2>4, <3>1, SavedType DEF ClearThrottle, Commit, TypeOK
    <3>3. QED
      BY <2>4, <3>2 DEF ClearThrottle, TypeOK, history
  <2>5. CASE CheckThrottled(s)
    <3>1. SessionType'
      BY <2>5, ReturnType DEF CheckThrottled
    <3>2. QED
      BY <2>5, <3>1 DEF CheckThrottled, TypeOK, SessionType, Places, history
  <2>6. CASE CheckQuota(s)
    <3>1. SessionType'
      BY <2>6, ReturnType DEF CheckQuota
    <3>2. QED
      BY <2>6, <3>1 DEF CheckQuota, TypeOK, SessionType, Places, history
  <2>7. CASE CheckTrips(s)
    BY <2>7, ThrottleType, QuotaAssumption DEF CheckTrips
  <2>8. CASE CheckOk(s)
    BY <2>8, FreshType DEF CheckOk, TypeOK, history
  <2>9. CASE Accept(s)
    BY <2>9 DEF Accept, TypeOK
  <2>10. CASE Refuse(s)
    <3>1. SessionType'
      BY <2>10, ReturnType DEF Refuse
    <3>2. QED
      BY <2>10, <3>1 DEF Refuse, TypeOK, SessionType, Places, history
  <2>11. CASE FinishSend(s)
    <3>1. Increment(hand[s], "sent") \in Quota
      BY IncrementType DEF TypeOK, Counters
    <3>2. quota' \in Quota
      BY <2>11, <3>1, SavedType DEF FinishSend, TypeOK
    <3>3. counted' \in [Counters -> Nat]
      BY <2>11, CountType DEF FinishSend, Ready
    <3>4. SessionType'
      BY <2>11, ReturnType DEF FinishSend
    <3>5. lost' \in Nat
      BY <2>11, OverwrittenType DEF FinishSend, TypeOK
    <3>6. QED
      BY <2>11, <3>2, <3>3, <3>4, <3>5 DEF FinishSend, TypeOK, SessionType, Places
  <2>12. CASE RecordEvent(s)
    <3>1. op[s] \in {"send", "bounce", "complaint"}
      BY <2>12 DEF RecordEvent, Ready
    <3>2. Increment(hand[s], Column(op[s])) \in Quota
      BY <3>1, ColumnType, IncrementType DEF TypeOK
    <3>3. quota' \in Quota /\ hand' \in [Sessions -> Quota]
      BY <2>12, <3>2, SavedType DEF RecordEvent, Commit, TypeOK
    <3>4. counted' \in [Counters -> Nat]
      BY <2>12, <3>1, CountType DEF RecordEvent
    <3>5. QED
      BY <2>12, <3>3, <3>4 DEF RecordEvent, TypeOK
  <2>13. CASE Judge(s)
    BY <2>13, ThrottleType, QuotaAssumption DEF Judge
  <2>14. CASE Acquit(s)
    <3>1. SessionType'
      BY <2>14, ReturnType DEF Acquit
    <3>2. QED
      BY <2>14, <3>1 DEF Acquit, TypeOK, SessionType, Places, history
  <2>15. CASE Status(s)
    <3>1. SessionType'
      BY <2>15, ReturnType DEF Status
    <3>2. QED
      BY <2>15, <3>1 DEF Status, TypeOK, SessionType, Places, history
  <2>16. QED
    BY <1>4, <2>1, <2>2, <2>3, <2>4, <2>5, <2>6, <2>7, <2>8, <2>9, <2>10, <2>11,
       <2>12, <2>13, <2>14, <2>15 DEF Proceed
<1>5. ASSUME NEW s \in Sessions, Fail(s)
      PROVE  TypeOK'
  <2>1. SessionType'
    BY <1>5, ReturnType DEF Fail
  <2>2. QED
    BY <1>5, <2>1, ForgetType DEF Fail, TypeOK, SessionType, Places
<1>6. CASE UNCHANGED vars
  BY <1>6 DEF vars, session, history, TypeOK
<1>7. QED
  BY <1>1, <1>2, <1>3, <1>4, <1>5, <1>6 DEF Next

\* Every call of the quota service keeps the row and its copies well typed.
THEOREM QuotaTypeCorrect == Spec => []TypeOK
BY InitType, StepType, PTL DEF Spec

-----------------------------------------------------------------------------
(* Counting.  A stale object holds counters that were true once: at most   *)
(* what has been counted since.                                             *)

HandCounts ==
  \A s \in Sessions : today[s] /\ pc[s] # "idle" =>
    \A c \in Counters : hand[s][c] <= counted[c]

CountsInv == NeverOvercounts /\ HandCounts

\* History only grows.
Grows == counted' \in [Counters -> Nat] /\ \A c \in Counters : counted[c] <= counted'[c]

LEMMA CountGrows ==
  ASSUME TypeOK, NEW s \in Sessions, op[s] \in {"send", "bounce", "complaint"}, Count(s)
  PROVE  /\ Grows
         /\ today[s] => counted'[Column(op[s])] = counted[Column(op[s])] + 1
BY CountType, ColumnType DEF TypeOK, Count, Grows

LEMMA SameGrows ==
  ASSUME TypeOK, UNCHANGED counted
  PROVE  Grows
BY DEF TypeOK, Grows

LEMMA ColumnsNat ==
  ASSUME NEW h \in Quota, NEW c \in Counters
  PROVE  h[c] \in Nat
BY DEF Quota, Counters

LEMMA ReturnCounts ==
  ASSUME TypeOK, HandCounts, NEW s \in Sessions, Return(s), Grows
  PROVE  HandCounts'
<1> SUFFICES ASSUME NEW t \in Sessions, today'[t], pc'[t] # "idle", NEW c \in Counters
             PROVE  hand'[t][c] <= counted'[c]
  BY DEF HandCounts
<1>1. t # s
  BY DEF Return, TypeOK
<1>2. today[t] /\ pc[t] # "idle" /\ hand'[t] = hand[t]
  BY <1>1 DEF Return, TypeOK
<1>3. hand[t][c] <= counted[c]
  BY <1>2 DEF HandCounts
<1>4. hand[t][c] \in Nat /\ counted[c] \in Nat /\ counted'[c] \in Nat
  BY ColumnsNat DEF TypeOK, Grows
<1>5. QED
  BY <1>2, <1>3, <1>4 DEF Grows

LEMMA LoadCounts ==
  ASSUME TypeOK, CountsInv, NEW s \in Sessions, NEW o \in Operation, Load(s, o)
  PROVE  CountsInv'
<1>1. NeverOvercounts'
  BY DEF CountsInv, NeverOvercounts, Load
<1>2. ASSUME NEW t \in Sessions, today'[t], pc'[t] # "idle", NEW c \in Counters
      PROVE  hand'[t][c] <= counted'[c]
  <2>1. CASE t = s
    BY <2>1 DEF Load, TypeOK, CountsInv, NeverOvercounts
  <2>2. CASE t # s
    <3>1. today[t] /\ pc[t] # "idle" /\ hand'[t] = hand[t]
      BY <1>2, <2>2 DEF Load, TypeOK
    <3>2. QED
      BY <3>1 DEF CountsInv, HandCounts, Load
  <2>3. QED
    BY <2>1, <2>2
<1>3. QED
  BY <1>1, <1>2 DEF CountsInv, HandCounts

\* A commit of an object whose new counters have been counted.
LEMMA WriteCounts ==
  ASSUME TypeOK, NeverOvercounts, Grows, NEW s \in Sessions, NEW n \in Quota,
         quota' = IF today[s] THEN Saved(quota, hand[s], n) ELSE quota,
         today[s] => \A c \in Counters : n[c] = hand[s][c] \/ n[c] <= counted'[c]
  PROVE  NeverOvercounts'
<1> SUFFICES ASSUME NEW c \in Counters
             PROVE  quota'[c] <= counted'[c]
  BY DEF NeverOvercounts
<1>1. quota \in Quota /\ hand[s] \in Quota
  BY DEF TypeOK
<1>2. quota[c] \in Nat /\ counted[c] \in Nat /\ counted'[c] \in Nat
  BY <1>1, ColumnsNat DEF TypeOK, Grows
<1>3. quota[c] <= counted[c] /\ counted[c] <= counted'[c]
  BY DEF NeverOvercounts, Grows
<1>4. CASE ~today[s]
  BY <1>2, <1>3, <1>4
<1>5. CASE today[s]
  <2>1. quota'[c] = IF n[c] = hand[s][c] THEN quota[c] ELSE n[c]
    BY <1>1, <1>5, SavedColumn
  <2>2. n[c] = hand[s][c] \/ n[c] <= counted'[c]
    BY <1>5
  <2>3. QED
    BY <1>2, <1>3, <2>1, <2>2
<1>6. QED
  BY <1>4, <1>5

LEMMA ThrottleCounts ==
  ASSUME TypeOK, CountsInv, NEW s \in Sessions, NEW h \in Nat, Throttle(s, h)
  PROVE  CountsInv'
<1>1. Grows
  BY SameGrows DEF Throttle, history
<1>2. HandCounts'
  BY <1>1, ReturnCounts DEF CountsInv, Throttle
<1> DEFINE n == Throttled(hand[s], Time(s) + h)
<1>3. n \in Quota
  BY TimeType, ThrottledType DEF TypeOK
<1>4. \A c \in Counters : n[c] = hand[s][c]
  BY DEF Throttled, TypeOK, Quota, Counters
<1>5. quota' = IF today[s] THEN Saved(quota, hand[s], n) ELSE quota
  BY DEF Throttle
<1> HIDE DEF n
<1>6. NeverOvercounts'
  BY <1>1, <1>3, <1>4, <1>5, WriteCounts DEF CountsInv
<1>7. QED
  BY <1>2, <1>6 DEF CountsInv

\* A call that ends without a write.
LEMMA IdleCounts ==
  ASSUME TypeOK, CountsInv, NEW s \in Sessions, Return(s), UNCHANGED <<quota, counted>>
  PROVE  CountsInv'
<1>1. Grows
  BY SameGrows
<1>2. HandCounts'
  BY <1>1, ReturnCounts DEF CountsInv
<1>3. QED
  BY <1>2 DEF CountsInv, NeverOvercounts

\* A step between two calls of the service.
LEMMA MoveCounts ==
  ASSUME TypeOK, CountsInv, NEW s \in Sessions, pc[s] # "idle",
         NEW place \in Places, pc' = [pc EXCEPT ![s] = place],
         UNCHANGED <<quota, hand, today, counted>>
  PROVE  CountsInv'
<1>1. \A t \in Sessions : pc'[t] # "idle" => pc[t] # "idle"
  BY DEF TypeOK
<1>2. QED
  BY <1>1 DEF CountsInv, NeverOvercounts, HandCounts

LEMMA InitCounts == Init => CountsInv
BY DEF Init, CountsInv, NeverOvercounts, HandCounts, Fresh, NothingCounted, Counters

LEMMA StepCounts == TypeOK /\ CountsInv /\ [Next]_vars => CountsInv'
<1> SUFFICES ASSUME TypeOK, CountsInv, [Next]_vars
             PROVE  CountsInv'
  OBVIOUS
<1>1. CASE HourPasses
  BY <1>1 DEF HourPasses, session, history, CountsInv, NeverOvercounts, HandCounts
<1>2. CASE Midnight
  <2>1. NeverOvercounts'
    BY <1>2 DEF Midnight, Fresh, NothingCounted, NeverOvercounts, Counters
  <2>2. \A s \in Sessions : ~(today'[s] /\ pc'[s] # "idle")
    BY <1>2 DEF Midnight
  <2>3. QED
    BY <2>1, <2>2 DEF CountsInv, HandCounts
<1>3. ASSUME NEW s \in Sessions, NEW o \in {"check", "bounce", "complaint", "status"},
             Call(s, o)
      PROVE  CountsInv'
  BY <1>3, LoadCounts DEF Call, Operation
<1>4. ASSUME NEW s \in Sessions, Proceed(s)
      PROVE  CountsInv'
  <2>1. CASE RecordSend(s)
    BY <2>1, LoadCounts DEF RecordSend, Operation
  <2>2. CASE Create(s)
    BY <2>2, MoveCounts DEF Create, Places, history
  <2>3. CASE Conflict(s)
    BY <2>3, IdleCounts DEF Conflict
  <2>4. CASE ClearThrottle(s)
    <3> DEFINE n == Unthrottled(hand[s])
    <3>1. n \in Quota
      BY UnthrottledType DEF TypeOK
    <3>2. \A c \in Counters : n[c] = hand[s][c]
      BY DEF Unthrottled, TypeOK, Quota, Counters
    <3>3. Grows
      BY <2>4, SameGrows DEF ClearThrottle, history
    <3>4. /\ quota' = IF today[s] THEN Saved(quota, hand[s], n) ELSE quota
          /\ hand' = [hand EXCEPT ![s] = n]
      BY <2>4 DEF ClearThrottle, Commit
    <3> HIDE DEF n
    <3>5. NeverOvercounts'
      BY <3>1, <3>2, <3>3, <3>4, WriteCounts DEF CountsInv
    <3>6. \A t \in Sessions : \A c \in Counters : hand'[t][c] = hand[t][c]
      BY <3>2, <3>4 DEF TypeOK
    <3>7. HandCounts'
      BY <2>4, <3>6 DEF ClearThrottle, history, CountsInv, HandCounts
    <3>8. QED
      BY <3>5, <3>7 DEF CountsInv
  <2>5. CASE CheckThrottled(s)
    BY <2>5, IdleCounts DEF CheckThrottled, history
  <2>6. CASE CheckQuota(s)
    BY <2>6, IdleCounts DEF CheckQuota, history
  <2>7. CASE CheckTrips(s)
    BY <2>7, ThrottleCounts, QuotaAssumption DEF CheckTrips
  <2>8. CASE CheckOk(s)
    <3>1. pc[s] # "idle" /\ UNCHANGED <<quota, today, counted>>
      BY <2>8 DEF CheckOk, Ready, history
    <3>2. \A t \in Sessions : pc'[t] # "idle" => pc[t] # "idle"
      BY <2>8, <3>1 DEF CheckOk, TypeOK
    <3>3. \A t \in Sessions : hand'[t] = Fresh \/ hand'[t] = hand[t]
      BY <2>8 DEF CheckOk, TypeOK
    <3>4. \A c \in Counters : Fresh[c] <= counted[c]
      BY DEF Fresh, Counters, TypeOK
    <3>5. QED
      BY <3>1, <3>2, <3>3, <3>4 DEF CountsInv, NeverOvercounts, HandCounts
  <2>9. CASE Accept(s)
    BY <2>9, MoveCounts DEF Accept, Places
  <2>10. CASE Refuse(s)
    BY <2>10, IdleCounts DEF Refuse, history
  <2>11. CASE FinishSend(s)
    <3> DEFINE n == Increment(hand[s], "sent")
    <3>1. op[s] = "send" /\ pc[s] = "loaded" /\ Column(op[s]) = "sent"
      BY <2>11 DEF FinishSend, Ready, Column
    <3>2. Grows /\ (today[s] => counted'["sent"] = counted["sent"] + 1)
      BY <2>11, <3>1, CountGrows DEF FinishSend
    <3>3. n \in Quota /\ \A c \in Counters : n[c] = IF "sent" = c THEN hand[s][c] + 1 ELSE hand[s][c]
      BY IncrementType, IncrementColumn DEF TypeOK, Counters
    <3>4. quota' = IF today[s] THEN Saved(quota, hand[s], n) ELSE quota
      BY <2>11 DEF FinishSend
    <3> HIDE DEF n
    <3>5. today[s] => hand[s]["sent"] <= counted["sent"]
      BY <3>1 DEF CountsInv, HandCounts, Counters
    <3>6. hand[s]["sent"] \in Nat /\ counted["sent"] \in Nat
      BY DEF TypeOK, Quota, Counters
    <3>7. today[s] => \A c \in Counters : n[c] = hand[s][c] \/ n[c] <= counted'[c]
      BY <3>2, <3>3, <3>5, <3>6
    <3>8. NeverOvercounts'
      BY <3>2, <3>3, <3>4, <3>7, WriteCounts DEF CountsInv
    <3>9. HandCounts'
      BY <2>11, <3>2, ReturnCounts DEF FinishSend, CountsInv
    <3>10. QED
      BY <3>8, <3>9 DEF CountsInv
  <2>12. CASE RecordEvent(s)
    <3> DEFINE k == Column(op[s])
               n == Increment(hand[s], k)
    <3>1. op[s] \in {"send", "bounce", "complaint"} /\ pc[s] = "loaded" /\ k \in Counters
      BY <2>12, ColumnType DEF RecordEvent, Ready
    <3>2. Grows /\ (today[s] => counted'[k] = counted[k] + 1)
      BY <2>12, <3>1, CountGrows DEF RecordEvent
    <3>3. n \in Quota /\ \A c \in Counters : n[c] = IF k = c THEN hand[s][c] + 1 ELSE hand[s][c]
      BY <3>1, IncrementType, IncrementColumn DEF TypeOK
    <3>4. /\ quota' = IF today[s] THEN Saved(quota, hand[s], n) ELSE quota
          /\ hand' = [hand EXCEPT ![s] = n]
          /\ pc' = [pc EXCEPT ![s] = "judging"] /\ today' = today
      BY <2>12 DEF RecordEvent, Commit
    <3> HIDE DEF k, n
    <3>5. \A c \in Counters : hand[s][c] \in Nat /\ counted[c] \in Nat
      BY ColumnsNat DEF TypeOK
    <3>6. today[s] => \A c \in Counters : hand[s][c] <= counted[c]
      BY <3>1 DEF CountsInv, HandCounts
    <3>7. today[s] => \A c \in Counters : n[c] <= counted'[c]
      <4> SUFFICES ASSUME today[s], NEW c \in Counters
                   PROVE  n[c] <= counted'[c]
        OBVIOUS
      <4>1. hand[s][c] <= counted[c] /\ counted[c] <= counted'[c]
            /\ hand[s][c] \in Nat /\ counted[c] \in Nat /\ counted'[c] \in Nat
        BY <3>2, <3>5, <3>6 DEF Grows
      <4>2. CASE c = k
        BY <3>2, <3>3, <4>1, <4>2
      <4>3. CASE c # k
        BY <3>3, <4>1, <4>3
      <4>4. QED
        BY <4>2, <4>3
    <3>8. NeverOvercounts'
      BY <3>2, <3>3, <3>4, <3>7, WriteCounts DEF CountsInv
    <3>9. ASSUME NEW t \in Sessions, today'[t], pc'[t] # "idle", NEW c \in Counters
          PROVE  hand'[t][c] <= counted'[c]
      <4>1. CASE t = s
        BY <3>4, <3>7, <3>9, <4>1 DEF TypeOK
      <4>2. CASE t # s
        <5>1. today[t] /\ pc[t] # "idle" /\ hand'[t] = hand[t]
          BY <3>4, <3>9, <4>2 DEF TypeOK
        <5>2. hand[t][c] <= counted[c] /\ counted[c] <= counted'[c]
              /\ hand[t][c] \in Nat /\ counted[c] \in Nat /\ counted'[c] \in Nat
          BY <3>2, <5>1, ColumnsNat DEF CountsInv, HandCounts, Grows, TypeOK
        <5>3. QED
          BY <5>1, <5>2
      <4>3. QED
        BY <4>1, <4>2
    <3>10. QED
      BY <3>8, <3>9 DEF CountsInv, HandCounts
  <2>13. CASE Judge(s)
    BY <2>13, ThrottleCounts, QuotaAssumption DEF Judge
  <2>14. CASE Acquit(s)
    BY <2>14, IdleCounts DEF Acquit, history
  <2>15. CASE Status(s)
    BY <2>15, IdleCounts DEF Status, history
  <2>16. QED
    BY <1>4, <2>1, <2>2, <2>3, <2>4, <2>5, <2>6, <2>7, <2>8, <2>9, <2>10, <2>11,
       <2>12, <2>13, <2>14, <2>15 DEF Proceed
<1>5. ASSUME NEW s \in Sessions, Fail(s)
      PROVE  CountsInv'
  BY <1>5, IdleCounts DEF Fail
<1>6. CASE UNCHANGED vars
  BY <1>6 DEF vars, session, history, CountsInv, NeverOvercounts, HandCounts
<1>7. QED
  BY <1>1, <1>2, <1>3, <1>4, <1>5, <1>6 DEF Next

\* However stale the object of a bounce, a complaint or a send, the row never shows
\* more than was recorded that day.
THEOREM NeverOvercountsHolds == Spec => []NeverOvercounts
<1>1. CountsInv => NeverOvercounts
  BY DEF CountsInv
<1>2. QED
  BY <1>1, InitType, StepType, InitCounts, StepCounts, PTL DEF Spec

\* A user is told daily_quota_exceeded only after that many emails of the day were
\* recorded.
THEOREM DeniedOnlyWhenSpentHolds == Spec => DeniedOnlyWhenSpent
<1>1. ASSUME TypeOK, CountsInv, NEW s \in Sessions, CheckQuota(s), today[s]
      PROVE  counted.sent >= DailyQuota
  <2>1. pc[s] = "loaded" /\ hand[s].sent + 1 > DailyQuota
    BY <1>1 DEF CheckQuota, Ready, Spent
  <2>2. hand[s]["sent"] <= counted["sent"]
    BY <1>1, <2>1 DEF CountsInv, HandCounts, Counters
  <2>3. hand[s]["sent"] \in Nat /\ counted["sent"] \in Nat
    BY <1>1 DEF TypeOK, Quota, Counters
  <2>4. QED
    BY <2>1, <2>2, <2>3, QuotaAssumption
<1>2. TypeOK /\ CountsInv =>
        [\A s \in Sessions : CheckQuota(s) /\ today[s] => counted.sent >= DailyQuota]_vars
  BY <1>1
<1>3. QED
  BY <1>2, InitType, StepType, InitCounts, StepCounts, PTL DEF Spec, DeniedOnlyWhenSpent

-----------------------------------------------------------------------------
(* The throttle.  In the row and in every object the flag and the end agree, *)
(* and a commit writes both or neither.                                      *)

Consistent(q) == q.throttled <=> q.until > 0

ThrottleInv ==
  /\ Consistent(quota)
  /\ \A s \in Sessions : Consistent(hand[s])

LEMMA FreshConsistent == Consistent(Fresh)
BY DEF Consistent, Fresh

\* An object whose throttle was left alone, or set and cleared as a whole.
WholeChange(h, n) ==
  \/ n.throttled = h.throttled /\ n.until = h.until
  \/ n.throttled # h.throttled /\ Consistent(n)

LEMMA WholeWrite ==
  ASSUME NEW q \in Quota, NEW h \in Quota, NEW n \in Quota,
         Consistent(q), Consistent(h), WholeChange(h, n)
  PROVE  Consistent(n) /\ Consistent(Saved(q, h, n))
<1>1. Consistent(n)
  BY DEF WholeChange, Consistent
<1>2. n.throttled = h.throttled => n.until = h.until
  BY DEF WholeChange
<1>3. QED
  BY <1>1, <1>2, SavedThrottle DEF Consistent

LEMMA IncrementWhole ==
  ASSUME NEW h \in Quota, NEW c \in Counters
  PROVE  WholeChange(h, Increment(h, c))
BY DEF WholeChange, Increment, Quota, Counters

LEMMA UnthrottledWhole ==
  ASSUME NEW h \in Quota, h.throttled
  PROVE  WholeChange(h, Unthrottled(h))
BY DEF WholeChange, Unthrottled, Quota, Consistent

LEMMA ThrottledWhole ==
  ASSUME NEW h \in Quota, ~h.throttled, NEW t \in Nat \ {0}
  PROVE  WholeChange(h, Throttled(h, t))
<1>1. Throttled(h, t).throttled = TRUE /\ Throttled(h, t).until = t
  BY DEF Throttled, Quota
<1>2. Consistent(Throttled(h, t))
  BY <1>1 DEF Consistent
<1>3. QED
  BY <1>1, <1>2 DEF WholeChange

\* What a step does to the row and to the object of its session.
LEMMA WriteThrottle ==
  ASSUME TypeOK, ThrottleInv, NEW s \in Sessions, NEW n \in Quota, WholeChange(hand[s], n),
         quota' = IF today[s] THEN Saved(quota, hand[s], n) ELSE quota,
         hand' = [hand EXCEPT ![s] = n] \/ hand' = [hand EXCEPT ![s] = Fresh]
  PROVE  ThrottleInv'
<1>1. quota \in Quota /\ hand[s] \in Quota /\ Consistent(quota) /\ Consistent(hand[s])
  BY DEF TypeOK, ThrottleInv
<1>2. Consistent(n) /\ Consistent(Saved(quota, hand[s], n))
  BY <1>1, WholeWrite
<1>3. Consistent(quota)'
  BY <1>1, <1>2 DEF Consistent
<1>4. \A t \in Sessions : hand'[t] = n \/ hand'[t] = Fresh \/ hand'[t] = hand[t]
  BY DEF TypeOK
<1>5. \A t \in Sessions : Consistent(hand[t])'
  BY <1>2, <1>4, FreshConsistent DEF ThrottleInv, Consistent
<1>6. QED
  BY <1>3, <1>5 DEF ThrottleInv

LEMMA HandThrottle ==
  ASSUME TypeOK, ThrottleInv, NEW s \in Sessions, UNCHANGED quota,
         hand' = [hand EXCEPT ![s] = quota] \/ hand' = [hand EXCEPT ![s] = Fresh]
  PROVE  ThrottleInv'
<1>1. \A t \in Sessions : hand'[t] = quota \/ hand'[t] = Fresh \/ hand'[t] = hand[t]
  BY DEF TypeOK
<1>2. QED
  BY <1>1, FreshConsistent DEF ThrottleInv, Consistent

LEMMA SameThrottle ==
  ASSUME ThrottleInv, UNCHANGED <<quota, hand>>
  PROVE  ThrottleInv'
BY DEF ThrottleInv, Consistent

LEMMA StepThrottled ==
  ASSUME TypeOK, ThrottleInv, NEW s \in Sessions, NEW h \in Nat \ {0}, Throttle(s, h),
         ~hand[s].throttled
  PROVE  ThrottleInv'
<1> DEFINE n == Throttled(hand[s], Time(s) + h)
<1>1. Time(s) + h \in Nat \ {0} /\ hand[s] \in Quota
  BY TimeType DEF TypeOK
<1>2. n \in Quota /\ WholeChange(hand[s], n)
  BY <1>1, ThrottledType, ThrottledWhole
<1>3. /\ quota' = IF today[s] THEN Saved(quota, hand[s], n) ELSE quota
      /\ hand' = [hand EXCEPT ![s] = Fresh]
  BY DEF Throttle, Return
<1> HIDE DEF n
<1>4. QED
  BY <1>2, <1>3, WriteThrottle

LEMMA InitThrottle == Init => ThrottleInv
BY FreshConsistent DEF Init, ThrottleInv

LEMMA StepThrottle == TypeOK /\ ThrottleInv /\ [Next]_vars => ThrottleInv'
<1> SUFFICES ASSUME TypeOK, ThrottleInv, [Next]_vars
             PROVE  ThrottleInv'
  OBVIOUS
<1>1. CASE HourPasses
  BY <1>1, SameThrottle DEF HourPasses, session
<1>2. CASE Midnight
  BY <1>2, FreshConsistent DEF Midnight, ThrottleInv, Consistent
<1>3. ASSUME NEW s \in Sessions, NEW o \in {"check", "bounce", "complaint", "status"},
             Call(s, o)
      PROVE  ThrottleInv'
  BY <1>3, HandThrottle DEF Call, Load
<1>4. ASSUME NEW s \in Sessions, Proceed(s)
      PROVE  ThrottleInv'
  <2>0. hand[s] \in Quota
    BY DEF TypeOK
  <2>1. CASE RecordSend(s)
    BY <2>1, HandThrottle DEF RecordSend, Load
  <2>2. CASE Create(s)
    BY <2>2, SameThrottle DEF Create
  <2>3. CASE Conflict(s)
    BY <2>3, HandThrottle DEF Conflict, Return
  <2>4. CASE ClearThrottle(s)
    <3>1. hand[s].throttled
      BY <2>4 DEF ClearThrottle, Elapsed, Expired
    <3>2. Unthrottled(hand[s]) \in Quota /\ WholeChange(hand[s], Unthrottled(hand[s]))
      BY <2>0, <3>1, UnthrottledType, UnthrottledWhole
    <3>3. QED
      BY <2>4, <3>2, WriteThrottle DEF ClearThrottle, Commit
  <2>5. CASE CheckThrottled(s)
    BY <2>5, HandThrottle DEF CheckThrottled, Return
  <2>6. CASE CheckQuota(s)
    BY <2>6, HandThrottle DEF CheckQuota, Return
  <2>7. CASE CheckTrips(s)
    BY <2>7, StepThrottled, QuotaAssumption DEF CheckTrips
  <2>8. CASE CheckOk(s)
    BY <2>8, HandThrottle DEF CheckOk
  <2>9. CASE Accept(s)
    BY <2>9, SameThrottle DEF Accept
  <2>10. CASE Refuse(s)
    BY <2>10, HandThrottle DEF Refuse, Return
  <2>11. CASE FinishSend(s)
    <3>1. Increment(hand[s], "sent") \in Quota
          /\ WholeChange(hand[s], Increment(hand[s], "sent"))
      BY <2>0, IncrementType, IncrementWhole DEF Counters
    <3>2. QED
      BY <2>11, <3>1, WriteThrottle DEF FinishSend, Return
  <2>12. CASE RecordEvent(s)
    <3>1. Column(op[s]) \in Counters
      BY <2>12, ColumnType DEF RecordEvent, Ready
    <3>2. Increment(hand[s], Column(op[s])) \in Quota
          /\ WholeChange(hand[s], Increment(hand[s], Column(op[s])))
      BY <2>0, <3>1, IncrementType, IncrementWhole
    <3>3. QED
      BY <2>12, <3>2, WriteThrottle DEF RecordEvent, Commit
  <2>13. CASE Judge(s)
    BY <2>13, StepThrottled, QuotaAssumption DEF Judge
  <2>14. CASE Acquit(s)
    BY <2>14, HandThrottle DEF Acquit, Return
  <2>15. CASE Status(s)
    BY <2>15, HandThrottle DEF Status, Return
  <2>16. QED
    BY <1>4, <2>1, <2>2, <2>3, <2>4, <2>5, <2>6, <2>7, <2>8, <2>9, <2>10, <2>11,
       <2>12, <2>13, <2>14, <2>15 DEF Proceed
<1>5. ASSUME NEW s \in Sessions, Fail(s)
      PROVE  ThrottleInv'
  BY <1>5, HandThrottle DEF Fail, Return
<1>6. CASE UNCHANGED vars
  BY <1>6, SameThrottle DEF vars, session
<1>7. QED
  BY <1>1, <1>2, <1>3, <1>4, <1>5, <1>6 DEF Next

\* Whatever sessions clear and set the throttle at once, the row never carries a
\* throttle without an end, nor an end without the throttle.
THEOREM ThrottleHasEndHolds == Spec => []ThrottleHasEnd
<1>1. ThrottleInv => ThrottleHasEnd
  BY DEF ThrottleInv, ThrottleHasEnd, Consistent
<1>2. QED
  BY <1>1, InitType, StepType, InitThrottle, StepThrottle, PTL DEF Spec

-----------------------------------------------------------------------------
(* One session at a time.  The emails that MailBridge accepted today are in *)
(* today's row, except the last one while its session is about to record it; *)
(* after midnight the session that is still at work has nothing to record.  *)

\* An email that is accepted and not yet recorded
Pending(s) == pc[s] = "unrecorded" \/ op[s] = "send"

Place ==
  \A s \in Sessions :
    /\ pc[s] = "idle" => op[s] = "none" /\ today[s]
    /\ op[s] = "send" => pc[s] \in {"absent", "loaded"}

OneAtWork == \A s, t \in Sessions : pc[s] # "idle" /\ pc[t] # "idle" => s = t

Recorded ==
  \/ accepted <= quota.sent
  \/ \E s \in Sessions : Pending(s) /\ accepted <= quota.sent + 1

Current ==
  \A s \in Sessions :
    pc[s] \in {"absent", "loaded", "judging"} /\ today[s] => hand[s].sent = quota.sent

NewDay == \A s \in Sessions : ~today[s] /\ pc[s] # "unrecorded" => accepted = 0

MayAccept == \A s \in Sessions : pc[s] = "sending" => accepted < DailyQuota

AloneInv ==
  /\ Place
  /\ ~disturbed =>
       OneAtWork /\ Recorded /\ Current /\ NewDay /\ MayAccept /\ accepted <= DailyQuota

Busy(s) == pc[s] # "idle"

\* While one session works alone the others are out of calls.
LEMMA OthersIdle ==
  ASSUME AloneInv, ~disturbed, NEW s \in Sessions, Busy(s)
  PROVE  \A t \in Sessions \ {s} : pc[t] = "idle" /\ op[t] = "none" /\ today[t]
BY DEF AloneInv, Place, OneAtWork, Busy

LEMMA PlaceReturn ==
  ASSUME TypeOK, Place, NEW s \in Sessions, Return(s)
  PROVE  Place'
BY DEF TypeOK, Place, Return

\* Nobody is at work any more: the row must hold all emails.
LEMMA AloneReturn ==
  ASSUME TypeOK, AloneInv, NEW s \in Sessions, Busy(s), Return(s),
         UNCHANGED disturbed,
         ~disturbed => accepted' <= quota'.sent /\ accepted' <= DailyQuota
  PROVE  AloneInv'
<1>1. Place'
  BY PlaceReturn DEF AloneInv
<1>2. ASSUME ~disturbed
      PROVE  (OneAtWork /\ Recorded /\ Current /\ NewDay /\ MayAccept
                /\ accepted <= DailyQuota)'
  <2>1. \A t \in Sessions : pc'[t] = "idle" /\ today'[t]
    BY <1>2, OthersIdle DEF Return, TypeOK
  <2>2. QED
    BY <1>2, <2>1 DEF OneAtWork, Recorded, Current, NewDay, MayAccept
<1>3. QED
  BY <1>1, <1>2 DEF AloneInv

\* A call ends that was about to record nothing.
LEMMA AloneEnd ==
  ASSUME TypeOK, AloneInv, NEW s \in Sessions, Busy(s), ~Pending(s), Return(s),
         UNCHANGED <<accepted, disturbed>>, quota'.sent = quota.sent
  PROVE  AloneInv'
<1>1. ASSUME ~disturbed
      PROVE  accepted' <= quota'.sent /\ accepted' <= DailyQuota
  <2>1. \A t \in Sessions : ~Pending(t)
    BY <1>1, OthersIdle DEF Pending
  <2>2. QED
    BY <1>1, <2>1 DEF AloneInv, Recorded
<1>2. QED
  BY <1>1, AloneReturn

LEMMA AloneDisturbed ==
  ASSUME TypeOK, AloneInv, disturbed', Place'
  PROVE  AloneInv'
BY DEF AloneInv

\* The row is read.
LEMMA AloneLoad ==
  ASSUME TypeOK, AloneInv, NEW s \in Sessions, NEW o \in Operation \ {"none"}, Load(s, o),
         disturbed' \in BOOLEAN,
         ~disturbed' => ~disturbed /\ \A t \in Sessions \ {s} : ~Busy(t),
         o = "send" \/ ~Pending(s)
  PROVE  AloneInv'
<1>1. pc'[s] \in {"absent", "loaded"} /\ op'[s] = o /\ hand'[s] = quota /\ today'[s]
  BY DEF Load, TypeOK
<1>2. \A t \in Sessions \ {s} :
        pc'[t] = pc[t] /\ op'[t] = op[t] /\ hand'[t] = hand[t] /\ today'[t] = today[t]
  BY DEF Load, TypeOK
<1>3. Place'
  BY <1>1, <1>2 DEF AloneInv, Place
<1>4. ASSUME ~disturbed'
      PROVE  (OneAtWork /\ Recorded /\ Current /\ NewDay /\ MayAccept
                /\ accepted <= DailyQuota)'
  <2>1. \A t \in Sessions \ {s} : pc'[t] = "idle" /\ pc[t] = "idle" /\ op[t] = "none"
                                  /\ op'[t] = "none" /\ today'[t]
    BY <1>2, <1>4 DEF AloneInv, Place, Busy
  <2>2. OneAtWork'
    BY <2>1 DEF OneAtWork
  <2>3. Recorded'
    <3>1. CASE accepted <= quota.sent
      BY <3>1 DEF Recorded, Load
    <3>2. ASSUME NEW t \in Sessions, Pending(t), accepted <= quota.sent + 1
          PROVE  Recorded'
      <4>1. t = s
        BY <3>2, <2>1 DEF Pending
      <4>2. Pending(s)'
        BY <1>1, <3>2, <4>1 DEF Pending
      <4>3. QED
        BY <3>2, <4>2 DEF Recorded, Load
    <3>3. QED
      BY <1>4, <3>1, <3>2 DEF AloneInv, Recorded
  <2>4. Current'
    BY <1>1, <2>1 DEF Current, Load
  <2>5. NewDay'
    BY <1>1, <2>1 DEF NewDay
  <2>6. MayAccept'
    BY <1>1, <2>1 DEF MayAccept
  <2>7. QED
    BY <1>4, <2>2, <2>3, <2>4, <2>5, <2>6 DEF AloneInv, Load
<1>5. QED
  BY <1>3, <1>4 DEF AloneInv

\* The session goes on, the emails stay as they are.
LEMMA AloneMove ==
  ASSUME TypeOK, AloneInv, NEW s \in Sessions, Busy(s), NEW place \in Places \ {"idle"},
         pc' = [pc EXCEPT ![s] = place], UNCHANGED <<op, today, accepted, disturbed>>,
         quota'.sent = quota.sent,
         \/ hand'[s].sent = hand[s].sent /\ pc[s] \in {"absent", "loaded"}
         \/ place = "sending",
         Pending(s) => op[s] = "send" /\ place \in {"absent", "loaded"},
         place = "unrecorded" => pc[s] = "unrecorded",
         place = "sending" /\ ~disturbed => accepted < DailyQuota,
         \A t \in Sessions \ {s} : hand'[t] = hand[t]
  PROVE  AloneInv'
<1>1. pc'[s] = place /\ \A t \in Sessions \ {s} : pc'[t] = pc[t]
  BY DEF TypeOK
<1>2. Place'
  BY <1>1 DEF AloneInv, Place, Pending
<1>3. ASSUME ~disturbed
      PROVE  (OneAtWork /\ Recorded /\ Current /\ NewDay /\ MayAccept
                /\ accepted <= DailyQuota)'
  <2>1. \A t \in Sessions \ {s} : pc'[t] = "idle" /\ op[t] = "none" /\ today[t]
    BY <1>1, <1>3, OthersIdle
  <2>2. OneAtWork'
    BY <2>1 DEF OneAtWork
  <2>3. \A t \in Sessions : Pending(t) => Pending(t)'
    BY <1>1, <2>1 DEF Pending
  <2>4. Recorded'
    BY <1>3, <2>3 DEF AloneInv, Recorded
  <2>5. Current'
    BY <1>1, <1>3, <2>1 DEF AloneInv, Current, Busy
  <2>6. NewDay'
    <3>1. pc[s] # "unrecorded"
      BY DEF AloneInv, Place, Pending
    <3>2. QED
      BY <1>1, <1>3, <2>1, <3>1 DEF AloneInv, NewDay, Busy
  <2>7. MayAccept'
    BY <1>1, <1>3, <2>1 DEF MayAccept
  <2>8. QED
    BY <1>3, <2>2, <2>4, <2>5, <2>6, <2>7 DEF AloneInv
<1>4. QED
  BY <1>2, <1>3 DEF AloneInv

LEMMA SentColumn ==
  ASSUME NEW q \in Quota, NEW h \in Quota, NEW n \in Quota
  PROVE  Saved(q, h, n).sent = IF n.sent = h.sent THEN q.sent ELSE n.sent
BY DEF Saved, Quota

\* A throttle does not touch emails_sent.
LEMMA ThrottleSent ==
  ASSUME TypeOK, NEW s \in Sessions, NEW h \in Nat, Throttle(s, h)
  PROVE  quota'.sent = quota.sent
<1> DEFINE n == Throttled(hand[s], Time(s) + h)
<1>1. hand[s] \in Quota /\ quota \in Quota /\ n \in Quota
  BY TimeType, ThrottledType DEF TypeOK
<1>2. n.sent = hand[s].sent
  BY <1>1 DEF Throttled, Quota
<1>3. quota' = IF today[s] THEN Saved(quota, hand[s], n) ELSE quota
  BY DEF Throttle
<1> HIDE DEF n
<1>4. QED
  BY <1>1, <1>2, <1>3, SentColumn

LEMMA InitAlone == Init => AloneInv
BY QuotaAssumption DEF Init, AloneInv, Place, OneAtWork, Recorded, Current, NewDay,
   MayAccept, Fresh

LEMMA MidnightAlone ==
  ASSUME TypeOK, AloneInv, Midnight
  PROVE  AloneInv'
<1>1. quota'.sent = 0 /\ accepted' = 0
  BY DEF Midnight, Fresh
<1>2. \A t \in Sessions : today'[t] = (pc[t] = "idle")
  BY DEF Midnight
<1>3. Place'
  BY <1>2 DEF Midnight, AloneInv, Place
<1>4. ASSUME ~disturbed
      PROVE  OneAtWork'
  BY <1>4 DEF Midnight, AloneInv, OneAtWork
<1>5. Recorded'
  BY <1>1 DEF Recorded
<1>6. Current'
  BY <1>2 DEF Current, Midnight
<1>7. NewDay' /\ MayAccept' /\ accepted' <= DailyQuota
  BY <1>1, QuotaAssumption DEF NewDay, MayAccept
<1>8. QED
  BY <1>3, <1>4, <1>5, <1>6, <1>7 DEF AloneInv, Midnight

LEMMA StepAlone == TypeOK /\ AloneInv /\ [Next]_vars => AloneInv'
<1> SUFFICES ASSUME TypeOK, AloneInv, [Next]_vars
             PROVE  AloneInv'
  OBVIOUS
<1>1. CASE HourPasses
  BY <1>1 DEF HourPasses, session, history, AloneInv, Place, OneAtWork, Recorded, Pending,
     Current, NewDay, MayAccept
<1>2. CASE Midnight
  BY <1>2, MidnightAlone
<1>3. ASSUME NEW s \in Sessions, NEW o \in {"check", "bounce", "complaint", "status"},
             Call(s, o)
      PROVE  AloneInv'
  <2>1. disturbed' \in BOOLEAN /\ (disturbed' <=> disturbed \/ \E t \in Sessions : Busy(t))
    BY <1>3 DEF Call, TypeOK, Busy
  <2>2. ~Pending(s)
    BY <1>3 DEF Call, Pending, AloneInv, Place
  <2>3. QED
    BY <1>3, <2>1, <2>2, AloneLoad DEF Call, Operation
<1>4. ASSUME NEW s \in Sessions, Proceed(s)
      PROVE  AloneInv'
  <2>0. hand[s] \in Quota /\ quota \in Quota
    BY DEF TypeOK
  <2>1. CASE RecordSend(s)
    <3>1. pc[s] = "unrecorded" /\ Load(s, "send") /\ disturbed' = disturbed
      BY <2>1 DEF RecordSend
    <3>2. ~disturbed => \A t \in Sessions \ {s} : ~Busy(t)
      BY <3>1, OthersIdle DEF Busy
    <3>3. disturbed' \in BOOLEAN
      BY <3>1 DEF TypeOK
    <3>4. QED
      BY <3>1, <3>2, <3>3, AloneLoad DEF Operation
  <2>2. CASE Create(s)
    <3>1. Busy(s) /\ (Pending(s) => op[s] = "send")
      BY <2>2 DEF Create, Busy, Pending
    <3>2. QED
      BY <2>2, <3>1, AloneMove DEF Create, Places, history
  <2>3. CASE Conflict(s)
    <3>1. Place'
      BY <2>3, PlaceReturn DEF Conflict, AloneInv
    <3>2. QED
      BY <2>3, <3>1, AloneDisturbed DEF Conflict
  <2>4. CASE ClearThrottle(s)
    <3> DEFINE n == Unthrottled(hand[s])
    <3>1. n \in Quota /\ n.sent = hand[s].sent
      BY <2>0, UnthrottledType DEF Unthrottled, Quota
    <3>2. /\ quota' = IF today[s] THEN Saved(quota, hand[s], n) ELSE quota
          /\ hand' = [hand EXCEPT ![s] = n]
      BY <2>4 DEF ClearThrottle, Commit
    <3> HIDE DEF n
    <3>3. quota'.sent = quota.sent
      BY <2>0, <3>1, <3>2, SentColumn
    <3>4. hand'[s].sent = hand[s].sent /\ \A t \in Sessions \ {s} : hand'[t] = hand[t]
      BY <3>1, <3>2 DEF TypeOK
    <3>5. pc[s] = "loaded" /\ pc' = [pc EXCEPT ![s] = "loaded"]
      BY <2>4 DEF ClearThrottle, TypeOK
    <3>6. Busy(s) /\ (Pending(s) => op[s] = "send")
      BY <3>5 DEF Busy, Pending
    <3>7. QED
      BY <2>4, <3>3, <3>4, <3>5, <3>6, AloneMove DEF ClearThrottle, Places, history
  <2>5. CASE CheckThrottled(s)
    BY <2>5, AloneEnd DEF CheckThrottled, Ready, Busy, Pending, history
  <2>6. CASE CheckQuota(s)
    BY <2>6, AloneEnd DEF CheckQuota, Ready, Busy, Pending, history
  <2>7. CASE CheckTrips(s)
    <3>1. Busy(s) /\ ~Pending(s)
      BY <2>7 DEF CheckTrips, Ready, Busy, Pending
    <3>2. ASSUME NEW h \in Nat, Throttle(s, h)
          PROVE  AloneInv'
      BY <3>1, <3>2, ThrottleSent, AloneEnd DEF Throttle, history
    <3>3. QED
      BY <2>7, <3>2, QuotaAssumption DEF CheckTrips
  <2>8. CASE CheckOk(s)
    <3>1. pc[s] = "loaded" /\ op[s] = "check" /\ ~(hand[s].sent + 1 > DailyQuota)
      BY <2>8 DEF CheckOk, Ready, Spent
    <3>2. Busy(s) /\ ~Pending(s)
      BY <3>1 DEF Busy, Pending
    <3>3. ASSUME ~disturbed
          PROVE  accepted < DailyQuota
      <4>1. \A t \in Sessions : ~Pending(t)
        BY <3>2, <3>3, OthersIdle DEF Pending
      <4>2. accepted <= quota.sent
        BY <3>3, <4>1 DEF AloneInv, Recorded
      <4>3. today[s] => hand[s].sent = quota.sent
        BY <3>1, <3>3 DEF AloneInv, Current
      <4>4. ~today[s] => accepted = 0
        BY <3>1, <3>3 DEF AloneInv, NewDay
      <4>5. accepted \in Nat /\ quota.sent \in Nat
        BY DEF TypeOK, Quota
      <4>6. QED
        BY <3>1, <4>2, <4>3, <4>4, <4>5, QuotaAssumption
    <3>4. \A t \in Sessions \ {s} : hand'[t] = hand[t]
      BY <2>8 DEF CheckOk, TypeOK
    <3>5. QED
      BY <2>8, <3>2, <3>3, <3>4, AloneMove DEF CheckOk, Places, history
  <2>9. CASE Accept(s)
    <3>1. /\ pc[s] = "sending" /\ Busy(s) /\ pc'[s] = "unrecorded"
          /\ \A t \in Sessions \ {s} : pc'[t] = pc[t]
          /\ accepted' = accepted + 1
          /\ UNCHANGED <<quota, op, hand, today, disturbed>>
      BY <2>9 DEF Accept, TypeOK, Busy
    <3>2. Place'
      BY <3>1 DEF AloneInv, Place
    <3>3. ASSUME ~disturbed
          PROVE  (OneAtWork /\ Recorded /\ Current /\ NewDay /\ MayAccept
                    /\ accepted <= DailyQuota)'
      <4>1. \A t \in Sessions \ {s} : pc'[t] = "idle" /\ op[t] = "none" /\ today[t]
        BY <3>1, <3>3, OthersIdle
      <4>2. \A t \in Sessions : ~Pending(t)
        BY <3>1, <3>3, <4>1 DEF Pending, AloneInv, Place
      <4>3. accepted <= quota.sent /\ accepted < DailyQuota
        BY <3>1, <3>3, <4>2 DEF AloneInv, Recorded, MayAccept
      <4>4. Pending(s)'
        BY <3>1 DEF Pending
      <4>5. accepted \in Nat /\ quota.sent \in Nat
        BY DEF TypeOK, Quota
      <4>6. Recorded' /\ accepted' <= DailyQuota
        BY <3>1, <4>3, <4>4, <4>5, QuotaAssumption DEF Recorded
      <4>7. OneAtWork' /\ NewDay' /\ MayAccept'
        BY <3>1, <4>1 DEF OneAtWork, NewDay, MayAccept
      <4>8. Current'
        BY <3>1, <3>3, <4>1 DEF AloneInv, Current
      <4>9. QED
        BY <4>6, <4>7, <4>8
    <3>4. QED
      BY <3>1, <3>2, <3>3 DEF AloneInv
  <2>10. CASE Refuse(s)
    BY <2>10, AloneEnd DEF Refuse, Busy, Pending, AloneInv, Place, history
  <2>11. CASE FinishSend(s)
    <3> DEFINE n == Increment(hand[s], "sent")
    <3>1. op[s] = "send" /\ pc[s] = "loaded" /\ Busy(s)
      BY <2>11 DEF FinishSend, Ready, Busy
    <3>2. n \in Quota /\ n.sent = hand[s].sent + 1
      BY <2>0, IncrementType DEF Increment, Quota, Counters
    <3>3. quota' = (IF today[s] THEN Saved(quota, hand[s], n) ELSE quota)
          /\ accepted' = accepted
      BY <2>11 DEF FinishSend
    <3> HIDE DEF n
    <3>4. hand[s].sent \in Nat /\ quota.sent \in Nat /\ accepted \in Nat
      BY <2>0 DEF TypeOK, Quota
    <3>5. today[s] => quota'.sent = hand[s].sent + 1
      BY <2>0, <3>2, <3>3, <3>4, SentColumn
    <3>6. ASSUME ~disturbed
          PROVE  accepted' <= quota'.sent /\ accepted' <= DailyQuota
      <4>1. accepted <= quota.sent + 1 /\ accepted <= DailyQuota
        BY <3>4, <3>6 DEF AloneInv, Recorded
      <4>2. CASE today[s]
        <5>1. hand[s].sent = quota.sent
          BY <3>1, <3>6, <4>2 DEF AloneInv, Current
        <5>2. QED
          BY <3>3, <3>5, <4>1, <4>2, <5>1
      <4>3. CASE ~today[s]
        <5>1. accepted = 0
          BY <3>1, <3>6, <4>3 DEF AloneInv, NewDay
        <5>2. QED
          BY <3>3, <3>4, <4>1, <4>3, <5>1
      <4>4. QED
        BY <4>2, <4>3
    <3>7. QED
      BY <2>11, <3>1, <3>6, AloneReturn DEF FinishSend
  <2>12. CASE RecordEvent(s)
    <3> DEFINE n == Increment(hand[s], Column(op[s]))
    <3>1. op[s] \in {"bounce", "complaint"} /\ pc[s] = "loaded" /\ Busy(s) /\ ~Pending(s)
      BY <2>12 DEF RecordEvent, Ready, Busy, Pending
    <3>2. Column(op[s]) \in {"bounced", "complaints"}
      BY <3>1 DEF Column
    <3>3. n \in Quota /\ n.sent = hand[s].sent
      BY <2>0, <3>2, IncrementType DEF Increment, Quota, Counters
    <3>4. /\ quota' = IF today[s] THEN Saved(quota, hand[s], n) ELSE quota
          /\ hand' = [hand EXCEPT ![s] = n]
      BY <2>12 DEF RecordEvent, Commit
    <3> HIDE DEF n
    <3>5. quota'.sent = quota.sent
      BY <2>0, <3>3, <3>4, SentColumn
    <3>6. hand'[s].sent = hand[s].sent /\ \A t \in Sessions \ {s} : hand'[t] = hand[t]
      BY <3>3, <3>4 DEF TypeOK
    <3>7. QED
      BY <2>12, <3>1, <3>5, <3>6, AloneMove DEF RecordEvent, Places
  <2>13. CASE Judge(s)
    <3>1. Busy(s) /\ ~Pending(s)
      BY <2>13 DEF Judge, Busy, Pending
    <3>2. ASSUME NEW h \in Nat, Throttle(s, h)
          PROVE  AloneInv'
      BY <3>1, <3>2, ThrottleSent, AloneEnd DEF Throttle, history
    <3>3. QED
      BY <2>13, <3>2, QuotaAssumption DEF Judge
  <2>14. CASE Acquit(s)
    BY <2>14, AloneEnd DEF Acquit, Busy, Pending, AloneInv, Place, history
  <2>15. CASE Status(s)
    BY <2>15, AloneEnd DEF Status, Ready, Busy, Pending, history
  <2>16. QED
    BY <1>4, <2>1, <2>2, <2>3, <2>4, <2>5, <2>6, <2>7, <2>8, <2>9, <2>10, <2>11,
       <2>12, <2>13, <2>14, <2>15 DEF Proceed
<1>5. ASSUME NEW s \in Sessions, Fail(s)
      PROVE  AloneInv'
  <2>1. Place'
    BY <1>5, PlaceReturn DEF Fail, AloneInv
  <2>2. QED
    BY <1>5, <2>1, AloneDisturbed DEF Fail
<1>6. CASE UNCHANGED vars
  BY <1>6 DEF vars, session, history, AloneInv, Place, OneAtWork, Recorded, Pending,
     Current, NewDay, MayAccept
<1>7. QED
  BY <1>1, <1>2, <1>3, <1>4, <1>5, <1>6 DEF Next

\* A user who sends one email after the other stays within the quota of every day,
\* whatever the quota and wherever midnight falls between the check, the sending and
\* the recording.
THEOREM CapHoldsAloneHolds == Spec => []CapHoldsAlone
<1>1. AloneInv => CapHoldsAlone
  BY DEF AloneInv, CapHoldsAlone
<1>2. QED
  BY <1>1, InitType, StepType, InitAlone, StepAlone, PTL DEF Spec

-----------------------------------------------------------------------------
(* Sessions that overlap.  The emails of today are in the row, or in the     *)
(* hands of a session that still owes them, or lost; and the sessions that   *)
(* may still send have a place in the bound before they do.                  *)

\* A session whose check has passed, or will
MaySend(s) ==
  \/ pc[s] = "sending"
  \/ op[s] = "check" /\ pc[s] \in {"absent", "loaded"} /\ ~Spent(hand[s])

Owing == {s \in Sessions : Owes(s)}
Passing == {s \in Sessions : MaySend(s)}

Kept == accepted <= quota.sent + lost + Cardinality(Owing)

Bounded ==
  accepted + Cardinality(Passing) <= DailyQuota + lost + (Cardinality(Sessions) - 1)

OvershootInv == Kept /\ Bounded

One(b) == IF b THEN 1 ELSE 0

\* What a step of session s leaves to the others.
OthersKeep(s) ==
  \A t \in Sessions \ {s} :
    pc'[t] = pc[t] /\ op'[t] = op[t] /\ hand'[t] = hand[t] /\ today'[t] = today[t]

LEMMA ReturnFrame ==
  ASSUME TypeOK, NEW s \in Sessions, Return(s)
  PROVE  OthersKeep(s) /\ pc'[s] = "idle" /\ op'[s] = "none" /\ today'[s]
BY DEF TypeOK, Return, OthersKeep

LEMMA LoadFrame ==
  ASSUME TypeOK, NEW s \in Sessions, NEW o \in Operation, Load(s, o)
  PROVE  /\ OthersKeep(s)
         /\ pc'[s] \in {"absent", "loaded"} /\ op'[s] = o /\ hand'[s] = quota /\ today'[s]
BY DEF TypeOK, Load, OthersKeep

\* One session in or out of a set of sessions.
LEMMA CountOne ==
  ASSUME NEW S \in SUBSET Sessions, NEW s \in Sessions
  PROVE  /\ IsFiniteSet(S) /\ Cardinality(S \ {s}) \in Nat
         /\ Cardinality(S) = Cardinality(S \ {s}) + One(s \in S)
<1>1. IsFiniteSet(S) /\ IsFiniteSet(S \ {s})
  BY SessionsAssumption, FS_Subset
<1>2. Cardinality(S) \in Nat /\ Cardinality(S \ {s}) \in Nat
  BY <1>1, FS_CardinalityType
<1>3. Cardinality(S \ {s}) = IF s \in S THEN Cardinality(S) - 1 ELSE Cardinality(S)
  BY <1>1, FS_RemoveElement
<1>4. QED
  BY <1>1, <1>2, <1>3 DEF One

LEMMA SessionsCount == Cardinality(Sessions) \in Nat
BY SessionsAssumption, FS_CardinalityType

\* A step of session s moves the two sets by s alone.
LEMMA SetsMove ==
  ASSUME NEW s \in Sessions, OthersKeep(s)
  PROVE  \E o, p \in Nat :
           /\ Cardinality(Owing) = o + One(Owes(s))
           /\ Cardinality(Owing') = o + One(Owes(s)')
           /\ Cardinality(Passing) = p + One(MaySend(s))
           /\ Cardinality(Passing') = p + One(MaySend(s)')
<1>1. Owing' \ {s} = Owing \ {s}
  BY DEF Owing, Owes, OthersKeep
<1>2. Passing' \ {s} = Passing \ {s}
  BY DEF Passing, MaySend, Spent, OthersKeep
<1>3. /\ s \in Owing <=> Owes(s)
      /\ s \in Owing' <=> Owes(s)'
      /\ s \in Passing <=> MaySend(s)
      /\ s \in Passing' <=> MaySend(s)'
  BY DEF Owing, Passing
<1>4. /\ Owing \in SUBSET Sessions /\ Owing' \in SUBSET Sessions
      /\ Passing \in SUBSET Sessions /\ Passing' \in SUBSET Sessions
  BY DEF Owing, Passing
<1>5. /\ Cardinality(Owing \ {s}) \in Nat
      /\ Cardinality(Owing) = Cardinality(Owing \ {s}) + One(s \in Owing)
      /\ Cardinality(Owing') = Cardinality(Owing' \ {s}) + One(s \in Owing')
  BY <1>4, CountOne
<1>6. /\ Cardinality(Passing \ {s}) \in Nat
      /\ Cardinality(Passing) = Cardinality(Passing \ {s}) + One(s \in Passing)
      /\ Cardinality(Passing') = Cardinality(Passing' \ {s}) + One(s \in Passing')
  BY <1>4, CountOne
<1>7. QED
  BY <1>1, <1>2, <1>3, <1>5, <1>6 DEF One

\* The numbers of a state.
LEMMA Numbers ==
  ASSUME TypeOK
  PROVE  /\ accepted \in Nat /\ lost \in Nat /\ quota.sent \in Nat
         /\ \A s \in Sessions : hand[s].sent \in Nat
BY DEF TypeOK, Quota

\* A step keeps the invariant when what it accepts is owed, recorded or lost, and
\* when only a session that might send becomes one that has sent.
LEMMA OvershootStep ==
  ASSUME TypeOK, TypeOK', OvershootInv, NEW s \in Sessions, OthersKeep(s),
         accepted' + One(Owes(s)) + quota.sent + lost
           <= accepted + One(Owes(s)') + quota'.sent + lost',
         accepted' + One(MaySend(s)') + lost <= accepted + One(MaySend(s)) + lost'
  PROVE  OvershootInv'
<1>1. PICK o \in Nat, p \in Nat :
           /\ Cardinality(Owing) = o + One(Owes(s))
           /\ Cardinality(Owing') = o + One(Owes(s)')
           /\ Cardinality(Passing) = p + One(MaySend(s))
           /\ Cardinality(Passing') = p + One(MaySend(s)')
  BY SetsMove
<1>2. /\ One(Owes(s)) \in Nat /\ One(Owes(s)') \in Nat
      /\ One(MaySend(s)) \in Nat /\ One(MaySend(s)') \in Nat
  BY DEF One
<1>3. /\ accepted \in Nat /\ lost \in Nat /\ quota.sent \in Nat
      /\ accepted' \in Nat /\ lost' \in Nat /\ quota'.sent \in Nat
  BY DEF TypeOK, Quota
<1>4. accepted <= quota.sent + lost + (o + One(Owes(s)))
  BY <1>1 DEF OvershootInv, Kept
<1>5. accepted' <= quota'.sent + lost' + (o + One(Owes(s)'))
  BY <1>1, <1>2, <1>3, <1>4
<1>6. accepted + (p + One(MaySend(s))) <= DailyQuota + lost + (Cardinality(Sessions) - 1)
  BY <1>1 DEF OvershootInv, Bounded
<1>7. accepted' + (p + One(MaySend(s)')) <= DailyQuota + lost' + (Cardinality(Sessions) - 1)
  BY <1>1, <1>2, <1>3, <1>6, SessionsCount, QuotaAssumption
<1>8. Kept'
  BY <1>1, <1>5 DEF Kept
<1>9. Bounded'
  BY <1>1, <1>7 DEF Bounded
<1>10. QED
  BY <1>8, <1>9 DEF OvershootInv

\* A call ends that owes nothing.
LEMMA OvershootEnd ==
  ASSUME TypeOK, TypeOK', OvershootInv, NEW s \in Sessions, ~Pending(s), Return(s),
         UNCHANGED <<accepted, lost>>, quota'.sent = quota.sent
  PROVE  OvershootInv'
<1>1. OthersKeep(s) /\ pc'[s] = "idle" /\ op'[s] = "none"
  BY ReturnFrame
<1>2. One(Owes(s)) = 0 /\ One(Owes(s)') = 0 /\ One(MaySend(s)') = 0 /\ One(MaySend(s)) \in Nat
  BY <1>1 DEF One, Owes, Pending, MaySend
<1>3. QED
  BY <1>1, <1>2, OvershootStep, Numbers

\* The session goes on and accepts nothing.
LEMMA OvershootMove ==
  ASSUME TypeOK, TypeOK', OvershootInv, NEW s \in Sessions, OthersKeep(s),
         UNCHANGED <<accepted, lost>>, quota'.sent = quota.sent,
         Owes(s) => Owes(s)', MaySend(s)' => MaySend(s)
  PROVE  OvershootInv'
<1>1. /\ One(Owes(s)) \in Nat /\ One(Owes(s)') \in Nat /\ One(Owes(s)) <= One(Owes(s)')
      /\ One(MaySend(s)) \in Nat /\ One(MaySend(s)') \in Nat
      /\ One(MaySend(s)') <= One(MaySend(s))
  BY DEF One
<1>2. QED
  BY <1>1, OvershootStep, Numbers

\* A call ends that owed an email: it is lost.
LEMMA OvershootForget ==
  ASSUME TypeOK, TypeOK', OvershootInv, NEW s \in Sessions, Return(s), Forget(s),
         UNCHANGED <<quota, accepted>>
  PROVE  OvershootInv'
<1>1. OthersKeep(s) /\ pc'[s] = "idle" /\ op'[s] = "none"
  BY ReturnFrame
<1>2. /\ One(Owes(s)') = 0 /\ One(MaySend(s)') = 0 /\ One(MaySend(s)) \in Nat
      /\ One(Owes(s)) \in Nat /\ lost' = lost + One(Owes(s))
  BY <1>1, Numbers DEF One, Owes, MaySend, Forget
<1>3. QED
  BY <1>1, <1>2, OvershootStep, Numbers

\* Two sets of sessions that share none.
LEMMA SetsApart ==
  ASSUME NEW S \in SUBSET Sessions, NEW T \in SUBSET Sessions, S \intersect T = {}
  PROVE  Cardinality(S) + Cardinality(T) <= Cardinality(Sessions)
<1>1. IsFiniteSet(S) /\ IsFiniteSet(T) /\ Cardinality(S \union T) <= Cardinality(Sessions)
  BY SessionsAssumption, FS_Subset
<1>2. Cardinality(S \union T) = Cardinality(S) + Cardinality(T) - Cardinality(S \intersect T)
  BY <1>1, FS_Union
<1>3. Cardinality(S \intersect T) = 0
  BY FS_EmptySet
<1>4. Cardinality(S) \in Nat /\ Cardinality(T) \in Nat
  BY <1>1, FS_CardinalityType
<1>5. QED
  BY <1>1, <1>2, <1>3, <1>4, SessionsCount

\* A check begins: if the row it reads has a place left, then all emails of today and
\* all sessions that may send fit below the bound.
LEMMA OvershootCall ==
  ASSUME TypeOK, TypeOK', AloneInv, AloneInv', OvershootInv, NEW s \in Sessions,
         NEW o \in {"check", "bounce", "complaint", "status"}, Call(s, o)
  PROVE  OvershootInv'
<1>1. /\ OthersKeep(s) /\ pc[s] = "idle" /\ op[s] = "none"
      /\ pc'[s] \in {"absent", "loaded"} /\ op'[s] = o /\ hand'[s] = quota
      /\ UNCHANGED <<quota, accepted, lost>>
  BY LoadFrame DEF Call, Load, AloneInv, Place, Operation
<1>2. CASE ~MaySend(s)'
  BY <1>1, <1>2, OvershootMove DEF Owes
<1>3. CASE MaySend(s)'
  <2>1. quota.sent + 1 <= DailyQuota
    BY <1>1, <1>3, Numbers, QuotaAssumption DEF MaySend, Spent
  <2>2. ~Owes(s) /\ ~Owes(s)'
    BY <1>1 DEF Owes
  <2>3. PICK k \in Nat, p \in Nat :
          /\ Cardinality(Owing) = k + One(Owes(s))
          /\ Cardinality(Owing') = k + One(Owes(s)')
          /\ Cardinality(Passing') = p + One(MaySend(s)')
    BY <1>1, SetsMove
  <2>4. Cardinality(Owing') = Cardinality(Owing) /\ Cardinality(Owing) \in Nat
        /\ Cardinality(Passing') \in Nat
    BY <2>2, <2>3 DEF One
  <2>5. Kept'
    BY <1>1, <2>4 DEF OvershootInv, Kept
  <2>6. Cardinality(Owing') + Cardinality(Passing') <= Cardinality(Sessions)
    <3>1. Owing' \in SUBSET Sessions /\ Passing' \in SUBSET Sessions
      BY DEF Owing, Passing
    <3>2. Owing' \intersect Passing' = {}
      BY DEF AloneInv, Place, Owing, Passing, Owes, MaySend
    <3>3. QED
      BY <3>1, <3>2, SetsApart
  <2>7. accepted' + Cardinality(Passing')
          <= DailyQuota + lost' + (Cardinality(Sessions) - 1)
    BY <1>1, <2>1, <2>4, <2>5, <2>6, Numbers, SessionsCount, QuotaAssumption DEF Kept
  <2>8. QED
    BY <2>5, <2>7 DEF OvershootInv, Bounded
<1>4. QED
  BY <1>2, <1>3

LEMMA InitOvershoot == Init => OvershootInv
<1> SUFFICES ASSUME Init
             PROVE  OvershootInv
  OBVIOUS
<1>1. Owing = {} /\ Passing = {}
  BY DEF Init, Owing, Owes, Passing, MaySend
<1>2. Cardinality(Owing) = 0 /\ Cardinality(Passing) = 0
  BY <1>1, FS_EmptySet
<1>3. QED
  BY <1>2, SessionsCount, QuotaAssumption DEF Init, Fresh, OvershootInv, Kept, Bounded

\* A new day: the sessions still at work may send into it, one email each.
LEMMA MidnightOvershoot ==
  ASSUME TypeOK, Midnight
  PROVE  OvershootInv'
<1>1. Owing' \in SUBSET Sessions /\ Passing' \in SUBSET Sessions
  BY DEF Owing, Passing
<1>2. Cardinality(Owing') \in Nat /\ Cardinality(Passing') \in Nat
      /\ Cardinality(Passing') <= Cardinality(Sessions)
  BY <1>1, SessionsAssumption, FS_Subset, FS_CardinalityType
<1>3. accepted' = 0 /\ lost' = 0 /\ quota'.sent = 0
  BY DEF Midnight, Fresh
<1>4. Kept'
  BY <1>2, <1>3 DEF Kept
<1>5. Bounded'
  BY <1>2, <1>3, SessionsCount, QuotaAssumption DEF Bounded
<1>6. QED
  BY <1>4, <1>5 DEF OvershootInv

\* The sender takes the email: the place the session had becomes an email it owes.
LEMMA AcceptOvershoot ==
  ASSUME TypeOK, TypeOK', AloneInv, OvershootInv, NEW s \in Sessions, Accept(s)
  PROVE  OvershootInv'
<1>1. /\ OthersKeep(s) /\ pc[s] = "sending" /\ pc'[s] = "unrecorded"
      /\ op[s] # "send" /\ op' = op
      /\ accepted' = accepted + 1 /\ UNCHANGED <<quota, lost>>
  BY DEF Accept, TypeOK, OthersKeep, AloneInv, Place
<1>2. /\ One(Owes(s)) = 0 /\ One(Owes(s)') = 1
      /\ One(MaySend(s)) = 1 /\ One(MaySend(s)') = 0
  BY <1>1 DEF One, Owes, MaySend
<1>3. QED
  BY <1>1, <1>2, OvershootStep, Numbers

\* The row takes the email, and loses those that it held and the session did not see.
LEMMA FinishOvershoot ==
  ASSUME TypeOK, TypeOK', OvershootInv, NEW s \in Sessions, FinishSend(s)
  PROVE  OvershootInv'
<1> DEFINE n == Increment(hand[s], "sent")
<1>1. /\ op[s] = "send" /\ pc[s] = "loaded" /\ Return(s)
      /\ quota' = (IF today[s] THEN Saved(quota, hand[s], n) ELSE quota)
      /\ lost' = lost + Overwritten(s) /\ accepted' = accepted
  BY DEF FinishSend, Ready
<1>2. hand[s] \in Quota /\ quota \in Quota
  BY DEF TypeOK
<1>3. n \in Quota /\ n.sent = hand[s].sent + 1
  BY <1>2, IncrementType DEF Increment, Quota, Counters
<1> HIDE DEF n
<1>4. OthersKeep(s) /\ pc'[s] = "idle" /\ op'[s] = "none"
  BY <1>1, ReturnFrame
<1>5. One(Owes(s)') = 0 /\ One(MaySend(s)) = 0 /\ One(MaySend(s)') = 0
  BY <1>1, <1>4 DEF One, Owes, MaySend
<1>6. CASE today[s]
  <2>1. quota'.sent = hand[s].sent + 1
    BY <1>1, <1>2, <1>3, <1>6, Numbers, SentColumn
  <2>2. One(Owes(s)) = 1
    BY <1>1, <1>6 DEF One, Owes
  <2>3. quota.sent + lost <= hand[s].sent + lost' /\ lost <= lost'
    BY <1>1, <1>6, Numbers DEF Overwritten
  <2>4. QED
    BY <1>1, <1>4, <1>5, <2>1, <2>2, <2>3, OvershootStep, Numbers
<1>7. CASE ~today[s]
  <2>1. quota' = quota /\ lost' = lost
    BY <1>1, <1>7, Numbers DEF Overwritten
  <2>2. One(Owes(s)) = 0
    BY <1>1, <1>7 DEF One, Owes
  <2>3. QED
    BY <1>1, <1>4, <1>5, <2>1, <2>2, OvershootStep, Numbers
<1>8. QED
  BY <1>6, <1>7

LEMMA ProceedOvershoot ==
  ASSUME TypeOK, TypeOK', AloneInv, OvershootInv, NEW s \in Sessions, Proceed(s)
  PROVE  OvershootInv'
<1>0. hand[s] \in Quota /\ quota \in Quota
  BY DEF TypeOK
<1>1. CASE RecordSend(s)
  <2>1. OthersKeep(s) /\ pc[s] = "unrecorded"
        /\ pc'[s] \in {"absent", "loaded"} /\ op'[s] = "send" /\ today'[s]
        /\ UNCHANGED <<quota, accepted, lost>>
    BY <1>1, LoadFrame DEF RecordSend, Load, Operation
  <2>2. QED
    BY <2>1, OvershootMove DEF Owes, MaySend
<1>2. CASE Create(s)
  <2>1. OthersKeep(s) /\ pc[s] = "absent" /\ pc'[s] = "loaded"
        /\ UNCHANGED <<quota, op, hand, today, accepted, lost>>
    BY <1>2 DEF Create, TypeOK, OthersKeep, history
  <2>2. QED
    BY <2>1, OvershootMove DEF Owes, MaySend, Spent
<1>3. CASE Conflict(s)
  BY <1>3, OvershootForget DEF Conflict
<1>4. CASE ClearThrottle(s)
  <2> DEFINE n == Unthrottled(hand[s])
  <2>1. n \in Quota /\ n.sent = hand[s].sent
    BY <1>0, UnthrottledType DEF Unthrottled, Quota
  <2>2. /\ quota' = IF today[s] THEN Saved(quota, hand[s], n) ELSE quota
        /\ hand' = [hand EXCEPT ![s] = n]
        /\ pc[s] = "loaded" /\ UNCHANGED <<pc, op, today, accepted, lost>>
    BY <1>4 DEF ClearThrottle, Commit, history
  <2> HIDE DEF n
  <2>3. quota'.sent = quota.sent
    BY <1>0, <2>1, <2>2, SentColumn
  <2>4. hand'[s].sent = hand[s].sent /\ OthersKeep(s)
    BY <2>1, <2>2 DEF TypeOK, OthersKeep
  <2>5. QED
    BY <2>2, <2>3, <2>4, OvershootMove DEF Owes, MaySend, Spent
<1>5. CASE CheckThrottled(s)
  BY <1>5, OvershootEnd DEF CheckThrottled, Ready, Pending, history
<1>6. CASE CheckQuota(s)
  BY <1>6, OvershootEnd DEF CheckQuota, Ready, Pending, history
<1>7. CASE CheckTrips(s)
  <2>1. ~Pending(s)
    BY <1>7 DEF CheckTrips, Ready, Pending
  <2>2. ASSUME NEW h \in Nat, Throttle(s, h)
        PROVE  OvershootInv'
    BY <2>1, <2>2, ThrottleSent, OvershootEnd DEF Throttle, history
  <2>3. QED
    BY <1>7, <2>2, QuotaAssumption DEF CheckTrips
<1>8. CASE CheckOk(s)
  <2>1. /\ OthersKeep(s) /\ pc[s] = "loaded" /\ op[s] = "check" /\ ~Spent(hand[s])
        /\ pc'[s] = "sending" /\ UNCHANGED <<quota, op, today, accepted, lost>>
    BY <1>8 DEF CheckOk, Ready, TypeOK, OthersKeep, history
  <2>2. QED
    BY <2>1, OvershootMove DEF Owes, MaySend
<1>9. CASE Accept(s)
  BY <1>9, AcceptOvershoot
<1>10. CASE Refuse(s)
  BY <1>10, OvershootEnd DEF Refuse, Pending, AloneInv, Place, history
<1>11. CASE FinishSend(s)
  BY <1>11, FinishOvershoot
<1>12. CASE RecordEvent(s)
  <2> DEFINE n == Increment(hand[s], Column(op[s]))
  <2>1. op[s] \in {"bounce", "complaint"} /\ pc[s] = "loaded"
    BY <1>12 DEF RecordEvent, Ready
  <2>2. Column(op[s]) \in {"bounced", "complaints"}
    BY <2>1 DEF Column
  <2>3. n \in Quota /\ n.sent = hand[s].sent
    BY <1>0, <2>2, IncrementType DEF Increment, Quota, Counters
  <2>4. /\ quota' = IF today[s] THEN Saved(quota, hand[s], n) ELSE quota
        /\ hand' = [hand EXCEPT ![s] = n]
        /\ pc' = [pc EXCEPT ![s] = "judging"]
        /\ UNCHANGED <<op, today, accepted, lost>>
    BY <1>12 DEF RecordEvent, Commit
  <2> HIDE DEF n
  <2>5. quota'.sent = quota.sent
    BY <1>0, <2>3, <2>4, SentColumn
  <2>6. OthersKeep(s) /\ pc'[s] = "judging"
    BY <2>3, <2>4 DEF TypeOK, OthersKeep
  <2>7. QED
    BY <2>1, <2>4, <2>5, <2>6, OvershootMove DEF Owes, MaySend
<1>13. CASE Judge(s)
  <2>1. ~Pending(s)
    BY <1>13 DEF Judge, Pending
  <2>2. ASSUME NEW h \in Nat, Throttle(s, h)
        PROVE  OvershootInv'
    BY <2>1, <2>2, ThrottleSent, OvershootEnd DEF Throttle, history
  <2>3. QED
    BY <1>13, <2>2, QuotaAssumption DEF Judge
<1>14. CASE Acquit(s)
  BY <1>14, OvershootEnd DEF Acquit, Pending, AloneInv, Place, history
<1>15. CASE Status(s)
  BY <1>15, OvershootEnd DEF Status, Ready, Pending, history
<1>16. QED
  BY <1>1, <1>2, <1>3, <1>4, <1>5, <1>6, <1>7, <1>8, <1>9, <1>10, <1>11, <1>12, <1>13,
     <1>14, <1>15 DEF Proceed

LEMMA StepOvershoot ==
  TypeOK /\ TypeOK' /\ AloneInv /\ AloneInv' /\ OvershootInv /\ [Next]_vars => OvershootInv'
<1> SUFFICES ASSUME TypeOK, TypeOK', AloneInv, AloneInv', OvershootInv, [Next]_vars
             PROVE  OvershootInv'
  OBVIOUS
<1>1. ASSUME UNCHANGED <<quota, pc, op, hand, today, accepted, lost>>
      PROVE  OvershootInv'
  <2>1. Owing' = Owing /\ Passing' = Passing
    BY <1>1 DEF Owing, Owes, Passing, MaySend, Spent
  <2>2. QED
    BY <1>1, <2>1 DEF OvershootInv, Kept, Bounded
<1>2. CASE HourPasses
  BY <1>1, <1>2 DEF HourPasses, session, history
<1>3. CASE Midnight
  BY <1>3, MidnightOvershoot
<1>4. ASSUME NEW s \in Sessions, NEW o \in {"check", "bounce", "complaint", "status"},
             Call(s, o)
      PROVE  OvershootInv'
  BY <1>4, OvershootCall
<1>5. ASSUME NEW s \in Sessions, Proceed(s)
      PROVE  OvershootInv'
  BY <1>5, ProceedOvershoot
<1>6. ASSUME NEW s \in Sessions, Fail(s)
      PROVE  OvershootInv'
  BY <1>6, OvershootForget DEF Fail
<1>7. CASE UNCHANGED vars
  BY <1>1, <1>7 DEF vars, session, history
<1>8. QED
  BY <1>2, <1>3, <1>4, <1>5, <1>6, <1>7 DEF Next

\* However many sessions of a user overlap, whatever the quota and wherever they fail:
\* MailBridge accepts at most one email per other session above the quota, and those
\* of which the row has lost the record.
THEOREM OvershootBoundedHolds == Spec => []OvershootBounded
<1>1. TypeOK /\ OvershootInv => OvershootBounded
  <2> SUFFICES ASSUME TypeOK, OvershootInv
               PROVE  OvershootBounded
    OBVIOUS
  <2>1. Passing \in SUBSET Sessions
    BY DEF Passing
  <2>2. Cardinality(Passing) \in Nat
    BY <2>1, SessionsAssumption, FS_Subset, FS_CardinalityType
  <2>3. QED
    BY <2>2, Numbers, SessionsCount, QuotaAssumption
    DEF OvershootInv, Bounded, OvershootBounded
<1>2. QED
  BY <1>1, InitType, StepType, InitAlone, StepAlone, InitOvershoot, StepOvershoot, PTL
  DEF Spec
=============================================================================
