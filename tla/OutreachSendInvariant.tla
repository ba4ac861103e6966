------------------------ MODULE OutreachSendInvariant ------------------------
(***************************************************************************)
(* The inductive invariant of OutreachSend: what has to be known of every  *)
(* session, between any two of its steps, for the properties to hold.      *)
(***************************************************************************)
EXTENDS OutreachSend

Loop == Tick \union Manual

\* The scheduler implements SendLedger: run_tick and manual_tick send only what
\* the ledger licenses, in every step and not only in sum.
Ledger == INSTANCE SendLedger WITH
            Mailer <- Loop, Email <- Sequence, due <- scheds,
            sent <- [w \in Loop |-> delivered[w]],
            lost <- [w \in Loop |-> lostBy[w]]
KeepsLedger == Ledger!Spec

\* A session that is not running holds nothing.
IdleHoldsNothing(w) ==
  pc[w] = "idle" => pending[w] = Clean /\ loaded[w].who = NoProspect

\* A row is taken out of the batch before it is sent, and nothing is held for a
\* row of the batch or for the row in hand until MailBridge took it.
TakenOnce(w) ==
  /\ \A s \in todo[w] : pending[w][s] = "Clean"
  /\ pc[w] # "loop" => cur[w] \notin todo[w]
  /\ pc[w] \in {"gated", "cleared"} => pending[w][cur[w]] = "Clean"

\* No status but Sent is held; a tick sets it before record_send.
OnlySentHeld(w) ==
  /\ \A s \in Sequence : pending[w][s] # "Failed"
  /\ w \in Tick /\ pc[w] = "recording" => pending[w][cur[w]] = "Sent"

\* A tick holds the status of a user's row only while record_send is due, a
\* manual tick that of one user's row at most.
UserHeld(w) ==
  /\ w \in Tick => \A s \in UserOwned :
                     pending[w][s] = "Sent" => pc[w] = "recording" /\ s = cur[w]
  /\ w \in Manual => \A s, t \in UserOwned :
                       pending[w][s] = "Sent" /\ pending[w][t] = "Sent" => s = t

SessionInv(w) ==
  IdleHoldsNothing(w) /\ TakenOnce(w) /\ OnlySentHeld(w) /\ UserHeld(w)

\* The session may still deliver s for a scheduling it has not served.
Open(w, s) ==
  \/ s \in todo[w]
  \/ pc[w] \in {"gated", "cleared"} /\ cur[w] = s
  \/ status[s] = "Scheduled" /\ s \notin Unrecorded(w)

\* OncePerScheduling, with the delivery that is still to come counted in.
Budget(w) ==
  \A s \in Sequence :
    delivered[w][s] + (IF Open(w, s) THEN 1 ELSE 0) <= scheds[s] + lostBy[w][s]

SendInv == TypeOK /\ \A w \in Loop : SessionInv(w) /\ Budget(w)

\* What a tick knows of a prospect suppressed ever since it began.
KnowsSuppressed(w) ==
  /\ \A p \in suppressedSince[w] : suppressed[p]
  /\ loaded[w].who \in suppressedSince[w] => loaded[w].suppressed
  /\ pc[w] \in {"gated", "cleared"} => ProspectOf[cur[w]] \notin suppressedSince[w]

KnowInv == SendInv /\ \A w \in Tick : KnowsSuppressed(w)
=============================================================================
