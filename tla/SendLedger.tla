----------------------------- MODULE SendLedger -----------------------------
(***************************************************************************)
(* What the scheduler promises about the emails of a tenant, apart from    *)
(* rows, batches, sessions and commits: an email is sent when it has been  *)
(* scheduled, once by each mailer for every time it was, and a mailer that *)
(* has lost the record of an email may send it again.                      *)
(***************************************************************************)
EXTENDS Naturals

CONSTANTS Mailer, Email

VARIABLES
  due,     \* how often each email was scheduled
  sent,    \* how often each mailer sent it
  lost     \* how many of these a mailer has no record of any more

vars == <<due, sent, lost>>

None == [e \in Email |-> 0]

Init ==
  /\ due = None
  /\ sent = [m \in Mailer |-> None]
  /\ lost = [m \in Mailer |-> None]

Schedule(e) ==
  /\ due' = [due EXCEPT ![e] = @ + 1]
  /\ UNCHANGED <<sent, lost>>

Licensed(m, e) == sent[m][e] < due[e] + lost[m][e]

Mail(m, e) ==
  /\ Licensed(m, e)
  /\ sent' = [sent EXCEPT ![m][e] = @ + 1]
  /\ UNCHANGED <<due, lost>>

\* The email is delivered and the mailer never learns of it.
MailUnanswered(m, e) ==
  /\ Licensed(m, e)
  /\ sent' = [sent EXCEPT ![m][e] = @ + 1]
  /\ lost' = [lost EXCEPT ![m][e] = @ + 1]
  /\ UNCHANGED due

\* Only the record of an email that was sent can be lost.
Forget(m, E) ==
  /\ \A e \in E : lost[m][e] < sent[m][e]
  /\ lost' = [lost EXCEPT
                ![m] = [e \in Email |-> IF e \in E THEN @[e] + 1 ELSE @[e]]]
  /\ UNCHANGED <<due, sent>>

Next ==
  \/ \E e \in Email : Schedule(e)
  \/ \E m \in Mailer : \/ \E e \in Email : Mail(m, e) \/ MailUnanswered(m, e)
                       \/ \E E \in SUBSET Email : Forget(m, E)

Spec == Init /\ [][Next]_vars
=============================================================================
