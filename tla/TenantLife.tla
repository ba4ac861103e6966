------------------------------ MODULE TenantLife ------------------------------
(***************************************************************************)
(* What the platform promises about the subdomain of a tenant, apart from  *)
(* requests, rollbacks and processes: it is claimed once; its schema comes *)
(* and goes, and its administrator is made, while it is being built; it    *)
(* serves when both are there, and is removed when what was built is gone. *)
(* Deploys work off a list of subdomains that were claimed and not removed *)
(* when it was read; they make or complete a schema at any time, and take  *)
(* nothing away.                                                           *)
(***************************************************************************)
CONSTANTS Subdomain

VARIABLES
  stage,   \* of each subdomain
  built,   \* what it has for a schema
  admin,   \* subdomains with an administrator
  due      \* subdomains that deploys have listed and not reached

vars == <<stage, built, admin, due>>

Stage == {"free", "building", "serving", "removed", "abandoned"}

\* "deployed": made by a deploy, from nothing
Built == {"nothing", "part", "ready", "deployed"}

Init ==
  /\ stage = [s \in Subdomain |-> "free"]
  /\ built = [s \in Subdomain |-> "nothing"]
  /\ admin = {}
  /\ due = {}

Enter(s, from, to) ==
  /\ stage[s] = from
  /\ stage' = [stage EXCEPT ![s] = to]
  /\ UNCHANGED <<built, admin, due>>

Claim(s) == Enter(s, "free", "building")

\* The schema comes, grows and goes; an administrator stays.
Build(s) ==
  /\ stage[s] = "building"
  /\ \E b \in (Built \ {"deployed"}) \union {built[s]} :
       built' = [built EXCEPT ![s] = b]
  /\ admin' \in {admin, admin \union {s}}
  /\ UNCHANGED <<stage, due>>

Serve(s) == built[s] = "ready" /\ s \in admin /\ Enter(s, "building", "serving")

Remove(s) == built[s] \in {"nothing", "deployed"} /\ Enter(s, "building", "removed")

\* Nobody is left who would finish or remove it.
Abandon(s) == Enter(s, "building", "abandoned") \/ Enter(s, "free", "abandoned")

\* A deploy lists subdomains.
Plan ==
  /\ \E more \in SUBSET {s \in Subdomain : stage[s] \notin {"free", "removed"}} :
       due' = due \union more
  /\ UNCHANGED <<stage, built, admin>>

\* A deploy migrates one; another may have listed it as well.
Upgrade(s) ==
  /\ s \in due
  /\ built' = [built EXCEPT ![s] = CASE @ = "nothing" -> "deployed"
                                     [] @ = "part"    -> "ready"
                                     [] OTHER         -> @]
  /\ due' \in {due, due \ {s}}
  /\ UNCHANGED <<stage, admin>>

\* A deploy ends before it has reached them all.
GiveUp ==
  /\ due' \in SUBSET due
  /\ UNCHANGED <<stage, built, admin>>

Next ==
  \/ \E s \in Subdomain :
       Claim(s) \/ Build(s) \/ Serve(s) \/ Remove(s) \/ Abandon(s) \/ Upgrade(s)
  \/ Plan \/ GiveUp

Spec == Init /\ [][Next]_vars
===============================================================================
