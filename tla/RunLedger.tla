------------------------------ MODULE RunLedger ------------------------------
(***************************************************************************)
(* What a user is promised of autopilot runs, apart from processes, polls  *)
(* and commits: a run is kept as a whole or gone, and that is decided      *)
(* once; a viewer follows a run of its own, and what it is told of the end *)
(* of that run is so.  It may be told nothing again, and never the         *)
(* contrary, because nothing changes what a run has come to.               *)
(***************************************************************************)
CONSTANTS Run, Viewer, Nothing

VARIABLES
  life,      \* of each run
  follows,   \* the run of each viewer
  verdict    \* what the viewer was told of its end

vars == <<life, follows, verdict>>

Init ==
  /\ life = [r \in Run |-> "new"]
  /\ follows = [v \in Viewer |-> Nothing]
  /\ verdict = [v \in Viewer |-> "none"]

Start(r) ==
  /\ life[r] = "new"
  /\ life' = [life EXCEPT ![r] = "running"]
  /\ UNCHANGED <<follows, verdict>>

Running == {r \in Run : life[r] = "running"}

\* A run ends, or all of a process that dies.
End(kept, gone) ==
  /\ life' = [r \in Run |-> IF r \in kept THEN "kept"
                            ELSE IF r \in gone THEN "gone" ELSE life[r]]
  /\ UNCHANGED <<follows, verdict>>

\* A run is kept, and nobody knows.
Doubt(r) ==
  /\ life[r] = "running"
  /\ life' = [life EXCEPT ![r] = "doubtful"]
  /\ UNCHANGED <<follows, verdict>>

Follow(v, r) ==
  /\ life[r] # "new"
  /\ \A w \in Viewer : follows[w] # r
  /\ follows' = [follows EXCEPT ![v] = r]
  /\ verdict' = [verdict EXCEPT ![v] = "none"]
  /\ UNCHANGED life

Tell(v, said) ==
  /\ follows[v] \in Run
  /\ \/ said = "none"
     \/ said = "success" /\ life[follows[v]] = "kept"
     \/ said = "failure" /\ life[follows[v]] \in {"gone", "doubtful"}
  /\ verdict' = [verdict EXCEPT ![v] = said]
  /\ UNCHANGED <<life, follows>>

Leave(v) ==
  /\ follows' = [follows EXCEPT ![v] = Nothing]
  /\ verdict' = [verdict EXCEPT ![v] = "none"]
  /\ UNCHANGED life

Next ==
  \/ \E r \in Run : Start(r) \/ Doubt(r)
  \/ \E kept, gone \in SUBSET Running : End(kept, gone)
  \/ \E v \in Viewer : \/ \E r \in Run : Follow(v, r)
                       \/ \E said \in {"none", "success", "failure"} : Tell(v, said)
                       \/ Leave(v)

Spec == Init /\ [][Next]_vars
==============================================================================
