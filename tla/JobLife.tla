------------------------------ MODULE JobLife ------------------------------
(***************************************************************************)
(* What the job store promises about one submission, whatever processes    *)
(* serve it: it is accepted, a worker attaches to it at most once, its     *)
(* command starts at most once, its outcome never changes, and only a      *)
(* finished record is removed.                                             *)
(***************************************************************************)
CONSTANTS
  Jobs,
  Outcomes,
  Startable  \* states in which the command of a job may start

VARIABLES life, started

Init ==
  /\ life = [j \in Jobs |-> "absent"]
  /\ started = [j \in Jobs |-> FALSE]

LifeBecomes(j, state) == life' = [life EXCEPT ![j] = state]

Submit(j) ==
  /\ life[j] = "absent"
  /\ LifeBecomes(j, "accepted")
  /\ started' = [started EXCEPT ![j] = FALSE]

Attach(j) ==
  /\ life[j] = "accepted"
  /\ LifeBecomes(j, "active")
  /\ UNCHANGED started

Start(j) ==
  /\ life[j] \in Startable /\ ~started[j]
  /\ started' = [started EXCEPT ![j] = TRUE]
  /\ UNCHANGED life

\* A launch that fails, or a kill, finishes a job no worker is attached to.
Finish(j) ==
  /\ life[j] \in {"accepted", "active"}
  /\ \E outcome \in Outcomes : LifeBecomes(j, outcome)
  /\ UNCHANGED started

\* An admission asks for the status of every job, and may find several lost.
Lose ==
  /\ life' \in [Jobs -> {"absent", "accepted", "active"} \cup Outcomes]
  /\ \A j \in Jobs : life'[j] = life[j] \/ (life[j] = "active" /\ life'[j] = "lost")
  /\ UNCHANGED started

Remove(j) ==
  /\ life[j] \in Outcomes
  /\ LifeBecomes(j, "absent")
  /\ UNCHANGED started

Next == Lose \/ \E j \in Jobs : Submit(j) \/ Attach(j) \/ Start(j) \/ Finish(j) \/ Remove(j)

Spec == Init /\ [][Next]_<<life, started>>
=============================================================================
