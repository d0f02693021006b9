----------------------------- MODULE ReviewGate -----------------------------
(***************************************************************************)
(* What the redline review gate promises its users, with every operation   *)
(* atomic: a job is registered, a generation proposes changes on it, a     *)
(* reviewer decides each proposed change exactly once, and the job is      *)
(* "reviewed" exactly when its last pending change gets its decision.      *)
(* RedlineRequests models how the endpoints of app/api/v1/redline.py do    *)
(* this with concurrent database transactions, and is shown to implement   *)
(* this module as long as no request commits behind another one's back.    *)
(***************************************************************************)
CONSTANTS Jobs,     \* redline jobs
          Changes,  \* redline changes a generation may propose
          JobOf     \* the job each change belongs to

VARIABLES status,   \* status[j]: the state of job j as every reader sees it
          review    \* review[c]: the review state of change c

gateVars == <<status, review>>

\* RedlineStatus as far as the API ever stores it; "absent": no such row.
JobStatus == {"absent", "pending", "completed", "reviewed"}

\* ReviewStatus as far as the API ever stores it; "absent": no such row.
ReviewState == {"absent", "pending", "approved", "rejected"}

Verdicts == {"approved", "rejected"}

ChangesOf(j) == {c \in Changes : JobOf[c] = j}

PendingOf(j) == {c \in ChangesOf(j) : review[c] = "pending"}

GateInit ==
  /\ status = [j \in Jobs |-> "absent"]
  /\ review = [c \in Changes |-> "absent"]

\* A job row appears, with nothing proposed yet.
Register(j) ==
  /\ status[j] = "absent"
  /\ status' = [status EXCEPT ![j] = "pending"]
  /\ UNCHANGED review

\* A generation adds undecided changes, and opens (or reopens) the review.
Propose(j, new) ==
  /\ status[j] # "absent"
  /\ \A c \in new : review[c] = "absent"
  /\ status' = [status EXCEPT ![j] = "completed"]
  /\ review' = [c \in Changes |-> IF c \in new THEN "pending" ELSE review[c]]

\* The one decision a change ever gets; the last one closes the review.
Decide(c, verdict) ==
  /\ status[JobOf[c]] = "completed"
  /\ review[c] = "pending"
  /\ review' = [review EXCEPT ![c] = verdict]
  /\ status' = [status EXCEPT ![JobOf[c]] =
                  IF PendingOf(JobOf[c]) = {c} THEN "reviewed" ELSE @]

GateNext ==
  \/ \E j \in Jobs : Register(j)
  \/ \E j \in Jobs : \E new \in SUBSET ChangesOf(j) : Propose(j, new)
  \/ \E c \in Changes, verdict \in Verdicts : Decide(c, verdict)

GateSpec == GateInit /\ [][GateNext]_gateVars

=============================================================================
