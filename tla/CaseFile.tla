------------------------------ MODULE CaseFile ------------------------------
(***************************************************************************)
(* What the handlers promise of the case file of a matter, with every      *)
(* command one step: how the matter, the versions of a document, a meeting *)
(* with its transcript, a report and a redline job with the verdicts on    *)
(* its changes go from one state that can be seen to the next.  CaseFiles  *)
(* models how the handlers do this with copies and calls of ports, and is  *)
(* shown to implement this module as long as no command stores a copy over *)
(* what another has stored since.                                          *)
(***************************************************************************)
EXTENDS Naturals, Sequences

VARIABLES
  matter,    \* its status, or "none"
  versions,  \* the statuses of the versions of the document
  meeting,   \* its status, or "none", and the length of its transcript
  report,    \* its status, or "none"
  redline    \* its status, or "none", and the verdicts on its changes

caseVars == <<matter, versions, meeting, report, redline>>

CaseInit ==
  /\ matter = "none" /\ report = "none"
  /\ versions = <<>>
  /\ meeting = [status |-> "none", segments |-> 0]
  /\ redline = [status |-> "none", verdicts |-> <<>>]

\* What each may become next.
MatterStep(x, y) ==
  \/ x = "none" /\ y = "active"
  \/ x = "active" /\ y \in {"on_hold", "closed"}
  \/ x = "on_hold" /\ y \in {"active", "closed"}
  \/ x = "closed" /\ y = "archived"

\* A version is processed, or fails, as a whole; one that failed may be tried
\* again, one that is complete stays.
VersionsStep(x, y) ==
  \/ y = Append(x, "pending")
  \/ \E v \in DOMAIN x :
       \/ x[v] = "pending" /\ y = [x EXCEPT ![v] = "failed"]
       \/ x[v] \in {"pending", "failed"} /\ y = [x EXCEPT ![v] = "completed"]

\* A transcript grows by one segment at a time, until it is ready.
MeetingStep(x, y) ==
  \/ x.status = "none" /\ y = [status |-> "draft", segments |-> 0]
  \/ /\ x.status \in {"draft", "transcribing"}
     /\ \/ y = [status |-> "transcribing", segments |-> x.segments]
        \/ y = [status |-> "transcribing", segments |-> x.segments + 1]
        \/ x.segments > 0 /\ y = [status |-> "ready", segments |-> x.segments]
  \/ x.status = "ready" /\ y = [status |-> "archived", segments |-> x.segments]

ReportStep(x, y) ==
  \/ x = "none" /\ y = "draft"
  \/ x = "draft" /\ y = "ready"
  \/ x = "ready" /\ y = "approved"
  \/ x \in {"ready", "approved"} /\ y = "exported"

\* A redline is drafted once, each change is decided once while it is ready
\* for review, and it is reviewed, and then exported, with no change pending.
Undecided(x) == {i \in DOMAIN x.verdicts : x.verdicts[i] = "pending"}
RedlineStep(x, y) ==
  \/ x.status = "none" /\ y = [status |-> "draft", verdicts |-> <<>>]
  \/ x.status = "draft" /\ y.status = "ready_for_review" /\ y.verdicts \in Seq({"pending"})
  \/ /\ x.status = "ready_for_review"
     /\ \/ \E i \in Undecided(x), verdict \in {"approved", "rejected"} :
             y = [x EXCEPT !.verdicts[i] = verdict]
        \/ Undecided(x) = {} /\ y = [x EXCEPT !.status = "reviewed"]
  \/ x.status = "reviewed" /\ Undecided(x) = {} /\ y = [x EXCEPT !.status = "exported"]

\* Nothing is filed before there is a matter.
CaseNext ==
  \/ MatterStep(matter, matter') /\ UNCHANGED <<versions, meeting, report, redline>>
  \/ /\ matter # "none" /\ UNCHANGED matter
     /\ \/ VersionsStep(versions, versions') /\ UNCHANGED <<meeting, report, redline>>
        \/ MeetingStep(meeting, meeting') /\ UNCHANGED <<versions, report, redline>>
        \/ ReportStep(report, report') /\ UNCHANGED <<versions, meeting, redline>>
        \/ RedlineStep(redline, redline') /\ UNCHANGED <<versions, meeting, report>>

CaseSpec == CaseInit /\ [][CaseNext]_caseVars
=============================================================================
