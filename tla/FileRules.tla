------------------------------ MODULE FileRules -----------------------------
(* What is filed under a matter: documents, meetings, reports and redline    *)
(* jobs (domain/document, domain/meeting, domain/reporting,                  *)
(* domain/redlining, redline_service.py, redline_review.py and               *)
(* ollama_redline.py).  A text is known by the passages that it holds.       *)
EXTENDS Naturals, Sequences, SequencesExt

CONSTANTS
  Passages,  \* of the documents of a matter
  Formats    \* of reports

-----------------------------------------------------------------------------
(* Documents.  No command puts one under legal hold. *)

ProcessingStatus == {"pending", "processing", "completed", "failed"}
DocumentVersions == [status : ProcessingStatus, segments : Seq(Passages), error : BOOLEAN]
Documents == [versions : Seq(DocumentVersions)]

NewDocument == [versions |-> <<>>]
NewVersion == [status |-> "pending", segments |-> <<>>, error |-> FALSE]

AddVersion(d) == [d EXCEPT !.versions = Append(@, NewVersion)]

\* ensure_processing_transition
Transition(from, to) ==
  \/ from = "pending" /\ to \in {"processing", "failed"}
  \/ from = "processing" /\ to \in {"completed", "failed"}
  \/ from = "failed" /\ to = "processing"

\* A version from start_processing, which clears the error of a failed one, to
\* complete_processing, with the segments that were added between.
Processed(version, segments) ==
  [status |-> "completed", segments |-> version.segments \o segments, error |-> FALSE]
Failed(version) == [version EXCEPT !.status = "failed", !.error = TRUE]

-----------------------------------------------------------------------------
(* Meetings, of whose transcript the segments are counted *)

Meetings == [status : {"draft", "transcribing", "ready", "archived"}, segments : Nat]

NewMeeting == [status |-> "draft", segments |-> 0]

\* ensure_meeting_can_receive_transcript
CanReceive(m) == m.status \in {"draft", "transcribing"}

-----------------------------------------------------------------------------
(* Reports *)

Reports ==
  [status : {"draft", "generating", "ready", "approved", "exported"},
   sections : Nat, formats : SUBSET Formats]

NewReport == [status |-> "draft", sections |-> 0, formats |-> {}]

\* begin_generation, add_section in order, mark_ready.
CanGenerate(r, sections) == r.status = "draft" /\ sections > 0
Generated(r, sections) == [r EXCEPT !.status = "ready", !.sections = @ + sections]

\* ensure_report_can_export
CanExportReport(r) == r.status \in {"ready", "approved"}
ExportedReport(r, format) == [r EXCEPT !.status = "exported", !.formats = @ \union {format}]

-----------------------------------------------------------------------------
(* Redline jobs *)

ReviewStatus == {"pending", "approved", "rejected"}
RedlineChanges == [quotes : SUBSET Passages, verdict : ReviewStatus]
RedlineJobs ==
  [status : {"draft", "processing", "ready_for_review", "reviewed", "exported"},
   changes : Seq(RedlineChanges)]

NewJob == [status |-> "draft", changes |-> <<>>]

\* What the model may propose: `sound` when no field is blank, the texts
\* differ, and level and confidence are in range.
Proposals == [sound : BOOLEAN, type : {"listed", "unlisted", "absent"}, quotes : SUBSET Passages]

\* _parse_result: a quote that no context item holds is a ProcessingError.
Grounded(change, shown) == change.quotes \subseteq shown

\* The checks of _parse_result, of _validate_change and of RedlineChange: a
\* type that is absent becomes "SUBSTITUTION", which is no ChangeType.
Acceptable(change, shown) ==
  /\ change.sound
  /\ Grounded(change, shown)
  /\ change.quotes # {}
  /\ change.type = "listed"

\* Fault: a job that has been drafted may be drafted again.
CanApplyAgain(j, proposed, shown) == \A i \in DOMAIN proposed : Acceptable(proposed[i], shown)

\* apply_result
CanApply(j, proposed, shown) ==
  /\ j.status = "draft"
  /\ \A i \in DOMAIN proposed : Acceptable(proposed[i], shown)
Proposed(proposed) ==
  [i \in DOMAIN proposed |-> [quotes |-> proposed[i].quotes, verdict |-> "pending"]]
Applied(j, proposed) ==
  [status |-> "ready_for_review", changes |-> j.changes \o Proposed(proposed)]

\* Fault: a change that has been decided may be decided again.
ReviewableAnyway(j, i) == TRUE

\* approve and reject of a change; the status of the job is not looked at.
Reviewable(j, i) == j.changes[i].verdict = "pending"
Review(j, i, verdict) == [j EXCEPT !.changes[i].verdict = verdict]

Pending(j) == {i \in DOMAIN j.changes : j.changes[i].verdict = "pending"}

\* Fault: changes that are still pending are overlooked.
CanCloseAnyway(j) == j.status = "ready_for_review"

\* mark_reviewed.  The workflow's finalize, which no handler calls, also
\* refuses a job without changes.
CanClose(j) == j.status = "ready_for_review" /\ Pending(j) = {}

\* ensure_job_can_be_exported
CanExportJob(j) == j.status = "reviewed" /\ Pending(j) = {}
=============================================================================
