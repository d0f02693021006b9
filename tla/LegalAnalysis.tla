---------------------------- MODULE LegalAnalysis ---------------------------
(* A legal analysis and what may become part of it: domain/analysis, the two *)
(* generators under infrastructure/llm and apply_result of                   *)
(* analysis_service.py.  An item keeps its kind, its level and the sources   *)
(* it cites; its texts are abstracted to whether the domain takes them.      *)
EXTENDS Naturals, Sequences, SequencesExt

CONSTANTS
  Sources,     \* source ids of indexed documents
  RiskWords,   \* patterns of the rule-based scanner, by the list they are in
  DutyWords,
  ActionWords

Transcript == "transcript"

AnalysisStatus == {"draft", "processing", "ready_for_review", "approved", "rejected"}
RiskLevel == {"low", "medium", "high", "critical"}
Decided == {"approved", "rejected"}

\* What a generator returns for a risk, an obligation or an action item.
\* `sound`: title, description, responsible party and quotes are not blank,
\* the confidence is within range, a level is one of RiskLevel.
Items ==
  [kind : {"risk"}, level : RiskLevel, cites : SUBSET (Sources \union {Transcript}), sound : BOOLEAN]
    \union [kind : {"obligation", "action"}, level : {"none"},
            cites : SUBSET (Sources \union {Transcript}), sound : BOOLEAN]

Analyses ==
  [status : AnalysisStatus, summary : BOOLEAN, items : SUBSET Items]

NewAnalysis == [status |-> "draft", summary |-> FALSE, items |-> {}]

-----------------------------------------------------------------------------
(* Generators *)

\* _parse_evidence: citations of sources that were not offered are dropped.
Cited(item, offered) == item.cites \intersect offered

\* Fault: the citations are kept as the model gave them.
ParsedAsGiven(item, offered) == item

\* _parse_risks, _parse_obligations and _parse_action_items: a risk or an
\* obligation left without citation cites the transcript.
Parsed(item, offered) ==
  [item EXCEPT !.cites =
     IF Cited(item, offered) = {} /\ item.kind # "action" THEN {Transcript}
     ELSE Cited(item, offered)]

\* OllamaAnalysisGeneration.generate of an answer that parses.
ModelResult(answer, evidence) ==
  [summary |-> answer.summary,
   items |-> {Parsed(i, {Transcript} \union ToSet(evidence)) : i \in answer.items}]

\* RuleBasedAnalysisGeneration: one item per pattern found in the transcript,
\* of the kind of its list; the summary is never blank.
Scanned(word) ==
  [kind |-> IF word \in RiskWords THEN "risk"
            ELSE IF word \in DutyWords THEN "obligation" ELSE "action",
   level |-> IF word \in RiskWords THEN "high" ELSE "none",
   cites |-> {Transcript}, sound |-> TRUE]
RuleResult(words) == [summary |-> TRUE, items |-> {Scanned(w) : w \in words}]

-----------------------------------------------------------------------------
(* The aggregate *)

Material(item) == item.kind = "risk" /\ item.level \in {"high", "critical"}

\* The constructors of Risk, Obligation and ActionItem.
Admitted(item) ==
  /\ item.sound
  /\ Material(item) \/ item.kind = "obligation" => item.cites # {}

\* ensure_analysis_can_change
CanChange(x) == x.status \notin Decided

CanBegin(x) == x.status = "draft"
BeginProcessing(x) == [x EXCEPT !.status = "processing"]

\* apply_result: every item is built and added, the summary set, and the
\* analysis marked ready; what one of them refuses ends it.
Applies(x, result) ==
  /\ CanChange(x)
  /\ \A i \in result.items : Admitted(i)
  /\ result.summary
  /\ x.status = "processing"
ApplyResult(x, result) ==
  [x EXCEPT !.items = @ \union result.items, !.summary = TRUE,
            !.status = "ready_for_review"]

\* ensure_analysis_can_be_approved; reject has no condition on the items.
\* Fault: a decided analysis may be rejected.
CanDecideAgain(x, verdict) ==
  /\ x.status \in {"ready_for_review"} \union Decided
  /\ verdict = "approved" => x.items # {}
CanDecide(x, verdict) ==
  /\ x.status = "ready_for_review"
  /\ verdict = "approved" => x.items # {}
Decide(x, verdict) == [x EXCEPT !.status = verdict]
=============================================================================
