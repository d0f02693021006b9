---------------------------- MODULE AnalysisTasks ---------------------------
(* Who makes and decides analyses: POST /analyze (api/v1/analyses.py) in the *)
(* transaction of its request, and the command handlers of                   *)
(* handlers/analysis_handlers.py, which keep a job record beside the         *)
(* analysis in a store of its own.  Every task is one request or command.    *)
(* The unit of work, the job store and the model are ports: each call of     *)
(* them is a step, and may fail.  A unit of work hands out a copy of the     *)
(* analysis and stores it whole; nothing locks or versions it.               *)
EXTENDS LegalAnalysis, TokenBudget

CONSTANTS
  Tasks,          \* 1 .. n, in the order in which they arrive
  Hits,           \* results of a search: sequences of Sources
  Answers,        \* [summary, items]: what the model may answer
  SpokenWords,    \* the patterns that the transcript holds
  TranscriptSize, \* tokens of the transcript
  QuoteSize,      \* QuoteSize[s]: tokens of a quote from s
  Budgets,        \* [maxInput, reserved] that a worker may be configured with
  Capacity,       \* of the model's context window
  NoBudget,       \* no optimizer is configured
  NoAnalysis,
  NoPrompt,       \* of a task that has not come to generate
  MaxFaults       \* failed calls of stores, and crashes

ASSUME TasksAssumption == Tasks \subseteq Nat
ASSUME WordsAssumption == SpokenWords \subseteq RiskWords \union DutyWords \union ActionWords
ASSUME AnswersAssumption == Answers \subseteq [summary : BOOLEAN, items : SUBSET Items]
ASSUME HitsAssumption == Hits \subseteq Seq(Sources) /\ <<>> \in Hits
ASSUME SizesAssumption ==
  /\ TranscriptSize \in Nat /\ QuoteSize \in [Sources -> Nat]
  /\ Budgets \subseteq [maxInput : Nat, reserved : Nat] /\ NoBudget \notin Budgets
ASSUME NoAnalysisAssumption == NoAnalysis \notin Analyses

\* What a generator may be shown: the transcript or an empty text, and quotes.
PromptRecords == [transcript : BOOLEAN, evidence : Seq(Sources)]
ASSUME NoPromptAssumption == NoPrompt \notin PromptRecords

VARIABLES
  analyses,  \* analyses[a]: the stored analysis that task a made
  jobs,      \* jobs[a]: the status of the job record of analysis a
  trail,     \* trail[a]: audit rows that name analysis a
  task,      \* task[t]: how far t is, and what its process holds
  faults

analysisVars == <<analyses, jobs, trail, task, faults>>

JobStatus == {"none", "queued", "running", "completed", "failed"}

\* Where a task is; the last line has those that have ended.
Stages ==
  {"idle", "retrieve", "generate", "dispatch", "mark", "save", "complete",
   "failing", "commit",
   "done", "refused", "missing", "error", "dead"}
Ended == {"done", "refused", "missing", "error", "dead"}

Idle ==
  [op |-> "none", at |-> "idle", on |-> 0, work |-> NewAnalysis, base |-> NoAnalysis,
   model |-> FALSE, found |-> FALSE, caller |-> FALSE,
   prompt |-> NoPrompt, rows |-> 0, spoilt |-> FALSE, hurt |-> FALSE]

AnalysisInit ==
  /\ analyses = [a \in Tasks |-> NoAnalysis]
  /\ jobs = [a \in Tasks |-> "none"]
  /\ trail = [a \in Tasks |-> 0]
  /\ task = [t \in Tasks |-> Idle]
  /\ faults = 0

Arrives(t) ==
  /\ task[t].at = "idle"
  /\ \A s \in Tasks : s < t => task[s].at # "idle"

\* A task that is done with its copy, with what the properties still need.
Left(x, at) ==
  [Idle EXCEPT !.op = x.op, !.on = x.on, !.spoilt = x.spoilt, !.hurt = x.hurt, !.at = at,
     !.found = x.found /\ x.at = "commit", !.caller = x.caller /\ x.at = "commit",
     !.prompt = IF x.at \in {"commit", "complete", "failing"} THEN x.prompt ELSE NoPrompt]

\* Task t goes on with other values in its process, and nothing else changes.
Proceed(t, next) ==
  /\ task' = [task EXCEPT ![t] = next]
  /\ UNCHANGED <<analyses, jobs, trail, faults>>

-----------------------------------------------------------------------------
(* Requests and commands *)

\* POST /analyze, with or without the model, for a matter that is found or
\* not, by a caller with a token that decodes or not.  The new analysis is
\* given the id t.
Analyze(t) ==
  /\ Arrives(t)
  /\ \E model, found, caller \in BOOLEAN :
       Proceed(t, [Idle EXCEPT !.op = "analyze", !.on = t, !.at = "retrieve",
                    !.model = model, !.found = found, !.caller = caller])

\* A request whose token has malformed claims, and any command whose actor may
\* not edit the matter, or whose matter or meeting is not found.
Refuse(t) ==
  /\ Arrives(t)
  /\ Proceed(t, [Idle EXCEPT !.at = "refused"])

\* RequestAnalysisCommand: the analysis is saved in the unit of work and the
\* job enqueued at once, before the commit.
RequestAnalysis(t) ==
  /\ Arrives(t)
  /\ jobs' = [jobs EXCEPT ![t] = "queued"]
  /\ task' = [task EXCEPT ![t] = [Idle EXCEPT !.op = "request", !.on = t, !.at = "commit"]]
  /\ UNCHANGED <<analyses, trail, faults>>

\* ExecuteAnalysisCommand for a job that was enqueued, perhaps executed
\* before.  What the lookup does not find is raised outside the try.
ExecuteAnalysis(t) ==
  /\ Arrives(t)
  /\ \E a \in Tasks :
       /\ jobs[a] # "none"
       /\ Proceed(t,
            IF analyses[a] = NoAnalysis
            THEN [Idle EXCEPT !.op = "execute", !.on = a, !.at = "missing"]
            ELSE [Idle EXCEPT !.op = "execute", !.on = a, !.at = "mark", !.model = TRUE,
                    !.work = analyses[a], !.base = analyses[a]])

\* ApproveAnalysisCommand and RejectAnalysisCommand.
DecideAnalysis(t) ==
  /\ Arrives(t)
  /\ \E a \in Tasks, verdict \in Decided :
       /\ analyses[a] # NoAnalysis
       /\ Proceed(t,
            IF CanDecide(analyses[a], verdict)
            THEN [Idle EXCEPT !.op = "decide", !.on = a, !.at = "commit",
                    !.base = analyses[a], !.work = Decide(analyses[a], verdict)]
            ELSE [Idle EXCEPT !.at = "refused"])

-----------------------------------------------------------------------------
(* AnalysisApplicationService.execute *)

\* Fault: an exception of an execution leaves the job record as it is.
RaisedUnmarked(t) == Left(task[t], "error")

\* Where an exception leads: the endpoint answers 500, the handler goes on to
\* mark the job as failed.
Raised(t) ==
  IF task[t].op = "execute" THEN Left(task[t], "failing") ELSE Left(task[t], "error")

MarkRunning(t) ==
  /\ task[t].at = "mark"
  /\ jobs' = [jobs EXCEPT ![task[t].on] = "running"]
  /\ task' = [task EXCEPT ![t].at = "retrieve"]
  /\ UNCHANGED <<analyses, trail, faults>>

\* What the generator is shown: the endpoint has no optimizer.
Prompt(hits, budget) ==
  IF budget = NoBudget THEN [transcript |-> TRUE, evidence |-> hits]
  ELSE Optimized(TranscriptSize, hits, QuoteSize, budget)

\* begin_processing, retrieval and optimization: an analysis that is not a
\* draft, and a budget that the window does not hold, raise.  Retrieval never
\* does: without matter, and when the index is away, there is no evidence.
Retrieve(t) ==
  /\ task[t].at = "retrieve"
  /\ \E hits \in Hits,
        budget \in (IF task[t].op = "execute" THEN Budgets \union {NoBudget} ELSE {NoBudget}) :
       Proceed(t,
         IF CanBegin(task[t].work) /\ (budget = NoBudget \/ Accepted(budget, Capacity))
         THEN [task[t] EXCEPT !.at = "generate", !.work = BeginProcessing(@),
                 !.prompt = Prompt(hits, budget)]
         ELSE Raised(t))

\* apply_result of what a generator returned: what the domain refuses is
\* raised, and is no ProcessingError.
Conclude(t, result) ==
  IF Applies(task[t].work, result)
  THEN [task[t] EXCEPT !.work = ApplyResult(@, result),
          !.at = IF task[t].op = "analyze" THEN "dispatch" ELSE "save"]
  ELSE [Raised(t) EXCEPT !.spoilt = TRUE]

ModelAnswers(t) ==
  /\ task[t].at = "generate" /\ task[t].model
  /\ \E answer \in Answers :
       Proceed(t, Conclude(t, ModelResult(answer, task[t].prompt.evidence)))

ScanRules(t) ==
  /\ task[t].at = "generate" /\ ~ task[t].model
  /\ Proceed(t, Conclude(t, RuleResult(IF task[t].prompt.transcript THEN SpokenWords ELSE {})))

\* Fault: the fallback goes on with the analysis that was begun.
FallbackOnBegun(t) == [task[t] EXCEPT !.model = FALSE, !.at = "retrieve"]

\* The endpoint's except ProcessingError: a new analysis, by the rules.
Fallback(t) == [task[t] EXCEPT !.model = FALSE, !.at = "retrieve", !.work = NewAnalysis]

\* No package, no answer, an empty one, none that is JSON, or items with
\* values of the wrong type: a ProcessingError.
ModelFails(t) ==
  /\ task[t].at = "generate" /\ task[t].model
  /\ Proceed(t, IF task[t].op = "analyze" THEN Fallback(t)
                ELSE Raised(t))

\* An answer that is JSON but no object of lists of objects.
ModelMisleads(t) ==
  /\ task[t].at = "generate" /\ task[t].model
  /\ Proceed(t, [Raised(t) EXCEPT !.spoilt = TRUE])

-----------------------------------------------------------------------------
(* Storing it *)

\* Fault: only what is stored is audited.
AuditRowsIfStored(t) == IF task[t].caller /\ task[t].found THEN 1 ELSE 0

\* dispatch_many of the one event that mark_ready_for_review recorded; without
\* a token there is no dispatcher.
AuditRows(t) == IF task[t].caller THEN 1 ELSE 0

DispatchEvents(t) ==
  /\ task[t].at = "dispatch"
  /\ Proceed(t, [task[t] EXCEPT !.rows = AuditRows(t), !.at = "commit"])

\* Commit of a request's session or of a command's unit of work: the analysis
\* as the task holds it, and the audit rows with it.  /analyze stores an
\* analysis only for a matter that it finds.
Stores(t) == task[t].op = "analyze" => task[t].found
CommitTask(t) ==
  /\ task[t].at = "commit"
  /\ analyses' = IF Stores(t) THEN [analyses EXCEPT ![task[t].on] = task[t].work] ELSE analyses
  /\ trail' = [trail EXCEPT ![task[t].on] = @ + task[t].rows]
  /\ task' = [task EXCEPT ![t] = Left(@, "done")]
  /\ UNCHANGED <<jobs, faults>>

SaveAnalysis(t) ==
  /\ task[t].at = "save"
  /\ analyses' = [analyses EXCEPT ![task[t].on] = task[t].work]
  /\ task' = [task EXCEPT ![t].at = "complete"]
  /\ UNCHANGED <<jobs, trail, faults>>

MarkCompleted(t) ==
  /\ task[t].at = "complete"
  /\ jobs' = [jobs EXCEPT ![task[t].on] = "completed"]
  /\ task' = [task EXCEPT ![t] = Left(@, "done")]
  /\ UNCHANGED <<analyses, trail, faults>>

MarkFailed(t) ==
  /\ task[t].at = "failing"
  /\ jobs' = [jobs EXCEPT ![task[t].on] = "failed"]
  /\ task' = [task EXCEPT ![t] = Left(@, "error")]
  /\ UNCHANGED <<analyses, trail, faults>>

-----------------------------------------------------------------------------
(* Faults *)

\* A call of the database, the unit of work or the job store fails.  The
\* handler's try covers all calls of an execution but the last, mark_failed.
CallFails(t) ==
  /\ faults < MaxFaults
  /\ task[t].at \in {"mark", "dispatch", "save", "complete", "failing", "commit"}
  /\ faults' = faults + 1
  /\ task' = [task EXCEPT ![t] =
       [IF @.at = "failing" THEN Left(@, "error") ELSE Raised(t) EXCEPT !.hurt = TRUE]]
  /\ UNCHANGED <<analyses, jobs, trail>>

\* The process of a task ends; what it had not committed is gone.
Die(t) ==
  /\ faults < MaxFaults
  /\ task[t].at \notin Ended \union {"idle"}
  /\ faults' = faults + 1
  /\ task' = [task EXCEPT ![t] = [Left(@, "dead") EXCEPT !.hurt = TRUE]]
  /\ UNCHANGED <<analyses, jobs, trail>>

-----------------------------------------------------------------------------
Steps(t) ==
  \/ MarkRunning(t) \/ Retrieve(t)
  \/ ModelAnswers(t) \/ ScanRules(t) \/ ModelFails(t) \/ ModelMisleads(t)
  \/ DispatchEvents(t) \/ CommitTask(t) \/ SaveAnalysis(t) \/ MarkCompleted(t) \/ MarkFailed(t)

AnalysisNext ==
  \E t \in Tasks :
    \/ Analyze(t) \/ Refuse(t) \/ RequestAnalysis(t) \/ ExecuteAnalysis(t) \/ DecideAnalysis(t)
    \/ Steps(t) \/ CallFails(t) \/ Die(t)
    \/ (\A u \in Tasks : task[u].at \in Ended) /\ UNCHANGED analysisVars

AnalysisSpec == AnalysisInit /\ [][AnalysisNext]_analysisVars

-----------------------------------------------------------------------------
(* Properties *)

TaskRecords ==
  [op : {"none", "analyze", "request", "execute", "decide"}, at : Stages, on : Tasks \union {0},
   work : Analyses, base : Analyses \union {NoAnalysis},
   model : BOOLEAN, found : BOOLEAN, caller : BOOLEAN,
   prompt : PromptRecords \union {NoPrompt},
   rows : {0, 1}, spoilt : BOOLEAN, hurt : BOOLEAN]

AnalysisTypeOK ==
  /\ analyses \in [Tasks -> Analyses \union {NoAnalysis}]
  /\ jobs \in [Tasks -> JobStatus]
  /\ trail \in [Tasks -> Nat]
  /\ task \in [Tasks -> TaskRecords]
  /\ faults \in Nat

\* Whatever the first task will be asked for, what it keeps of a prompt is the
\* longest prefix that fits.
KeepsLongestPrefix == (\A t \in Tasks : task[t].at = "idle") => LongestPrefixKept

Finished(x) == x.status \in {"ready_for_review"} \union Decided

\* What a prompt lets a model read.
Shown(prompt) ==
  ToSet(prompt.evidence) \union (IF prompt.transcript THEN {Transcript} ELSE {})

\* All items of x cite what the prompt showed.  Where the budget left room for
\* nothing, the model is sent an empty transcript and no evidence, and is still
\* allowed to cite "transcript": its items cite that, or nothing.
Within(x, prompt) ==
  LET cited == UNION {i.cites : i \in x.items}
  IN  /\ prompt # NoPrompt
      /\ \/ cited \subseteq Shown(prompt)
         \/ Shown(prompt) = {} /\ cited \subseteq {Transcript}

\* A stored analysis is an empty draft or complete, never half way: it has its
\* summary, its serious risks and obligations cite something, and one
\* generation of this analysis was shown all that is cited.  The exception is
\* what the code does: a generation that was shown nothing, not even the
\* transcript, may cite the transcript.
StoredIsSupported ==
  \A a \in Tasks : analyses[a] \notin {NoAnalysis, NewAnalysis} =>
    /\ Finished(analyses[a]) /\ analyses[a].summary
    /\ \A i \in analyses[a].items : Material(i) \/ i.kind = "obligation" => i.cites # {}
    /\ \E t \in Tasks : task[t].on = a /\ Within(analyses[a], task[t].prompt)

\* An answered /analyze has stored its analysis where its matter is known, and
\* one audit row where its caller is; one that is not answered has left
\* nothing, however far it got and whatever it fell back on.
AnalysesAudited ==
  \A t \in Tasks : task[t].op = "analyze" =>
    IF task[t].at = "done"
    THEN /\ trail[t] = (IF task[t].caller THEN 1 ELSE 0)
         /\ analyses[t] # NoAnalysis <=> task[t].found
         /\ analyses[t] # NoAnalysis => Finished(analyses[t])
    ELSE trail[t] = 0 /\ analyses[t] = NoAnalysis

\* "If Ollama is unreachable or the model is missing, it falls back": an
\* outage of the model or of the index fails no /analyze.  What does is an
\* answer that parses and that the domain refuses, or the database.
OutageHidden ==
  \A t \in Tasks : task[t].op = "analyze" /\ task[t].at = "error" =>
    task[t].spoilt \/ task[t].hurt

\* Executions that got as far as the job record.
Executions(a) == {t \in Tasks : task[t].op = "execute" /\ task[t].on = a /\ task[t].at # "missing"}

\* The job record beside the analysis, although no transaction spans both: a
\* completed job has its analysis stored; a job is failed over a stored
\* analysis only after a failed call or a second execution; it stays running
\* only while someone works on it, or a call failed; a finished analysis is
\* not queued any more; and a job without analysis is one whose request has
\* not been committed.
JobTellsTruth ==
  \A a \in Tasks :
    LET stored == analyses[a] # NoAnalysis
        hurt == \E t \in Executions(a) : task[t].hurt
    IN  /\ jobs[a] = "completed" => stored /\ Finished(analyses[a])
        /\ jobs[a] = "failed" /\ stored /\ Finished(analyses[a]) =>
             hurt \/ \E s, t \in Executions(a) : s # t
        /\ jobs[a] = "running" => hurt \/ \E t \in Executions(a) : task[t].at \notin Ended
        /\ jobs[a] = "queued" /\ stored => ~ Finished(analyses[a])
        /\ jobs[a] # "none" /\ ~ stored => task[a].at = "commit" \/ task[a].hurt

\* An approved or rejected analysis is changed by nothing that looked it up
\* after the decision: only an execution or a decision that overlapped it.
DecisionsKept ==
  [][\A a \in Tasks :
       /\ analyses[a] # NoAnalysis /\ analyses[a].status \in Decided
       /\ analyses'[a] # analyses[a]
       => \E t \in Tasks : /\ task[t].on = a /\ task[t].at \in {"commit", "save"}
                           /\ task'[t].at \in {"done", "complete"}
                           /\ task[t].base.status \notin Decided]_analysisVars
=============================================================================
