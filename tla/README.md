# A verification development for the post-meeting legal analyzer

TLA+ specifications of the parts of this service in which the order of events
matters, TLC configurations that check them on small instances, and proofs that
TLAPS checks for every instance. Paths below are relative to the repository.

- [1. The system](#1-the-system)
- [2. The modules](#2-the-modules)
- [3. Redline requests](#3-redline-requests)
- [4. The audit chain](#4-the-audit-chain)
- [5. The corpus, its chunks, and token budgets](#5-the-corpus-its-chunks-and-token-budgets)
- [6. Accounts and sessions](#6-accounts-and-sessions)
- [7. Analyses](#7-analyses)
- [8. Case files](#8-case-files)
- [9. The run of records](#9-the-run-of-records)
- [10. Fairness](#10-fairness)
- [11. Proofs](#11-proofs)
- [12. Where the code and its documents disagree](#12-where-the-code-and-its-documents-disagree)
- [13. What is not modelled](#13-what-is-not-modelled)
- [14. Plan](#14-plan)

Run a check with `tlc -config MCRedline_review.cfg MCRedline.tla`, a proof with
`tlapm RedlineProofs.tla`.

## 1. The system

A FastAPI service for law firms. A *matter* groups members (owner, editor,
viewer), documents and meetings. Meeting texts are analysed for risks and
obligations, two versions of a document are compared by a local LLM into a
*redline job* with proposed changes, and a human approves or rejects every
change. Every mutation leaves a row in a hash-chained audit trail.

| component | state | operations | what makes it hard |
|---|---|---|---|
| redline endpoints, `app/api/v1/redline.py` | `redline_jobs.status`, `redline_changes.review_status`, `approved_by_id` | create, upload, generate, review, list, get, report | every request is a transaction of several statements without `FOR UPDATE` or version column; a generation waits minutes for the model between its read and its write |
| request transactions, `app/api/dependencies/db.py` | one SQLAlchemy session per request | open, commit after the endpoint, roll back on any exception | READ COMMITTED visibility, row locks of UPDATEs, crash between flush and commit |
| audit chain, `app/infrastructure/persistence/audit_chain.py` | `audit_events` (seq, prev_hash, row_hash) | append, verify | read-last-then-insert by concurrent transactions; a failed read taken for an empty chain; rollbacks; legacy rows |
| accounts and sessions, `app/api/v1/auth.py`, `app/api/dependencies/auth.py` | users, organisations, `sessions.revoked` | register, login, refresh, logout, authenticate | check-then-insert, revocation racing use, an audit row in a transaction its own 401 rolls back |
| corpus, `app/api/v1/corpus.py`, `corpus_indexing.py`, `qdrant_vector_index.py` | the points of one Qdrant collection | index, upload, search, read back | no transaction over a reindex, stale chunks, ids that do not cover the matter, collection created on first use |
| chunker and token budget, `chunker.py`, `token_optimizer.py`, `context_optimizer.py` | none | split, fit to the context window | boundary arithmetic |
| analysis, `app/api/v1/analyses.py`, `analysis_service.py`, `analysis_handlers.py` | stored analyses, job records, audit rows | analyze, request, execute, approve, reject | two stores updated one after the other; fallback after a failed model call; a model that is shown less than was found |
| command handlers, `app/application/handlers`, over the aggregates organization, matter, document, meeting, report and redline job of `app/domain` | one aggregate of each kind behind a unit-of-work port | over thirty commands | overlapping commands on copies without version; awaits between check and save; legal hold, last owner |
| everything else | none worth a model | extraction, PDF, DTOs, settings, logging, middleware, lifecycle, website | |

How they interact: an endpoint opens a session (`get_db`), resolves the matter
and the acting user, changes its rows, appends an audit row **in the same
session**, and the dependency commits. The database is the only state shared by
two requests; worker processes do not know of each other.

What has to be right, per component:

- *redline endpoints*: each change is decided at most once, by somebody who may
  edit the matter; a job is `reviewed` exactly when nothing is pending; the
  audit trail says who decided what.
- *audit chain*: a committed row links to a committed row; an untouched trail
  verifies; a touched one does not, but for its end.
- *accounts*: no two accounts with one email, a revoked session is not accepted
  after the logout, every attributable login attempt is recorded.
- *corpus*: what is read back is the last version indexed, within one matter.
- *analysis*: the job record and the stored analysis agree; an outage of the model
  is hidden; what is stored is complete and cites what the model was shown.
- *case files*: a matter keeps an owner, a hold freezes it, what is settled stays
  settled, and nothing is stored half done.

## 2. The modules

| module | models |
|---|---|
| `ReviewGate` | the abstract review gate: register, propose, decide, each atomic |
| `RedlineRequests` | the endpoints as concurrent transactions, and all properties about them |
| `MCRedline` + `MCRedline_*.cfg` | its instances for TLC |
| `RedlineProofs` | its theorems |
| `AuditChain` | append and verification of the audit chain |
| `MCAuditChain` + `MCAuditChain_seq.cfg` | the instance in which two writers share a seq |
| `AuditChainProofs` | its theorems |
| `Catalogue` | the abstract corpus: documents stored whole, read whole |
| `CorpusIndex` | indexing, search and reading back over Ollama, Qdrant and PostgreSQL |
| `MCCorpus` + `MCCorpus*.cfg` | its instances for TLC |
| `CorpusProofs` | its theorems |
| `Registry` | the abstract accounts: register, login, logout, each atomic |
| `Accounts` | registration, login, logout and session credentials as transactions |
| `MCAccounts` + `MCAccounts*.cfg` | its instances for TLC |
| `AccountsProofs` | its theorems |
| `Chunking` | how a text is split into chunks |
| `ChunkingProofs` | its theorems |
| `FoldProofs` | folds over sequences, for the proofs about loops |
| `TokenBudget` | how much of a prompt fits the model's window |
| `LegalAnalysis` | an analysis, the two generators, what the aggregate admits |
| `AnalysisTasks` | `/analyze` and the analysis commands, with job records and audit rows |
| `AnalysisProofs` | its theorems |
| `MatterRules`, `FileRules` | the aggregates of a case file: values, guards and changes |
| `CaseFile` | the abstract case file, with every command one step |
| `CaseFiles` | the command handlers over the aggregates, overlapping |
| `CaseFilesProofs` | its theorems |
| `MCRecords` + `MCRecords.cfg` | the instance of `AuditChain`, `AnalysisTasks` and `CaseFiles` for TLC |

`RedlineRequests` instantiates `ReviewGate` with its own committed rows (`Gate
== INSTANCE ReviewGate`); no refinement mapping is needed because the abstract
variables are what a reader of the database sees. `RedlineRequests` keeps the
audit rows as a set, without their chain links; `AuditChain` has the links and
forgets what a row is about. The two meet in the transaction: rows of both are
published by the same commit. `CorpusIndex` shares with the redline endpoints
only the documents an upload persists (`PersistUpload`), which a read prefers to
the index; it has the chunks of its documents from a constant, and extends
`Chunking` for how they come about. `Accounts` stands alone: no other endpoint
changes a user or a session. Its view of `Registry`, like that of `CaseFiles` of
`CaseFile`, is a set of state functions next to the instance: an account is a
user row with its matter and membership, an aggregate its status.
`AnalysisTasks` composes `LegalAnalysis` and `TokenBudget`: what the optimizer
keeps of a prompt is what an analysis may cite. It counts its audit rows, whose
chain is `AuditChain`'s. `CaseFiles` composes `MatterRules` and `FileRules`: the
matter says who may command. It is the application layer of which the redline
endpoints use only a fresh job per generation, so `RedlineRequests` and
`CaseFiles` describe different rows.

Next to some definitions stands a second one whose comment calls it a fault:
the same operation as a plausible slip would have it. It is used nowhere in the
specification; replacing the definition by it shows that a property can fail.

## 3. Redline requests

### State and code

| variable | code |
|---|---|
| `status`, `review`, `decidedBy` | committed columns `redline_jobs.status`, `redline_changes.review_status`, `approved_by_id` |
| `audit` | committed `audit_events` of `_audit_redline` |
| `jobLock`, `changeLock` | PostgreSQL row locks, taken by an UPDATE and kept to the end of the transaction |
| `pc`, `txn` | where a request is, and what its session has loaded and will write |
| `overtaken`, `raced` | history variables, see below |

| control state and step | code |
|---|---|
| `idle` to `reading` `ReviewRedline` | `review_redline` up to the SELECT of the job row |
| `reading` to `flushing` `LoadChanges` | the SELECT of `job.changes`, the 404 and 409 checks, the decision, the pending count |
| `idle` to `thinking` `GenerateRedline` | `generate_redline` up to retrieval and model call |
| `thinking` to `flushing` `FinishGeneration` | `RedlineApplicationService.generate` returned; rows added to the session |
| `idle` to `flushing` `CreateRedline` | `create_redline`, `create_redline_from_upload` |
| `flushing` to `jobDone` to `flushed` `WriteJob`, `WriteChanges` | `session.flush()`: the unit of work writes the parent table first, only changed columns, each UPDATE waiting for the row lock |
| `flushed` to `committed` `Commit` | `get_db` after the `yield` |
| any to `failed` `Rollback`, `GiveUp`, `Refuse` | any exception; `GiveUp` are those the request runs into by itself |

The two upload and JSON creations are one action: what they store besides the
job (documents, versions, segments under fresh ids) no other request touches.
A generation may fail at any time while it waits. Reads of the API change
nothing and are left out. A job's stored status is only ever `pending`,
`completed` or `reviewed`: `processing` and `failed` are declared and never
written.

### Races

`overtaken` holds the open requests during which another request on the same
job committed, and `raced` the jobs on which an overtaken request nevertheless
committed. A property that quantifies over `Jobs \ raced` thus says "unless a
request commits after another request on the job committed during it", which
is what a version column or a lock of the job row would exclude. `UnracedSpec`
is the system in which this never happens. The history variables are never read
by an action.

### Runs

| run | instance | shows |
|---|---|---|
| `review` | 5 requests, 1 job, 2 changes, an editor and a viewer, proposals of 1 or 2 changes; 250 292 states | `DecisionAudited`, `ClosesOverUnseenOnly`, `WaitsEnd` under every interleaving; `ReviewedMeansAllDecided`, `AllDecidedMeansReviewed`, `AuditTallies`, `DecisionsFinal` where nothing raced |
| `gate` | 4 requests, 2 jobs, 3 changes, proposals of 0 to 2 changes; `UnracedSpec`; 31 821 states | the endpoints implement `ReviewGate` |
| `answered` | 4 requests, 1 job, 1 change, `FairSpec`; 35 088 states | every started request is answered |
| `final` | 4 requests, 1 job, 1 change | the first disagreement of section 12 |

Why the bounds are enough: the shortest interesting history is create,
generate, two overlapping reviews; the fifth request adds a second generation
or a third review, which is what it takes to decide a change, race on it, and
look at the result. Two changes are needed for the write skew; one job suffices
for properties about one job, two jobs show that a commit leaves the other job
alone. `viewer` makes the role check matter, a missing token makes the default
user act.

`WaitsEnd` is the part of "every request is answered" that is a safety property: a
request that waits for a row lock waits for one that is being served, and that one
waits, if at all, for a third that only has to commit. So there is no circle of
waiting requests, and no lock that outlives its transaction.

`0 \in ProposalSizes` (a generation that proposes nothing) is part of the `gate`
run: on a job whose changes are all decided it sets the status back to
`completed`, where no review can close it again. `ReviewGate!Propose` permits
that, since the code does it without any race, and `AllDecidedMeansReviewed` is
therefore conditional on non-empty proposals.

Assumed: the roles of a matter's members do not change during a run, and some
member may edit it (`MembersAssumption`); no endpoint changes memberships, and
registration, seed script and matter handlers start every matter with an
owner or editor.

## 4. The audit chain

`chain` is the committed table, `pending[t]` the rows a transaction has
flushed. `append_audit_event` is two steps, because another transaction may
commit between its SELECT and its INSERT: `ReadTail` remembers a
`(hash, seq)` in `link[t]`, `AppendRow` builds the row on it. `FailToRead` is the
swallowed exception of `_chain_state`; it is possible only while the
transaction has no connection yet (`connected`): a statement that fails later
leaves PostgreSQL's transaction aborted, and the INSERT fails as well.
`OtherStatement` stands for what a request executes before it audits, if
anything. A hash is the sequence of contents it covers, so that two hashes are
equal exactly when the histories are.

`verify_audit_chain` is given without its loop: `Predecessors` is the row
the loop visited before, unless that was a legacy row, which resets the
expectation.

| run | instance | shows |
|---|---|---|
| `records`, side `chain` | 3 transactions of at most 2 rows, 5 ids, one of them a legacy row | links lead to committed rows always; the trail verifies unless a writer was overtaken or blind; the verification accepts exactly the linear chains; of a trail that verified, a row that is dropped or overwritten is found as long as a row after it is left |
| `audit_seq` | 2 transactions of 1 row | the second disagreement of section 12 |

Three writers give every shape a fork of up to four rows takes; two rows per
transaction make a transaction read its own uncommitted row. Ids are integers
because the verification breaks ties of `seq` by id, in an order the writers do not
control: TLC tries every assignment. `VerifyExact` quantifies over every
subset of the committed rows, so the verification is checked on broken trails too.

`TamperEvident` says how far the chain shows tampering. A row may be dropped, or
overwritten with another id (which stands for all that the hash covers), seq, link
or hash: with NULLs, which make it a legacy row that the verification skips, and
with a hash recomputed to fit, since sha256 takes no key. It is found if a row
that followed it is left as it was. At the end of the trail nothing is found: the
last rows can be dropped, set to NULL or rewritten, and the trail verifies.

## 5. The corpus, its chunks, and token budgets

Documents are indexed into one Qdrant collection, found by an analysis as
evidence, and read back as text. None of this is a transaction: each request is
a sequence of calls between which others run, and each call may fail.

| variable | code |
|---|---|
| `collection` | whether the collection exists, and for which dimension |
| `index` | the points: for each chunk id, `payload["matter_id"]` |
| `uploads` | committed documents of redline uploads, by matter and source |
| `phase`, `args` | where a request is, and what it was sent with |
| `todo`, `passed`, `hits` | `_corpus_index_texts`: handles left, scroll offset, matches |
| `early`, `ended`, `stored` | history variables: what was there when a request was sent |

| step | code |
|---|---|
| `SendText`, `SendRead` | the request arrives; chunking needs no call |
| `Embed` | `OllamaEmbeddings.embed` |
| `CheckCollection`, `CreateCollection` | `_ensure_collection_sync`, two calls |
| `Upsert`, `Query` | `_upsert_sync`, `_search_sync` |
| `Resolve` | `get_document_text` up to the rows of PostgreSQL |
| `ScrollPage`, `LastPage` | `_scroll_sync`, 256 points a page, within the loop over `_matter_handles` |
| `ServiceFails`, `AnswerLost` | a call fails, or is executed and its answer lost |

A chunk id is `(source, position, text)`, since the UUID is computed from these
and from nothing else; the matter is not in it. A matter has several *handles*:
its UUID, its number, and whatever string was given; the index stores the one
given. Vectors are abstracted: a search may return any `Limit` chunks that pass
its filter. A scroll returns the points in the order of their ids, which are
hashes, hence in any order.

`Catalogue` is what this amounts to where every source id is used once
(`OnceSpec`, by default an id is a fresh UUID) and a matter's points fit on one
page: a document is stored in one step, and a read answers with all of it, or
with none only if there was none when the read began.

| run | instance | shows |
|---|---|---|
| `corpus` | 2 indexers and a read with pages of 1 point, 2 matters, one with two handles, an upload; 801 159 states | stored chunks stay unless another request takes them over; only the first requests can lose the race to create the collection; a read returns text sent under a handle of its matter only, and the document whole and in order if nobody sent it otherwise; `SplitExact` |
| `corpus_catalogue` | 2 indexers, a read, a matter with two handles, 2 sources; 313 195 states | refinement of `Catalogue` |
| `corpus_answered` | an indexer, a search, a read with pages of 1, two handles of a matter and one of none, an upload; 109 046 states | every request is answered |

Two indexers suffice for every property: each relates the chunks of one request
to those of at most one other. Documents of two chunks tell position from text
(`<<a, a>>`) and old from new (`<<a, b>>`); pages of one point put a step between
any two points of a read.

The conditions of the properties are where the code promises less than one
may expect. `StoredUnlessTaken` has an exception because the same text indexed
under a second matter takes its chunks away from the first. `ReadsBack` wants the
source sent once or always alike, because the chunks of an earlier version stay
behind and are read back among the new ones. A search knows the one handle it was
given; a document indexed under the other handle of the matter is no evidence.

### Chunks

`Chunking` is `chunker.py` as functions: `GroupConsecutive` joins the segments
of one speaker or paragraph, `Sentences` cuts after `.`, `!` and `?`, and `Pack`
is one round of the loop, with the chunk that is open and its count. A text is a
sequence of words that each have a position, so that a lost, repeated or
displaced word shows; white space is not kept. `SplitExact`, in `CorpusIndex`,
holds the result against a definition without a loop (`Greedy`): the chunks put
together are the text (an empty text is one empty chunk; no segment is blank), each consists of whole sentences, one above the limit is
a single sentence, and none has room for the sentence that follows it. It is
checked in the first state of the run `corpus`, over every text of up to 6 words
with every choice of sentence ends, every limit up to 3 and every cut in two
segments of one or of two keys. Six words hold a full chunk, an oversized
sentence and the chunk after it, which is what it takes to carry a count wrongly
from one to the next. The theorems of `ChunkingProofs` have no such bounds. In
`CorpusIndex` itself the chunks of a document are a constant.

### Token budgets

`TokenBudget` has what `TokenOptimizer` keeps (`Kept`), what a configured budget
must satisfy (`Accepted`), and how `analysis_service` reads the result
(`Optimized`): the first item is the transcript, the others are quotes.
`KeepsLongestPrefix`, in `AnalysisTasks`, says that exactly the prefixes within
the limit are kept, over lists of up to 4 items of up to 3 tokens and limits up
to 6, in the first state of the run `records`. What it means for an analysis is
part of `AnalysisTasks`.

## 6. Accounts and sessions

`db` is the set of committed rows of six tables, `rows[t]` what request `t` has
flushed. Rows are named after the request that creates them. A statement sees
committed rows; an INSERT into `users` waits for the transaction that holds
its email in the unique index (`EmailIndex`), one into `matters` for the one that
holds its number (`NumberIndex`), an UPDATE of a session row for the one that has
updated it (`HoldSession`).

The number of a new account's matter is the beginning of its user's UUID, so two
registrations may draw the same one. `register` answers an `IntegrityError` of
its flush with a 409 that speaks of the email, whichever index raised it; so does
`FlushAccount`. It takes both keys in one step: the rows of a flush are
inserted in an order the code does not set, and a key taken while the other is
awaited only makes more requests wait. Where two wait for each other's, PostgreSQL
fails one of them, which is `Fail`.

| step | code |
|---|---|
| `CheckEmail`, `FindOrg`, `FlushAccount`, `Audit` | `register`: two SELECTs, the flush of all rows, the audit event |
| `FindUser`, `Audit` or `AuditFailure`, `RefuseLogin` | `login` |
| `Authenticate` | `_verify_session_row`, for a logout and for any other request |
| `Revoke` | `logout`: the flag is tested on the row that `Authenticate` has read, which the session's identity map returns again |
| `Commit`, `Fail`, every refusal | `get_db`; the session row of a login is first written by the commit |
| `Expire`, `Disable` | the clock; an administrator |

The commit comes before the answer: dependencies with `yield` end before the
response is sent in the pinned FastAPI (`>=0.115,<0.116`), for a successful
endpoint. That is why `Answer` is part of `Commit`, and what makes
`LogoutTakesEffect` true.

`Registry` is what the requests amount to, with no statements: an account
appears with its organization, its session and its event in one step, a login
opens a session of an account with its event, a logout revokes one for good. An
email has one account and a request at most one. `Accounts` implements it
(`ImplementsRegistry`) without any condition, unlike the other two: the unique
index, and the fact that organizations and users are only ever added, make up
for what a statement cannot know of the transactions beside it.

| run | instance | shows |
|---|---|---|
| `accounts` | 2 registrations, 2 logouts, 2 emails, 2 organization names of which one is also the default one, 2 matter numbers, of which one registration draws either; 375 115 states | registrations implement `Registry`, only a taken email or number is refused, a committed organization is reused, everyone waiting is answered |
| `accounts_logout` | a registration, a login, 2 logouts, a visit, expiry and disabling; 1 421 367 states | logins and logouts implement `Registry`; a logout that is answered keeps later requests out |
| `accounts_failed` | a registration, a login | the third disagreement of section 12 |

Two registrations wait for each other, lose to each other or join each other;
a third would repeat one of these. Two logouts and a visit cover a session revoked
while used, revoked twice, and used after. `MaxExpired` and `MaxDisabled` bound
the moves of the clock and the administrator: none in `accounts`, where no
property is about them, a session and the one user in `accounts_logout`, where a
session matters to a property by itself.

## 7. Analyses

| variable | code |
|---|---|
| `analyses[a]` | the stored analysis: status, whether it has a summary, items |
| `jobs[a]` | the job record, behind `AnalysisJobPort` |
| `trail[a]` | audit rows of `a` |
| `task[t]` | how far a request or command is, its copy of the analysis, the prompt it built |

An item keeps its kind, level and citations; `sound` says whether the domain's
value objects take its texts and numbers. Analyses are named after the task that
makes them.

| step | code |
|---|---|
| `Analyze`, `Refuse` | `analyze_transcript` up to the service; the dependency that decodes the token |
| `RequestAnalysis` | `_request`: saved in the unit of work and enqueued, not yet committed |
| `ExecuteAnalysis`, `MarkRunning` | `_execute`, lookup outside the `try`, then `mark_running` |
| `Retrieve` | `begin_processing`, retrieval, optimizer |
| `ModelAnswers`, `ScanRules` | `generate` and `apply_result` |
| `ModelFails` | a `ProcessingError`: the endpoint starts anew with the rules, the command fails |
| `ModelMisleads` | JSON of the wrong shape, which raises something else |
| `DispatchEvents`, `CommitTask` | audit rows, and the commit that publishes them with the analysis |
| `SaveAnalysis`, `MarkCompleted`, `MarkFailed` | the end of `_execute`: unit of work, then job store |
| `DecideAnalysis` | approve, reject |
| `CallFails`, `Die` | a store's call fails; the process ends |

Assumed of the ports, which have no implementation in the repository: a unit of
work hands out a copy and stores it whole, and a job record is found by the id of
its analysis. The handler itself mixes two names (`enqueue` answers with
`job.job_id`, `_execute` marks `str(analysis_id)`), so this is what a store must do
for it to work at all.

The properties: `StoredIsSupported` (complete or empty, serious risks and
obligations cited, and every citation among what *one* generation was shown, after
the optimizer cut it; except that a generation for which the optimizer kept
nothing is sent an empty transcript, and may cite the transcript all the same); `AnalysesAudited` (an answered `/analyze` has left what it
should, an unanswered one nothing); `OutageHidden`; `JobTellsTruth` (how job record
and analysis may differ, and when); `DecisionsKept` (a decided analysis is replaced
only by a task that had looked it up before).

## 8. Case files

`stored[k]` is the committed aggregate of kind `k`, `command[c]` what the
process of a command holds: the copy it looked up (`base`), the one it will save
(`work`), or what it awaits a port for. A handler is a lookup with its checks
and changes, for processing, report and redline generation an await and the rest
of the changes, and `Save`. `Abandon` is every exception, refusal after an
await, and crash.

Every command of the handlers is an action; `MatterRules` and `FileRules` hold the
guards and changes of the aggregates. A check that a handler makes before an
await on its copy and one it makes after it are both on that copy, so they
are in the step that follows the await, as in the code.

The unit of work is a port (`ports/unit_of_work.py`) without an implementation
here. It is taken to hand out copies and to store an aggregate whole: the later
of two overlapping commands wins. That is the plainest reading of the
port's `save`, and the properties are about it: `OwnerRemains` holds because the
loser's change is lost entirely. A store that writes row by row would merge
two demotions, each of which sees the other owner remain. The tests' fake stores
hand out the stored object itself, which no two commands of a test share.

The properties: `OwnerRemains` and `FilesWhole` hold under every overlap;
`HoldFreezes` and `SettledStays` for every command that looked the aggregate up
after it was held or settled, since nothing in the handlers protects them from one
that looked it up before.

`CaseFile` has no copies: a version is processed, a transcript grows by a
segment, a change is decided, in one step and in the one order that the
aggregates allow. `CurrentSavesFollow` says that a save whose copy is still what
is stored is such a step, whatever has been overwritten before. Of all other
saves it says nothing: a stale one may undo what another command did. Where
every save is current (`CopyCurrent`, which a version number of the aggregates
would grant and nothing in the repository does), the handlers implement
`CaseFile` (`ImplementsCaseFile`, which is proved only).

Reduced: one aggregate of each kind (the commands of two kinds meet only in the
matter, which they read); a document is its versions, a transcript the number
of its segments, a report the number of its sections and its formats; whether a
report's analysis is approved is asked at its creation, of an analysis that is not
followed.

## 9. The run of records

`records` checks the audit chain, the analyses and the case files, which share no
variable, in one run: the initial state chooses a `side`, and only that side
moves. 391 470 states; about a minute and a half.

| side | instance |
|---|---|
| `chain` | section 4 |
| `analyses` | 4 tasks, the first of which makes the analysis and the others work on it, 2 at a time (`MaxOpen`); 4 answers (empty, cited, refused, citing what was not offered), searches with no hit or 2; no optimizer, a budget for the transcript and one quote, one that keeps nothing, and one that is refused; at most one failed call or crash |
| each kind | 2 overlapping commands, at most 5 commands on the kind, beside the creation of its organization and matter; 2 users as administrator, member or stranger, 2 names, texts of 0 to 2 passages, 7 drafts of which 3 are refused, 2 formats |

Why the bounds are enough: for analyses, a job needs its request, an execution,
a decision and an overlapping or second execution, four tasks; two analyses share
nothing. For case files every property relates one command to at most one other
that overlaps it; five commands are a creation, two changes that settle something
and two that overlap (generate, review, mark reviewed and export of a redline
after its creation). One fault suffices as each property's exception names one.

## 10. Fairness

`answered`, `corpus_answered` and `accounts` check liveness. In
`RedlineRequests`, `FairSpec` has weak fairness of `Progress(r)`, for each
request: the event loop and the database go on with a request they have started.
Nothing obliges a request to arrive, nor anything to fail: `Arrive` and
`Rollback` are not fair. A model call ends because the Ollama client has a
timeout (`ollama.timeout_seconds`), with an answer or an error, both of which
are in `Progress`. PostgreSQL wakes the waiters of a lock when its holder ends,
which weak fairness suffices for: all requests take job row before change row,
so a holder never waits for its waiter (`WaitsEnd`).

In `CorpusIndex` and `Accounts`, `FairSpec` has weak fairness of `Step(r)`: every
call is answered or times out at its client, so a request that was sent goes on.
That includes the failures the code runs into by itself, such as a refused
creation of the collection, but neither `ServiceFails`, `AnswerLost` nor `Fail`:
no failure is relied on. A registration waits for one that already holds the key
and a logout for one that holds the row; a holder waits for nobody.

Analyses and case files have safety properties only: their tasks and commands
never wait for each other.

All runs check for deadlock; a run is over when every request is
answered.

## 11. Proofs

Each theorem is about its specification as a whole, for every value of the
constants that their named assumptions allow.

### Redline requests

`RedlineProofs` (for any jobs, changes, users and requests):

| theorem | statement |
|---|---|
| `TypeCorrect` | `Spec => []TypeOK` |
| `RedlineInvariant` | `Spec => []RedlineInv` |
| `ReviewedJobsDecided` | `Spec => []ReviewedMeansAllDecided` |
| `DecisionsAudited` | `Spec => []DecisionAudited` |
| `DecidedForGood` | `Spec => NoChangeUndecided` (proved only; no run repeats it) |
| `DecisionsAreFinal` | `Spec => DecisionsFinal` |
| `GateInvariant` | `Spec => []GateInv` |
| `DecidedJobsReviewed` | `Spec => []AllDecidedMeansReviewed` |
| `SeenChangesDecided` | `Spec => ClosesOverUnseenOnly` |
| `TrailTallies` | `Spec => []AuditTallies` |
| `WaitsAlwaysEnd` | `Spec => []WaitsEnd` |
| `EndpointsImplementGate` | `UnracedSpec => ImplementsGate` |

None of the safety properties is inductive: `Commit` writes what a request
computed several steps earlier. `RedlineInv` therefore says of every open
request what it carries (`TxnShape`), that the changes it will insert are its
own (`FreshChanges`), and, the core, that *if nobody has overtaken it, what it
read is still true* (`CurrentView`). With `OpenWhilePending` (a pending change
means an open review, where nothing raced) this makes every commit of a request
that is not overtaken a step of the gate. The proof that it is inductive has one
lemma for steps that leave the tables alone (`QuietStep`) and one for commits
(`CommitStep`), where a request on the same job is overtaken and its
`CurrentView` becomes vacuous, and a request on another job keeps its view.

`GateInv` adds what a review has counted: whoever is about to close a job has
decided, in its view, everything it loaded (`ClosingView`), and a generation that
is open proposes what it may (`ProposalMade`). `TallyInv`, for `TrailTallies`,
adds that rows and decisions are finite sets and that a row names a request that
has committed, so that the row of a commit is new and adds one to both sides of
the count or to neither.

`LockInv`, for `WaitsEnd`, says who may hold a lock: a request in its flush that
holds its job row, or one that has flushed and may hold both. It is inductive by
itself; the proof needs of a step only which locks it takes or releases
(`LockStep`, `LocklessStep`, `ReleaseFrees`).

`ClosesOverUnseenOnly` was first stated of every commit that leaves a job
`reviewed`. The proof did not go through, and TLC refutes that statement with five
requests and three changes, out of the bounds of the run: a job that was raced on
is `reviewed` with changes pending, and a review of one of them that reads
`reviewed` writes no status and leaves the others pending. What the code keeps, and
what is now stated, is about reviews that turn the status to `reviewed`.

### The audit chain

`AuditChainProofs` (for any transactions, rows and ids):

| theorem | statement |
|---|---|
| `ChainTypeCorrect` | `Spec => []TypeOK` |
| `LinksAreCommitted` | `Spec => []LinksLeadToRows` |
| `ChainInvariant` | `Spec => []ChainInv` |
| `TrailVerifies` | `Spec => []VerifiesUnlessForked` |
| `VerificationExact` | `Spec => []VerifyExact` |
| `AnyTamperingEvident` | in a trail that verifies, whatever set of rows verifies in its place differs at the end only |
| `TamperingEvident` | `Spec => []TamperEvident` |

`ChainInv` has three parts. `LinksInv`: every link a transaction holds or has
built on is *anchored* in a committed row or in one of its own; a rollback
discards the link with the rows, so nothing anchored in it survives. `IdsUnique`:
the verification breaks ties by id, so two rows of one id would have no order.
`TailInv`: as long as nothing forked, a writer that is neither overtaken nor blind
has its rows, and the row it is about to add, behind everything committed
(`AtTheTail`). `VerifiesUnlessForked` is not inductive without it, since a commit
publishes rows whose place was chosen when the chain was read.

`AnyTamperingEvident` is about every set of rows of the table's type, so any number
of rows changed, dropped or added at once; `TamperingEvident` is the case of one row
that TLC checks. The argument goes down the chain: a row that is left pins its
`prev_hash`, hence the content of the row before it, and so on to the genesis.

That an accepted trail is linear, and that such a row pins all before it,
are statements about whole chains. Where one would argue by induction over `seq`,
the proofs take the least `seq` at which the claim fails (`Least`, from the
well-foundedness of the naturals) and find a contradiction at its predecessor.

### The corpus

`CorpusProofs` (for any requests, handles, documents and page sizes):

| theorem | statement |
|---|---|
| `TypeCorrect` | `Spec => []TypeOK` |
| `TextIsOwn` | `Spec => []OwnText` |
| `StoredStays` | `Spec => []StoredUnlessTaken` |
| `SetupSettles` | `Spec => []SetupSettled` |
| `ReadInvariant` | `Spec => [](TypeOK /\ StoreInv /\ ReadInv)` |
| `DocumentsReadBack` | `Spec => []ReadsBack` |
| `CatalogueImplemented` | `OnceSpec /\ [](OnePage /\ uploads = {}) => ImplementsCatalogue` |

`OwnText` and `StoredUnlessTaken` follow from `StoreInv`: every point is due to a
request that is done writing and that sent that chunk under that handle
(`Writers`), and the chunks of a successful request are among the points. It is
needed because a hit is a fact about the index at some earlier step, and the
index only keeps the last handle: the invariant keeps who sent it. `SetupInv`
says that a collection that is there stays, so that no request sent since goes
to create it.

`ReadInv` follows a read through its pages: of a document it is owed (`Owed`), it
has nothing before the turn of the document's handle, and then all chunks that its
scroll has gone past (`ScrollInv`). `ReadsBack` alone says nothing before the read
has ended. The answer is in order because sorting chunks of different positions
by position yields the document (`JoinedChunks`).

`CatalogueInv` is what the refinement needs: a source is stored whole or not at
all, points that were there when a read began are still there, and a read that is
done with a handle has seen none of its source under it. The theorem's
hypotheses are those of the run, source ids used once (`OnceSpec`), one page, no
uploads, and each is needed: a source sent twice mixes its versions, a read of
several pages that another request adds to returns a part of a document, and an
upload is preferred to the index, which the catalogue does not know.

### Chunks

`ChunkingProofs` (for texts of any length, any limit, any number of segments):

| theorem | statement |
|---|---|
| `SentencesCutText` | the sentences of a text are not empty and put together are the text |
| `SplitIsGreedy` | the chunks of a text that is not blank are `Greedy` under its limit |
| `SegmentsAreChunked` | segments, none of them blank, are chunked run by run of one key, each run as one text |
| `SplitsAnywhere` | a text in two segments, cut anywhere, is split as `SplitsAt` says |
| `SplitsAreExact` | `Spec => []SplitExact` |

The loops of the chunker are folds, and a fact about a fold would be an
induction over the sequence, for which the library's theorem takes the invariant
as a parameter. `FoldProofs` has the operation and the invariant as constants of
a module instead, `Op` and `Inv`, and proves once (`FoldInduction`) that what
holds of the start and is kept by every round holds at the end; the induction
inside is an argument on the least number of rounds after which it would fail.
Each loop is then one `INSTANCE FoldProofs WITH`. The invariants are the loops'
own: what is closed is whole sentences, greedily taken, and what is open is a
run of sentences whose words have been counted (`Packed`); neighbouring groups
differ in their keys and hold the words read so far (`Grouped`).

### Accounts

`AccountsProofs` (for any requests, emails and organization names):

| theorem | statement |
|---|---|
| `EmailsUnique` | `Spec => []OneAccountPerEmail` |
| `LogoutHolds` | `Spec => []LogoutTakesEffect` |
| `AccountInvariant` | `Spec => [](Shape /\ AccountInv)` |
| `AccountsAreWhole` | `Spec => []AccountsWhole` |
| `SessionsAreAudited` | `Spec => []SessionsAudited` |
| `OnlyTakenAreRefused` | `Spec => []OnlyTakenRefused` |
| `OrganizationsAreReused` | `Spec => []OrganizationsReused` |
| `AccountsTyped` | `Spec => []TypeOK` |
| `RegistryImplemented` | `Spec => ImplementsRegistry` |

`OneAccountPerEmail` is not inductive, since a commit publishes rows that were
checked at the flush: `EmailsApart` adds that no uncommitted row has the email of
any other row, which is what the unique index grants. `LogoutInv` adds to
`LogoutTakesEffect` that an answered logout has its flag committed, and that no
request that arrived after it has passed the check.

`AccountInv` says of every request what it has found and flushed at each of its
statements (`RegistrationInv`, `LoginInv`, `SessionInv`), so that a commit
publishes a whole account with its event and a login's session its event, and
nothing between. `OrganizationInv` carries `OrganizationsReused` over the
registration's lookup: one that is answered has left an organization of its name
committed, so one that arrives afterwards finds it, which is to be known until
its own commit.

For `RegistryImplemented` every step but a commit is a stutter
(`OnlyCommitsSeen`), and a commit is `Register`, `Login` or `Logout` by what it
adds (`CommitAdds`). The guards of the registry are facts about the moment of
the commit: the email is free because of `EmailsApart`, what was found is there
because of `AccountInv`, and the id is new because committed rows are named
after requests that have been answered (`IdsUsed`). `AccountsWhole`,
`OneAccountPerEmail`, `SessionsAudited` and `TypeOK` are proved and no longer
repeated by a run: TLC checks the refinement, which fails where one of the first
three does.

### Analyses

`AnalysisProofs` (for any tasks, answers, hits, budgets and faults):

| theorem | statement |
|---|---|
| `AnalysisInvariantHolds` | `AnalysisSpec => []AnalysisInv` |
| `OutagesHidden` | `AnalysisSpec => []OutageHidden` |
| `AnswersAreAudited` | `AnalysisSpec => []AnalysesAudited` |
| `StoredAreSupported` | `AnalysisSpec => []StoredIsSupported` |
| `JobsTellTruth` | `AnalysisSpec => []JobTellsTruth` |
| `DecisionsAreKept` | `AnalysisSpec => DecisionsKept` |
| `KeptIsLongestPrefix` | the optimizer keeps the longest prefix within its limit, of any list |
| `PrefixesKept` | `AnalysisSpec => []KeepsLongestPrefix` |
| `PromptsFit` | a prompt fits its budget, and one more result would not have |
| `AnalysesTyped` | `AnalysisSpec => []AnalysisTypeOK` |

`AnalysisInv` has five parts. `LocalsOK` is what a task can hold at each stage.
`Owned` ties an analysis, its job and its audit rows to the one task that made
them. `Finds`: what an open task works on is still there, with its job. `JobsOK` is
`JobTellsTruth` with the executions it speaks of identified. `Backed`: the prompt
that supports an analysis stays with a task after that task has ended; a
decision carries an older copy, whose support must have survived as well. It is
needed because a stored analysis may be older than the last execution of it.

`KeptIsLongestPrefix` treats the optimizer's loop as those of the chunker, with
`FoldProofs`; `PromptsFit` and the sequences in `AnalysisTypeOK` follow from it
and from `SizesAssumption` (sizes and budgets are natural numbers).

### Case files

`CaseFilesProofs` (for any users, names, texts, drafts and commands):

| theorem | statement |
|---|---|
| `FilesInvariantHolds` | `FilesSpec => []FilesInvariant` |
| `FilesTypeCorrect` | `FilesSpec => []FilesTypeOK` |
| `EveryMatterOwned` | `FilesSpec => []OwnerRemains` |
| `FilesAreWhole` | `FilesSpec => []FilesWhole` |
| `HoldsFreeze` | `FilesSpec => HoldFreezes` |
| `SettledStaysSettled` | `FilesSpec => SettledStays` |
| `SavesFollow` | `FilesSpec => CurrentSavesFollow` |
| `FilesImplementCaseFile` | `CurrentSpec => ImplementsCaseFile` |

What is stored is what some command computed from what it looked up. So
`FilesInvariant` says that stored aggregates fit their state (`StoredFit`), that a
command holds a fitting copy and a change of it that keeps what that copy had
settled (`CommandsSound`), and that whoever creates an aggregate is alone
(`OneCreator`). There is one lemma for each handler's commands and one for
each continuation after an await. `HoldFreezes` and `SettledStays` follow since a
save is the only step that changes `stored` (`OnlySaves`).

For the refinement, a sound command's change is one that the case file allows
from the copy it looked up (`Follows`, a part of `Sound`), and nothing is filed
unless there is a matter (`UnderMatter`): `CaseFile` wants both at the save, and
the command has seen them at its lookup, awaits ago. A matter once stored stays,
and a current copy is what is stored, so both are still true.

### What the proofs rest on, and what they do not reach

The proofs use the named assumptions of the modules and nothing else. Every
inductive invariant that the proofs take from a model (`RedlineInv`, `GateInv`,
`TallyInv`, `ChainInv`, `StoreInv`, `ReadInv`, `CatalogueInv`, `AccountInv`,
`OrganizationInv`, `LockInv` and so on) was first checked by TLC on the instance
of a run.

Every safety property of a passing run is proved. Checked by TLC only:
`RequestsAnswered` and both `Answered`, since liveness under fairness is out of the
prover's reach. What is proved of `RequestsAnswered` is `WaitsEnd`; that nobody
refuses to go on is the fairness assumed.

Conditional refinements: `EndpointsImplementGate` needs that nobody is overtaken,
`CatalogueImplemented` that sources are sent once and one page suffices,
`FilesImplementCaseFile` that copies are current. None of these is granted by the
code; what survives without them is what the unconditional theorems say.

## 12. Where the code and its documents disagree

| run | statement | what happens |
|---|---|---|
| `final` | "Change has already been reviewed" | two overlapping reviews of one change both succeed; the change carries the later decision, the audit trail has both |
| `audit_seq` | "seq is monotonic across the whole table" | concurrent appends share a seq, and the trail no longer verifies |
| `accounts_failed` | "attributable failures emit [...] auth.login_failed" | the row is rolled back by the exception that follows it |

The passing runs show the other half: which guarantees survive this, and what it
takes to lose the rest. Their conditions name further places where the code does
less than one may expect:

- `ReviewedMeansAllDecided` excludes raced jobs: a review that overlaps a second
  generation closes the job over the new changes.
- `AllDecidedMeansReviewed` does too: the last two reviews of a job, overlapping,
  each see the other's change pending and leave the job `completed` for good.
- `ReviewGate!Propose` permits any number of proposals: `generate_redline` builds a
  fresh draft per call, so the guard "job is not in draft status" never refuses
  (known as F-7 in `docs/testing`).
- `VerifiesUnlessForked` excludes blind writers: a failed read of the chain is
  taken for an empty one and starts a second chain at the genesis.
- The corpus: see the end of section 5.
- `TamperEvident` excepts the end of the trail, which nothing pins.
- `StoredIsSupported` excepts prompts with no room for anything: the model is sent
  an empty transcript and "transcript" stays a citation it may use.
- `OnlyTakenRefused` includes taken matter numbers: the 409 speaks of the email.
- `OutageHidden` excepts answers that the domain refuses: `/analyze` catches
  `ProcessingError` only, though its docstring promises a usable 200.
- `JobTellsTruth` lets a job be `failed` over a stored analysis, when the call that
  would mark it completed fails, and `queued` without one, before the commit of its
  request or after that fails.
- `DecisionsKept`, `HoldFreezes` and `SettledStays` except commands that overlap.
- `CanClose` accepts a redline without changes, which `RedlineReviewWorkflow.finalize`
  refuses; no handler calls `finalize`.
- `GenerateReport` does not ask whether the analysis is approved, as `CreateReport`
  does.
- A change without a type becomes `SUBSTITUTION` in `ollama_redline.py`, which is no
  `ChangeType`: the draft that the default was to save is refused (`Acceptable`).

## 13. What is not modelled

Text beyond words and passages, embedding vectors and scores, passwords and
tokens (access and refresh tokens are checked without state), hashes as numbers,
prompts of the model, PDF layout, HTTP details, settings. Deletion of users (a soft
flag) and of matters (no endpoint). Statement-level failures of PostgreSQL other
than losing the transaction. Queries and read-only endpoints, which change nothing.

- *ORM repositories*: no endpoint and no handler uses them (the handlers know the
  domain's repository ports, the endpoints their session); their own hazard, two
  versions of a document under one number, is therefore out of reach.
- *Extraction, PDF, mappers, settings, website*: no state; *lifecycle and
  middleware*: hooks that run once and in sequence, headers and logging.

## 14. Plan

Done: the redline requests and their gate, the audit chain, the corpus with its
chunks, token budgets, accounts and their registry, analyses, and the case files
with every command handler and the case file they implement. Every safety
property is proved.

Left: `RedlineRequests` composed with `AuditChain` at the commit, so that a decision
and the link of the row that attributes it are published by one step.
