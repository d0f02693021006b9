-------------------------- MODULE RedlineRequests ---------------------------
(***************************************************************************)
(* The redline endpoints of app/api/v1/redline.py as the concurrent        *)
(* database transactions they are.  get_db opens one session per request   *)
(* and commits it after the endpoint returns, so every request reads rows  *)
(* in separate READ COMMITTED statements, decides in memory, and writes at *)
(* its flush with nothing but the row locks of its UPDATEs to order it     *)
(* against the others: there is no SELECT ... FOR UPDATE and no version    *)
(* column, and the last writer of a column wins.                           *)
(*                                                                         *)
(* A request is one element of Requests.  Its control state is pc[r]:      *)
(*   idle -> reading  (a review that has read its job row)                 *)
(*        -> thinking (a generation awaiting retrieval and the LLM)        *)
(*        -> flushing (outcome computed in memory, nothing written yet)    *)
(*        -> jobDone  (the job row is written, if it had to be)            *)
(*        -> flushed  (all rows written, the transaction still open)       *)
(*        -> committed, or failed (refused, or rolled back)                *)
(***************************************************************************)
EXTENDS FiniteSets

CONSTANTS Jobs,           \* redline job ids
          Changes,        \* change ids; each is proposed at most once (uuid4)
          JobOf,          \* JobOf[c]: the job whose generation proposes c
          Requests,       \* the HTTP requests of the run
          Users,          \* user accounts
          Role,           \* Role[u]: the matter role of u, "none" if no member
          ProposalSizes,  \* how many changes a generation may return
          NoChange,       \* the request names no change
          NoToken,        \* the request carries no token
          Nobody,         \* no user: a change nobody has decided
          Free,           \* a row lock nobody holds
          NoTxn           \* a request with no open transaction

\* The matter roles of MatterMemberRole; "none" is a user outside the matter.
EditRoles == {"owner", "editor"}
Roles == EditRoles \union {"viewer", "none"}

ASSUME IdsAssumption == JobOf \in [Changes -> Jobs]

\* Every matter has a member with an edit role: matters are created with one
\* (auth.py makes the registrant EDITOR of the starter matter, and the seed
\* script and the matter aggregate start every matter with one).
ASSUME MembersAssumption ==
  /\ Role \in [Users -> Roles]
  /\ \E u \in Users : Role[u] \in EditRoles

ASSUME SentinelsAssumption ==
  /\ NoChange \notin Changes
  /\ NoToken \notin Users
  /\ Nobody \notin Users
  /\ Free \notin Requests

VARIABLES
  status,      \* committed redline_jobs.status
  review,      \* committed redline_changes.review_status
  decidedBy,   \* committed redline_changes.approved_by_id
  audit,       \* committed audit rows, without their chain links
  jobLock,     \* the request whose open transaction updated a job row
  changeLock,  \* the request whose open transaction updated a change row
  pc,          \* control state of each request
  txn          \* what each open request has read and will write

\* History variables: no code reads or writes them.
VARIABLES
  overtaken,   \* open requests behind whose back another one committed
  raced        \* jobs on which an overtaken request has committed

rows == <<status, review, decidedBy, audit>>
locks == <<jobLock, changeLock>>
history == <<overtaken, raced>>
vars == <<rows, locks, pc, txn, history>>

-----------------------------------------------------------------------------
(* Types *)

JobStatus == {"absent", "pending", "completed", "reviewed"}
ReviewState == {"absent", "pending", "approved", "rejected"}
Decisions == {"approve", "reject"}
Operations == Decisions \union {"create", "generate"}
AuthModes == {"token", "anonymous"}

Txns ==
  [op     : Operations,
   job    : Jobs,
   change : Changes \union {NoChange},   \* the change under review
   actor  : Users,
   auth   : AuthModes,
   seen   : JobStatus,        \* job.status as loaded
   next   : JobStatus,        \* job.status at the flush
   loaded : SUBSET Changes,   \* job.changes as a review loaded them
   new    : SUBSET Changes]   \* the changes a generation inserts

AuditRows ==
  [request : Requests, type : Operations, job : Jobs,
   actor : Users, auth : AuthModes]

InFlight(r) == pc[r] \in {"reading", "thinking", "flushing", "jobDone", "flushed"}

ChangesOf(j) == {c \in Changes : JobOf[c] = j}

\* The change rows of job j that a statement sees now.
RowsOf(j) == {c \in ChangesOf(j) : review[c] # "absent"}

\* Fault: the operation's name stored instead of the enum value.
VerdictRaw(op) == op

\* ReviewStatus.APPROVED / REJECTED for the two values of request.approve.
Verdict(op) == IF op = "approve" THEN "approved" ELSE "rejected"

-----------------------------------------------------------------------------
(* Identity and access *)

\* Owner, else editor, else viewer.
DefaultUser ==
  LET members(role) == {u \in Users : Role[u] = role}
  IN CHOOSE u \in Users :
       \/ Role[u] = "owner"
       \/ Role[u] = "editor" /\ members("owner") = {}
       \/ Role[u] = "viewer" /\ members("owner") = {} /\ members("editor") = {}

\* The user a request acts as, and the auth mode its audit row records.
Actor(token) == IF token = NoToken THEN DefaultUser ELSE token
AuthMode(token) == IF token = NoToken THEN "anonymous" ELSE "token"

\* Fault: any user may do anything.
AdmittedAnyone(op, token) == TRUE

\* A generation asks for no role (allowed_roles=None); the other mutations ask
\* the token's user for an edit role, and nothing of a request without a token.
Admitted(op, token) ==
  token # NoToken /\ op # "generate" => Role[token] \in EditRoles

-----------------------------------------------------------------------------
(* The requests *)

Init ==
  /\ status = [j \in Jobs |-> "absent"]
  /\ review = [c \in Changes |-> "absent"]
  /\ decidedBy = [c \in Changes |-> Nobody]
  /\ audit = {}
  /\ jobLock = [j \in Jobs |-> Free]
  /\ changeLock = [c \in Changes |-> Free]
  /\ pc = [r \in Requests |-> "idle"]
  /\ txn = [r \in Requests |-> NoTxn]
  /\ overtaken = {}
  /\ raced = {}

\* A request for job j and change c passes its identity checks with its
\* token, and its transaction opens in control state at.
Open(r, op, j, c, token, at) ==
  /\ pc[r] = "idle"
  /\ Admitted(op, token)
  /\ pc' = [pc EXCEPT ![r] = at]
  /\ txn' = [txn EXCEPT ![r] =
       [op |-> op, job |-> j, change |-> c,
        actor |-> Actor(token), auth |-> AuthMode(token),
        seen |-> status[j],
        next |-> IF op = "create" THEN "pending" ELSE status[j],
        loaded |-> {}, new |-> {}]]
  /\ UNCHANGED <<rows, locks, history>>

\* POST /redlines/ and POST /redlines/upload: the job id is a fresh uuid, so
\* no row and no other open transaction has it.
CreateRedline(r, j, token) ==
  /\ status[j] = "absent"
  /\ \A q \in Requests : InFlight(q) => txn[q].job # j
  /\ Open(r, "create", j, NoChange, token, "flushing")

\* POST /redlines/{id}/generate, up to its first await on the outside world.
GenerateRedline(r, j, token) ==
  /\ status[j] # "absent"
  /\ Open(r, "generate", j, NoChange, token, "thinking")

\* POST /redlines/{id}/review: the SELECT of the job row.  The client knows
\* the change id from an answer, so the change is committed by now.
ReviewRedline(r, op, j, c, token) ==
  /\ op \in Decisions
  /\ status[j] # "absent"
  /\ review[c] # "absent"
  /\ Open(r, op, j, c, token, "reading")

\* 401 for an invalid token or an unknown user, 403 for a user without the
\* role, 404 for an unknown matter, job, document or change, 409 for a matter
\* without members, 422 for a malformed or unreadable input.
Refuse(r) ==
  /\ pc[r] = "idle"
  /\ pc' = [pc EXCEPT ![r] = "failed"]
  /\ UNCHANGED <<rows, locks, txn, history>>

\* Faults: the 409 check of an already decided change is dropped; any
\* decision closes the review; the pending changes are counted before the
\* decision is applied.
DecidableUnchecked(t) == t.change \in RowsOf(t.job)
ClosesAlways(t) == TRUE
ClosesCountedEarly(t) == \A c \in RowsOf(t.job) : review[c] # "pending"

\* The change under review belongs to the job (else 404) and is still pending
\* (else 409).
Decidable(t) == t.change \in RowsOf(t.job) /\ review[t.change] = "pending"

\* With this decision no loaded change is pending any more.
Closes(t) == \A c \in RowsOf(t.job) \ {t.change} : review[c] # "pending"

\* The second SELECT of a review loads the job's changes; the decision and
\* the new job status are computed from what this statement saw.
LoadChanges(r) ==
  LET t == txn[r]
  IN /\ pc[r] = "reading"
     /\ Decidable(t)
     /\ pc' = [pc EXCEPT ![r] = "flushing"]
     /\ txn' = [txn EXCEPT ![r] =
          [t EXCEPT !.loaded = RowsOf(t.job),
                    !.next = IF Closes(t) THEN "reviewed" ELSE @]]
     /\ UNCHANGED <<rows, locks, history>>

\* A change id that a uuid4 can still turn out to be.
Unused(c) ==
  /\ review[c] = "absent"
  /\ \A q \in Requests : InFlight(q) => c \notin txn[q].new

\* The LLM answered and its proposal validated: the session now holds one new
\* pending change per proposed one, and the job becomes COMPLETED.
FinishGeneration(r) ==
  /\ pc[r] = "thinking"
  /\ \E new \in SUBSET ChangesOf(txn[r].job) :
       /\ Cardinality(new) \in ProposalSizes
       /\ \A c \in new : Unused(c)
       /\ txn' = [txn EXCEPT ![r] =
            [txn[r] EXCEPT !.new = new, !.next = "completed"]]
  /\ pc' = [pc EXCEPT ![r] = "flushing"]
  /\ UNCHANGED <<rows, locks, history>>

\* The flush writes the job row first, and only when its status changed from
\* the loaded one; the UPDATE waits for another open transaction's.
WriteJob(r) ==
  LET t == txn[r]
      dirty == t.next # t.seen
  IN /\ pc[r] = "flushing"
     /\ dirty => jobLock[t.job] = Free
     /\ jobLock' = IF dirty THEN [jobLock EXCEPT ![t.job] = r] ELSE jobLock
     /\ pc' = [pc EXCEPT ![r] = "jobDone"]
     /\ UNCHANGED <<rows, changeLock, txn, history>>

\* Then it writes the change rows: a decided one is UPDATEd, new ones are
\* INSERTed.  The audit row is read from and added to the same transaction.
WriteChanges(r) ==
  LET t == txn[r]
      dirty == t.op \in Decisions
  IN /\ pc[r] = "jobDone"
     /\ dirty => changeLock[t.change] = Free
     /\ changeLock' =
          IF dirty THEN [changeLock EXCEPT ![t.change] = r] ELSE changeLock
     /\ pc' = [pc EXCEPT ![r] = "flushed"]
     /\ UNCHANGED <<rows, jobLock, txn, history>>

\* Fault: the session is dropped with its transaction still open.
ReleaseNothing(r) ==
  /\ UNCHANGED locks
  /\ txn' = [txn EXCEPT ![r] = NoTxn]

\* The end of request r, however it ends: its row locks are released.
Release(r) ==
  /\ jobLock' = [j \in Jobs |-> IF jobLock[j] = r THEN Free ELSE jobLock[j]]
  /\ changeLock' =
       [c \in Changes |-> IF changeLock[c] = r THEN Free ELSE changeLock[c]]
  /\ txn' = [txn EXCEPT ![r] = NoTxn]

\* get_db commits after the endpoint has returned.
Commit(r) ==
  LET t == txn[r]
      decides(c) == t.op \in Decisions /\ c = t.change
  IN /\ pc[r] = "flushed"
     /\ status' = [status EXCEPT ![t.job] = IF t.next # t.seen THEN t.next ELSE @]
     /\ review' = [c \in Changes |-> IF decides(c) THEN Verdict(t.op)
                                     ELSE IF c \in t.new THEN "pending"
                                     ELSE review[c]]
     /\ decidedBy' =
          [c \in Changes |-> IF decides(c) THEN t.actor ELSE decidedBy[c]]
     /\ audit' = audit \union {[request |-> r, type |-> t.op, job |-> t.job,
                                actor |-> t.actor, auth |-> t.auth]}
     /\ overtaken' = (overtaken \union
                        {q \in Requests : InFlight(q) /\ txn[q].job = t.job}) \ {r}
     /\ raced' = IF r \in overtaken THEN raced \union {t.job} ELSE raced
     /\ pc' = [pc EXCEPT ![r] = "committed"]
     /\ Release(r)

\* Any exception, a 4xx/5xx of the endpoint or a lost connection or worker:
\* get_db rolls everything back.
Rollback(r) ==
  /\ InFlight(r)
  /\ pc' = [pc EXCEPT ![r] = "failed"]
  /\ overtaken' = overtaken \ {r}
  /\ Release(r)
  /\ UNCHANGED <<rows, raced>>

\* Errors that take their turn without outside help: the 404 or 409 of a
\* review whose change is not decidable, and the 503 or 422 of a generation
\* whose model call failed, timed out or answered with invalid output.
GiveUp(r) ==
  /\ \/ pc[r] = "reading" /\ ~Decidable(txn[r])
     \/ pc[r] = "thinking"
  /\ Rollback(r)

Arrive(r) ==
  \/ Refuse(r)
  \/ \E j \in Jobs, token \in Users \union {NoToken} :
       \/ CreateRedline(r, j, token)
       \/ GenerateRedline(r, j, token)
       \/ \E op \in Decisions, c \in Changes : ReviewRedline(r, op, j, c, token)

\* What an open request does next if nothing outside makes it fail.
Progress(r) ==
  \/ LoadChanges(r)
  \/ FinishGeneration(r)
  \/ WriteJob(r)
  \/ WriteChanges(r)
  \/ Commit(r)
  \/ GiveUp(r)

\* Every request has been answered: the run is over.
AllAnswered ==
  /\ \A r \in Requests : pc[r] \in {"committed", "failed"}
  /\ UNCHANGED vars

Next ==
  \/ \E r \in Requests : Arrive(r) \/ Progress(r) \/ Rollback(r)
  \/ AllAnswered

Spec == Init /\ [][Next]_vars

\* The event loop and the database keep serving a request they started; no
\* request has to arrive, and nothing has to fail.
Fairness == \A r \in Requests : WF_vars(Progress(r))

FairSpec == Spec /\ Fairness

\* The same system when no request commits behind another one's back, as if
\* clients waited for each other's answers (or the job row had a version).
UnracedNext == Next /\ raced' = {}
UnracedSpec == Init /\ [][UnracedNext]_vars

-----------------------------------------------------------------------------
(* Properties *)

TypeOK ==
  /\ status \in [Jobs -> JobStatus]
  /\ review \in [Changes -> ReviewState]
  /\ decidedBy \in [Changes -> Users \union {Nobody}]
  /\ audit \subseteq AuditRows
  /\ jobLock \in [Jobs -> Requests \union {Free}]
  /\ changeLock \in [Changes -> Requests \union {Free}]
  /\ pc \in [Requests -> {"idle", "reading", "thinking", "flushing", "jobDone",
                          "flushed", "committed", "failed"}]
  /\ txn \in [Requests -> Txns \union {NoTxn}]
  /\ \A r \in Requests : InFlight(r) => txn[r] \in Txns
  /\ overtaken \subseteq Requests
  /\ raced \subseteq Jobs

Decided(c) == review[c] \in {"approved", "rejected"}

\* Who decided a change and how is what the audit trail says: for every
\* decided change there is an audit row of that decision on its job by the
\* user the change row names, and that user may edit the matter.  Holds under
\* any interleaving, because row and audit row commit together.
DecisionAudited ==
  \A c \in Changes : Decided(c) =>
    \E a \in audit :
      /\ Verdict(a.type) = review[c] /\ a.type \in Decisions
      /\ a.job = JobOf[c]
      /\ a.actor = decidedBy[c]
      /\ Role[a.actor] \in EditRoles

\* A "reviewed" job has no pending change ("Complete the review once every
\* proposed change has been decided", RedlineReviewWorkflow.finalize).
ReviewClosed(j) ==
  status[j] = "reviewed" => \A c \in ChangesOf(j) : review[c] # "pending"

\* The review of a job is closed only when every change is decided, unless a
\* request on the job committed behind another one's back.
ReviewedMeansAllDecided == \A j \in Jobs \ raced : ReviewClosed(j)

\* The converse: the decision that leaves nothing pending closes the review,
\* as tests/api/test_redline_no_token.py expects of a one-change job.
ReviewCloses(j) ==
  /\ RowsOf(j) # {}
  /\ \A c \in RowsOf(j) : Decided(c)
  => status[j] = "reviewed"

\* No job is left "completed" with nothing to decide, unless it was raced on
\* or a generation may return no change at all (a second, empty generation on
\* a reviewed job reopens it for good).
AllDecidedMeansReviewed ==
  0 \notin ProposalSizes => \A j \in Jobs \ raced : ReviewCloses(j)

DecisionRows(j, op) == {a \in audit : a.job = j /\ a.type = op}

\* An audit row names the job and not the change, so an auditor can only
\* count: the chain holds as many approvals and rejections of a job as it has
\* approved and rejected changes, unless requests on it raced.
AuditTallies ==
  \A j \in Jobs \ raced, op \in Decisions :
    Cardinality(DecisionRows(j, op)) =
      Cardinality({c \in ChangesOf(j) : review[c] = Verdict(op)})

\* A decided change never becomes undecided, whatever runs concurrently.
NoChangeUndecided ==
  [][\A c \in Changes : Decided(c) => Decided(c)']_vars

\* A decision, and who took it, is final: 409 "Change has already been
\* reviewed" for everyone else, unless requests on the job raced.
DecisionsFinal ==
  [][\A c \in Changes :
       Decided(c) /\ JobOf[c] \notin raced'
         => review'[c] = review[c] /\ decidedBy'[c] = decidedBy[c]]_vars

\* Even a racing review closes a job only over changes it never loaded: every
\* change its SELECT returned is decided when it writes "reviewed".  A review
\* that read "reviewed" already, of a job that was raced on, writes no status
\* and may leave changes pending that it saw.
ClosesOverUnseenOnly ==
  [][\A r \in Requests :
       /\ Commit(r)
       /\ txn[r].op \in Decisions
       /\ txn[r].next = "reviewed" /\ txn[r].seen # "reviewed"
       => \A c \in txn[r].loaded : Decided(c)']_vars

\* r waits in its flush for a row that q has updated.
WaitsFor(r, q) == LET t == txn[r] IN
  \/ pc[r] = "flushing" /\ t.next # t.seen /\ jobLock[t.job] = q
  \/ pc[r] = "jobDone" /\ t.op \in Decisions /\ changeLock[t.change] = q

\* No requests wait for each other, and none for one that has ended: whoever
\* is waited for is being served, and if it waits itself, then for a request
\* that has only its commit before it.
WaitsEnd ==
  \A r, q \in Requests : WaitsFor(r, q) =>
    /\ InFlight(q)
    /\ \A p \in Requests : WaitsFor(q, p) => pc[p] = "flushed"

\* Every request the server has started is eventually answered: the row locks
\* are taken in one order, and every way out releases them.
RequestsAnswered ==
  \A r \in Requests : InFlight(r) ~> pc[r] \in {"committed", "failed"}

-----------------------------------------------------------------------------
(* The inductive invariant behind the safety properties *)

\* What open transaction r has read and computed at its control state.
TxnShape(r) == LET t == txn[r] IN
  /\ t.op = "create" =>
       /\ pc[r] \notin {"reading", "thinking"}
       /\ t.seen = "absent" /\ t.next = "pending" /\ t.new = {}
  /\ t.op = "generate" =>
       /\ pc[r] # "reading"
       /\ t.seen # "absent"
       /\ IF pc[r] = "thinking" THEN t.new = {} ELSE t.next = "completed"
       /\ t.new \subseteq ChangesOf(t.job)
  /\ t.op \in Decisions =>
       /\ pc[r] # "thinking"
       /\ t.seen # "absent" /\ t.new = {}
       /\ Role[t.actor] \in EditRoles
       /\ IF pc[r] = "reading" THEN t.next = t.seen
                                ELSE t.change \in RowsOf(t.job)

\* The changes of open generation r are its own and not yet visible.
FreshChanges(r) ==
  \A c \in txn[r].new :
    /\ review[c] = "absent"
    /\ \A q \in Requests \ {r} : InFlight(q) => c \notin txn[q].new

\* If nobody has overtaken r it still sees the committed state: the job's
\* status, and when it decides a change, that this is undecided and whether it
\* is the last one.
CurrentView(r) == LET t == txn[r] IN
  r \notin overtaken =>
    /\ t.seen = status[t.job]
    /\ t.op \in Decisions /\ pc[r] # "reading" =>
         /\ review[t.change] = "pending"
         /\ t.next = IF Closes(t) THEN "reviewed" ELSE t.seen

\* Where nothing raced, a job is open for review while a change is pending.
OpenWhilePending ==
  \A j \in Jobs \ raced : \A c \in ChangesOf(j) :
    review[c] = "pending" => status[j] = "completed"

RedlineInv ==
  /\ TypeOK
  /\ \A r \in Requests :
       InFlight(r) => TxnShape(r) /\ FreshChanges(r) /\ CurrentView(r)
  /\ OpenWhilePending

\* A generation that has its answer proposes as many changes as it may.
ProposalMade(r) ==
  txn[r].op = "generate" /\ pc[r] # "thinking" =>
    Cardinality(txn[r].new) \in ProposalSizes

\* A review that will close its job has seen every other change decided.
ClosingView(r) == LET t == txn[r] IN
  t.op \in Decisions /\ t.next = "reviewed" /\ t.seen # "reviewed" =>
    \A c \in t.loaded \ {t.change} : Decided(c)

\* Why the audit trail tallies: a request adds its one row when it commits.
TallyInv ==
  /\ \A a \in audit : pc[a.request] = "committed"
  /\ IsFiniteSet(audit)
  /\ IsFiniteSet({c \in Changes : Decided(c)})
  /\ AuditTallies

\* Who holds which row lock at which stage of its flush.
LockInv ==
  /\ \A j \in Jobs : jobLock[j] # Free =>
       pc[jobLock[j]] \in {"jobDone", "flushed"} /\ txn[jobLock[j]].job = j
  /\ \A c \in Changes : changeLock[c] # Free => pc[changeLock[c]] = "flushed"

\* What the review gate keeps beyond RedlineInv.
GateInv ==
  /\ \A r \in Requests : InFlight(r) => ProposalMade(r) /\ ClosingView(r)
  /\ AllDecidedMeansReviewed

-----------------------------------------------------------------------------
(* Refinement *)

Gate == INSTANCE ReviewGate

\* Without races the endpoints implement the atomic review gate: the commit of
\* a request is its one visible step.
ImplementsGate == Gate!GateSpec

-----------------------------------------------------------------------------
(* What documents and tests say, and overlapping requests do not keep *)

\* "Change has already been reviewed" (redline.py, rules.py): nobody decides a
\* decided change again.
EveryDecisionFinal ==
  [][\A c \in Changes : Decided(c) => review'[c] = review[c]]_vars

=============================================================================
