--------------------------- MODULE RedlineProofs ----------------------------
(***************************************************************************)
(* Proofs about RedlineRequests, for any number of jobs, changes, requests *)
(* and users.                                                              *)
(***************************************************************************)
EXTENDS RedlineRequests, FiniteSetTheorems, TLAPS

\* Whoever a request without a token acts as may edit the matter, because
\* every matter has a member who may (_default_matter_user).
LEMMA DefaultUserMayEdit ==
  DefaultUser \in Users /\ Role[DefaultUser] \in EditRoles
<1> DEFINE P(u) == \/ Role[u] = "owner"
                   \/ Role[u] = "editor" /\ {v \in Users : Role[v] = "owner"} = {}
                   \/ /\ Role[u] = "viewer"
                      /\ {v \in Users : Role[v] = "owner"} = {}
                      /\ {v \in Users : Role[v] = "editor"} = {}
<1>1. PICK e \in Users : Role[e] \in EditRoles
  BY MembersAssumption
<1>2. \E u \in Users : P(u)
  <2>1. CASE \E v \in Users : Role[v] = "owner"
    BY <2>1
  <2>2. CASE ~ \E v \in Users : Role[v] = "owner"
    BY <1>1, <2>2 DEF EditRoles
  <2> QED BY <2>1, <2>2
<1>3. DefaultUser = CHOOSE u \in Users : P(u)
  BY DEF DefaultUser
<1>4. DefaultUser \in Users /\ P(DefaultUser)
  BY <1>2, <1>3
<1>5. Role[DefaultUser] = "viewer" => FALSE
  BY <1>1, <1>4 DEF EditRoles
<1> QED BY <1>4, <1>5 DEF EditRoles

\* The actor of an admitted decision or creation may edit the matter.
LEMMA ActorMayEdit ==
  ASSUME NEW token \in Users \union {NoToken}
  PROVE  /\ Actor(token) \in Users
         /\ AuthMode(token) \in AuthModes
         /\ \A op \in Operations \ {"generate"} :
              Admitted(op, token) => Role[Actor(token)] \in EditRoles
BY DefaultUserMayEdit, SentinelsAssumption
   DEF Actor, AuthMode, AuthModes, Admitted, Operations, Decisions

-----------------------------------------------------------------------------
(* Type correctness *)

USE DEF InFlight

\* The two updates an open transaction's record gets.
LEMMA LoadedTxn ==
  ASSUME NEW t \in Txns, NEW S \in SUBSET Changes, NEW s \in JobStatus
  PROVE  [t EXCEPT !.loaded = S, !.next = s] \in Txns
BY Zenon DEF Txns

LEMMA GeneratedTxn ==
  ASSUME NEW t \in Txns, NEW S \in SUBSET Changes
  PROVE  [t EXCEPT !.new = S, !.next = "completed"] \in Txns
<1>1. "completed" \in JobStatus
  BY DEF JobStatus
<1> QED BY <1>1, Zenon DEF Txns

\* Every step keeps the types, and an open request has a transaction.
LEMMA TypeStep == TypeOK /\ [Next]_vars => TypeOK'
<1> SUFFICES ASSUME TypeOK, [Next]_vars PROVE TypeOK'
  OBVIOUS
<1> USE DEF TypeOK
<1>1. ASSUME NEW r \in Requests, Refuse(r) PROVE TypeOK'
  BY <1>1 DEF Refuse, rows, locks, history
<1>2. ASSUME NEW r \in Requests, NEW op \in Operations, NEW j \in Jobs,
             NEW c \in Changes \union {NoChange},
             NEW token \in Users \union {NoToken},
             NEW at \in {"reading", "thinking", "flushing"},
             Open(r, op, j, c, token, at)
      PROVE  TypeOK'
  <2>1. txn'[r] \in Txns
    BY <1>2, ActorMayEdit DEF Open, Txns, JobStatus
  <2> QED BY <1>2, <2>1 DEF Open, rows, locks, history
<1>3. ASSUME NEW r \in Requests, NEW j \in Jobs,
             NEW token \in Users \union {NoToken}, CreateRedline(r, j, token)
      PROVE  TypeOK'
  BY <1>2, <1>3 DEF CreateRedline, Operations
<1>4. ASSUME NEW r \in Requests, NEW j \in Jobs,
             NEW token \in Users \union {NoToken}, GenerateRedline(r, j, token)
      PROVE  TypeOK'
  BY <1>2, <1>4 DEF GenerateRedline, Operations
<1>5. ASSUME NEW r \in Requests, NEW op \in Decisions, NEW j \in Jobs,
             NEW c \in Changes, NEW token \in Users \union {NoToken},
             ReviewRedline(r, op, j, c, token)
      PROVE  TypeOK'
  BY <1>2, <1>5 DEF ReviewRedline, Operations
<1>6. ASSUME NEW r \in Requests, LoadChanges(r) PROVE TypeOK'
  <2> DEFINE t == txn[r]
             nxt == IF Closes(t) THEN "reviewed" ELSE t.next
  <2>a. t \in Txns
    BY <1>6 DEF LoadChanges
  <2>b. nxt \in JobStatus /\ RowsOf(t.job) \in SUBSET Changes
    BY <2>a DEF Txns, JobStatus, RowsOf, ChangesOf
  <2>c. txn'[r] = [t EXCEPT !.loaded = RowsOf(t.job), !.next = nxt]
    BY <1>6 DEF LoadChanges
  <2> HIDE DEF nxt
  <2>1. txn'[r] \in Txns
    <3>1. [t EXCEPT !.loaded = RowsOf(t.job), !.next = nxt] \in Txns
      BY ONLY <2>a, <2>b, LoadedTxn
    <3> QED BY ONLY <2>c, <3>1
  <2> QED BY <1>6, <2>1 DEF LoadChanges, rows, locks, history
<1>7. ASSUME NEW r \in Requests, FinishGeneration(r) PROVE TypeOK'
  <2>a. txn[r] \in Txns
    BY <1>7 DEF FinishGeneration
  <2>b. PICK new \in SUBSET Changes :
          txn'[r] = [txn[r] EXCEPT !.new = new, !.next = "completed"]
    BY <1>7 DEF FinishGeneration, ChangesOf
  <2>1. txn'[r] \in Txns
    <3>1. [txn[r] EXCEPT !.new = new, !.next = "completed"] \in Txns
      BY ONLY <2>a, GeneratedTxn
    <3> QED BY ONLY <2>b, <3>1
  <2> QED BY <1>7, <2>1 DEF FinishGeneration, rows, locks, history
<1>8. ASSUME NEW r \in Requests, WriteJob(r) PROVE TypeOK'
  BY <1>8 DEF WriteJob, rows, history
<1>9. ASSUME NEW r \in Requests, WriteChanges(r) PROVE TypeOK'
  BY <1>9 DEF WriteChanges, rows, history
<1>10. ASSUME NEW r \in Requests, Commit(r) PROVE TypeOK'
  <2>1. txn[r] \in Txns
    BY <1>10 DEF Commit
  <2>2. status' \in [Jobs -> JobStatus]
    BY <1>10, <2>1 DEF Commit, Txns
  <2>3. review' \in [Changes -> ReviewState]
    BY <1>10, <2>1 DEF Commit, Txns, Verdict, ReviewState
  <2>4. decidedBy' \in [Changes -> Users \union {Nobody}]
    BY <1>10, <2>1 DEF Commit, Txns
  <2>5. audit' \subseteq AuditRows
    BY <1>10, <2>1 DEF Commit, Txns, AuditRows
  <2>6. overtaken' \subseteq Requests /\ raced' \subseteq Jobs
    BY <1>10, <2>1 DEF Commit, Txns
  <2>7. /\ jobLock' \in [Jobs -> Requests \union {Free}]
        /\ changeLock' \in [Changes -> Requests \union {Free}]
    BY <1>10 DEF Commit, Release
  <2> QED BY <1>10, <2>2, <2>3, <2>4, <2>5, <2>6, <2>7 DEF Commit, Release
<1>11. ASSUME NEW r \in Requests, Rollback(r) PROVE TypeOK'
  BY <1>11 DEF Rollback, Release, rows
<1>12. CASE UNCHANGED vars
  BY <1>12 DEF vars, rows, locks, history
<1> QED
  BY <1>1, <1>3, <1>4, <1>5, <1>6, <1>7, <1>8, <1>9, <1>10, <1>11, <1>12
  DEF Next, Arrive, Progress, GiveUp, AllAnswered

\* Every variable keeps its type, and an open request has a transaction.
THEOREM TypeCorrect == Spec => []TypeOK
<1>1. Init => TypeOK
  BY DEF Init, TypeOK, JobStatus, ReviewState
<1> QED BY <1>1, TypeStep, PTL DEF Spec

-----------------------------------------------------------------------------
(* The inductive invariant *)

\* What RedlineInv says of one open request.
TxnInv(r) == InFlight(r) => TxnShape(r) /\ FreshChanges(r) /\ CurrentView(r)

\* A step of request r that commits nothing keeps the invariant if it keeps
\* what the invariant says of r: the other requests do not notice it.
LEMMA QuietStep ==
  ASSUME RedlineInv, TypeOK',
         NEW r \in Requests,
         UNCHANGED <<status, review, raced>>,
         overtaken' \in {overtaken, overtaken \ {r}},
         \A q \in Requests \ {r} : pc'[q] = pc[q] /\ txn'[q] = txn[q],
         TxnInv(r)'
  PROVE  RedlineInv'
<1>1. OpenWhilePending'
  BY DEF RedlineInv, OpenWhilePending, ChangesOf
<1>2. ASSUME NEW q \in Requests \ {r}, InFlight(q)'
      PROVE  TxnShape(q)' /\ FreshChanges(q)' /\ CurrentView(q)'
  <2>1. TxnShape(q) /\ FreshChanges(q) /\ CurrentView(q)
    BY <1>2 DEF RedlineInv
  <2>2. TxnShape(q)'
    BY <1>2, <2>1 DEF TxnShape, RowsOf, ChangesOf
  <2>3. FreshChanges(q)'
    BY <1>2, <2>1 DEF FreshChanges, TxnInv
  <2>4. CurrentView(q)'
    BY <1>2, <2>1 DEF CurrentView, Closes, RowsOf, ChangesOf
  <2> QED BY <2>2, <2>3, <2>4
<1> QED BY <1>1, <1>2 DEF RedlineInv, TxnInv

\* What the commit of r does to the change rows: it touches only its own job's.
LEMMA CommitWrites ==
  ASSUME RedlineInv, NEW r \in Requests, Commit(r)
  PROVE  LET t == txn[r] IN
         /\ t \in Txns /\ TxnShape(r) /\ FreshChanges(r) /\ CurrentView(r)
         /\ t.op \in Decisions =>
              /\ t.change \in RowsOf(t.job) /\ t.new = {}
              /\ review' = [review EXCEPT ![t.change] = Verdict(t.op)]
              /\ decidedBy' = [decidedBy EXCEPT ![t.change] = t.actor]
         /\ t.op \notin Decisions =>
              /\ review' = [c \in Changes |->
                              IF c \in t.new THEN "pending" ELSE review[c]]
              /\ decidedBy' = decidedBy
         /\ t.op = "create" => review' = review
         /\ t.new \subseteq ChangesOf(t.job)
         /\ \A c \in Changes \ ChangesOf(t.job) : review'[c] = review[c]
         /\ \A j \in Jobs \ {t.job} : status'[j] = status[j]
         /\ status'[t.job] = IF t.next # t.seen THEN t.next ELSE status[t.job]
<1> DEFINE t == txn[r]
<1>1. TypeOK /\ pc[r] = "flushed" /\ InFlight(r)
  BY DEF RedlineInv, Commit
<1>2. t \in Txns /\ TxnShape(r) /\ FreshChanges(r) /\ CurrentView(r)
  BY <1>1 DEF RedlineInv, TypeOK
<1>3. t.op \in Decisions => t.change \in RowsOf(t.job) /\ t.new = {}
  BY <1>1, <1>2 DEF TxnShape
<1>4. t.op \notin Decisions => t.op \in {"create", "generate"}
  BY <1>2 DEF Txns, Operations
<1>5. t.new \subseteq ChangesOf(t.job)
  BY <1>2, <1>3, <1>4 DEF TxnShape
<1>6. t.op = "create" => t.new = {}
  BY <1>2 DEF TxnShape
<1>7. t.op \in Decisions =>
        /\ review' = [review EXCEPT ![t.change] = Verdict(t.op)]
        /\ decidedBy' = [decidedBy EXCEPT ![t.change] = t.actor]
  BY <1>1, <1>3 DEF Commit, TypeOK, RowsOf
<1>8. t.op \notin Decisions =>
        /\ review' = [c \in Changes |->
                        IF c \in t.new THEN "pending" ELSE review[c]]
        /\ decidedBy' = decidedBy
  BY <1>1 DEF Commit, TypeOK
<1>9. t.op = "create" => review' = review
  BY <1>1, <1>4, <1>6, <1>8 DEF TypeOK, Decisions
<1>10. \A c \in Changes \ ChangesOf(t.job) : review'[c] = review[c]
  BY <1>1, <1>3, <1>5, <1>7, <1>8 DEF TypeOK, RowsOf
<1>11. /\ \A j \in Jobs \ {t.job} : status'[j] = status[j]
       /\ status'[t.job] = IF t.next # t.seen THEN t.next ELSE status[t.job]
  BY <1>1, <1>2 DEF Commit, TypeOK, Txns
<1> QED BY <1>2, <1>3, <1>5, <1>7, <1>8, <1>9, <1>10, <1>11

\* A commit keeps the invariant: every other request on the job is overtaken,
\* the others work on rows it does not touch.
LEMMA CommitStep ==
  ASSUME RedlineInv, TypeOK', NEW r \in Requests, Commit(r)
  PROVE  RedlineInv'
<1> DEFINE t == txn[r]
<1>1. TypeOK /\ pc[r] = "flushed" /\ InFlight(r) /\ t \in Txns
  BY CommitWrites DEF RedlineInv, Commit
<1>2. /\ pc' = [pc EXCEPT ![r] = "committed"]
      /\ txn' = [txn EXCEPT ![r] = NoTxn]
      /\ overtaken' = (overtaken \union
           {q \in Requests : InFlight(q) /\ txn[q].job = t.job}) \ {r}
      /\ raced' = IF r \in overtaken THEN raced \union {t.job} ELSE raced
  BY DEF Commit, Release
<1>3. ASSUME NEW q \in Requests, InFlight(q)'
      PROVE  TxnShape(q)' /\ FreshChanges(q)' /\ CurrentView(q)'
  <2>1. q # r /\ InFlight(q) /\ pc'[q] = pc[q] /\ txn'[q] = txn[q]
    BY <1>1, <1>2, <1>3 DEF TypeOK
  <2>2. txn[q] \in Txns /\ TxnShape(q) /\ FreshChanges(q) /\ CurrentView(q)
    BY <1>1, <2>1 DEF RedlineInv, TypeOK
  <2>3. TxnShape(q)'
    <3>1. \A c \in Changes : review[c] # "absent" => review'[c] # "absent"
      <4>1. CASE t.op \in Decisions
        BY <1>1, <4>1, CommitWrites DEF Verdict, TypeOK
      <4>2. CASE t.op \notin Decisions
        BY <4>2, CommitWrites
      <4> QED BY <4>1, <4>2
    <3> QED BY <2>1, <2>2, <3>1 DEF TxnShape, RowsOf, ChangesOf
  <2>4. FreshChanges(q)'
    <3> SUFFICES ASSUME NEW c \in txn[q].new
                 PROVE  /\ review'[c] = "absent"
                        /\ \A p \in Requests \ {q} :
                             InFlight(p)' => c \notin txn'[p].new
      BY <2>1 DEF FreshChanges
    <3>1. review[c] = "absent" /\ c \notin t.new /\ c \in Changes
      BY <1>1, <2>1, <2>2 DEF FreshChanges, Txns
    <3>2. review'[c] = "absent"
      <4>1. CASE t.op \in Decisions
        <5>1. review[t.change] # "absent"
          BY <4>1, CommitWrites DEF RowsOf
        <5> QED BY <3>1, <4>1, <5>1, CommitWrites DEF TypeOK
      <4>2. CASE t.op \notin Decisions
        BY <3>1, <4>2, CommitWrites
      <4> QED BY <4>1, <4>2
    <3>3. \A p \in Requests \ {q} : InFlight(p)' => InFlight(p) /\ txn'[p] = txn[p]
      BY <1>1, <1>2 DEF TypeOK
    <3> QED BY <2>2, <3>2, <3>3 DEF FreshChanges
  <2>5. CurrentView(q)'
    <3> SUFFICES ASSUME q \notin overtaken' PROVE CurrentView(q)'
      BY DEF CurrentView
    <3>1. q \notin overtaken /\ txn[q].job # t.job
      BY <1>2, <2>1
    <3>2. txn[q].job \in Jobs /\ status'[txn[q].job] = status[txn[q].job]
      BY <2>2, <3>1, CommitWrites DEF Txns
    <3>3. \A c \in ChangesOf(txn[q].job) : review'[c] = review[c]
      BY <3>1, CommitWrites DEF ChangesOf
    <3>4. Closes(txn[q])' <=> Closes(txn[q])
      BY <2>1, <3>3 DEF Closes, RowsOf, ChangesOf
    <3>5. txn[q].op \in Decisions /\ pc[q] # "reading" =>
            txn[q].change \in ChangesOf(txn[q].job)
      BY <2>2 DEF TxnShape, RowsOf
    <3> QED BY <2>1, <2>2, <3>1, <3>2, <3>3, <3>4, <3>5 DEF CurrentView
  <2> QED BY <2>3, <2>4, <2>5
<1>4. OpenWhilePending'
  <2> SUFFICES ASSUME NEW j \in Jobs, j \notin raced', NEW c \in ChangesOf(j),
                      review'[c] = "pending"
               PROVE  status'[j] = "completed"
    BY DEF OpenWhilePending, ChangesOf
  <2>1. j \notin raced
    BY <1>2
  <2>2. review[c] = "pending" => status[j] = "completed"
    BY <2>1 DEF RedlineInv, OpenWhilePending
  <2>3. CASE j # t.job
    BY <2>2, <2>3, CommitWrites DEF ChangesOf
  <2>4. CASE j = t.job
    <3>1. r \notin overtaken
      BY <1>2, <2>4
    <3>2. t.seen = status[j]
      BY <2>4, <3>1, CommitWrites DEF CurrentView
    <3>3. CASE t.op \in Decisions
      <4>1. c # t.change /\ review[c] = "pending"
        BY <1>1, <2>4, <3>3, CommitWrites DEF Verdict, TypeOK, ChangesOf
      <4>2. ~Closes(t)
        BY <2>4, <4>1 DEF Closes, RowsOf, ChangesOf
      <4>3. t.next = t.seen
        BY <1>1, <3>1, <3>3, <4>2, CommitWrites DEF CurrentView
      <4> QED BY <2>2, <2>4, <4>1, <4>3, CommitWrites
    <3>4. CASE t.op = "generate"
      <4>1. t.next = "completed"
        BY <1>1, <3>4, CommitWrites DEF TxnShape
      <4> QED BY <2>4, <3>2, <4>1, CommitWrites
    <3>5. CASE t.op = "create"
      <4>1. review[c] = "pending"
        BY <3>5, CommitWrites
      <4>2. t.seen = "absent"
        BY <3>5, CommitWrites DEF TxnShape
      <4> QED BY <2>2, <3>2, <4>1, <4>2
    <3> QED BY <1>1, <3>3, <3>4, <3>5 DEF Txns, Operations
  <2> QED BY <2>3, <2>4
<1> QED BY <1>3, <1>4 DEF RedlineInv

\* The invariant is inductive, one step per action.
LEMMA RedlineInvStep == RedlineInv /\ [Next]_vars => RedlineInv'
<1> SUFFICES ASSUME RedlineInv, [Next]_vars PROVE RedlineInv'
  OBVIOUS
<1>0. TypeOK /\ TypeOK'
  BY TypeStep DEF RedlineInv
<1>1. ASSUME NEW r \in Requests, Refuse(r) PROVE RedlineInv'
  <2>1. TxnInv(r)'
    BY <1>0, <1>1 DEF Refuse, TxnInv, TypeOK
  <2> QED BY <1>0, <1>1, <2>1, QuietStep DEF Refuse, rows, history, TypeOK
<1>2. ASSUME NEW r \in Requests, NEW op \in Operations, NEW j \in Jobs,
             NEW c \in Changes \union {NoChange},
             NEW token \in Users \union {NoToken},
             NEW at \in {"reading", "thinking", "flushing"},
             Open(r, op, j, c, token, at),
             status[j] = "absent" <=> op = "create",
             op = "create" => at = "flushing",
             op = "generate" => at = "thinking",
             op \in Decisions => at = "reading"
      PROVE  RedlineInv'
  <2>1. /\ pc'[r] = at
        /\ txn'[r].op = op /\ txn'[r].job = j /\ txn'[r].new = {}
        /\ txn'[r].seen = status[j]
        /\ txn'[r].next = IF op = "create" THEN "pending" ELSE status[j]
        /\ txn'[r].actor = Actor(token)
        /\ UNCHANGED <<status, review, raced, overtaken>>
    BY <1>0, <1>2 DEF Open, TypeOK, rows, history
  <2>2. op \in Decisions => Role[Actor(token)] \in EditRoles
    BY <1>2, ActorMayEdit DEF Open, Operations, Decisions
  <2>3. TxnShape(r)'
    BY <1>2, <2>1, <2>2 DEF TxnShape, Operations, Decisions
  <2>4. FreshChanges(r)' /\ CurrentView(r)'
    BY <1>2, <2>1 DEF FreshChanges, CurrentView
  <2> QED BY <1>0, <1>2, <2>1, <2>3, <2>4, QuietStep DEF Open, TxnInv, TypeOK
<1>3. ASSUME NEW r \in Requests, NEW j \in Jobs,
             NEW token \in Users \union {NoToken},
             \/ CreateRedline(r, j, token)
             \/ GenerateRedline(r, j, token)
             \/ \E op \in Decisions, c \in Changes :
                  ReviewRedline(r, op, j, c, token)
      PROVE  RedlineInv'
  BY <1>2, <1>3
  DEF CreateRedline, GenerateRedline, ReviewRedline, Operations, Decisions
<1>4. ASSUME NEW r \in Requests, LoadChanges(r) PROVE RedlineInv'
  <2> DEFINE t == txn[r]
             nxt == IF Closes(t) THEN "reviewed" ELSE t.next
  <2>1. t \in Txns /\ InFlight(r) /\ TxnShape(r) /\ FreshChanges(r) /\ CurrentView(r)
    BY <1>0, <1>4 DEF LoadChanges, RedlineInv, TypeOK
  <2>2. /\ pc[r] = "reading" /\ pc'[r] = "flushing"
        /\ txn'[r] = [t EXCEPT !.loaded = RowsOf(t.job), !.next = nxt]
        /\ UNCHANGED <<status, review, raced, overtaken>>
    BY <1>0, <1>4 DEF LoadChanges, TypeOK, rows, history
  <2>3. /\ txn'[r].op = t.op /\ txn'[r].job = t.job /\ txn'[r].new = t.new
        /\ txn'[r].seen = t.seen /\ txn'[r].next = nxt
        /\ txn'[r].actor = t.actor /\ txn'[r].change = t.change
    BY <2>1, <2>2 DEF Txns
  <2>4. /\ t.change \in ChangesOf(t.job) /\ review[t.change] = "pending"
    BY <1>4 DEF LoadChanges, Decidable, RowsOf
  <2>5. t.op \in Decisions
    BY <2>1, <2>2 DEF TxnShape, Txns, Operations
  <2>6. TxnShape(r)'
    <3>1. t.change \in RowsOf(t.job)'
      BY <1>0, <1>4, <2>2 DEF LoadChanges, Decidable, RowsOf, ChangesOf
    <3> QED BY <2>1, <2>2, <2>3, <2>5, <3>1 DEF TxnShape, Decisions
  <2>7. FreshChanges(r)'
    BY <2>1, <2>3, <2>5 DEF FreshChanges, TxnShape
  <2>8. CurrentView(r)'
    <3>1. t.next = t.seen
      BY <2>1, <2>2, <2>5 DEF TxnShape
    <3>2. Closes(txn[r])' <=> Closes(t)
      BY <2>2, <2>3 DEF Closes, RowsOf, ChangesOf
    <3> QED BY <2>1, <2>2, <2>3, <2>4, <3>1, <3>2 DEF CurrentView
  <2> QED
    BY <1>0, <1>4, <2>2, <2>6, <2>7, <2>8, QuietStep DEF LoadChanges, TxnInv, TypeOK
<1>5. ASSUME NEW r \in Requests, FinishGeneration(r) PROVE RedlineInv'
  <2> DEFINE t == txn[r]
  <2>1. t \in Txns /\ InFlight(r) /\ TxnShape(r) /\ CurrentView(r)
    BY <1>0, <1>5 DEF FinishGeneration, RedlineInv, TypeOK
  <2>2. /\ pc[r] = "thinking" /\ pc'[r] = "flushing"
        /\ UNCHANGED <<status, review, raced, overtaken>>
        /\ \A q \in Requests \ {r} : pc'[q] = pc[q] /\ txn'[q] = txn[q]
    BY <1>0, <1>5 DEF FinishGeneration, TypeOK, rows, history
  <2>3. PICK new \in SUBSET ChangesOf(t.job) :
          /\ \A c \in new :
               /\ review[c] = "absent"
               /\ \A q \in Requests : InFlight(q) => c \notin txn[q].new
          /\ txn'[r] = [t EXCEPT !.new = new, !.next = "completed"]
    BY <1>0, <1>5 DEF FinishGeneration, Unused, TypeOK
  <2>4. /\ txn'[r].op = t.op /\ txn'[r].job = t.job /\ txn'[r].new = new
        /\ txn'[r].seen = t.seen /\ txn'[r].next = "completed"
    BY <2>1, <2>3 DEF Txns
  <2>5. t.op = "generate"
    BY <2>1, <2>2 DEF TxnShape, Txns, Operations
  <2>6. TxnShape(r)'
    BY <2>1, <2>2, <2>4, <2>5 DEF TxnShape, Decisions, ChangesOf
  <2>7. FreshChanges(r)'
    BY <2>2, <2>3, <2>4 DEF FreshChanges
  <2>8. CurrentView(r)'
    BY <2>1, <2>2, <2>4, <2>5 DEF CurrentView, Decisions
  <2> QED BY <1>0, <2>2, <2>6, <2>7, <2>8, QuietStep DEF TxnInv
<1>6. ASSUME NEW r \in Requests, WriteJob(r) \/ WriteChanges(r) PROVE RedlineInv'
  <2>1. InFlight(r) /\ TxnShape(r) /\ FreshChanges(r) /\ CurrentView(r)
    BY <1>0, <1>6 DEF WriteJob, WriteChanges, RedlineInv, TypeOK
  <2>2. /\ pc[r] \in {"flushing", "jobDone"} /\ pc'[r] \in {"jobDone", "flushed"}
        /\ \A q \in Requests \ {r} : pc'[q] = pc[q]
        /\ UNCHANGED <<status, review, raced, overtaken, txn>>
    BY <1>0, <1>6 DEF WriteJob, WriteChanges, TypeOK, rows, history
  <2>3. TxnShape(r)'
    BY <2>1, <2>2 DEF TxnShape, RowsOf, ChangesOf
  <2>4. FreshChanges(r)'
    BY <2>1, <2>2 DEF FreshChanges
  <2>5. CurrentView(r)'
    BY <2>1, <2>2 DEF CurrentView, Closes, RowsOf, ChangesOf
  <2> QED BY <1>0, <2>2, <2>3, <2>4, <2>5, QuietStep DEF TxnInv
<1>7. ASSUME NEW r \in Requests, Rollback(r) PROVE RedlineInv'
  <2>1. TxnInv(r)'
    BY <1>0, <1>7 DEF Rollback, TxnInv, TypeOK
  <2> QED
    BY <1>0, <1>7, <2>1, QuietStep DEF Rollback, Release, rows, TypeOK
<1>8. ASSUME NEW r \in Requests, Commit(r) PROVE RedlineInv'
  BY <1>0, <1>8, CommitStep
<1>9. CASE UNCHANGED vars
  BY <1>0, <1>9 DEF vars, rows, locks, history, RedlineInv, TxnShape,
     FreshChanges, CurrentView, OpenWhilePending, Closes, RowsOf, ChangesOf
<1> QED
  BY <1>1, <1>3, <1>4, <1>5, <1>6, <1>7, <1>8, <1>9
  DEF Next, Arrive, Progress, GiveUp, AllAnswered

-----------------------------------------------------------------------------
(* The safety properties *)

\* Committed rows change in commits only.
LEMMA OnlyCommitsWrite ==
  [Next]_vars => UNCHANGED <<rows, raced>> \/ \E r \in Requests : Commit(r)
<1> SUFFICES ASSUME [Next]_vars PROVE UNCHANGED <<rows, raced>> \/ \E r \in Requests : Commit(r)
  OBVIOUS
<1>1. ASSUME NEW r \in Requests, Arrive(r) PROVE UNCHANGED <<rows, raced>>
  BY <1>1 DEF Arrive, Refuse, CreateRedline, GenerateRedline, ReviewRedline,
              Open, history
<1>2. ASSUME NEW r \in Requests, Rollback(r) PROVE UNCHANGED <<rows, raced>>
  BY <1>2 DEF Rollback
<1>3. ASSUME NEW r \in Requests,
             LoadChanges(r) \/ FinishGeneration(r) \/ WriteJob(r) \/ WriteChanges(r)
      PROVE  UNCHANGED <<rows, raced>>
  BY <1>3 DEF LoadChanges, FinishGeneration, WriteJob, WriteChanges, history
<1>4. CASE UNCHANGED vars
  BY <1>4 DEF vars, history
<1> QED
  BY <1>1, <1>2, <1>3, <1>4 DEF Next, Progress, GiveUp, AllAnswered

LEMMA RedlineInvInit == Init => RedlineInv
<1> SUFFICES ASSUME Init PROVE RedlineInv
  OBVIOUS
<1>1. TypeOK
  BY DEF Init, TypeOK, JobStatus, ReviewState
<1>2. \A r \in Requests : ~InFlight(r)
  BY DEF Init
<1>3. OpenWhilePending
  BY DEF Init, OpenWhilePending, ChangesOf
<1> QED BY <1>1, <1>2, <1>3 DEF RedlineInv

\* RedlineInv holds in every reachable state.
THEOREM RedlineInvariant == Spec => []RedlineInv
BY RedlineInvInit, RedlineInvStep, PTL DEF Spec

\* A "reviewed" job that was never raced on has no pending change.
THEOREM ReviewedJobsDecided == Spec => []ReviewedMeansAllDecided
<1>1. RedlineInv => ReviewedMeansAllDecided
  BY DEF RedlineInv, OpenWhilePending, ReviewedMeansAllDecided, ReviewClosed
<1> QED BY <1>1, RedlineInvariant, PTL

\* No step undoes a decision.
LEMMA DecidedStays ==
  RedlineInv /\ [Next]_vars => \A c \in Changes : Decided(c) => Decided(c)'
<1> SUFFICES ASSUME RedlineInv, [Next]_vars, NEW c \in Changes, Decided(c)
             PROVE  Decided(c)'
  OBVIOUS
<1>1. CASE UNCHANGED review
  BY <1>1 DEF Decided
<1>2. ASSUME NEW r \in Requests, Commit(r) PROVE Decided(c)'
  <2>1. c \notin txn[r].new
    BY <1>2, CommitWrites DEF FreshChanges, Decided
  <2>2. CASE txn[r].op \in Decisions
    BY <1>2, <2>2, CommitWrites DEF Decided, Verdict, RedlineInv, TypeOK
  <2>3. CASE txn[r].op \notin Decisions
    BY <1>2, <2>1, <2>3, CommitWrites DEF Decided
  <2> QED BY <2>2, <2>3
<1> QED BY <1>1, <1>2, OnlyCommitsWrite DEF rows

\* A decided change stays decided under any interleaving.
THEOREM DecidedForGood == Spec => NoChangeUndecided
<1>1. RedlineInv /\ [Next]_vars =>
        [\A c \in Changes : Decided(c) => Decided(c)']_vars
  BY DecidedStays
<1> QED BY <1>1, RedlineInvariant, PTL DEF Spec, NoChangeUndecided

\* A decision on a job that is not raced on, and who took it, is final.
THEOREM DecisionsAreFinal == Spec => DecisionsFinal
<1>1. RedlineInv /\ [Next]_vars =>
        [\A c \in Changes :
           Decided(c) /\ JobOf[c] \notin raced'
             => review'[c] = review[c] /\ decidedBy'[c] = decidedBy[c]]_vars
  <2> SUFFICES ASSUME RedlineInv, Next, NEW c \in Changes, Decided(c),
                      JobOf[c] \notin raced'
               PROVE  review'[c] = review[c] /\ decidedBy'[c] = decidedBy[c]
    OBVIOUS
  <2>1. ASSUME NEW r \in Requests, Commit(r)
        PROVE  review'[c] = review[c] /\ decidedBy'[c] = decidedBy[c]
    <3> DEFINE t == txn[r]
    <3>1. CASE t.op \notin Decisions
      BY <2>1, <3>1, CommitWrites DEF FreshChanges, Decided
    <3>2. CASE t.op \in Decisions
      <4>1. c # t.change
        <5> SUFFICES ASSUME c = t.change PROVE FALSE
          OBVIOUS
        <5>1. r \notin overtaken
          BY <2>1, <3>2, CommitWrites DEF Commit, RowsOf, ChangesOf
        <5>2. review[c] = "pending"
          BY <2>1, <3>2, <5>1, CommitWrites DEF CurrentView, Commit
        <5> QED BY <5>2 DEF Decided
      <4> QED BY <2>1, <3>2, <4>1, CommitWrites DEF RedlineInv, TypeOK
    <3> QED BY <3>1, <3>2
  <2> QED BY <2>1, OnlyCommitsWrite DEF rows
<1> QED BY <1>1, RedlineInvariant, PTL DEF Spec, DecisionsFinal

\* Every decided change has its audit row, by the user the change names.
THEOREM DecisionsAudited == Spec => []DecisionAudited
<1>1. Init => DecisionAudited
  BY DEF Init, DecisionAudited, Decided
<1>2. RedlineInv /\ DecisionAudited /\ [Next]_vars => DecisionAudited'
  <2> SUFFICES ASSUME RedlineInv, DecisionAudited, [Next]_vars,
                      NEW c \in Changes, Decided(c)'
               PROVE  \E a \in audit' :
                        /\ Verdict(a.type) = review'[c] /\ a.type \in Decisions
                        /\ a.job = JobOf[c]
                        /\ a.actor = decidedBy'[c]
                        /\ Role[a.actor] \in EditRoles
    BY DEF DecisionAudited, Verdict
  <2>1. CASE UNCHANGED rows
    BY <2>1 DEF DecisionAudited, Decided, rows
  <2>2. ASSUME NEW r \in Requests, Commit(r),
               review'[c] = review[c], decidedBy'[c] = decidedBy[c]
        PROVE  \E a \in audit' :
                 /\ Verdict(a.type) = review'[c] /\ a.type \in Decisions
                 /\ a.job = JobOf[c]
                 /\ a.actor = decidedBy'[c]
                 /\ Role[a.actor] \in EditRoles
    BY <2>2 DEF DecisionAudited, Decided, Commit
  <2>3. ASSUME NEW r \in Requests, Commit(r), txn[r].op \in Decisions,
               c = txn[r].change
        PROVE  \E a \in audit' :
                 /\ Verdict(a.type) = review'[c] /\ a.type \in Decisions
                 /\ a.job = JobOf[c]
                 /\ a.actor = decidedBy'[c]
                 /\ Role[a.actor] \in EditRoles
    <3> DEFINE a == [request |-> r, type |-> txn[r].op, job |-> txn[r].job,
                     actor |-> txn[r].actor, auth |-> txn[r].auth]
    <3>1. a \in audit'
      BY <2>3 DEF Commit
    <3>2. review'[c] = Verdict(a.type) /\ decidedBy'[c] = a.actor
      BY <2>3, CommitWrites DEF RedlineInv, TypeOK
    <3>3. a.job = JobOf[c] /\ Role[a.actor] \in EditRoles
      BY <2>3, CommitWrites DEF TxnShape, RowsOf, ChangesOf, Commit
    <3> QED BY <2>3, <3>1, <3>2, <3>3
  <2>4. ASSUME NEW r \in Requests, Commit(r),
               ~(txn[r].op \in Decisions /\ c = txn[r].change)
        PROVE  review'[c] = review[c] /\ decidedBy'[c] = decidedBy[c]
    BY <2>4, CommitWrites DEF Decided, RedlineInv, TypeOK
  <2> QED BY <2>1, <2>2, <2>3, <2>4, OnlyCommitsWrite
<1> QED BY <1>1, <1>2, RedlineInvariant, PTL DEF Spec

-----------------------------------------------------------------------------
(* The review gate, where nothing raced *)

\* What a step makes of a request that is open after it.
LEMMA RequestSteps ==
  ASSUME TypeOK, [Next]_vars, NEW q \in Requests, InFlight(q)'
  PROVE  \/ /\ InFlight(q) /\ txn'[q] = txn[q]
            /\ pc'[q] = pc[q] \/ pc[q] \in {"flushing", "jobDone"}
         \/ txn'[q].loaded = {} /\ (txn'[q].op = "generate" => pc'[q] = "thinking")
         \/ LoadChanges(q)
         \/ FinishGeneration(q)
<1> USE DEF TypeOK
<1>1. ASSUME NEW r \in Requests, Refuse(r) \/ Rollback(r) PROVE InFlight(q) /\ txn'[q] = txn[q] /\ pc'[q] = pc[q]
  BY <1>1 DEF Refuse, Rollback, Release
<1>2. ASSUME NEW r \in Requests, NEW op, NEW j, NEW c, NEW token, NEW at,
             Open(r, op, j, c, token, at), op = "generate" => at = "thinking"
      PROVE  \/ InFlight(q) /\ txn'[q] = txn[q] /\ pc'[q] = pc[q]
             \/ txn'[q].loaded = {} /\ (txn'[q].op = "generate" => pc'[q] = "thinking")
  BY <1>2 DEF Open
<1>3. ASSUME NEW r \in Requests, NEW j, NEW token,
             \/ CreateRedline(r, j, token)
             \/ GenerateRedline(r, j, token)
             \/ \E op \in Decisions, c \in Changes : ReviewRedline(r, op, j, c, token)
      PROVE  \/ InFlight(q) /\ txn'[q] = txn[q] /\ pc'[q] = pc[q]
             \/ txn'[q].loaded = {} /\ (txn'[q].op = "generate" => pc'[q] = "thinking")
  BY <1>2, <1>3 DEF CreateRedline, GenerateRedline, ReviewRedline, Decisions
<1>4. ASSUME NEW r \in Requests, r # q, LoadChanges(r) \/ FinishGeneration(r) \/ Commit(r)
      PROVE  InFlight(q) /\ txn'[q] = txn[q] /\ pc'[q] = pc[q]
  BY <1>4 DEF LoadChanges, FinishGeneration, Commit, Release
<1>5. ASSUME NEW r \in Requests, WriteJob(r) \/ WriteChanges(r)
      PROVE  /\ InFlight(q) /\ txn'[q] = txn[q]
             /\ pc'[q] = pc[q] \/ pc[q] \in {"flushing", "jobDone"}
  BY <1>5 DEF WriteJob, WriteChanges
<1>6. ~Commit(q)
  BY DEF Commit
<1>7. CASE UNCHANGED vars
  BY <1>7 DEF vars
<1> QED
  BY <1>1, <1>3, <1>4, <1>5, <1>6, <1>7 DEF Next, Arrive, Progress, GiveUp, AllAnswered

\* A generation keeps an allowed proposal, and a closing review its view.
LEMMA ViewsStep ==
  ASSUME RedlineInv, GateInv, [Next]_vars, NEW q \in Requests, InFlight(q)'
  PROVE  ProposalMade(q)' /\ ClosingView(q)'
<1>0. TypeOK /\ TypeOK'
  BY TypeStep DEF RedlineInv
<1>1. CASE /\ InFlight(q) /\ txn'[q] = txn[q]
           /\ pc'[q] = pc[q] \/ pc[q] \in {"flushing", "jobDone"}
  <2>1. ProposalMade(q) /\ ClosingView(q)
    BY <1>1 DEF GateInv
  <2>2. ProposalMade(q)'
    BY <1>1, <2>1 DEF ProposalMade
  <2>3. \A c \in txn[q].loaded : c \in Changes
    BY <1>0, <1>1 DEF TypeOK, Txns
  <2>4. ClosingView(q)'
    BY <1>1, <2>1, <2>3, DecidedStays DEF ClosingView
  <2> QED BY <2>2, <2>4
<1>2. CASE txn'[q].loaded = {} /\ (txn'[q].op = "generate" => pc'[q] = "thinking")
  BY <1>2 DEF ProposalMade, ClosingView
<1>3. CASE LoadChanges(q)
  <2> DEFINE t == txn[q]
             nxt == IF Closes(t) THEN "reviewed" ELSE t.next
  <2>1. t \in Txns /\ TxnShape(q) /\ pc[q] = "reading"
    BY <1>3 DEF LoadChanges, RedlineInv, TypeOK
  <2>2. /\ txn'[q] = [t EXCEPT !.loaded = RowsOf(t.job), !.next = nxt]
        /\ UNCHANGED review
    BY <1>0, <1>3 DEF LoadChanges, TypeOK, rows
  <2>3. /\ txn'[q].op = t.op /\ txn'[q].change = t.change /\ txn'[q].seen = t.seen
        /\ txn'[q].loaded = RowsOf(t.job) /\ txn'[q].next = nxt
    BY <2>1, <2>2 DEF Txns
  <2>4. t.op \in Decisions /\ t.next = t.seen
    BY <2>1 DEF TxnShape, Txns, Operations
  <2>5. ProposalMade(q)'
    BY <2>3, <2>4 DEF ProposalMade, Decisions
  <2>6. \A c \in RowsOf(t.job) \ {t.change} : review[c] # "pending" => Decided(c)
    BY <1>0 DEF RowsOf, ChangesOf, Decided, TypeOK, ReviewState
  <2>7. ClosingView(q)'
    BY <2>2, <2>3, <2>4, <2>6 DEF ClosingView, Closes, Decided
  <2> QED BY <2>5, <2>7
<1>4. CASE FinishGeneration(q)
  <2>1. txn[q] \in Txns /\ TxnShape(q) /\ pc[q] = "thinking"
    BY <1>4 DEF FinishGeneration, RedlineInv, TypeOK
  <2>2. txn[q].op \notin Decisions
    BY <2>1 DEF TxnShape
  <2>3. PICK new \in SUBSET ChangesOf(txn[q].job) :
          /\ Cardinality(new) \in ProposalSizes
          /\ txn'[q] = [txn[q] EXCEPT !.new = new, !.next = "completed"]
    BY <1>0, <1>4 DEF FinishGeneration, TypeOK
  <2>4. txn'[q].new = new /\ txn'[q].op = txn[q].op
    BY <2>1, <2>3 DEF Txns
  <2> QED BY <2>2, <2>3, <2>4 DEF ProposalMade, ClosingView
<1> QED BY <1>0, <1>1, <1>2, <1>3, <1>4, RequestSteps

\* Where nothing raced, a commit that leaves nothing pending closes the review.
LEMMA ReviewClosesStep ==
  ASSUME RedlineInv, GateInv, NEW r \in Requests, Commit(r), 0 \notin ProposalSizes,
         NEW j \in Jobs \ raced', ReviewCloses(j)
  PROVE  ReviewCloses(j)'
<1> DEFINE t == txn[r]
<1>1. t \in Txns /\ TypeOK /\ InFlight(r) /\ pc[r] = "flushed"
  BY CommitWrites DEF RedlineInv, Commit
<1>2. CASE j # t.job
  BY <1>2, CommitWrites DEF ReviewCloses, RowsOf, ChangesOf, Decided
<1>3. CASE j = t.job
  <2> SUFFICES ASSUME RowsOf(j)' # {}, \A c \in RowsOf(j)' : Decided(c)'
               PROVE  status'[j] = "reviewed"
    BY DEF ReviewCloses
  <2>1. r \notin overtaken /\ t.seen = status[j]
    BY <1>3, CommitWrites DEF Commit, CurrentView
  <2>2. CASE t.op = "create"
    <3>1. UNCHANGED review /\ status[j] = "absent"
      BY <2>1, <2>2, CommitWrites DEF TxnShape
    <3> QED BY <3>1 DEF ReviewCloses, RowsOf, Decided
  <2>3. CASE t.op = "generate"
    <3>1. PICK c : c \in t.new
      BY <1>1, <2>3, FS_EmptySet DEF GateInv, ProposalMade
    <3>2. c \in ChangesOf(j) /\ review'[c] = "pending"
      BY <1>3, <2>3, <3>1, CommitWrites DEF Decisions, ChangesOf
    <3> QED BY <3>2 DEF RowsOf, Decided, ChangesOf
  <2>4. CASE t.op \in Decisions
    <3>1. \A c \in RowsOf(j) \ {t.change} : review'[c] = review[c]
      BY <1>1, <2>4, CommitWrites DEF RowsOf, ChangesOf, TypeOK
    <3>2. Closes(t)
      BY <1>3, <3>1 DEF Closes, RowsOf, ChangesOf, Decided
    <3>3. t.next = "reviewed"
      BY <1>1, <2>1, <2>4, <3>2, CommitWrites DEF CurrentView
    <3> QED BY <1>3, <2>1, <3>3, CommitWrites
  <2> QED BY <1>1, <2>2, <2>3, <2>4 DEF Txns, Operations
<1> QED BY <1>2, <1>3

LEMMA GateInvStep == RedlineInv /\ GateInv /\ [Next]_vars => GateInv'
<1> SUFFICES ASSUME RedlineInv, GateInv, [Next]_vars PROVE GateInv'
  OBVIOUS
<1>1. \A q \in Requests : InFlight(q)' => ProposalMade(q)' /\ ClosingView(q)'
  BY ViewsStep
<1>2. AllDecidedMeansReviewed'
  <2> SUFFICES ASSUME 0 \notin ProposalSizes, NEW j \in Jobs \ raced'
               PROVE  ReviewCloses(j)'
    BY DEF AllDecidedMeansReviewed
  <2>1. CASE UNCHANGED <<rows, raced>>
    BY <2>1 DEF GateInv, AllDecidedMeansReviewed, ReviewCloses, RowsOf, ChangesOf,
       Decided, rows
  <2>2. ASSUME NEW r \in Requests, Commit(r) PROVE ReviewCloses(j)'
    <3>1. j \notin raced
      BY <2>2 DEF Commit
    <3> QED
      BY <2>2, <3>1, ReviewClosesStep DEF GateInv, AllDecidedMeansReviewed
  <2> QED BY <2>1, <2>2, OnlyCommitsWrite
<1> QED BY <1>1, <1>2 DEF GateInv

\* GateInv holds in every reachable state.
THEOREM GateInvariant == Spec => []GateInv
<1>1. Init => GateInv
  BY DEF Init, GateInv, AllDecidedMeansReviewed, ReviewCloses, RowsOf, ChangesOf
<1> QED BY <1>1, GateInvStep, RedlineInvariant, PTL DEF Spec

\* Where nothing raced and no generation comes back empty, a job with nothing
\* left to decide is "reviewed".
THEOREM DecidedJobsReviewed == Spec => []AllDecidedMeansReviewed
<1>1. GateInv => AllDecidedMeansReviewed
  BY DEF GateInv
<1> QED BY <1>1, GateInvariant, PTL

\* Even a racing review closes its job only over changes it never loaded.
THEOREM SeenChangesDecided == Spec => ClosesOverUnseenOnly
<1>1. RedlineInv /\ GateInv /\ [Next]_vars =>
        [\A r \in Requests :
           /\ Commit(r)
           /\ txn[r].op \in Decisions
           /\ txn[r].next = "reviewed" /\ txn[r].seen # "reviewed"
           => \A c \in txn[r].loaded : Decided(c)']_vars
  <2> SUFFICES ASSUME RedlineInv, GateInv, Next, NEW r \in Requests, Commit(r),
                      txn[r].op \in Decisions, txn[r].next = "reviewed",
                      txn[r].seen # "reviewed", NEW c \in txn[r].loaded
               PROVE  Decided(c)'
    OBVIOUS
  <2>1. c \in Changes
    BY CommitWrites DEF Txns
  <2>2. CASE c = txn[r].change
    BY <2>1, <2>2, CommitWrites DEF RedlineInv, TypeOK, Verdict, Decided
  <2>3. CASE c # txn[r].change
    <3>1. Decided(c)
      BY <2>3 DEF GateInv, ClosingView, Commit
    <3> QED BY <2>1, <3>1, DecidedStays
  <2> QED BY <2>2, <2>3
<1> QED BY <1>1, RedlineInvariant, GateInvariant, PTL DEF Spec, ClosesOverUnseenOnly

-----------------------------------------------------------------------------
(* The tally of the audit trail *)

\* Two sets that grow by the same number of elements.
LEMMA GrowTogether ==
  ASSUME NEW S, NEW T, NEW x, NEW y, IsFiniteSet(S), IsFiniteSet(T),
         x \notin S, y \notin T, Cardinality(S) = Cardinality(T)
  PROVE  Cardinality(S \union {x}) = Cardinality(T \union {y})
BY FS_AddElement

\* A commit keeps the tally of a job that is not raced on.
LEMMA TallyCommit ==
  ASSUME RedlineInv, TallyInv, NEW r \in Requests, Commit(r),
         NEW j \in Jobs \ raced', NEW op \in Decisions
  PROVE  Cardinality(DecisionRows(j, op)') =
           Cardinality({c \in ChangesOf(j) : review'[c] = Verdict(op)})
<1> DEFINE t == txn[r]
           a == [request |-> r, type |-> t.op, job |-> t.job,
                 actor |-> t.actor, auth |-> t.auth]
           S == DecisionRows(j, op)
           T == {c \in ChangesOf(j) : review[c] = Verdict(op)}
           Tn == {c \in ChangesOf(j) : review'[c] = Verdict(op)}
<1>1. t \in Txns /\ TypeOK /\ pc[r] = "flushed" /\ audit' = audit \union {a}
  BY CommitWrites DEF RedlineInv, Commit
<1>2. IsFiniteSet(S) /\ IsFiniteSet(T)
  <2>1. S \in SUBSET audit
    BY DEF DecisionRows
  <2>2. T \in SUBSET {c \in Changes : Decided(c)}
    BY DEF ChangesOf, Verdict, Decided
  <2> QED BY <2>1, <2>2, FS_Subset DEF TallyInv
<1>3. Cardinality(S) = Cardinality(T)
  <2>1. j \in Jobs \ raced
    BY DEF Commit
  <2> QED BY <2>1 DEF TallyInv, AuditTallies
<1>4. a \notin audit
  BY <1>1 DEF TallyInv
<1>5. CASE t.job = j /\ t.op = op
  <2> DEFINE c == t.change
  <2>1. r \notin overtaken
    BY <1>5 DEF Commit
  <2>2. /\ c \in ChangesOf(j) /\ review[c] = "pending"
        /\ review' = [review EXCEPT ![c] = Verdict(op)]
    BY <1>1, <1>5, <2>1, CommitWrites DEF CurrentView, RowsOf
  <2>3. DecisionRows(j, op)' = S \union {a}
    BY <1>1, <1>5 DEF DecisionRows
  <2>4. Tn = T \union {c}
    BY <1>1, <2>2 DEF ChangesOf, TypeOK
  <2>5. a \notin S /\ c \notin T
    BY <1>4, <2>2 DEF DecisionRows, Verdict
  <2> HIDE DEF S, T, Tn, a, c
  <2> QED BY <1>2, <1>3, <2>3, <2>4, <2>5, GrowTogether DEF Tn
<1>6. CASE ~(t.job = j /\ t.op = op)
  <2>1. DecisionRows(j, op)' = S
    BY <1>1, <1>6 DEF DecisionRows
  <2>2. \A c \in ChangesOf(j) : review'[c] = Verdict(op) <=> review[c] = Verdict(op)
    <3>1. CASE t.job # j
      BY <3>1, CommitWrites DEF ChangesOf
    <3>2. CASE t.job = j /\ t.op \in Decisions
      <4>1. t.op # op /\ Verdict(t.op) # Verdict(op)
        BY <1>6, <3>2 DEF Decisions, Verdict
      <4>2. review[t.change] = "pending"
        BY <1>1, <3>2, CommitWrites DEF CurrentView, Commit
      <4> QED BY <1>1, <3>2, <4>1, <4>2, CommitWrites DEF ChangesOf, TypeOK, Verdict
    <3>3. CASE t.job = j /\ t.op \notin Decisions
      BY <1>1, <3>3, CommitWrites DEF FreshChanges, ChangesOf, Verdict
    <3> QED BY <3>1, <3>2, <3>3
  <2>3. Tn = T
    BY <2>2
  <2> QED BY <1>3, <2>1, <2>3
<1> QED BY <1>5, <1>6

LEMMA TallyStep == RedlineInv /\ TallyInv /\ [Next]_vars => TallyInv'
<1> SUFFICES ASSUME RedlineInv, TallyInv, [Next]_vars PROVE TallyInv'
  OBVIOUS
<1>0. TypeOK
  BY DEF RedlineInv
<1> DEFINE D == {c \in Changes : Decided(c)}
           Dn == {c \in Changes : Decided(c)'}
<1>1. \A q \in Requests : pc[q] = "committed" => pc'[q] = "committed"
  <2> USE <1>0 DEF TypeOK
  <2>1. ASSUME NEW r \in Requests, Arrive(r)
        PROVE  \A q \in Requests : pc[q] = "committed" => pc'[q] = "committed"
    BY <2>1 DEF Arrive, Refuse, CreateRedline, GenerateRedline, ReviewRedline, Open
  <2>2. ASSUME NEW r \in Requests, Progress(r) \/ Rollback(r)
        PROVE  \A q \in Requests : pc[q] = "committed" => pc'[q] = "committed"
    BY <2>2 DEF Progress, LoadChanges, FinishGeneration, WriteJob, WriteChanges, Commit,
       GiveUp, Rollback
  <2> QED BY <2>1, <2>2 DEF Next, AllAnswered, vars
<1>2. CASE UNCHANGED <<rows, raced>>
  <2>1. \A a \in audit : a.request \in Requests
    BY <1>0 DEF TypeOK, AuditRows
  <2>2. \A a \in audit' : pc'[a.request] = "committed"
    BY <1>1, <1>2, <2>1 DEF TallyInv, rows
  <2>3. Dn = D
    BY <1>2 DEF Decided, rows
  <2>4. AuditTallies'
    BY <1>2 DEF TallyInv, AuditTallies, DecisionRows, rows
  <2> QED BY <1>2, <2>2, <2>3, <2>4 DEF TallyInv, rows
<1>3. ASSUME NEW r \in Requests, Commit(r) PROVE TallyInv'
  <2>1. \A a \in audit' : pc'[a.request] = "committed"
    BY <1>0, <1>1, <1>3 DEF TallyInv, Commit, TypeOK, AuditRows
  <2>2. IsFiniteSet(audit')
    BY <1>3, FS_AddElement DEF TallyInv, Commit
  <2>3. Dn \in SUBSET (D \union {txn[r].change})
    BY <1>3, CommitWrites DEF Decided, RedlineInv, TypeOK
  <2>4. IsFiniteSet(Dn)
    <3>1. IsFiniteSet(D \union {txn[r].change})
      BY FS_AddElement DEF TallyInv
    <3> QED BY <2>3, <3>1, FS_Subset
  <2>5. AuditTallies'
    BY <1>3, TallyCommit DEF AuditTallies, Verdict
  <2> QED BY <2>1, <2>2, <2>4, <2>5 DEF TallyInv
<1> QED BY <1>2, <1>3, OnlyCommitsWrite

\* Where nothing raced, the trail has as many approvals and rejections of a job
\* as the job has approved and rejected changes.
THEOREM TrailTallies == Spec => []AuditTallies
<1>1. Init => TallyInv
  <2> SUFFICES ASSUME Init PROVE TallyInv
    OBVIOUS
  <2>1. audit = {} /\ {c \in Changes : Decided(c)} = {}
    BY DEF Init, Decided
  <2>2. \A j \in Jobs, op \in Decisions :
          DecisionRows(j, op) = {} /\ {c \in ChangesOf(j) : review[c] = Verdict(op)} = {}
    BY DEF Init, DecisionRows, ChangesOf, Verdict
  <2> QED BY <2>1, <2>2, FS_EmptySet DEF TallyInv, AuditTallies
<1>2. TallyInv => AuditTallies
  BY DEF TallyInv
<1> QED BY <1>1, <1>2, TallyStep, RedlineInvariant, PTL DEF Spec

-----------------------------------------------------------------------------
(* Row locks *)

\* The end of r frees what r held and leaves the other locks as they are.
LEMMA ReleaseFrees ==
  ASSUME TypeOK, LockInv, NEW r \in Requests, Release(r), NEW x, pc' = [pc EXCEPT ![r] = x]
  PROVE  LockInv'
<1>1. ASSUME NEW j \in Jobs, jobLock'[j] # Free
      PROVE  /\ jobLock'[j] = jobLock[j] /\ jobLock[j] \in Requests \ {r}
             /\ pc[jobLock[j]] \in {"jobDone", "flushed"} /\ txn[jobLock[j]].job = j
  BY <1>1 DEF Release, TypeOK, LockInv
<1>2. ASSUME NEW c \in Changes, changeLock'[c] # Free
      PROVE  /\ changeLock'[c] = changeLock[c] /\ changeLock[c] \in Requests \ {r}
             /\ pc[changeLock[c]] = "flushed"
  BY <1>2 DEF Release, TypeOK, LockInv
<1>3. \A q \in Requests \ {r} : pc'[q] = pc[q] /\ txn'[q] = txn[q]
  BY DEF Release, TypeOK
<1> QED BY <1>1, <1>2, <1>3 DEF LockInv

\* A step of a request that holds no lock, and takes none, leaves the locks
\* to requests that do not notice it.
LEMMA LocklessStep ==
  ASSUME TypeOK, LockInv, NEW r \in Requests, pc[r] \notin {"jobDone", "flushed"},
         UNCHANGED locks, \A q \in Requests \ {r} : pc'[q] = pc[q] /\ txn'[q] = txn[q]
  PROVE  LockInv'
<1>1. \A j \in Jobs : jobLock[j] # Free => jobLock[j] \in Requests \ {r}
  BY DEF TypeOK, LockInv
<1>2. \A c \in Changes : changeLock[c] # Free => changeLock[c] \in Requests \ {r}
  BY DEF TypeOK, LockInv
<1> QED BY <1>1, <1>2 DEF LockInv, locks

LEMMA LockStep == TypeOK /\ LockInv /\ [Next]_vars => LockInv'
<1> SUFFICES ASSUME TypeOK, LockInv, [Next]_vars PROVE LockInv'
  OBVIOUS
<1>1. ASSUME NEW r \in Requests, Arrive(r) PROVE LockInv'
  <2>1. pc[r] = "idle" /\ UNCHANGED locks
    BY <1>1 DEF Arrive, Refuse, CreateRedline, GenerateRedline, ReviewRedline, Open
  <2>2. \A q \in Requests \ {r} : pc'[q] = pc[q] /\ txn'[q] = txn[q]
    BY <1>1 DEF Arrive, Refuse, CreateRedline, GenerateRedline, ReviewRedline, Open, TypeOK
  <2> QED BY <2>1, <2>2, LocklessStep
<1>2. ASSUME NEW r \in Requests, LoadChanges(r) \/ FinishGeneration(r) PROVE LockInv'
  <2>1. pc[r] \in {"reading", "thinking"} /\ UNCHANGED locks
    BY <1>2 DEF LoadChanges, FinishGeneration
  <2>2. \A q \in Requests \ {r} : pc'[q] = pc[q] /\ txn'[q] = txn[q]
    BY <1>2 DEF LoadChanges, FinishGeneration, TypeOK
  <2> QED BY <2>1, <2>2, LocklessStep
<1>3. ASSUME NEW r \in Requests, WriteJob(r) PROVE LockInv'
  <2>1. /\ pc[r] = "flushing" /\ pc' = [pc EXCEPT ![r] = "jobDone"]
        /\ UNCHANGED <<txn, changeLock>>
        /\ jobLock' \in {jobLock, [jobLock EXCEPT ![txn[r].job] = r]}
    BY <1>3 DEF WriteJob
  <2>2. \A j \in Jobs : jobLock[j] # Free => jobLock[j] \in Requests \ {r}
    BY <2>1 DEF TypeOK, LockInv
  <2>3. \A c \in Changes : changeLock[c] # Free => changeLock[c] \in Requests \ {r}
    BY <2>1 DEF TypeOK, LockInv
  <2> QED BY <2>1, <2>2, <2>3 DEF TypeOK, LockInv
<1>4. ASSUME NEW r \in Requests, WriteChanges(r) PROVE LockInv'
  BY <1>4 DEF WriteChanges, TypeOK, LockInv
<1>5. ASSUME NEW r \in Requests, Commit(r) \/ Rollback(r) PROVE LockInv'
  BY <1>5, ReleaseFrees DEF Commit, Rollback
<1>6. CASE UNCHANGED vars
  BY <1>6 DEF vars, locks, LockInv
<1> QED
  BY <1>1, <1>2, <1>3, <1>4, <1>5, <1>6 DEF Next, Progress, GiveUp, AllAnswered

\* Who holds a change's row has only its commit before it.
LEMMA HoldersCommit ==
  ASSUME LockInv, NEW q \in Requests, NEW c \in Changes, changeLock[c] = q
  PROVE  pc[q] = "flushed"
BY SentinelsAssumption DEF LockInv

\* Whatever the number of requests, jobs and changes, no requests ever wait
\* for each other's rows, and none for the row of one that has ended: a flush
\* writes the job row before the change row, and every way out of get_db
\* releases both.
THEOREM WaitsAlwaysEnd == Spec => []WaitsEnd
<1>1. Init => LockInv
  BY DEF Init, LockInv
<1>2. RedlineInv /\ LockInv => WaitsEnd
  <2> SUFFICES ASSUME RedlineInv, LockInv, NEW r \in Requests, NEW q \in Requests,
                      WaitsFor(r, q)
               PROVE  /\ InFlight(q)
                      /\ \A p \in Requests : WaitsFor(q, p) => pc[p] = "flushed"
    BY DEF WaitsEnd
  <2>1. ASSUME NEW o \in Requests, NEW p \in Requests, WaitsFor(o, p), pc[o] = "jobDone"
        PROVE  pc[p] = "flushed"
    <3>1. txn[o].op \in Decisions /\ changeLock[txn[o].change] = p
      BY <2>1 DEF WaitsFor
    <3>2. txn[o].change \in Changes
      BY <2>1, <3>1 DEF RedlineInv, TxnShape, RowsOf, ChangesOf
    <3> QED BY <3>1, <3>2, HoldersCommit
  <2>2. ASSUME pc[r] = "flushing" PROVE pc[q] \in {"jobDone", "flushed"}
    <3>1. txn[r].job \in Jobs /\ jobLock[txn[r].job] = q
      BY <2>2 DEF WaitsFor, RedlineInv, TypeOK, Txns
    <3> QED BY <3>1, SentinelsAssumption DEF LockInv
  <2>3. pc[q] \in {"jobDone", "flushed"}
    BY <2>1, <2>2 DEF WaitsFor
  <2>4. \A p \in Requests : WaitsFor(q, p) => pc[p] = "flushed"
    BY <2>1, <2>3 DEF WaitsFor
  <2> QED BY <2>3, <2>4
<1>3. Spec => []LockInv
  BY <1>1, LockStep, TypeCorrect, PTL DEF Spec
<1> QED BY <1>2, <1>3, RedlineInvariant, PTL

-----------------------------------------------------------------------------
(* Refinement *)

\* A step after which nothing has raced is a step of the atomic review gate,
\* or changes nothing the gate shows.
LEMMA GateStep ==
  RedlineInv /\ [UnracedNext]_vars => [Gate!GateNext]_(Gate!gateVars)
<1> SUFFICES ASSUME RedlineInv, [UnracedNext]_vars
             PROVE  Gate!GateNext \/ UNCHANGED Gate!gateVars
  OBVIOUS
<1>1. CASE UNCHANGED rows
  BY <1>1 DEF rows, Gate!gateVars
<1>2. ASSUME NEW r \in Requests, Commit(r), raced' = {} PROVE Gate!GateNext
  <2> DEFINE t == txn[r]
  <2>1. r \notin overtaken
    BY <1>2 DEF Commit
  <2>2. t \in Txns /\ TxnShape(r) /\ pc[r] = "flushed" /\ TypeOK
    BY <1>2, CommitWrites DEF Commit, RedlineInv
  <2>3. t.job \in Jobs /\ t.seen = status[t.job]
    BY <1>2, <2>1, <2>2, CommitWrites DEF CurrentView, Txns
  <2>4. status' = [status EXCEPT ![t.job] = t.next]
    BY <1>2, <2>2, <2>3 DEF Commit, TypeOK
  <2>5. CASE t.op = "create"
    <3>1. Gate!Register(t.job)
      BY <1>2, <2>2, <2>3, <2>4, <2>5, CommitWrites DEF TxnShape, Gate!Register
    <3> QED BY <2>3, <3>1 DEF Gate!GateNext
  <2>6. CASE t.op = "generate"
    <3>1. t.next = "completed" /\ status[t.job] # "absent"
      BY <2>2, <2>3, <2>6 DEF TxnShape
    <3>2. \A c \in t.new : review[c] = "absent"
      BY <1>2, CommitWrites DEF FreshChanges
    <3>3. review' = [c \in Changes |-> IF c \in t.new THEN "pending" ELSE review[c]]
      BY <1>2, <2>6, CommitWrites DEF Decisions
    <3>4. Gate!Propose(t.job, t.new)
      BY <2>4, <3>1, <3>2, <3>3 DEF Gate!Propose
    <3>5. t.new \in SUBSET Gate!ChangesOf(t.job)
      BY <1>2, CommitWrites DEF ChangesOf, Gate!ChangesOf
    <3> QED BY <2>3, <3>4, <3>5 DEF Gate!GateNext
  <2>7. CASE t.op \in Decisions
    <3> DEFINE c == t.change
    <3>1. /\ c \in Changes /\ JobOf[c] = t.job
          /\ review' = [review EXCEPT ![c] = Verdict(t.op)]
      BY <1>2, <2>7, CommitWrites DEF RowsOf, ChangesOf
    <3>2. /\ review[c] = "pending"
          /\ t.next = IF Closes(t) THEN "reviewed" ELSE status[t.job]
      BY <1>2, <2>1, <2>2, <2>3, <2>7, CommitWrites DEF CurrentView
    <3>3. status[t.job] = "completed"
      <4>1. raced = {}
        BY <1>2, <2>1 DEF Commit
      <4> QED BY <2>3, <3>1, <3>2, <4>1 DEF RedlineInv, OpenWhilePending, ChangesOf
    <3>4. Closes(t) <=> Gate!PendingOf(t.job) = {c}
      BY <3>1, <3>2 DEF Closes, RowsOf, ChangesOf, Gate!PendingOf, Gate!ChangesOf
    <3>5. Verdict(t.op) \in Gate!Verdicts
      BY DEF Verdict, Gate!Verdicts
    <3>6. status' = [status EXCEPT ![JobOf[c]] =
                       IF Gate!PendingOf(JobOf[c]) = {c} THEN "reviewed" ELSE @]
      BY <2>4, <3>1, <3>2, <3>4
    <3>7. Gate!Decide(c, Verdict(t.op))
      BY <3>1, <3>2, <3>3, <3>6 DEF Gate!Decide
    <3> QED BY <3>1, <3>5, <3>7 DEF Gate!GateNext
  <2> QED BY <2>2, <2>5, <2>6, <2>7 DEF Txns, Operations
<1>3. CASE UNCHANGED vars
  BY <1>1, <1>3 DEF vars
<1> QED BY <1>1, <1>2, <1>3, OnlyCommitsWrite DEF UnracedNext

\* Without races the endpoints implement the atomic review gate.
THEOREM EndpointsImplementGate == UnracedSpec => ImplementsGate
<1>1. Init => Gate!GateInit
  BY DEF Init, Gate!GateInit
<1>2. RedlineInv /\ [UnracedNext]_vars => RedlineInv'
  BY RedlineInvStep DEF UnracedNext
<1> QED
  BY <1>1, <1>2, RedlineInvInit, GateStep, PTL
  DEF UnracedSpec, ImplementsGate, Gate!GateSpec

=============================================================================
