----------------------------- MODULE AuditChain -----------------------------
(***************************************************************************)
(* The hash chain of audit rows (audit_chain.py).  Every writer appends    *)
(* inside its own database transaction: it reads the row with the highest  *)
(* seq it can see (what is committed, and its own rows: READ COMMITTED),   *)
(* links the new row to it, and flushes.  Nothing serialises two writers:  *)
(* the read takes no lock and the index on seq is not unique.              *)
(*                                                                         *)
(* A row hash is modelled by what it covers: the sequence of contents from *)
(* the root of the chain down to the row, so equal hashes mean equal       *)
(* histories.  A row's content is its id and its seq.                      *)
(***************************************************************************)
EXTENDS Integers, FiniteSets, Sequences

CONSTANTS Txns,     \* the database transactions of the run
          RowIds,   \* row ids, ordered as their uuid strings are
          Legacy,   \* ids of rows written before the chain existed
          MaxRows,  \* how many rows one transaction may append
          NoHash,   \* a NULL prev_hash or row_hash
          NoLink    \* a transaction that has not read the tail of the chain

ASSUME RowIdsAssumption == RowIds \subseteq Int /\ Legacy \subseteq RowIds
ASSUME MaxRowsAssumption == MaxRows \in Nat

Hashes == Seq(Int \X Int)

ASSUME NoHashAssumption == NoHash \notin Hashes
ASSUME NoLinkAssumption == NoLink \notin Hashes \X Nat

VARIABLES
  chain,      \* the committed audit rows
  pending,    \* pending[t]: the rows transaction t has flushed
  link,       \* link[t]: the <<hash, seq>> t will link its next row to
  connected,  \* transactions that have executed a statement
  closed      \* transactions that have ended

\* History variables: no code reads or writes them.
VARIABLES
  overtaken,  \* open transactions since whose first read another one committed
  blind,      \* open transactions whose read of the chain failed
  forked,     \* an overtaken transaction has committed rows
  rerooted    \* a blind transaction has committed rows

tables == <<chain, pending>>
session == <<link, connected, closed>>
history == <<overtaken, blind, forked, rerooted>>
vars == <<tables, session, history>>

-----------------------------------------------------------------------------
(* Rows and links *)

\* The hash of the virtual row before the first one.
GENESIS == <<>>

\* A NULL seq.
Null == 0

\* The rows of the chain; those from before it; and all that the table could hold.
Rows == [id : RowIds, seq : Nat, prev : Hashes, hash : Hashes]
LegacyRows == {[id |-> i, seq |-> Null, prev |-> NoHash, hash |-> NoHash] : i \in Legacy}
TableRows ==
  [id : RowIds, seq : Nat, prev : Hashes \union {NoHash}, hash : Hashes \union {NoHash}]

\* compute_row_hash over the canonical fields of a row.
LinkHash(prev, id, seq) == Append(prev, <<id, seq>>)
RowHash(row) == LinkHash(IF row.prev = NoHash THEN GENESIS ELSE row.prev, row.id, row.seq)

\* Fault: READ UNCOMMITTED, every session's flushed rows are visible.
VisibleDirty(t) == chain \union UNION {pending[u] : u \in Txns}

\* The rows a statement of t sees.
Visible(t) == chain \union pending[t]

\* SELECT ... WHERE seq IS NOT NULL ORDER BY seq DESC LIMIT 1: any of the
\* rows with the highest seq, none if the chain is empty.
Tails(rows) ==
  {e \in rows : e.seq # Null /\ \A f \in rows : f.seq <= e.seq}

\* Fault: NULL seqs are not filtered out.  They come first in descending order,
\* and a row without seq is taken for an empty chain.
ChainStatesWithNulls(t) ==
  IF Tails(Visible(t)) = {} \/ \E e \in Visible(t) : e.seq = Null
  THEN {<<GENESIS, 0>>}
  ELSE {<<e.hash, e.seq>> : e \in Tails(Visible(t))}

\* _chain_state: the (hash, seq) of the last row, or of the genesis.
ChainStates(t) ==
  IF Tails(Visible(t)) = {}
  THEN {<<GENESIS, 0>>}
  ELSE {<<e.hash, e.seq>> : e \in Tails(Visible(t))}

\* Fault: prev_hash is never assigned.
NewRowUnlinked(id, l) ==
  [id |-> id, seq |-> l[2] + 1, prev |-> NoLink, hash |-> <<<<id, l[2] + 1>>>>]

\* The row that append_audit_event builds on a link.
NewRow(id, l) ==
  [id |-> id, seq |-> l[2] + 1, prev |-> l[1],
   hash |-> LinkHash(l[1], id, l[2] + 1)]

-----------------------------------------------------------------------------
(* Transactions *)

Init ==
  /\ chain = LegacyRows
  /\ pending = [t \in Txns |-> {}]
  /\ link = [t \in Txns |-> NoLink]
  /\ connected = {}
  /\ closed = {}
  /\ overtaken = {}
  /\ blind = {}
  /\ forked = FALSE
  /\ rerooted = FALSE

UsedIds == {e.id : e \in chain \union UNION {pending[t] : t \in Txns}}

\* Any other statement a request executes before it audits: its transaction
\* holds a connection from here on.
OtherStatement(t) ==
  /\ t \notin closed \union connected
  /\ link[t] = NoLink
  /\ connected' = connected \union {t}
  /\ UNCHANGED <<tables, link, closed, history>>

\* The first half of append_audit_event.
ReadTail(t) ==
  /\ t \notin closed
  /\ link[t] = NoLink
  /\ Cardinality(pending[t]) < MaxRows
  /\ \E l \in ChainStates(t) : link' = [link EXCEPT ![t] = l]
  /\ connected' = connected \union {t}
  /\ UNCHANGED <<tables, closed, history>>

\* The read raises before the transaction has a connection (the pool timed
\* out): _chain_state swallows the exception and answers the genesis.  A read
\* that fails later leaves PostgreSQL's transaction aborted (see Rollback).
FailToRead(t) ==
  /\ t \notin closed \union connected
  /\ link[t] = NoLink
  /\ MaxRows > 0
  /\ link' = [link EXCEPT ![t] = <<GENESIS, 0>>]
  /\ blind' = blind \union {t}
  /\ UNCHANGED <<tables, connected, closed, overtaken, forked, rerooted>>

\* The second half: the row is linked, added and flushed.
AppendRow(t) ==
  /\ link[t] # NoLink
  /\ \E id \in RowIds \ UsedIds :
       pending' = [pending EXCEPT ![t] = @ \union {NewRow(id, link[t])}]
  /\ link' = [link EXCEPT ![t] = NoLink]
  /\ connected' = connected \union {t}
  /\ UNCHANGED <<chain, closed, history>>

\* Transactions that have read the chain: another commit overtakes them.
Reading == {t \in Txns \ closed : link[t] # NoLink \/ pending[t] # {}}

Commit(t) ==
  /\ t \notin closed
  /\ link[t] = NoLink
  /\ chain' = chain \union pending[t]
  /\ pending' = [pending EXCEPT ![t] = {}]
  /\ closed' = closed \union {t}
  /\ overtaken' = IF pending[t] = {} THEN overtaken
                  ELSE (overtaken \union Reading) \ {t}
  /\ forked' = (forked \/ (t \in overtaken /\ pending[t] # {}))
  /\ rerooted' = (rerooted \/ t \in blind)
  /\ blind' = blind \ {t}
  /\ UNCHANGED <<link, connected>>

\* An exception of the request, or a lost connection or process.
Rollback(t) ==
  /\ t \notin closed
  /\ pending' = [pending EXCEPT ![t] = {}]
  /\ link' = [link EXCEPT ![t] = NoLink]
  /\ closed' = closed \union {t}
  /\ overtaken' = overtaken \ {t}
  /\ blind' = blind \ {t}
  /\ UNCHANGED <<chain, connected, forked, rerooted>>

Next ==
  \/ \E t \in Txns :
       \/ OtherStatement(t)
       \/ ReadTail(t)
       \/ FailToRead(t)
       \/ AppendRow(t)
       \/ Commit(t)
       \/ Rollback(t)
  \/ closed = Txns /\ UNCHANGED vars

Spec == Init /\ [][Next]_vars

\* Concurrent writers whose reads of the chain all succeed.
SightedSpec == Init /\ [][Next /\ blind' = {}]_vars

-----------------------------------------------------------------------------
(* verify_audit_chain *)

\* Rows by seq, NULLs last, ties by id.
Before(e, f) ==
  \/ e.seq # Null /\ f.seq = Null
  \/ (e.seq = Null <=> f.seq = Null) /\ e.seq < f.seq
  \/ e.seq = f.seq /\ e.id < f.id

\* A row without its three link fields is not verified, and the row after it is
\* expected to begin a chain.
Skipped(e) == e.seq = Null \/ e.prev = NoHash \/ e.hash = NoHash

\* The row verified just before e, if it is part of the chain.
Predecessors(rows, e) ==
  {p \in rows : /\ ~Skipped(p)
                /\ Before(p, e)
                /\ \A q \in rows : ~(Before(p, q) /\ Before(q, e))}

\* Faults: the first row need not link to the genesis; the hash is not
\* recomputed.
PrevMismatchLax(rows, e) ==
  \E p \in Predecessors(rows, e) : e.prev # p.hash
HashUnchecked(e) == FALSE

\* What verify_audit_chain finds in a set of rows: a link to something else
\* than the preceding row, a gap after it, a hash that is not the row's.
PrevMismatch(rows, e) ==
  e.prev # (IF Predecessors(rows, e) = {} THEN GENESIS
            ELSE (CHOOSE p \in Predecessors(rows, e) : TRUE).hash)
SeqGap(rows, e) == \E p \in Predecessors(rows, e) : e.seq # p.seq + 1
HashMismatch(e) == e.hash # RowHash(e)

Verified(rows) ==
  \A e \in rows : ~Skipped(e) =>
    ~PrevMismatch(rows, e) /\ ~SeqGap(rows, e) /\ ~HashMismatch(e)

-----------------------------------------------------------------------------
(* Properties *)

TypeOK ==
  /\ chain \subseteq Rows \union LegacyRows
  /\ pending \in [Txns -> SUBSET Rows]
  /\ link \in [Txns -> (Hashes \X Nat) \union {NoLink}]
  /\ connected \subseteq Txns
  /\ closed \subseteq Txns
  /\ overtaken \subseteq Txns
  /\ blind \subseteq Txns
  /\ forked \in BOOLEAN
  /\ rerooted \in BOOLEAN

Chained == {e \in chain : e.seq # Null}

\* Every committed link leads to a committed row: a chained row begins a chain
\* or continues a row with the preceding seq.  No rolled back row is ever
\* linked to, so seqs have no holes whatever is rolled back.
LinksLeadToRows ==
  \A e \in Chained :
    /\ e.hash = RowHash(e)
    /\ \/ e.seq = 1 /\ e.prev = GENESIS
       \/ \E p \in Chained : e.prev = p.hash /\ e.seq = p.seq + 1

\* Why: whatever a transaction links to is committed or its own.
Anchored(t, h, n) ==
  \/ n = 0 /\ h = GENESIS
  \/ \E p \in Chained \union pending[t] : h = p.hash /\ n = p.seq

LinksInv ==
  /\ TypeOK
  /\ LinksLeadToRows
  /\ \A t \in Txns : \A e \in pending[t] :
       /\ e.seq # Null
       /\ e.hash = RowHash(e)
       /\ Anchored(t, e.prev, e.seq - 1)
  /\ \A t \in Txns : link[t] # NoLink => Anchored(t, link[t][1], link[t][2])

\* No row id is used twice.
IdsUnique ==
  /\ \A e, f \in chain : e.id = f.id => e = f
  /\ \A t \in Txns : \A e \in pending[t] :
       /\ \A f \in chain : e.id # f.id
       /\ \A u \in Txns : \A f \in pending[u] : e.id = f.id => t = u /\ e = f

\* Rows have a last seq, if there are any.
Tailed(rows) == rows = {} \/ \E e \in rows : \A f \in rows : f.seq <= e.seq

\* Why the trail verifies: t's rows follow everything committed, and so does
\* the row it is about to add.
AtTheTail(t) ==
  /\ \A e, f \in pending[t] : e.seq = f.seq => e = f
  /\ \A e \in pending[t], f \in Chained : f.seq < e.seq
  /\ link[t] # NoLink => \A e \in Chained \union pending[t] : e.seq <= link[t][2]

TailInv ==
  /\ Tailed(Chained)
  /\ \A t \in Txns : Tailed(pending[t])
  /\ \A t \in closed : pending[t] = {} /\ link[t] = NoLink
  /\ \/ forked \/ rerooted
     \/ /\ \A e, f \in Chained : e.seq = f.seq => e = f
        /\ \A t \in Txns \ (overtaken \union blind) : AtTheTail(t)

ChainInv == LinksInv /\ IdsUnique /\ TailInv

\* The audit trail verifies, unless a writer committed rows after another one
\* had committed since its read, or after its own read had failed.
VerifiesUnlessForked == Verified(chain) \/ forked \/ rerooted

\* What a verification is meant to establish, said without an order of
\* traversal: one root, and one successor for every row but the last.
Linear(rows) ==
  LET seqs == {e.seq : e \in rows}
  IN /\ \A e, f \in rows : e.seq = f.seq => e = f
     /\ seqs = 1 .. Cardinality(rows)
     /\ \A e \in rows : e.hash = RowHash(e)
     /\ \A e, f \in rows : f.seq = e.seq + 1 => f.prev = e.hash
     /\ \A e \in rows : e.seq = 1 => e.prev = GENESIS

\* verify_audit_chain accepts exactly the linear chains, whichever of the
\* committed rows it is given and in whatever order ids sort.
VerifyExact ==
  \A kept \in SUBSET Chained :
    Verified(kept \union (chain \ Chained)) <=> Linear(kept)

\* What is left of the committed rows is their beginning.
OnlyTheEndDiffers(rows) ==
  \A d \in Chained \ rows, e \in Chained \intersect rows : e.seq < d.seq

\* What row e may be overwritten with: another id (which stands for all that the
\* hash covers), seq, link or hash, NULLs among them, and any of it with a
\* hash that is recomputed to fit: sha256 takes no key.
Overwritten(e) ==
  LET forged == [id : {e.id} \union (RowIds \ UsedIds), seq : {Null, e.seq, e.seq + 1},
                 prev : {NoHash, GENESIS, e.prev}, hash : {NoHash, e.hash}]
  IN  forged \union {[f EXCEPT !.hash = RowHash(f)] : f \in forged}

\* In a trail that verified, a row pins every row before it: once a row is
\* dropped or overwritten, whatever with, the trail does not verify as long as a
\* row that followed it is left as it was.  Of the rows at the end nothing is
\* promised: the last one can be dropped, set to NULL or rewritten with a new
\* hash.
TamperEvident ==
  Verified(chain) =>
    \A e \in Chained :
      \A rows \in {chain \ {e}} \union {(chain \ {e}) \union {f} : f \in Overwritten(e)} :
        ~OnlyTheEndDiffers(rows) => ~Verified(rows)

-----------------------------------------------------------------------------
(* What comments say, and the code does not do *)

\* "seq is monotonic across the whole table" (models/audit.py).
SeqUnique == \A e, f \in Chained : e.seq = f.seq => e = f

=============================================================================
