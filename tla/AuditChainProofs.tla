-------------------------- MODULE AuditChainProofs --------------------------
(***************************************************************************)
(* Proofs about AuditChain, for any number of transactions and rows: what  *)
(* is committed links to what is committed (LinksInv); where no writer was *)
(* overtaken or blind it is one chain, so the trail verifies (TailInv);    *)
(* verify_audit_chain accepts exactly the linear chains; and of a trail    *)
(* that was changed and still verifies only the end differs.  The last two *)
(* walk the chain: a least seq at which a claim fails (Least) takes the    *)
(* place of induction.                                                     *)
(***************************************************************************)
EXTENDS AuditChain, FiniteSetTheorems, SequenceTheorems, WellFoundedInduction, TLAPS

\* What the table holds: rows of the chain, and rows from before it, which are
\* those that a verification skips.
LEMMA RowTypes ==
  ASSUME TypeOK
  PROVE  /\ Chained \in SUBSET Rows /\ chain \in SUBSET TableRows
         /\ Rows \subseteq TableRows
         /\ \A e \in chain : Skipped(e) <=> e.seq = Null
<1>1. Null \in Nat
  BY DEF Null
<1> DEFINE H == Hashes
<1>2. Rows \subseteq TableRows /\ \A e \in Rows : e.prev # NoHash /\ e.hash # NoHash
  <2> HIDE DEF H
  <2>1. NoHash \notin H
    BY NoHashAssumption DEF H
  <2>2. /\ Rows = [id : RowIds, seq : Nat, prev : H, hash : H]
        /\ TableRows = [id : RowIds, seq : Nat, prev : H \union {NoHash}, hash : H \union {NoHash}]
    BY DEF Rows, TableRows, H
  <2> QED BY <2>1, <2>2
<1>3. LegacyRows \subseteq TableRows /\ \A e \in LegacyRows : e.seq = Null
  BY <1>1, RowIdsAssumption DEF LegacyRows, TableRows
<1>4. chain \subseteq Rows \union LegacyRows
  BY DEF TypeOK
<1> QED BY <1>2, <1>3, <1>4 DEF Chained, Skipped

\* A row built on a link is a row whose hash is right.
LEMMA NewRowType ==
  ASSUME NEW id \in RowIds, NEW h \in Hashes, NEW n \in Nat
  PROVE  LET e == NewRow(id, <<h, n>>) IN
         /\ e \in Rows
         /\ e.id = id /\ e.seq = n + 1 /\ e.prev = h /\ e.hash = RowHash(e)
<1> DEFINE k == LinkHash(h, id, n + 1)
           e == NewRow(id, <<h, n>>)
<1>1. <<id, n + 1>> \in Int \X Int
  BY RowIdsAssumption
<1>2. k \in Hashes
  BY <1>1 DEF Hashes, LinkHash
<1>3. e = [id |-> id, seq |-> n + 1, prev |-> h, hash |-> k]
  BY DEF NewRow
<1> HIDE DEF k, e
<1>4. e \in Rows
  BY <1>2, <1>3 DEF Rows, Hashes
<1>5. e.id = id /\ e.seq = n + 1 /\ e.prev = h /\ e.hash = k
  BY <1>3
<1>6. e.hash = RowHash(e)
  BY <1>5, NoHashAssumption DEF RowHash, k
<1> QED BY <1>4, <1>5, <1>6 DEF e

\* The links _chain_state can return are typed, and anchored in what t sees.
LEMMA ChainStatesAnchored ==
  ASSUME TypeOK, NEW t \in Txns, NEW l \in ChainStates(t)
  PROVE  /\ l \in Hashes \X Nat
         /\ Anchored(t, l[1], l[2])
<1>1. CASE l = <<GENESIS, 0>>
  <2>1. GENESIS \in Hashes
    BY DEF GENESIS, Hashes
  <2> QED BY <1>1, <2>1 DEF Anchored
<1>2. CASE l # <<GENESIS, 0>>
  <2>1. PICK e \in Tails(Visible(t)) : l = <<e.hash, e.seq>>
    BY <1>2 DEF ChainStates
  <2>2. e \in Chained \union pending[t]
    BY <2>1 DEF Tails, Visible, Chained
  <2>3. e \in Rows
    BY <2>2, RowTypes DEF TypeOK
  <2>4. e.hash \in Hashes /\ e.seq \in Nat
    BY <2>3 DEF Rows, Hashes
  <2> QED BY <2>1, <2>2, <2>4 DEF Anchored
<1> QED BY <1>1, <1>2

LEMMA LinksInvInit == Init => LinksInv
<1> SUFFICES ASSUME Init PROVE LinksInv
  OBVIOUS
<1>2. TypeOK
  BY DEF Init, TypeOK
<1>3. Chained = {}
  BY DEF Init, Chained, LegacyRows
<1> QED BY <1>2, <1>3 DEF Init, LinksInv, LinksLeadToRows

\* A step that keeps the committed rows and leaves only t with other rows or
\* another link, all of them anchored, keeps the invariant.
LEMMA OwnStep ==
  ASSUME LinksInv, TypeOK', chain' = chain, NEW t \in Txns,
         \A u \in Txns \ {t} : pending'[u] = pending[u] /\ link'[u] = link[u],
         \A e \in pending'[t] :
           e.seq # Null /\ e.hash = RowHash(e) /\ Anchored(t, e.prev, e.seq - 1)',
         link'[t] # NoLink => Anchored(t, link[t][1], link[t][2])'
  PROVE  LinksInv'
<1>1. Chained' = Chained
  BY DEF Chained
<1>2. LinksLeadToRows'
  BY <1>1 DEF LinksInv, LinksLeadToRows
<1>3. \A u \in Txns \ {t} : \A h, n : Anchored(u, h, n) => Anchored(u, h, n)'
  BY <1>1 DEF Anchored
<1>4. ASSUME NEW u \in Txns, NEW e \in pending'[u]
      PROVE  e.seq # Null /\ e.hash = RowHash(e) /\ Anchored(u, e.prev, e.seq - 1)'
  BY <1>3 DEF LinksInv
<1>5. ASSUME NEW u \in Txns, link'[u] # NoLink
      PROVE  Anchored(u, link[u][1], link[u][2])'
  BY <1>3, <1>5 DEF LinksInv
<1> QED BY <1>2, <1>4, <1>5 DEF LinksInv, RowHash, LinkHash

LEMMA LinksInvStep == LinksInv /\ [Next]_vars => LinksInv'
<1> SUFFICES ASSUME LinksInv, [Next]_vars PROVE LinksInv'
  OBVIOUS
<1>0. TypeOK
  BY DEF LinksInv
<1>1. ASSUME NEW t \in Txns, ReadTail(t) PROVE LinksInv'
  <2>1. PICK l \in ChainStates(t) : link' = [link EXCEPT ![t] = l]
    BY <1>1 DEF ReadTail
  <2>2. l \in Hashes \X Nat /\ Anchored(t, l[1], l[2])
    BY <1>0, <2>1, ChainStatesAnchored
  <2>3. TypeOK'
    BY <1>0, <1>1, <2>1, <2>2 DEF ReadTail, TypeOK, tables, history, Hashes
  <2>4. /\ UNCHANGED <<chain, pending>>
        /\ link'[t] = l /\ \A u \in Txns \ {t} : link'[u] = link[u]
    BY <1>0, <1>1, <2>1 DEF ReadTail, TypeOK, tables
  <2>5. \A h, n : Anchored(t, h, n)' <=> Anchored(t, h, n)
    BY <2>4 DEF Anchored, Chained
  <2>6. \A e \in pending'[t] :
          e.seq # Null /\ e.hash = RowHash(e) /\ Anchored(t, e.prev, e.seq - 1)'
    BY <2>4, <2>5 DEF LinksInv
  <2>7. Anchored(t, link[t][1], link[t][2])'
    BY <2>2, <2>4, <2>5
  <2> QED BY <2>3, <2>4, <2>6, <2>7, OwnStep
<1>2. ASSUME NEW t \in Txns, FailToRead(t) PROVE LinksInv'
  <2>1. TypeOK'
    <3>0. GENESIS \in Hashes
      BY DEF GENESIS, Hashes
    <3>1. <<GENESIS, 0>> \in Hashes \X Nat
      BY <3>0
    <3> QED BY <1>0, <1>2, <3>1 DEF FailToRead, TypeOK, tables
  <2>2. /\ UNCHANGED <<chain, pending>>
        /\ link'[t] = <<GENESIS, 0>> /\ \A u \in Txns \ {t} : link'[u] = link[u]
    BY <1>0, <1>2 DEF FailToRead, TypeOK, tables
  <2>3. \A h, n : Anchored(t, h, n)' <=> Anchored(t, h, n)
    BY <2>2 DEF Anchored, Chained
  <2>4. Anchored(t, GENESIS, 0)
    BY DEF Anchored
  <2>5. \A e \in pending'[t] :
          e.seq # Null /\ e.hash = RowHash(e) /\ Anchored(t, e.prev, e.seq - 1)'
    BY <2>2, <2>3 DEF LinksInv
  <2>6. Anchored(t, link[t][1], link[t][2])'
    BY <2>2, <2>3, <2>4
  <2> QED BY <2>1, <2>2, <2>5, <2>6, OwnStep
<1>3. ASSUME NEW t \in Txns, AppendRow(t) PROVE LinksInv'
  <2>1. PICK id \in RowIds :
          pending' = [pending EXCEPT ![t] = @ \union {NewRow(id, link[t])}]
    BY <1>3 DEF AppendRow
  <2> DEFINE h == link[t][1]
             n == link[t][2]
             e == NewRow(id, <<h, n>>)
  <2>2. /\ link[t] \in Hashes \X Nat /\ link[t] # NoLink
        /\ link[t] = <<h, n>> /\ h \in Hashes /\ n \in Nat
    BY <1>0, <1>3 DEF AppendRow, TypeOK, Hashes
  <2>3. e \in Rows /\ e.seq = n + 1 /\ e.prev = h /\ e.hash = RowHash(e)
    BY <2>2, NewRowType
  <2> HIDE DEF h, n, e
  <2>4. /\ pending'[t] = pending[t] \union {e}
        /\ \A u \in Txns \ {t} : pending'[u] = pending[u] /\ link'[u] = link[u]
        /\ link'[t] = NoLink /\ chain' = chain
    BY <1>0, <1>3, <2>1, <2>2 DEF AppendRow, TypeOK, e
  <2>5. TypeOK'
    <3>1. pending' \in [Txns -> SUBSET Rows]
      BY <1>0, <2>1, <2>2, <2>3 DEF TypeOK, e
    <3> QED BY <1>0, <1>3, <3>1 DEF AppendRow, TypeOK, history
  <2>6. \A g, m : Anchored(t, g, m) => Anchored(t, g, m)'
    BY <2>4 DEF Anchored, Chained
  <2>7. Anchored(t, h, n)
    BY <2>2 DEF LinksInv, h, n
  <2>8. e.seq # Null /\ e.seq - 1 = n
    BY <2>2, <2>3 DEF Null
  <2>9. \A f \in pending'[t] :
          f.seq # Null /\ f.hash = RowHash(f) /\ Anchored(t, f.prev, f.seq - 1)'
    <3> SUFFICES ASSUME NEW f \in pending'[t]
                 PROVE  f.seq # Null /\ f.hash = RowHash(f)
                        /\ Anchored(t, f.prev, f.seq - 1)'
      OBVIOUS
    <3>1. CASE f \in pending[t]
      BY <2>6, <3>1 DEF LinksInv
    <3>2. CASE f = e
      BY <2>3, <2>6, <2>7, <2>8, <3>2
    <3> QED BY <2>4, <3>1, <3>2
  <2> QED BY <2>4, <2>5, <2>9, OwnStep
<1>4. ASSUME NEW t \in Txns, Commit(t) PROVE LinksInv'
  <2>1. TypeOK'
    BY <1>0, <1>4 DEF Commit, TypeOK, Reading
  <2>2. /\ chain' = chain \union pending[t]
        /\ pending'[t] = {} /\ link' = link /\ link[t] = NoLink
        /\ \A u \in Txns \ {t} : pending'[u] = pending[u]
    BY <1>0, <1>4 DEF Commit, TypeOK
  <2>3. Chained' = Chained \union pending[t]
    BY <2>2 DEF Chained, LinksInv
  <2>4. LinksLeadToRows'
    <3> SUFFICES ASSUME NEW e \in Chained'
                 PROVE  /\ e.hash = RowHash(e)
                        /\ \/ e.seq = 1 /\ e.prev = GENESIS
                           \/ \E p \in Chained' : e.prev = p.hash /\ e.seq = p.seq + 1
      BY DEF LinksLeadToRows, RowHash, LinkHash
    <3>1. CASE e \in Chained
      BY <2>3, <3>1 DEF LinksInv, LinksLeadToRows
    <3>2. CASE e \in pending[t]
      <4>1. e.hash = RowHash(e) /\ Anchored(t, e.prev, e.seq - 1) /\ e.seq \in Nat
        BY <1>0, <3>2 DEF LinksInv, TypeOK, Rows
      <4>2. CASE e.seq - 1 = 0 /\ e.prev = GENESIS
        BY <4>1, <4>2
      <4>3. ASSUME NEW p \in Chained \union pending[t],
                   e.prev = p.hash, e.seq - 1 = p.seq
            PROVE  e.prev = p.hash /\ e.seq = p.seq + 1
        <5>1. p.seq \in Nat
          BY <1>0, RowTypes DEF TypeOK, Rows
        <5> QED BY <4>1, <4>3, <5>1
      <4> QED BY <2>3, <4>1, <4>2, <4>3 DEF Anchored
    <3> QED BY <2>3, <3>1, <3>2
  <2>5. \A u \in Txns \ {t} : \A h, n : Anchored(u, h, n) => Anchored(u, h, n)'
    BY <2>2, <2>3 DEF Anchored
  <2> QED BY <2>1, <2>2, <2>4, <2>5 DEF LinksInv, RowHash, LinkHash
<1>5. ASSUME NEW t \in Txns, Rollback(t) PROVE LinksInv'
  <2>1. TypeOK'
    BY <1>0, <1>5 DEF Rollback, TypeOK
  <2>2. /\ chain' = chain /\ pending'[t] = {} /\ link'[t] = NoLink
        /\ \A u \in Txns \ {t} : pending'[u] = pending[u] /\ link'[u] = link[u]
    BY <1>0, <1>5 DEF Rollback, TypeOK
  <2> QED BY <2>1, <2>2, OwnStep
<1>6. ASSUME NEW t \in Txns, OtherStatement(t) PROVE LinksInv'
  BY <1>6 DEF OtherStatement, tables, history, LinksInv, TypeOK,
              LinksLeadToRows, Anchored, Chained, RowHash, LinkHash
<1>7. CASE UNCHANGED vars
  BY <1>7 DEF vars, tables, session, history, LinksInv, TypeOK,
              LinksLeadToRows, Anchored, Chained, RowHash, LinkHash
<1> QED BY <1>1, <1>2, <1>3, <1>4, <1>5, <1>6, <1>7 DEF Next

\* Every variable keeps its type.
THEOREM ChainTypeCorrect == Spec => []TypeOK
<1>1. LinksInv => TypeOK
  BY DEF LinksInv
<1> QED BY <1>1, LinksInvInit, LinksInvStep, PTL DEF Spec

\* Every committed link leads to a committed row, or starts a chain.
THEOREM LinksAreCommitted == Spec => []LinksLeadToRows
<1>1. LinksInv => LinksLeadToRows
  BY DEF LinksInv
<1> QED BY <1>1, LinksInvInit, LinksInvStep, PTL DEF Spec

-----------------------------------------------------------------------------
(* verify_audit_chain *)

\* Some natural number of a set is the least.
LEMMA Least ==
  ASSUME NEW S \in SUBSET Nat, S # {}
  PROVE  \E n \in S : \A m \in S : n <= m
<1>1. PICK n \in S : \A m \in S : ~ (<<m, n>> \in OpToRel(<, Nat))
  BY NatLessThanWellFounded, WFMin
<1>2. \A m \in S : ~ (m < n)
  BY <1>1 DEF OpToRel
<1> QED BY <1>2

\* What verify_audit_chain accepts, row by row.
LEMMA VerifiedRow ==
  ASSUME NEW rows, Verified(rows), NEW e \in rows, ~Skipped(e)
  PROVE  /\ e.hash = RowHash(e)
         /\ \/ Predecessors(rows, e) = {} /\ e.prev = GENESIS
            \/ \E p \in rows : /\ ~Skipped(p)
                               /\ p \in Predecessors(rows, e)
                               /\ e.prev = p.hash /\ e.seq = p.seq + 1
<1>1. ~PrevMismatch(rows, e) /\ ~SeqGap(rows, e) /\ ~HashMismatch(e)
  BY DEF Verified
<1>2. CASE Predecessors(rows, e) # {}
  <2> DEFINE p == CHOOSE p \in Predecessors(rows, e) : TRUE
  <2>1. p \in Predecessors(rows, e)
    BY <1>2
  <2>2. e.prev = p.hash
    BY <1>1, <1>2 DEF PrevMismatch
  <2> HIDE DEF p
  <2> QED BY <1>1, <2>1, <2>2 DEF Predecessors, SeqGap, HashMismatch
<1> QED BY <1>1, <1>2 DEF PrevMismatch, HashMismatch

\* An accepted chain has no two rows with one seq: the later in order of id
\* would follow a row with its own seq.
LEMMA VerifiedUnique ==
  ASSUME NEW rows \in SUBSET TableRows, Verified(rows),
         \A e \in rows : Skipped(e) <=> e.seq = Null,
         \A e, f \in rows : e.id = f.id => e = f,
         NEW a \in rows, NEW b \in rows, a.seq = b.seq, a.seq # Null
  PROVE  a = b
<1>0. \A e \in rows : e.id \in Int /\ e.seq \in Nat
  BY RowIdsAssumption DEF TableRows
<1>1. ASSUME NEW x \in rows, NEW y \in rows, x.seq = y.seq, y.seq # Null, x.id < y.id
      PROVE  FALSE
  <2> DEFINE G == {r \in rows : r.seq = y.seq /\ r.id < y.id}
             D == {y.id - r.id : r \in G}
  <2>1. D \in SUBSET Nat /\ D # {}
    <3>1. x \in G
      BY <1>1
    <3>2. ASSUME NEW r \in G PROVE y.id - r.id \in Nat
      BY <1>0, <3>2
    <3> QED BY <3>1, <3>2
  <2>2. PICK n \in D : \A m \in D : n <= m
    <3> HIDE DEF D
    <3> QED BY <2>1, Least
  <2>3. PICK p \in G : n = y.id - p.id
    BY <2>2
  <2>4. \A r \in G : r.id <= p.id
    <3> SUFFICES ASSUME NEW r \in G PROVE r.id <= p.id
      OBVIOUS
    <3>1. y.id - p.id <= y.id - r.id
      BY <2>2, <2>3
    <3> QED BY <1>0, <3>1
  <2>5. p \in Predecessors(rows, y)
    <3>1. ASSUME NEW q \in rows, Before(p, q), Before(q, y) PROVE FALSE
      <4>1. q.seq = y.seq
        BY <1>0, <1>1, <2>3, <3>1 DEF Before, Null
      <4>2. q \in G /\ p.id < q.id
        BY <1>0, <2>3, <3>1, <4>1 DEF Before
      <4> QED BY <1>0, <2>4, <4>2
    <3>2. Before(p, y) /\ p.seq # Null
      BY <1>1, <2>3 DEF Before
    <3> QED BY <3>1, <3>2 DEF Predecessors
  <2>6. y.seq # p.seq + 1
    BY <1>0, <2>3
  <2> QED BY <1>1, <2>5, <2>6 DEF Verified, SeqGap
<1>2. a.id <= b.id /\ b.id <= a.id
  BY <1>0, <1>1
<1> QED BY <1>0, <1>2

\* Rows that all link to the row before them, or begin the chain, are accepted
\* when no two share a seq.
LEMMA LinkedVerified ==
  ASSUME NEW rows \in SUBSET TableRows,
         \A e \in rows : Skipped(e) <=> e.seq = Null,
         \A e, f \in rows : e.seq = f.seq /\ e.seq # Null => e = f,
         \A e \in rows : e.seq # Null =>
           /\ e.hash = RowHash(e)
           /\ \/ e.seq = 1 /\ e.prev = GENESIS
              \/ \E p \in rows : p.seq # Null /\ e.prev = p.hash /\ e.seq = p.seq + 1
  PROVE  Verified(rows)
<1>0. \A e \in rows : e.id \in Int /\ e.seq \in Nat
  BY RowIdsAssumption DEF TableRows
<1> SUFFICES ASSUME NEW e \in rows, e.seq # Null
             PROVE  ~PrevMismatch(rows, e) /\ ~SeqGap(rows, e)
  BY DEF Verified, HashMismatch
<1>1. \A q \in rows : Before(q, e) => q.seq # Null /\ q.seq < e.seq
  BY <1>0 DEF Before
<1>2. CASE e.seq = 1 /\ e.prev = GENESIS
  <2>1. Predecessors(rows, e) = {}
    BY <1>0, <1>1, <1>2 DEF Predecessors, Null
  <2> QED BY <1>2, <2>1 DEF PrevMismatch, SeqGap
<1>3. ASSUME NEW p \in rows, p.seq # Null, e.prev = p.hash, e.seq = p.seq + 1
      PROVE  ~PrevMismatch(rows, e) /\ ~SeqGap(rows, e)
  <2>1. Before(p, e)
    BY <1>0, <1>3 DEF Before
  <2>2. p \in Predecessors(rows, e)
    <3>1. ASSUME NEW q \in rows, Before(p, q), Before(q, e) PROVE FALSE
      <4>1. q.seq # Null /\ q.seq < e.seq
        BY <1>1, <3>1
      <4>2. p.seq < q.seq
        BY <1>0, <1>3, <3>1, <4>1 DEF Before
      <4> QED BY <1>0, <1>3, <4>1, <4>2
    <3> QED BY <1>3, <2>1, <3>1 DEF Predecessors
  <2>3. ASSUME NEW q \in Predecessors(rows, e) PROVE q = p
    <3>1. q \in rows /\ q.seq # Null /\ q.seq < e.seq /\ ~(Before(q, p) /\ Before(p, e))
      BY <1>1, <2>3 DEF Predecessors
    <3>2. ~(q.seq < p.seq)
      BY <1>3, <2>1, <3>1 DEF Before
    <3> QED BY <1>0, <1>3, <3>1, <3>2
  <2>4. Predecessors(rows, e) = {p}
    BY <2>2, <2>3
  <2> QED BY <1>3, <2>4 DEF PrevMismatch, SeqGap
<1> QED BY <1>2, <1>3

-----------------------------------------------------------------------------
(* Where writers are *)

\* What each step of a transaction does to the tables and the links.
LEMMA ChainSteps ==
  ASSUME TypeOK, NEW t \in Txns
  PROVE  /\ OtherStatement(t) => UNCHANGED <<chain, pending, link, closed, history>>
         /\ ReadTail(t) =>
              /\ UNCHANGED <<chain, pending, closed, history>>
              /\ t \notin closed
              /\ link'[t] \in ChainStates(t)
              /\ \A u \in Txns \ {t} : link'[u] = link[u]
         /\ FailToRead(t) =>
              /\ UNCHANGED <<chain, pending, closed, overtaken, forked, rerooted>>
              /\ t \notin closed
              /\ blind' = blind \union {t}
              /\ \A u \in Txns \ {t} : link'[u] = link[u]
         /\ AppendRow(t) =>
              /\ UNCHANGED <<chain, closed, history>>
              /\ link[t] # NoLink /\ link'[t] = NoLink
              /\ \A u \in Txns \ {t} : link'[u] = link[u] /\ pending'[u] = pending[u]
              /\ \E id \in RowIds \ UsedIds :
                   pending'[t] = pending[t] \union {NewRow(id, link[t])}
         /\ Commit(t) =>
              /\ chain' = chain \union pending[t]
              /\ closed' = closed \union {t}
              /\ link[t] = NoLink /\ link' = link
              /\ pending'[t] = {}
              /\ \A u \in Txns \ {t} : pending'[u] = pending[u]
         /\ Rollback(t) =>
              /\ UNCHANGED <<chain, forked, rerooted>>
              /\ closed' = closed \union {t}
              /\ overtaken' = overtaken \ {t} /\ blind' = blind \ {t}
              /\ link'[t] = NoLink /\ pending'[t] = {}
              /\ \A u \in Txns \ {t} : link'[u] = link[u] /\ pending'[u] = pending[u]
<1>1. /\ link \in [Txns -> (Seq(Int \X Int) \X Nat) \union {NoLink}]
      /\ pending \in [Txns -> SUBSET Rows]
  BY DEF TypeOK, Hashes
<1>2. OtherStatement(t) => UNCHANGED <<chain, pending, link, closed, history>>
  BY DEF OtherStatement, tables, history
<1>3. ReadTail(t) =>
        /\ UNCHANGED <<chain, pending, closed, history>>
        /\ t \notin closed
        /\ link'[t] \in ChainStates(t)
        /\ \A u \in Txns \ {t} : link'[u] = link[u]
  BY <1>1 DEF ReadTail, tables, history
<1>4. FailToRead(t) =>
        /\ UNCHANGED <<chain, pending, closed, overtaken, forked, rerooted>>
        /\ t \notin closed
        /\ blind' = blind \union {t}
        /\ \A u \in Txns \ {t} : link'[u] = link[u]
  BY <1>1 DEF FailToRead, tables
<1>5. AppendRow(t) =>
        /\ UNCHANGED <<chain, closed, history>>
        /\ link[t] # NoLink /\ link'[t] = NoLink
        /\ \A u \in Txns \ {t} : link'[u] = link[u] /\ pending'[u] = pending[u]
        /\ \E id \in RowIds \ UsedIds :
             pending'[t] = pending[t] \union {NewRow(id, link[t])}
  BY <1>1 DEF AppendRow
<1>6. Commit(t) =>
        /\ chain' = chain \union pending[t]
        /\ closed' = closed \union {t}
        /\ link[t] = NoLink /\ link' = link
        /\ pending'[t] = {}
        /\ \A u \in Txns \ {t} : pending'[u] = pending[u]
  BY <1>1 DEF Commit
<1>7. Rollback(t) =>
        /\ UNCHANGED <<chain, forked, rerooted>>
        /\ closed' = closed \union {t}
        /\ overtaken' = overtaken \ {t} /\ blind' = blind \ {t}
        /\ link'[t] = NoLink /\ pending'[t] = {}
        /\ \A u \in Txns \ {t} : link'[u] = link[u] /\ pending'[u] = pending[u]
  BY <1>1 DEF Rollback
<1> QED BY <1>2, <1>3, <1>4, <1>5, <1>6, <1>7

\* A row that t appends: typed, and after the row t read.
LEMMA AppendedRow ==
  ASSUME TypeOK, NEW t \in Txns, link[t] # NoLink, NEW id \in RowIds
  PROVE  /\ link[t][2] \in Nat
         /\ NewRow(id, link[t]) \in Rows
         /\ NewRow(id, link[t]).id = id
         /\ NewRow(id, link[t]).seq = link[t][2] + 1
<1>1. link[t] \in Hashes \X Nat
  BY DEF TypeOK, Hashes
<1>2. PICK h \in Hashes, n \in Nat : link[t] = <<h, n>>
  BY <1>1
<1> HIDE DEF Hashes
<1> QED BY <1>2, NewRowType

LEMMA IdsUniqueStep == TypeOK /\ IdsUnique /\ [Next]_vars => IdsUnique'
<1> SUFFICES ASSUME TypeOK, IdsUnique, [Next]_vars PROVE IdsUnique'
  OBVIOUS
<1>1. CASE chain' = chain /\ \A u \in Txns : pending'[u] \in {pending[u], {}}
  BY <1>1 DEF IdsUnique
<1>2. ASSUME NEW t \in Txns, AppendRow(t) PROVE IdsUnique'
  <2>1. PICK id \in RowIds \ UsedIds :
          pending'[t] = pending[t] \union {NewRow(id, link[t])}
    BY <1>2, ChainSteps
  <2> DEFINE e == NewRow(id, link[t])
  <2>2. e.id = id
    BY <1>2, AppendedRow DEF AppendRow
  <2>3. /\ \A f \in chain : f.id # id
        /\ \A u \in Txns : \A f \in pending[u] : f.id # id
    BY DEF UsedIds
  <2>4. chain' = chain /\ \A u \in Txns \ {t} : pending'[u] = pending[u]
    BY <1>2, ChainSteps
  <2> HIDE DEF e
  <2>5. ASSUME NEW u \in Txns, NEW f \in pending'[u]
        PROVE  /\ \A g \in chain : f.id # g.id
               /\ \A v \in Txns : \A g \in pending'[v] : f.id = g.id => u = v /\ f = g
    <3>1. f \in pending[u] \/ (u = t /\ f = e)
      BY <2>1, <2>4 DEF e
    <3>2. \A v \in Txns : \A g \in pending'[v] : g \in pending[v] \/ (v = t /\ g = e)
      BY <2>1, <2>4 DEF e
    <3> QED BY <2>2, <2>3, <3>1, <3>2 DEF IdsUnique
  <2> QED BY <2>4, <2>5 DEF IdsUnique
<1>3. ASSUME NEW t \in Txns, Commit(t) PROVE IdsUnique'
  <2>1. /\ chain' = chain \union pending[t]
        /\ pending'[t] = {}
        /\ \A u \in Txns \ {t} : pending'[u] = pending[u]
    BY <1>3, ChainSteps
  <2> QED BY <2>1 DEF IdsUnique
<1>4. ASSUME NEW t \in Txns, Rollback(t) PROVE IdsUnique'
  BY <1>1, <1>4, ChainSteps
<1>5. ASSUME NEW t \in Txns, OtherStatement(t) \/ ReadTail(t) \/ FailToRead(t)
      PROVE  IdsUnique'
  BY <1>1, <1>5, ChainSteps
<1>6. CASE UNCHANGED vars
  BY <1>1, <1>6 DEF vars, tables
<1> QED BY <1>2, <1>3, <1>4, <1>5, <1>6 DEF Next

LEMMA IdsUniqueInit == Init => IdsUnique
BY DEF Init, IdsUnique, LegacyRows

\* Two sets of rows that have a last seq have one together.
LEMMA TailedUnion ==
  ASSUME NEW A \in SUBSET Rows, NEW B \in SUBSET Rows, Tailed(A), Tailed(B)
  PROVE  Tailed(A \union B)
<1>0. \A e \in A \union B : e.seq \in Nat
  BY DEF Rows
<1>1. CASE A = {} \/ B = {}
  BY <1>1
<1>2. ASSUME NEW a \in A, \A f \in A : f.seq <= a.seq,
             NEW b \in B, \A f \in B : f.seq <= b.seq
      PROVE  Tailed(A \union B)
  <2>1. CASE a.seq <= b.seq
    BY <1>0, <1>2, <2>1 DEF Tailed
  <2>2. CASE b.seq <= a.seq
    BY <1>0, <1>2, <2>2 DEF Tailed
  <2> QED BY <1>0, <2>1, <2>2
<1> QED BY <1>1, <1>2 DEF Tailed

LEMMA TailedStep ==
  ASSUME LinksInv, [Next]_vars,
         Tailed(Chained), \A t \in Txns : Tailed(pending[t])
  PROVE  Tailed(Chained)' /\ \A t \in Txns : Tailed(pending[t])'
<1>0. TypeOK
  BY DEF LinksInv
<1>1. CASE chain' = chain /\ \A u \in Txns : pending'[u] \in {pending[u], {}}
  BY <1>1 DEF Tailed, Chained
<1>2. ASSUME NEW t \in Txns, AppendRow(t)
      PROVE  Tailed(Chained)' /\ \A u \in Txns : Tailed(pending[u])'
  <2>1. PICK id \in RowIds :
          pending'[t] = pending[t] \union {NewRow(id, link[t])}
    BY <1>0, <1>2, ChainSteps
  <2> DEFINE e == NewRow(id, link[t])
  <2>2. e \in Rows
    BY <1>0, <1>2, AppendedRow DEF AppendRow
  <2> HIDE DEF e
  <2>3. e.seq \in Nat
    BY <2>2 DEF Rows
  <2>4. Tailed({e})
    BY <2>3 DEF Tailed
  <2>5. Tailed(pending[t] \union {e})
    <3>1. pending[t] \in SUBSET Rows
      BY <1>0 DEF TypeOK
    <3> QED BY <2>2, <2>4, <3>1, TailedUnion
  <2>6. chain' = chain /\ \A u \in Txns \ {t} : pending'[u] = pending[u]
    BY <1>0, <1>2, ChainSteps
  <2>7. pending'[t] = pending[t] \union {e}
    BY <2>1 DEF e
  <2> QED BY <2>5, <2>6, <2>7 DEF Tailed, Chained
<1>3. ASSUME NEW t \in Txns, Commit(t)
      PROVE  Tailed(Chained)' /\ \A u \in Txns : Tailed(pending[u])'
  <2>1. /\ chain' = chain \union pending[t]
        /\ pending'[t] = {}
        /\ \A u \in Txns \ {t} : pending'[u] = pending[u]
    BY <1>0, <1>3, ChainSteps
  <2>2. Chained' = Chained \union pending[t]
    BY <2>1 DEF Chained, LinksInv
  <2>3. Chained \in SUBSET Rows /\ pending[t] \in SUBSET Rows
    BY <1>0, RowTypes DEF TypeOK
  <2>4. Tailed(Chained \union pending[t])
    BY <2>3, TailedUnion
  <2> QED BY <2>1, <2>2, <2>4 DEF Tailed
<1>4. ASSUME NEW t \in Txns, Rollback(t)
      PROVE  Tailed(Chained)' /\ \A u \in Txns : Tailed(pending[u])'
  BY <1>0, <1>1, <1>4, ChainSteps
<1>5. ASSUME NEW t \in Txns, OtherStatement(t) \/ ReadTail(t) \/ FailToRead(t)
      PROVE  Tailed(Chained)' /\ \A u \in Txns : Tailed(pending[u])'
  BY <1>0, <1>1, <1>5, ChainSteps
<1>6. CASE UNCHANGED vars
  BY <1>1, <1>6 DEF vars, tables
<1> QED BY <1>2, <1>3, <1>4, <1>5, <1>6 DEF Next

\* What a transaction whose read succeeds links to follows all it can see.
LEMMA ReadsTheTail ==
  ASSUME LinksInv, Tailed(Chained), NEW t \in Txns, Tailed(pending[t]),
         NEW l \in ChainStates(t), NEW e \in Chained \union pending[t]
  PROVE  e.seq <= l[2]
<1> DEFINE S == Chained \union pending[t]
<1>0. /\ Chained \in SUBSET Rows /\ pending[t] \in SUBSET Rows
      /\ \A f \in S : f.seq \in Nat /\ f.seq # Null
  BY RowTypes DEF LinksInv, TypeOK, Chained, Rows
<1>1. PICK x \in S : \A f \in S : f.seq <= x.seq
  BY <1>0, TailedUnion DEF Tailed
<1>2. x \in Tails(Visible(t))
  <2>1. \A f \in Visible(t) : f \in S \/ f.seq = 0
    BY DEF Visible, Chained, Null
  <2>2. \A f \in Visible(t) : f.seq <= x.seq
    BY <1>0, <1>1, <2>1
  <2>3. x \in Visible(t)
    BY DEF Visible, Chained
  <2> QED BY <1>0, <2>2, <2>3 DEF Tails
<1>3. PICK y \in Tails(Visible(t)) : l = <<y.hash, y.seq>>
  BY <1>2 DEF ChainStates
<1>4. e \in Visible(t)
  BY DEF Visible, Chained
<1> QED BY <1>3, <1>4 DEF Tails

\* A transaction is at the tail for as long as nobody else's rows are
\* committed and its own are not.
LEMMA AtTheTailKept ==
  ASSUME NEW u \in Txns, AtTheTail(u), chain' = chain,
         pending'[u] = pending[u], link'[u] = link[u]
  PROVE  AtTheTail(u)'
BY DEF AtTheTail, Chained

LEMMA TailInvStep == LinksInv /\ TailInv /\ [Next]_vars => TailInv'
<1> SUFFICES ASSUME LinksInv, TailInv, [Next]_vars PROVE TailInv'
  OBVIOUS
<1>0. TypeOK
  BY DEF LinksInv
<1>1. Tailed(Chained)' /\ \A t \in Txns : Tailed(pending[t])'
  BY TailedStep DEF TailInv
<1> DEFINE Tidy == \A t \in closed : pending[t] = {} /\ link[t] = NoLink
           Unique == \A e, f \in Chained : e.seq = f.seq => e = f
           Sighted == Txns \ (overtaken \union blind)
           Goal == /\ Tidy'
                   /\ forked' \/ rerooted' \/ (Unique' /\ \A t \in Sighted' : AtTheTail(t)')
<1>2. /\ Tidy
      /\ forked \/ rerooted \/ (Unique /\ \A t \in Sighted : AtTheTail(t))
      /\ closed \subseteq Txns
  BY <1>0 DEF TailInv, TypeOK
\* A step that commits nothing and blinds only its own transaction.
<1>3. ASSUME NEW t \in Txns, chain' = chain, UNCHANGED <<forked, rerooted>>,
             Tidy',
             \A u \in Txns \ {t} : pending'[u] = pending[u] /\ link'[u] = link[u],
             Sighted' \subseteq Sighted \union {t},
             t \in Sighted' => \/ AtTheTail(t)'
                               \/ t \in Sighted /\ (AtTheTail(t) => AtTheTail(t)')
      PROVE  Goal
  <2>1. CASE forked \/ rerooted
    BY <1>3, <2>1
  <2>2. CASE Unique /\ \A u \in Sighted : AtTheTail(u)
    <3>1. Unique'
      BY <1>3, <2>2 DEF Chained
    <3>2. ASSUME NEW u \in Sighted' PROVE AtTheTail(u)'
      <4>1. CASE u = t
        BY <1>3, <2>2, <3>2, <4>1
      <4>2. CASE u # t
        BY <1>3, <2>2, <3>2, <4>2, AtTheTailKept
      <4> QED BY <4>1, <4>2
    <3> QED BY <1>3, <3>1, <3>2
  <2> QED BY <1>2, <2>1, <2>2
<1>4. ASSUME NEW t \in Txns, OtherStatement(t) PROVE Goal
  <2>1. UNCHANGED <<chain, pending, link, closed, history>>
    BY <1>0, <1>4, ChainSteps
  <2>2. AtTheTail(t) => AtTheTail(t)'
    BY <2>1 DEF AtTheTail, Chained
  <2>3. Tidy' /\ Sighted' = Sighted /\ UNCHANGED <<forked, rerooted>>
    BY <1>2, <2>1 DEF history
  <2> QED BY <1>3, <2>1, <2>2, <2>3
<1>5. ASSUME NEW t \in Txns, ReadTail(t) PROVE Goal
  <2>1. /\ UNCHANGED <<chain, pending, closed, history>>
        /\ t \notin closed
        /\ link'[t] \in ChainStates(t)
        /\ \A u \in Txns \ {t} : link'[u] = link[u]
    BY <1>0, <1>5, ChainSteps
  <2>2. AtTheTail(t) => AtTheTail(t)'
    <3>1. \A e \in Chained \union pending[t] : e.seq <= link'[t][2]
      BY <2>1, ReadsTheTail DEF TailInv
    <3> QED BY <2>1, <3>1 DEF AtTheTail, Chained
  <2>3. Tidy' /\ Sighted' = Sighted /\ UNCHANGED <<forked, rerooted>>
    BY <1>2, <2>1 DEF history
  <2> QED BY <1>3, <2>1, <2>2, <2>3
<1>6. ASSUME NEW t \in Txns, FailToRead(t) PROVE Goal
  <2>1. /\ UNCHANGED <<chain, pending, closed, overtaken, forked, rerooted>>
        /\ t \notin closed
        /\ blind' = blind \union {t}
        /\ \A u \in Txns \ {t} : link'[u] = link[u]
    BY <1>0, <1>6, ChainSteps
  <2>2. Tidy' /\ Sighted' \subseteq Sighted /\ t \notin Sighted'
    BY <1>2, <2>1
  <2> QED BY <1>3, <2>1, <2>2
<1>7. ASSUME NEW t \in Txns, AppendRow(t) PROVE Goal
  <2>1. /\ UNCHANGED <<chain, closed, history>>
        /\ link[t] # NoLink /\ link'[t] = NoLink
        /\ \A u \in Txns \ {t} : link'[u] = link[u] /\ pending'[u] = pending[u]
    BY <1>0, <1>7, ChainSteps
  <2>2. PICK id \in RowIds :
          pending'[t] = pending[t] \union {NewRow(id, link[t])}
    BY <1>0, <1>7, ChainSteps
  <2> DEFINE e == NewRow(id, link[t])
             n == link[t][2]
  <2>3. n \in Nat /\ e.seq = n + 1
    BY <1>0, <2>1, AppendedRow
  <2>4. \A f \in Chained \union pending[t] : f.seq \in Nat
    BY <1>0, RowTypes DEF TypeOK, Rows
  <2> HIDE DEF e
  <2>5. pending'[t] = pending[t] \union {e}
    BY <2>2 DEF e
  <2>6. AtTheTail(t) => AtTheTail(t)'
    <3> SUFFICES ASSUME AtTheTail(t) PROVE AtTheTail(t)'
      OBVIOUS
    <3>1. \A f \in Chained \union pending[t] : f.seq < e.seq
      <4>1. \A f \in Chained \union pending[t] : f.seq <= n
        BY <2>1 DEF AtTheTail
      <4> QED BY <2>3, <2>4, <4>1
    <3>2. Chained' = Chained
      BY <2>1 DEF Chained
    <3>3. ASSUME NEW f \in pending'[t], NEW g \in pending'[t], f.seq = g.seq
          PROVE  f = g
      BY <2>3, <2>4, <2>5, <3>1, <3>3 DEF AtTheTail
    <3>4. ASSUME NEW f \in pending'[t], NEW g \in Chained
          PROVE  g.seq < f.seq
      BY <2>5, <3>1, <3>4 DEF AtTheTail
    <3> QED BY <2>1, <3>2, <3>3, <3>4 DEF AtTheTail
  <2>7. t \notin closed
    BY <1>2, <2>1
  <2>8. Tidy' /\ Sighted' = Sighted /\ UNCHANGED <<forked, rerooted>>
    BY <1>2, <2>1, <2>7 DEF history
  <2> QED BY <1>3, <2>1, <2>6, <2>8
<1>8. ASSUME NEW t \in Txns, Commit(t) PROVE Goal
  <2>1. /\ chain' = chain \union pending[t]
        /\ closed' = closed \union {t}
        /\ link[t] = NoLink /\ link' = link
        /\ pending'[t] = {}
        /\ \A u \in Txns \ {t} : pending'[u] = pending[u]
    BY <1>0, <1>8, ChainSteps
  <2>2. Tidy'
    BY <1>2, <2>1
  <2>3. Chained' = Chained \union pending[t]
    BY <2>1 DEF Chained, LinksInv
  <2>4. \A f \in Chained \union pending[t] : f.seq \in Nat
    BY <1>0, RowTypes DEF TypeOK, Rows
  <2>5. CASE forked \/ rerooted \/ t \in blind \/ (t \in overtaken /\ pending[t] # {})
    BY <1>8, <2>2, <2>5 DEF Commit
  <2>6. CASE /\ Unique /\ \A u \in Sighted : AtTheTail(u)
             /\ t \notin blind /\ (pending[t] = {} \/ t \notin overtaken)
    <3>1. Unique'
      <4>1. CASE pending[t] = {}
        BY <2>3, <2>6, <4>1
      <4>2. CASE t \notin overtaken
        <5>1. AtTheTail(t)
          BY <2>6, <4>2
        <5>2. \A e \in pending[t], f \in Chained : f.seq # e.seq
          BY <2>4, <5>1 DEF AtTheTail
        <5> QED BY <2>3, <2>6, <5>1, <5>2 DEF AtTheTail
      <4> QED BY <2>6, <4>1, <4>2
    <3>2. ASSUME NEW u \in Sighted' PROVE AtTheTail(u)'
      <4>1. CASE pending'[u] = {} /\ link'[u] = NoLink
        BY <4>1 DEF AtTheTail
      <4>2. CASE ~(pending'[u] = {} /\ link'[u] = NoLink)
        <5>1. u # t /\ u \notin closed /\ u \in Reading
          BY <1>2, <2>1, <4>2 DEF Reading
        <5>2. pending[t] = {} /\ u \in Sighted
          BY <1>8, <3>2, <5>1 DEF Commit
        <5> QED BY <2>1, <2>3, <2>6, <5>1, <5>2 DEF AtTheTail
      <4> QED BY <4>1, <4>2
    <3> QED BY <2>2, <3>1, <3>2
  <2> QED BY <1>2, <2>5, <2>6
<1>9. ASSUME NEW t \in Txns, Rollback(t) PROVE Goal
  <2>1. /\ UNCHANGED <<chain, forked, rerooted>>
        /\ closed' = closed \union {t}
        /\ overtaken' = overtaken \ {t} /\ blind' = blind \ {t}
        /\ link'[t] = NoLink /\ pending'[t] = {}
        /\ \A u \in Txns \ {t} : link'[u] = link[u] /\ pending'[u] = pending[u]
    BY <1>0, <1>9, ChainSteps
  <2>2. AtTheTail(t)'
    BY <2>1 DEF AtTheTail
  <2>3. Tidy' /\ Sighted' \subseteq Sighted \union {t}
    BY <1>2, <2>1
  <2> QED BY <1>3, <2>1, <2>2, <2>3
<1>10. ASSUME UNCHANGED vars PROVE Goal
  <2>1. UNCHANGED <<chain, pending, link, closed, overtaken, blind, forked, rerooted>>
    BY <1>10 DEF vars, tables, session, history
  <2>2. Chained' = Chained
    BY <2>1 DEF Chained
  <2>3. \A t \in Txns : AtTheTail(t) => AtTheTail(t)'
    BY <2>1, AtTheTailKept
  <2> QED BY <1>2, <2>1, <2>2, <2>3
<1>11. Goal
  <2> HIDE DEF Goal
  <2> QED BY <1>4, <1>5, <1>6, <1>7, <1>8, <1>9, <1>10 DEF Next
<1> QED BY <1>1, <1>11 DEF TailInv

LEMMA TailInvInit == Init => TailInv
<1> SUFFICES ASSUME Init PROVE TailInv
  OBVIOUS
<1>1. Chained = {}
  BY DEF Init, Chained, LegacyRows
<1> QED BY <1>1 DEF Init, TailInv, Tailed, AtTheTail

-----------------------------------------------------------------------------
(* What verification establishes *)

\* Links are right, ids are unique, and a writer that nobody overtook and whose
\* read did not fail appends after everything committed.
THEOREM ChainInvariant == Spec => []ChainInv
<1>1. Init => ChainInv
  BY LinksInvInit, IdsUniqueInit, TailInvInit DEF ChainInv
<1>2. ChainInv /\ [Next]_vars => ChainInv'
  BY LinksInvStep, IdsUniqueStep, TailInvStep DEF ChainInv, LinksInv
<1> QED BY <1>1, <1>2, PTL DEF Spec

LEMMA TrailVerified == ChainInv => VerifiesUnlessForked
<1> SUFFICES ASSUME ChainInv, ~forked, ~rerooted PROVE Verified(chain)
  BY DEF VerifiesUnlessForked
<1>1. chain \in SUBSET TableRows /\ \A e \in chain : Skipped(e) <=> e.seq = Null
  BY RowTypes DEF ChainInv, LinksInv
<1>2. \A e, f \in chain : e.seq = f.seq /\ e.seq # Null => e = f
  BY DEF ChainInv, TailInv, Chained
<1>3. \A e \in chain : e.seq # Null =>
        /\ e.hash = RowHash(e)
        /\ \/ e.seq = 1 /\ e.prev = GENESIS
           \/ \E p \in chain : p.seq # Null /\ e.prev = p.hash /\ e.seq = p.seq + 1
  BY DEF ChainInv, LinksInv, LinksLeadToRows, Chained
<1> QED BY <1>1, <1>2, <1>3, LinkedVerified

\* The audit trail verifies, unless a writer committed rows after another one
\* had committed since its read, or after its own read had failed.
THEOREM TrailVerifies == Spec => []VerifiesUnlessForked
BY ChainInvariant, TrailVerified, PTL

\* A row that links to nothing is the first.
LEMMA RootIsFirst ==
  ASSUME ChainInv, NEW e \in Chained, e.prev = GENESIS
  PROVE  e.seq = 1
<1>1. \A p \in Chained : p.hash # GENESIS
  <2> SUFFICES ASSUME NEW p \in Chained PROVE p.hash # GENESIS
    OBVIOUS
  <2>1. p \in Rows
    BY RowTypes DEF ChainInv, LinksInv
  <2>2. p.prev \in Hashes
    BY <2>1 DEF Rows, Hashes
  <2>3. <<p.id, p.seq>> \in Int \X Int
    <3>1. p.id \in RowIds /\ p.seq \in Nat
      BY <2>1 DEF Rows
    <3>2. p.id \in Int
      BY <3>1, RowIdsAssumption
    <3>3. p.seq \in Int
      BY <3>1
    <3> QED BY <3>2, <3>3
  <2>4. p.hash = Append(p.prev, <<p.id, p.seq>>)
    <3>1. p.hash = RowHash(p)
      BY DEF ChainInv, LinksInv, LinksLeadToRows
    <3> QED BY <2>2, <3>1, NoHashAssumption DEF RowHash, LinkHash
  <2>5. ASSUME NEW T, NEW s \in Seq(T), NEW x \in T PROVE Append(s, x) # GENESIS
    BY AppendProperties DEF GENESIS
  <2> QED BY <2>2, <2>3, <2>4, <2>5 DEF Hashes
<1> QED BY <1>1 DEF ChainInv, LinksInv, LinksLeadToRows

\* A set of naturals that holds the number before each of its members but 1
\* is an interval.
LEMMA InitialSegment ==
  ASSUME NEW D \in SUBSET Nat, 0 \notin D, NEW n \in Nat, \A d \in D : d <= n,
         \A d \in D : d = 1 \/ d - 1 \in D
  PROVE  IsFiniteSet(D) /\ Cardinality(D) \in Nat /\ D = 1 .. Cardinality(D)
<1> DEFINE N == {k \in Nat : k + 1 \notin D}
<1>1. PICK k \in N : \A m \in N : k <= m
  <2>1. n \in N
    BY SMT
  <2>2. N \in SUBSET Nat /\ N # {}
    BY <2>1
  <2> HIDE DEF N
  <2> QED BY <2>2, Least
<1>2. \A d \in D : d <= k
  <2> SUFFICES ASSUME NEW c \in D, c > k PROVE FALSE
    BY <1>1
  <2> DEFINE A == {d \in D : d > k}
  <2>1. PICK d \in A : \A m \in A : d <= m
    <3>1. A \in SUBSET Nat /\ A # {}
      OBVIOUS
    <3> HIDE DEF A
    <3> QED BY <3>1, Least
  <2>2. d # k + 1 /\ d # 1
    BY <1>1, <2>1
  <2>3. d - 1 \in A
    BY <1>1, <2>1, <2>2
  <2> QED BY <2>1, <2>3
<1>3. \A j \in 1 .. k : j \in D
  <2> SUFFICES ASSUME NEW j \in 1 .. k, j \notin D PROVE FALSE
    OBVIOUS
  <2>1. j - 1 \in N
    BY <1>1
  <2>2. k <= j - 1
    BY <1>1, <2>1
  <2>3. k \in Nat /\ j \in Int /\ j <= k
    BY <1>1
  <2> QED BY <2>2, <2>3
<1>4. D = 1 .. k
  <2>1. \A d \in D : d \in Nat /\ d # 0
    OBVIOUS
  <2>2. D \subseteq 1 .. k
    BY <1>1, <1>2, <2>1
  <2> QED BY <1>3, <2>2
<1>5. IsFiniteSet(1 .. k) /\ Cardinality(1 .. k) = k
  BY <1>1, FS_Interval
<1> QED BY <1>1, <1>4, <1>5

\* A set of committed rows, no two with one seq, has as many rows as seqs.
LEMMA RowsPerSeq ==
  ASSUME ChainInv, NEW kept \in SUBSET Chained,
         \A e, f \in kept : e.seq = f.seq => e = f
  PROVE  LET seqs == {e.seq : e \in kept}
         IN  /\ \E n \in Nat : \A d \in seqs : d <= n
             /\ seqs \in SUBSET Nat /\ 0 \notin seqs
             /\ IsFiniteSet(kept) /\ Cardinality(kept) \in Nat
             /\ IsFiniteSet(seqs) => Cardinality(kept) = Cardinality(seqs)
<1> DEFINE seqs == {e.seq : e \in kept}
           f == [e \in kept |-> e.seq]
<1>1. seqs \in SUBSET Nat /\ 0 \notin seqs /\ \A e \in Chained : e.seq \in Nat
  BY RowTypes DEF ChainInv, LinksInv, Chained, Rows, Null
<1>2. PICK n \in Nat : \A d \in seqs : d <= n
  <2>1. CASE Chained = {}
    BY <2>1
  <2>2. CASE Chained # {}
    <3>1. PICK e \in Chained : \A g \in Chained : g.seq <= e.seq
      BY <2>2 DEF ChainInv, TailInv, Tailed
    <3> QED BY <1>1, <3>1
  <2> QED BY <2>1, <2>2
<1>3. IsFiniteSet(seqs)
  <2> HIDE DEF seqs
  <2> QED BY <1>1, <1>2, FS_BoundedSetOfNaturals
<1>4. f \in Injection(kept, seqs) /\ f \in Surjection(kept, seqs)
  BY DEF Injection, IsInjective, Surjection
<1>5. IsFiniteSet(kept) /\ Cardinality(kept) = Cardinality(seqs)
  <2> HIDE DEF f, seqs
  <2> QED BY <1>3, <1>4, FS_Injection
<1>6. Cardinality(kept) \in Nat
  BY <1>5, FS_CardinalityType
<1> QED BY <1>1, <1>2, <1>5, <1>6

\* Committed rows have one id each, and right hashes.
LEMMA ChainRows ==
  ASSUME ChainInv
  PROVE  /\ chain \in SUBSET TableRows /\ Chained \in SUBSET chain
         /\ Rows \subseteq TableRows /\ Chained \in SUBSET Rows
         /\ \A e \in chain : Skipped(e) <=> e.seq = Null
         /\ \A e, f \in chain : e.id = f.id => e = f
         /\ \A e \in Chained : e.seq \in Nat /\ e.seq # 0 /\ e.hash = RowHash(e)
BY RowTypes DEF ChainInv, LinksInv, LinksLeadToRows, IdsUnique, Chained, Rows, Null

LEMMA VerifiedIsLinear ==
  ASSUME ChainInv, NEW kept \in SUBSET Chained,
         Verified(kept \union (chain \ Chained))
  PROVE  Linear(kept)
<1> DEFINE rows == kept \union (chain \ Chained)
           seqs == {e.seq : e \in kept}
<1>0. /\ rows \in SUBSET TableRows
      /\ \A e \in rows : Skipped(e) <=> e.seq = Null
      /\ \A e, f \in rows : e.id = f.id => e = f
      /\ \A e \in rows : e \in kept <=> e.seq # Null
      /\ \A e \in kept : e.seq \in Nat /\ e.seq # 0 /\ e.hash = RowHash(e)
  BY ChainRows DEF Chained
<1>1. \A e, f \in kept : e.seq = f.seq => e = f
  <2> HIDE DEF rows
  <2> QED BY <1>0, VerifiedUnique DEF rows
<1>2. ASSUME NEW e \in kept
      PROVE  \/ e.seq = 1 /\ e.prev = GENESIS
             \/ \E p \in kept : e.prev = p.hash /\ e.seq = p.seq + 1
  <2>1. e \in rows /\ ~Skipped(e) /\ \A p \in rows : Skipped(p) <=> p.seq = Null
    BY <1>0
  <2>2. \/ e.prev = GENESIS
        \/ \E p \in rows : p.seq # Null /\ e.prev = p.hash /\ e.seq = p.seq + 1
    <3> HIDE DEF rows
    <3> QED BY <2>1, VerifiedRow DEF rows
  <2> QED BY <1>0, <2>2, RootIsFirst
<1>3. /\ \E n \in Nat : \A d \in seqs : d <= n
      /\ seqs \in SUBSET Nat /\ 0 \notin seqs
      /\ IsFiniteSet(seqs) => Cardinality(kept) = Cardinality(seqs)
  BY <1>1, RowsPerSeq
<1>4. seqs = 1 .. Cardinality(kept)
  <2>1. \A d \in seqs : d = 1 \/ d - 1 \in seqs
    <3> SUFFICES ASSUME NEW e \in kept PROVE e.seq = 1 \/ e.seq - 1 \in seqs
      OBVIOUS
    <3>1. CASE e.seq = 1
      BY <3>1
    <3>2. ASSUME NEW p \in kept, e.seq = p.seq + 1 PROVE e.seq - 1 \in seqs
      <4>1. e.seq - 1 = p.seq
        BY <1>0, <3>2
      <4> QED BY <4>1
    <3> QED BY <1>2, <3>1, <3>2
  <2> HIDE DEF seqs
  <2>2. IsFiniteSet(seqs) /\ seqs = 1 .. Cardinality(seqs)
    BY <1>3, <2>1, InitialSegment
  <2> QED BY <1>3, <2>2
<1>5. ASSUME NEW e \in kept, NEW f \in kept, f.seq = e.seq + 1
      PROVE  f.prev = e.hash
  <2>1. f.seq # 1
    BY <1>0, <1>5
  <2>2. PICK p \in kept : f.prev = p.hash /\ f.seq = p.seq + 1
    BY <1>2, <2>1
  <2>3. p = e
    BY <1>0, <1>1, <1>5, <2>2
  <2> QED BY <2>2, <2>3
<1>6. ASSUME NEW e \in kept, e.seq = 1 PROVE e.prev = GENESIS
  BY <1>0, <1>2, <1>6
<1> QED BY <1>0, <1>1, <1>4, <1>5, <1>6 DEF Linear

LEMMA LinearIsVerified ==
  ASSUME ChainInv, NEW kept \in SUBSET Chained, Linear(kept)
  PROVE  Verified(kept \union (chain \ Chained))
<1> DEFINE rows == kept \union (chain \ Chained)
           seqs == {e.seq : e \in kept}
<1>0. /\ rows \in SUBSET TableRows
      /\ \A e \in rows : Skipped(e) <=> e.seq = Null
      /\ \A e \in rows : e \in kept <=> e.seq # Null
      /\ \A e \in kept : e.seq \in Nat /\ e.seq # 0 /\ e.hash = RowHash(e)
  BY ChainRows DEF Chained
<1>1. \A e, f \in kept : e.seq = f.seq => e = f
  BY DEF Linear
<1>2. Cardinality(kept) \in Nat
  BY <1>1, RowsPerSeq
<1>3. seqs = 1 .. Cardinality(kept)
  BY DEF Linear
<1>4. ASSUME NEW e \in kept
      PROVE  \/ e.seq = 1 /\ e.prev = GENESIS
             \/ \E p \in kept : e.prev = p.hash /\ e.seq = p.seq + 1
  <2>1. CASE e.seq = 1
    BY <2>1 DEF Linear
  <2>2. CASE e.seq # 1
    <3> DEFINE n == e.seq
    <3>1. n \in 1 .. Cardinality(kept)
      BY <1>3
    <3>2. n - 1 \in 1 .. Cardinality(kept)
      <4> HIDE DEF n
      <4> QED BY <1>2, <2>2, <3>1 DEF n
    <3>3. PICK p \in kept : p.seq = e.seq - 1
      BY <1>3, <3>2
    <3>4. e.seq = p.seq + 1
      BY <1>0, <3>3
    <3> QED BY <3>4 DEF Linear
  <2> QED BY <2>1, <2>2
<1>5. \A e \in rows : e.seq # Null =>
        /\ e.hash = RowHash(e)
        /\ \/ e.seq = 1 /\ e.prev = GENESIS
           \/ \E p \in rows : p.seq # Null /\ e.prev = p.hash /\ e.seq = p.seq + 1
  BY <1>0, <1>4
<1>6. \A e, f \in rows : e.seq = f.seq /\ e.seq # Null => e = f
  BY <1>0, <1>1
<1> HIDE DEF rows
<1> QED BY <1>0, <1>5, <1>6, LinkedVerified DEF rows

\* verify_audit_chain accepts exactly the linear chains, whichever of the
\* committed rows it is given.
THEOREM VerificationExact == Spec => []VerifyExact
<1>1. ChainInv => VerifyExact
  BY VerifiedIsLinear, LinearIsVerified DEF VerifyExact
<1> QED BY <1>1, ChainInvariant, PTL

\* Rows with right hashes and one hash are one row.
LEMMA HashPins ==
  ASSUME NEW p \in TableRows, NEW q \in TableRows, p.prev \in Hashes, q.prev \in Hashes,
         p.hash = RowHash(p), q.hash = RowHash(q), p.hash = q.hash
  PROVE  p = q
<1>1. ASSUME NEW r \in TableRows, r.prev \in Hashes
      PROVE  <<r.id, r.seq>> \in Int \X Int /\ RowHash(r) = Append(r.prev, <<r.id, r.seq>>)
  <2>1. r.id \in RowIds /\ r.seq \in Nat
    BY DEF TableRows
  <2>2. r.id \in Int
    BY <2>1, RowIdsAssumption
  <2>3. r.prev # NoHash
    BY <1>1, NoHashAssumption
  <2>4. r.seq \in Int
    BY <2>1
  <2> QED BY <2>2, <2>3, <2>4 DEF RowHash, LinkHash
<1>2. ASSUME NEW T, NEW s \in Seq(T), NEW u \in Seq(T), NEW x \in T, NEW y \in T,
             Append(s, x) = Append(u, y)
      PROVE  s = u /\ x = y
  BY <1>2, AppendInjective
<1>3. p.prev = q.prev /\ <<p.id, p.seq>> = <<q.id, q.seq>>
  <2>1. Append(p.prev, <<p.id, p.seq>>) = Append(q.prev, <<q.id, q.seq>>)
    BY <1>1
  <2>2. p.prev \in Seq(Int \X Int) /\ q.prev \in Seq(Int \X Int)
    BY DEF Hashes
  <2>3. <<p.id, p.seq>> \in Int \X Int /\ <<q.id, q.seq>> \in Int \X Int
    BY <1>1
  <2> DEFINE x == <<p.id, p.seq>>
             y == <<q.id, q.seq>>
             C == Int \X Int
  <2>4. \A s, u \in Seq(C) : \A a, b \in C : Append(s, a) = Append(u, b) => s = u /\ a = b
    <3> HIDE DEF C
    <3> QED BY <1>2
  <2>5. /\ p.prev \in Seq(C) /\ q.prev \in Seq(C) /\ x \in C /\ y \in C
        /\ Append(p.prev, x) = Append(q.prev, y)
    BY <2>1, <2>2, <2>3
  <2> HIDE DEF x, y, C
  <2>6. p.prev = q.prev /\ x = y
    BY <2>4, <2>5
  <2> QED BY <2>6 DEF x, y
<1>4. p.id = q.id /\ p.seq = q.seq
  BY <1>3
<1> QED BY <1>3, <1>4 DEF TableRows

\* Where rows verify, a committed row that is among them has the committed row
\* before it among them: its link is the hash of that row, and of no other.
LEMMA RowBeforeIsKept ==
  ASSUME ChainInv, NEW rows \in SUBSET TableRows, Verified(rows),
         NEW e \in Chained \intersect rows, e.seq # 1
  PROVE  \E q \in Chained \intersect rows : e.seq = q.seq + 1
<1>0. /\ \A f \in Chained : /\ f \in TableRows /\ f \in Rows /\ f.seq \in Nat /\ f.seq # Null
                            /\ f.prev \in Hashes /\ f.hash \in Hashes /\ f.hash = RowHash(f)
      /\ NoHash \notin Hashes
  BY ChainRows, NoHashAssumption DEF Rows, TableRows, Null
<1>1. ~Skipped(e)
  BY <1>0 DEF Skipped
<1>2. PICK q \in Chained : e.prev = q.hash /\ e.seq = q.seq + 1
  BY DEF ChainInv, LinksInv, LinksLeadToRows
<1>3. e.prev # GENESIS
  BY RootIsFirst
<1>4. PICK p \in rows : ~Skipped(p) /\ e.prev = p.hash
  BY <1>1, <1>3, VerifiedRow
<1>5. p.hash = RowHash(p) /\ p.prev \in Hashes
  BY <1>4, VerifiedRow DEF Skipped, TableRows
<1>6. p = q
  BY <1>0, <1>2, <1>4, <1>5, HashPins
<1> QED BY <1>2, <1>6

\* Where rows verify, what they have of a trail that verifies is its beginning:
\* of the rows that are there although an earlier one is not, the first would
\* have lost the row before it.
LEMMA OnlyTheEndCanDiffer ==
  ASSUME ChainInv, Verified(chain), NEW rows \in SUBSET TableRows, Verified(rows)
  PROVE  OnlyTheEndDiffers(rows)
<1>0. \A f \in Chained : f \in chain /\ f.seq \in Nat /\ f.seq # Null /\ f.seq # 0
  BY ChainRows DEF Chained
<1> SUFFICES ASSUME NEW d \in Chained \ rows, NEW c \in Chained \intersect rows, ~(c.seq < d.seq)
             PROVE  FALSE
  BY DEF OnlyTheEndDiffers
<1> DEFINE A == {f.seq : f \in {f \in Chained \intersect rows : d.seq <= f.seq}}
<1>1. A \in SUBSET Nat /\ A # {}
  BY <1>0
<1>2. PICK n \in A : \A m \in A : n <= m
  <2> HIDE DEF A
  <2> QED BY <1>1, Least
<1>3. PICK e \in Chained \intersect rows : d.seq <= e.seq /\ e.seq = n
  BY <1>2
<1>4. e.seq # d.seq
  <2>1. ASSUME e.seq = d.seq PROVE e = d
    BY <1>0, <2>1, ChainRows, VerifiedUnique
  <2> QED BY <2>1
<1>5. e.seq # 1
  BY <1>0, <1>3, <1>4
<1>6. PICK q \in Chained \intersect rows : e.seq = q.seq + 1
  BY <1>5, RowBeforeIsKept
<1>7. d.seq <= q.seq
  BY <1>0, <1>3, <1>4, <1>6
<1>8. n <= q.seq
  BY <1>2, <1>7
<1> QED BY <1>0, <1>3, <1>6, <1>8

\* Whatever is done to a trail that verified, to however many of its rows, if the
\* result verifies then only rows at the end were dropped or changed.
THEOREM AnyTamperingEvident ==
  Spec => [](Verified(chain) => \A rows \in SUBSET TableRows :
                                  Verified(rows) => OnlyTheEndDiffers(rows))
<1>1. ChainInv => (Verified(chain) => \A rows \in SUBSET TableRows :
                                        Verified(rows) => OnlyTheEndDiffers(rows))
  BY OnlyTheEndCanDiffer
<1> QED BY <1>1, ChainInvariant, PTL

\* What a row can be overwritten with could be in the table.
LEMMA OverwrittenTyped ==
  ASSUME ChainInv, NEW e \in Chained
  PROVE  Overwritten(e) \subseteq TableRows
<1> DEFINE forged == [id : {e.id} \union (RowIds \ UsedIds), seq : {Null, e.seq, e.seq + 1},
                      prev : {NoHash, GENESIS, e.prev}, hash : {NoHash, e.hash}]
<1>1. e \in Rows
  BY ChainRows DEF Chained
<1>2. GENESIS \in Hashes /\ Null \in Nat /\ e.seq \in Nat /\ e.id \in RowIds
      /\ e.prev \in Hashes /\ e.hash \in Hashes
  BY <1>1 DEF GENESIS, Hashes, Null, Rows
<1>3. ASSUME NEW f \in forged PROVE f \in TableRows /\ RowHash(f) \in Hashes
  <2>1. f \in TableRows
    BY <1>2 DEF TableRows
  <2>2. <<f.id, f.seq>> \in Int \X Int
    <3>1. f.id \in RowIds /\ f.seq \in Nat
      BY <2>1 DEF TableRows
    <3>2. f.id \in Int
      BY <3>1, RowIdsAssumption
    <3>3. f.seq \in Int
      BY <3>1
    <3> QED BY <3>2, <3>3
  <2>3. (IF f.prev = NoHash THEN GENESIS ELSE f.prev) \in Hashes
    BY <1>2, <2>1 DEF TableRows
  <2>4. ASSUME NEW T, NEW s \in Seq(T), NEW x \in T PROVE Append(s, x) \in Seq(T)
    BY AppendProperties
  <2> QED BY <2>1, <2>2, <2>3, <2>4 DEF RowHash, LinkHash, Hashes
<1>4. ASSUME NEW f \in forged PROVE [f EXCEPT !.hash = RowHash(f)] \in TableRows
  <2>1. f \in TableRows /\ RowHash(f) \in Hashes
    BY <1>3
  <2> HIDE DEF forged
  <2> DEFINE h == RowHash(f)
  <2> HIDE DEF h
  <2> QED BY <2>1 DEF TableRows, h
<1> QED BY <1>3, <1>4 DEF Overwritten

\* In a trail that verified, a row pins every row before it, whatever one row is
\* overwritten with and whichever is dropped.
THEOREM TamperingEvident == Spec => []TamperEvident
<1>1. ASSUME ChainInv PROVE TamperEvident
  <2>1. \A e \in Chained : Overwritten(e) \subseteq TableRows
    BY <1>1, OverwrittenTyped
  <2>2. chain \subseteq TableRows
    BY <1>1, ChainRows
  <2> QED BY <1>1, <2>1, <2>2, OnlyTheEndCanDiffer DEF TamperEvident
<1> QED BY <1>1, ChainInvariant, PTL

=============================================================================
