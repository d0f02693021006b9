----------------------------- MODULE CorpusProofs -----------------------------
(***************************************************************************)
(* Proofs about CorpusIndex, for any requests, handles and documents: that *)
(* no request gets text of another matter, that what is indexed stays      *)
(* stored, that only requests sent without the collection fail to set it   *)
(* up, that a document is read back as it was indexed, and that indexing   *)
(* and reading implement Catalogue.                                        *)
(***************************************************************************)
EXTENDS CorpusIndex, FiniteSetTheorems, TLAPS

\* The chunk ids of a document that is indexed.
LEMMA ChunksTyped ==
  ASSUME NEW source \in Sources, NEW doc \in Documents
  PROVE  Chunks(source, doc) \subseteq ChunkIds
<1>1. PICK n \in 1 .. MaxChunks : doc \in [1 .. n -> Texts]
  BY DocumentsAssumption
<1>2. ASSUME NEW i \in DOMAIN doc
      PROVE  i - 1 \in Positions /\ doc[i] \in Texts
  BY <1>1, DocumentsAssumption DEF Positions
<1> QED
  BY <1>2 DEF Chunks, ChunkIds

LEMMA SentTyped ==
  ASSUME TypeOK, NEW r \in Indexers, phase[r] # "idle"
  PROVE  args[r].handle \in Handles /\ Sent(r) \subseteq ChunkIds
<1>1. args[r] \in [handle : Handles, source : Sources, doc : Documents]
  BY DEF TypeOK, Requests, Arguments
<1> QED
  BY <1>1, ChunksTyped DEF Sent

\* The handle of a request that was sent.
LEMMA HandleTyped ==
  ASSUME TypeOK, NEW r \in Requests, phase[r] # "idle"
  PROVE  args[r].handle \in Handles
<1>1. args[r] \in Arguments(r)
  BY DEF TypeOK
<1> QED
  BY <1>1, RequestsAssumption DEF Arguments, Requests

\* Every handle that a read tries, one after the other, is one of its matter.
LEMMA TurnTried ==
  ASSUME NEW r \in Requests, args[r].handle \in Handles,
         MatterOf[args[r].handle] # NoMatter
  PROVE  Turn(r) \in Tried(args[r].handle) /\ Tried(args[r].handle) \subseteq Handles
BY HandlesAssumption DEF Turn, Tried

LEMMA InitType == Init => TypeOK
BY RequestsAssumption DEF Init, TypeOK, Requests

LEMMA UpsertTyped ==
  ASSUME TypeOK, NEW r \in Indexers, phase[r] # "idle", index' = Upserted(r)
  PROVE  DOMAIN index' \subseteq ChunkIds /\ index' \in [DOMAIN index' -> Handles]
<1>1. args[r].handle \in Handles /\ Sent(r) \subseteq ChunkIds
  BY SentTyped
<1> QED
  BY <1>1 DEF TypeOK, Upserted

-----------------------------------------------------------------------------
(* Types *)

\* Every step keeps the type invariant.
LEMMA StepTyped == TypeOK /\ [Next]_vars => TypeOK'
<1> SUFFICES ASSUME TypeOK, [Next]_vars PROVE TypeOK'
  OBVIOUS
<1> USE RequestsAssumption DEF TypeOK, Requests, Calls, Using
<1>1. ASSUME NEW r \in Requests, SendText(r) PROVE TypeOK'
  BY <1>1 DEF SendText, store, reading
<1>2. ASSUME NEW r \in Requests, SendRead(r) PROVE TypeOK'
  BY <1>2 DEF SendRead, store, reading
<1>3. ASSUME NEW r \in Requests, Embed(r) PROVE TypeOK'
  BY <1>3 DEF Embed, store, reading, history
<1>4. ASSUME NEW r \in Requests, CheckCollection(r) PROVE TypeOK'
  BY <1>4 DEF CheckCollection, Using, Absent, Fail, End, store, reading, history
<1>5. ASSUME NEW r \in Requests, CreateCollection(r) PROVE TypeOK'
  BY <1>5 DEF CreateCollection, Create, Using, Fail, End, reading, history
<1>6. ASSUME NEW r \in Requests, Upsert(r) PROVE TypeOK'
  <2>1. index' = Upserted(r) /\ phase[r] # "idle"
    BY <1>6 DEF Upsert
  <2>2. r \in Indexers
    BY <1>6 DEF Upsert
  <2>3. DOMAIN index' \subseteq ChunkIds /\ index' \in [DOMAIN index' -> Handles]
    BY <2>1, <2>2, UpsertTyped
  <2> QED
    BY <1>6, <2>3 DEF Upsert, End, reading, history
<1>7. ASSUME NEW r \in Requests, Query(r) PROVE TypeOK'
  BY <1>7 DEF Query, MatterHits, End, store, history
<1>8. ASSUME NEW r \in Requests, ServiceFails(r) PROVE TypeOK'
  BY <1>8 DEF ServiceFails, Fail, End, store, history
<1>9. ASSUME NEW r \in Requests, AnswerLost(r) PROVE TypeOK'
  <2>1. CASE phase[r] = "create"
    BY <1>9, <2>1 DEF AnswerLost, Fail, End, history
  <2>2. CASE phase[r] = "upsert"
    <3>1. r \in Indexers /\ index' = Upserted(r)
      BY <1>9, <2>2 DEF AnswerLost
    <3>2. DOMAIN index' \subseteq ChunkIds /\ index' \in [DOMAIN index' -> Handles]
      BY <2>2, <3>1, UpsertTyped
    <3> QED
      BY <1>9, <2>2, <3>2 DEF AnswerLost, Fail, End, history
  <2> QED
    BY <1>9, <2>1, <2>2 DEF AnswerLost
<1>10. ASSUME NEW r \in Requests, Resolve(r) PROVE TypeOK'
  <2>1. args[r].handle \in Handles
    BY <1>10, HandleTyped DEF Resolve
  <2>2. MatterOf[args[r].handle] # NoMatter => Tried(args[r].handle) \subseteq Handles
    BY <2>1, TurnTried
  <2> QED
    BY <1>10, <2>2 DEF Resolve, End, store, history
<1>11. ASSUME NEW r \in Requests, ScrollPage(r) PROVE TypeOK'
  BY <1>11 DEF ScrollPage, OfSource, PassedWith, store, history
<1>12. ASSUME NEW r \in Requests, LastPage(r) PROVE TypeOK'
  BY <1>12 DEF LastPage, OfSource, Ahead, MatterHits, Remaining, End, store, history
<1>13. ASSUME PersistUpload PROVE TypeOK'
  BY <1>13 DEF PersistUpload, reading, history
<1>14. ASSUME UNCHANGED vars PROVE TypeOK'
  BY <1>14 DEF vars, store, reading, history
<1> QED
  BY <1>1, <1>2, <1>3, <1>4, <1>5, <1>6, <1>7, <1>8, <1>9, <1>10, <1>11, <1>12,
     <1>13, <1>14 DEF Next, Step, Done
\* The type invariant holds of every behaviour.
THEOREM TypeCorrect == Spec => []TypeOK
<1>1. TypeOK /\ [Next]_vars => TypeOK'
  BY StepTyped
<1> QED
  BY <1>1, InitType, PTL DEF Spec

-----------------------------------------------------------------------------
(* The points and their writers *)

LEMMA InitStore == Init => StoreInv
<1> SUFFICES ASSUME Init PROVE StoreInv
  OBVIOUS
<1>1. ControlInv
  BY DEF Init, ControlInv
<1>2. DOMAIN index = {}
  BY DEF Init
<1>3. Indexing = {} /\ OwnText
  BY RequestsAssumption DEF Init, Indexing, Requests, OwnText
<1> QED
  BY <1>1, <1>2, <1>3 DEF StoreInv

\* What a writer sent never changes.
LEMMA WritersKept ==
  ASSUME TypeOK, Next, NEW w \in Writers
  PROVE  w \in Writers' /\ args'[w] = args[w] /\ Sent(w)' = Sent(w)
<1>1. w \in Indexers /\ w \in Requests /\ phase[w] = "ended" /\ outcome[w] \in {"ok", "service"}
  BY DEF Writers, Indexing, Requests
<1>2. phase'[w] = phase[w] /\ outcome'[w] = outcome[w] /\ args'[w] = args[w]
  BY <1>1 DEF TypeOK, Next, SendText, SendRead, Step, Embed, CheckCollection,
     CreateCollection, Create, Upsert, Query, ServiceFails, AnswerLost, Resolve,
     ScrollPage, LastPage, PersistUpload, Done, Fail, End, vars
<1> QED
  BY <1>1, <1>2 DEF Writers, Indexing, Sent

\* An upsert, whether it is answered or not, makes its request a writer.
LEMMA UpsertKeepsPoints ==
  ASSUME TypeOK, StoreInv, Next, NEW r \in Indexers,
         index' = Upserted(r), r \in Writers', args'[r] = args[r]
  PROVE  \A id \in DOMAIN index' : \E w \in Writers' :
           args'[w].handle = index'[id] /\ id \in Sent(w)'
<1> SUFFICES ASSUME NEW id \in DOMAIN index'
             PROVE  \E w \in Writers' : args'[w].handle = index'[id] /\ id \in Sent(w)'
  OBVIOUS
<1>1. Sent(r)' = Sent(r)
  BY DEF Sent
<1>2. CASE id \in Sent(r)
  BY <1>1, <1>2 DEF Upserted
<1>3. CASE id \notin Sent(r)
  <2>1. id \in DOMAIN index /\ index'[id] = index[id]
    BY <1>3 DEF Upserted
  <2>2. PICK w \in Writers : args[w].handle = index[id] /\ id \in Sent(w)
    BY <2>1 DEF StoreInv
  <2> QED
    BY <2>1, <2>2, WritersKept
<1> QED
  BY <1>2, <1>3

\* Chunks found among the points of a handle that a request asks for are its own.
LEMMA FoundOwn ==
  ASSUME StoreInv, TypeOK, Next, NEW r \in Requests, NEW handle \in Scope(r),
         NEW id \in MatterHits(handle)
  PROVE  \E w \in Writers' : args'[w].handle \in Scope(r) /\ id \in Sent(w)'
<1>1. id \in DOMAIN index /\ index[id] = handle
  BY DEF MatterHits
<1>2. PICK w \in Writers : args[w].handle = index[id] /\ id \in Sent(w)
  BY <1>1 DEF StoreInv
<1> QED
  BY <1>1, <1>2, WritersKept

\* Every step but the upserts keeps the points; each keeps the invariant.
LEMMA StepKeepsPoints ==
  ASSUME TypeOK, StoreInv, Next
  PROVE  \A id \in DOMAIN index' : \E w \in Writers' :
           args'[w].handle = index'[id] /\ id \in Sent(w)'
<1>1. CASE index' = index
  BY <1>1, WritersKept DEF StoreInv
<1>2. ASSUME NEW r \in Requests, Upsert(r)
      PROVE  \A id \in DOMAIN index' : \E w \in Writers' :
               args'[w].handle = index'[id] /\ id \in Sent(w)'
  <2>1. r \in Indexers /\ index' = Upserted(r) /\ args'[r] = args[r]
    BY <1>2, RequestsAssumption DEF Upsert, TypeOK, Calls, Using, Requests
  <2>2. r \in Writers'
    BY <1>2, <2>1 DEF Upsert, End, Writers, Indexing, TypeOK
  <2> QED
    BY <2>1, <2>2, UpsertKeepsPoints
<1>3. ASSUME NEW r \in Requests, AnswerLost(r), phase[r] = "upsert"
      PROVE  \A id \in DOMAIN index' : \E w \in Writers' :
               args'[w].handle = index'[id] /\ id \in Sent(w)'
  <2>1. r \in Indexers /\ index' = Upserted(r) /\ args'[r] = args[r]
    BY <1>3, RequestsAssumption DEF AnswerLost, TypeOK, Calls, Using, Requests
  <2>2. r \in Writers'
    BY <1>3, <2>1 DEF AnswerLost, Fail, End, Writers, Indexing, TypeOK
  <2> QED
    BY <2>1, <2>2, UpsertKeepsPoints
<1> QED
  BY <1>1, <1>2, <1>3 DEF Next, SendText, SendRead, Step, Embed, CheckCollection,
     CreateCollection, Create, Query, ServiceFails, AnswerLost, Resolve,
     ScrollPage, LastPage, PersistUpload, Done, vars, store

LEMMA StepKeepsControl ==
  ASSUME TypeOK, ControlInv, Next PROVE ControlInv'
<1> USE DEF TypeOK, ControlInv, reading
<1>1. ASSUME NEW r \in Requests, SendText(r) \/ SendRead(r) PROVE ControlInv'
  BY <1>1 DEF SendText, SendRead
<1>2. ASSUME NEW r \in Requests, Embed(r) \/ CheckCollection(r) \/ CreateCollection(r)
      PROVE  ControlInv'
  BY <1>2 DEF Embed, CheckCollection, CreateCollection, Create, Using, Fail, End
<1>3. ASSUME NEW r \in Requests, Upsert(r) \/ Query(r) PROVE ControlInv'
  BY <1>3 DEF Upsert, Query, End
<1>4. ASSUME NEW r \in Requests, ServiceFails(r) PROVE ControlInv'
  BY <1>4 DEF ServiceFails, Fail, End
<1>5. ASSUME NEW r \in Requests, AnswerLost(r) PROVE ControlInv'
  BY <1>5 DEF AnswerLost, Fail, End
<1>6. ASSUME NEW r \in Requests, Resolve(r) PROVE ControlInv'
  BY <1>6 DEF Resolve, End
<1>7. ASSUME NEW r \in Requests, ScrollPage(r) PROVE ControlInv'
  BY <1>7 DEF ScrollPage
<1>8. ASSUME NEW r \in Requests, LastPage(r) PROVE ControlInv'
  <2>1. args' = args
    BY <1>8 DEF LastPage
  <2>2. \A q \in Requests \ {r} :
          outcome'[q] = outcome[q] /\ phase'[q] = phase[q] /\ hits'[q] = hits[q]
    BY <1>8 DEF LastPage, End
  <2>3. \/ phase'[r] = "ended" /\ outcome'[r] # "none"
        \/ phase'[r] = "scroll" /\ outcome'[r] = outcome[r] /\ phase[r] = "scroll"
    BY <1>8 DEF LastPage, End
  <2> QED
    BY <2>1, <2>2, <2>3
<1> QED
  BY <1>1, <1>2, <1>3, <1>6, <1>4, <1>5,
     <1>7, <1>8 DEF Next, Step, PersistUpload, Done, vars

\* Points are never removed, and an indexing that is answered stored its own.
LEMMA StepKeepsSent ==
  ASSUME TypeOK, StoreInv, Next
  PROVE  \A r \in Indexing' : outcome'[r] = "ok" => Sent(r)' \subseteq DOMAIN index'
<1>1. DOMAIN index \subseteq DOMAIN index'
  BY DEF Next, SendText, SendRead, Step, Embed, CheckCollection, CreateCollection,
     Create, Upsert, Upserted, Query, ServiceFails, AnswerLost, Resolve, ScrollPage,
     LastPage, PersistUpload, Done, vars, store
<1> SUFFICES ASSUME NEW r \in Indexers, phase'[r] # "idle", outcome'[r] = "ok"
             PROVE  Sent(r)' \subseteq DOMAIN index'
  BY DEF Indexing
<1>2. CASE outcome[r] = "ok"
  <2>1. r \in Indexing /\ r \in Writers
    BY <1>2 DEF StoreInv, ControlInv, Indexing, Writers, Requests
  <2> QED
    BY <1>1, <1>2, <2>1, WritersKept DEF StoreInv
<1>3. CASE outcome[r] # "ok"
  <2>1. Upsert(r)
    BY <1>3, RequestsAssumption DEF TypeOK, Calls, Using, Requests, Next, SendText,
       SendRead, Step, Embed, CheckCollection, CreateCollection, Create, Upsert, Query,
       ServiceFails, AnswerLost, Resolve, ScrollPage, LastPage, PersistUpload, Done,
       Fail, End, vars
  <2>2. Sent(r)' = Sent(r) /\ index' = Upserted(r)
    BY <2>1 DEF Upsert, Sent
  <2> QED
    BY <2>2 DEF Upserted
<1> QED
  BY <1>2, <1>3

\* What a request has found stays its own, and so is what it finds.
LEMMA StepKeepsOwnText ==
  ASSUME TypeOK, StoreInv, Next PROVE OwnText'
<1> SUFFICES ASSUME NEW r \in Requests, NEW id \in hits'[r]
             PROVE  \E w \in Writers' : args'[w].handle \in Scope(r)' /\ id \in Sent(w)'
  BY DEF OwnText
<1>1. CASE id \in hits[r]
  <2>1. phase[r] \notin {"idle", "resolve"}
    BY <1>1 DEF StoreInv, ControlInv
  <2>2. args'[r] = args[r]
    BY <2>1 DEF TypeOK, Next, SendText, SendRead, Step, Embed, CheckCollection,
       CreateCollection, Upsert, Query, ServiceFails, AnswerLost, Resolve, ScrollPage,
       LastPage, PersistUpload, Done, vars
  <2>3. Scope(r)' = Scope(r)
    BY <2>2 DEF Scope
  <2>4. PICK w \in Writers : args[w].handle \in Scope(r) /\ id \in Sent(w)
    BY <1>1 DEF StoreInv, OwnText
  <2> QED
    BY <2>3, <2>4, WritersKept
<1>2. CASE id \notin hits[r]
  <2>1. Query(r) \/ ScrollPage(r) \/ LastPage(r)
    <3>1. ASSUME NEW q \in Requests,
                 \/ SendText(q) \/ SendRead(q) \/ Embed(q) \/ CheckCollection(q)
                 \/ CreateCollection(q) \/ Upsert(q) \/ Resolve(q)
          PROVE  id \in hits[r]
      BY <3>1 DEF SendText, SendRead, Embed, CheckCollection, CreateCollection, Create,
         Upsert, Resolve, Fail, End, reading, TypeOK
    <3>2. ASSUME NEW q \in Requests, ServiceFails(q) \/ AnswerLost(q)
          PROVE  id \in hits[r]
      BY <3>2 DEF ServiceFails, AnswerLost, Fail, TypeOK
    <3>3. ASSUME NEW q \in Requests \ {r}, Query(q) \/ ScrollPage(q) \/ LastPage(q)
          PROVE  id \in hits[r]
      BY <3>3 DEF Query, ScrollPage, LastPage, TypeOK
    <3>4. ASSUME PersistUpload \/ Done PROVE id \in hits[r]
      BY <3>4 DEF PersistUpload, Done, reading, vars
    <3> QED
      BY <1>2, <3>1, <3>2, <3>3, <3>4 DEF Next, Step
  <2>2. Scope(r)' = Scope(r)
    BY <2>1 DEF Query, ScrollPage, LastPage, Scope
  <2>3. \E handle \in Scope(r) : id \in MatterHits(handle)
    <3>1. CASE Query(r)
      <4>1. id \in MatterHits(args[r].handle)
        BY <1>2, <3>1 DEF Query, TypeOK
      <4>2. r \notin Readers
        BY <3>1 DEF Query, TypeOK, Calls, Using
      <4> QED
        BY <4>1, <4>2 DEF Scope
    <3>2. CASE ScrollPage(r) \/ LastPage(r)
      <4>1. id \in MatterHits(Turn(r))
        <5>1. CASE ScrollPage(r)
          BY <1>2, <5>1 DEF ScrollPage, OfSource, Ahead, TypeOK
        <5>2. CASE LastPage(r)
          BY <1>2, <5>2 DEF LastPage, OfSource, Ahead, TypeOK
        <5> QED
          BY <3>2, <5>1, <5>2
      <4>2. phase[r] = "scroll" /\ r \in Readers
        BY <3>2 DEF ScrollPage, LastPage, TypeOK, Calls, Using
      <4>3. args[r].handle \in Handles /\ MatterOf[args[r].handle] # NoMatter
        BY <4>2, HandleTyped DEF StoreInv, ControlInv
      <4> QED
        BY <4>1, <4>2, <4>3, TurnTried DEF Scope
    <3> QED
      BY <2>1, <3>1, <3>2
  <2> QED
    BY <2>2, <2>3, FoundOwn
<1> QED
  BY <1>1, <1>2

LEMMA StepKeepsStore == TypeOK /\ StoreInv /\ [Next]_vars => StoreInv'
<1>1. ASSUME TypeOK, StoreInv, Next PROVE StoreInv'
  <2>1. ControlInv'
    BY <1>1, StepKeepsControl DEF StoreInv
  <2> QED
    BY <1>1, <2>1, StepKeepsPoints, StepKeepsSent, StepKeepsOwnText DEF StoreInv
<1>2. ASSUME StoreInv, UNCHANGED vars PROVE StoreInv'
  BY <1>2 DEF vars, store, reading, StoreInv, ControlInv, Writers, Indexing, Sent,
     OwnText, Scope
<1> QED
  BY <1>1, <1>2

LEMMA StoreInvariant == Spec => [](TypeOK /\ StoreInv)
<1>1. TypeOK /\ StoreInv /\ [Next]_vars => (TypeOK /\ StoreInv)'
  BY StepTyped, StepKeepsStore
<1> QED
  BY <1>1, InitType, InitStore, PTL DEF Spec

\* No request is given text that was not sent for one of the handles it asked
\* for: the scoping of searches and reads by matter.
THEOREM TextIsOwn == Spec => []OwnText
<1>1. StoreInv => OwnText
  BY DEF StoreInv
<1> QED
  BY <1>1, StoreInvariant, PTL

\* An indexing that was answered is never undone, but for the chunks that
\* another request sent for another handle under the same ids.
THEOREM StoredStays == Spec => []StoredUnlessTaken
<1>1. StoreInv => StoredUnlessTaken
  BY DEF StoreInv, StoredUnlessTaken
<1> QED
  BY <1>1, StoreInvariant, PTL

-----------------------------------------------------------------------------
(* The set-up of the collection *)

LEMMA InitSetup == Init => SetupInv
BY DEF Init, SetupInv

LEMMA StepKeepsSetup == TypeOK /\ SetupInv /\ [Next]_vars => SetupInv'
<1> SUFFICES ASSUME TypeOK, SetupInv, [Next]_vars PROVE SetupInv'
  OBVIOUS
<1> USE DEF TypeOK, SetupInv
<1>1. ASSUME NEW r \in Requests, SendText(r) PROVE SetupInv'
  BY <1>1 DEF SendText, store
<1>2. ASSUME NEW r \in Requests, SendRead(r) PROVE SetupInv'
  BY <1>2 DEF SendRead, store
<1>3. ASSUME NEW r \in Requests, Embed(r) PROVE SetupInv'
  BY <1>3 DEF Embed, store, history
<1>4. ASSUME NEW r \in Requests, CheckCollection(r) PROVE SetupInv'
  BY <1>4 DEF CheckCollection, Using, Absent, Fail, End, store, history
<1>5. ASSUME NEW r \in Requests, CreateCollection(r) PROVE SetupInv'
  BY <1>5 DEF CreateCollection, Create, Using, Fail, End, history
<1>6. ASSUME NEW r \in Requests, Upsert(r) \/ Query(r) PROVE SetupInv'
  BY <1>6 DEF Upsert, Query, End, store, history
<1>7. ASSUME NEW r \in Requests, ServiceFails(r) PROVE SetupInv'
  BY <1>7 DEF ServiceFails, Fail, End, store, history
<1>8. ASSUME NEW r \in Requests, AnswerLost(r) PROVE SetupInv'
  BY <1>8 DEF AnswerLost, Fail, End, history
<1>9. ASSUME NEW r \in Requests, Resolve(r) PROVE SetupInv'
  BY <1>9 DEF Resolve, End, store, history
<1>10. ASSUME NEW r \in Requests, ScrollPage(r) \/ LastPage(r) PROVE SetupInv'
  BY <1>10 DEF ScrollPage, LastPage, End, store, history
<1>11. ASSUME PersistUpload \/ UNCHANGED vars PROVE SetupInv'
  BY <1>11 DEF PersistUpload, vars, store, history
<1> QED
  BY <1>1, <1>2, <1>3, <1>4, <1>5, <1>6, <1>7, <1>8, <1>9, <1>10, <1>11
     DEF Next, Step, Done

\* Only requests that were sent without the collection lose a race to create it.
THEOREM SetupSettles == Spec => []SetupSettled
<1>1. TypeOK /\ SetupInv /\ [Next]_vars => (TypeOK /\ SetupInv)'
  BY StepTyped, StepKeepsSetup
<1>2. SetupInv => SetupSettled
  BY DEF SetupInv, SetupSettled
<1> QED
  BY <1>1, <1>2, InitType, InitSetup, PTL DEF Spec

-----------------------------------------------------------------------------
(* The text of a document *)

ChunksUpTo(source, doc, m) == {<<source, i - 1, doc[i]>> : i \in 1 .. m}

\* The first chunks of a document are as many as their positions.
LEMMA FirstChunks ==
  ASSUME NEW source, NEW doc, NEW m \in Nat
  PROVE  Cardinality(ChunksUpTo(source, doc, m)) = m
<1> DEFINE f == [i \in 1 .. m |-> <<source, i - 1, doc[i]>>]
           S == {<<source, i - 1, doc[i]>> : i \in 1 .. m}
<1>1. f \in Bijection(1 .. m, S)
  <2>1. \A i, j \in 1 .. m : f[i] = f[j] => i = j
    <3> SUFFICES ASSUME NEW i \in 1 .. m, NEW j \in 1 .. m, f[i] = f[j] PROVE i = j
      OBVIOUS
    <3>1. f[i][2] = i - 1 /\ f[j][2] = j - 1
      OBVIOUS
    <3> QED BY <3>1
  <2>2. f \in Injection(1 .. m, S)
    BY <2>1 DEF Injection, IsInjective
  <2>3. f \in Surjection(1 .. m, S)
    BY DEF Surjection
  <2> QED BY <2>2, <2>3 DEF Bijection
<1>2. ExistsBijection(1 .. m, S)
  BY <1>1 DEF ExistsBijection
<1>3. IsFiniteSet(1 .. m) /\ Cardinality(1 .. m) = m
  BY FS_Interval
<1> HIDE DEF S
<1>4. Cardinality(S) = m
  BY <1>2, <1>3, FS_Bijection
<1> QED BY <1>4 DEF S, ChunksUpTo

\* Joining the chunks of a document gives the document back.
LEMMA JoinedChunks ==
  ASSUME NEW source, NEW doc \in Documents
  PROVE  Joined(Chunks(source, doc)) = doc
<1>1. PICK n \in 1 .. MaxChunks : doc \in [1 .. n -> Texts]
  BY DocumentsAssumption
<1> DEFINE found == Chunks(source, doc)
           Chunk(i) == <<source, i - 1, doc[i]>>
<1>2. n \in Nat /\ found = {Chunk(i) : i \in 1 .. n}
  BY <1>1, DocumentsAssumption DEF Chunks
<1>3. Cardinality(found) = n
  <2>1. found = ChunksUpTo(source, doc, n)
    BY <1>2 DEF ChunksUpTo
  <2> QED BY <1>2, <2>1, FirstChunks
<1>4. ASSUME NEW k \in 1 .. n
      PROVE  /\ Cardinality({d \in found : d[2] < Chunk(k)[2]}) = k - 1
             /\ Cardinality({d \in found : d[2] <= Chunk(k)[2]}) = k
  <2>1. {d \in found : d[2] < Chunk(k)[2]} = ChunksUpTo(source, doc, k - 1)
    <3>1. \A i \in 1 .. n : Chunk(i)[2] < Chunk(k)[2] <=> i \in 1 .. k - 1
      BY <1>2
    <3>2. 1 .. k - 1 \subseteq 1 .. n
      BY <1>2
    <3> QED BY <1>2, <3>1, <3>2 DEF ChunksUpTo
  <2>2. {d \in found : d[2] <= Chunk(k)[2]} = ChunksUpTo(source, doc, k)
    <3>1. \A i \in 1 .. n : Chunk(i)[2] <= Chunk(k)[2] <=> i \in 1 .. k
      BY <1>2
    <3>2. 1 .. k \subseteq 1 .. n
      BY <1>2
    <3> QED BY <1>2, <3>1, <3>2 DEF ChunksUpTo
  <2>3. k \in Nat /\ k - 1 \in Nat
    BY <1>2
  <2>4. /\ Cardinality(ChunksUpTo(source, doc, k - 1)) = k - 1
        /\ Cardinality(ChunksUpTo(source, doc, k)) = k
    BY <2>3, FirstChunks
  <2> HIDE DEF found, Chunk
  <2> QED BY <2>1, <2>2, <2>4
<1>5. ASSUME NEW i \in 1 .. n PROVE Sorted(found, i) = Chunk(i)
  <2> DEFINE P(c) == /\ Cardinality({d \in found : d[2] < c[2]}) < i
                     /\ i <= Cardinality({d \in found : d[2] <= c[2]})
  <2>1. \A k \in 1 .. n : P(Chunk(k)) <=> k = i
    <3> SUFFICES ASSUME NEW k \in 1 .. n PROVE P(Chunk(k)) <=> k = i
      OBVIOUS
    <3>1. P(Chunk(k)) <=> k - 1 < i /\ i <= k
      BY <1>4
    <3> QED BY <1>2, <3>1
  <2>2. Chunk(i) \in found /\ P(Chunk(i))
    BY <1>2, <2>1
  <2>3. \A c \in found : P(c) => c = Chunk(i)
    BY <1>2, <2>1
  <2>4. Sorted(found, i) = CHOOSE c \in found : P(c)
    BY DEF Sorted
  <2> HIDE DEF P, found
  <2> QED BY <2>2, <2>3, <2>4
<1>6. Joined(found) = [i \in 1 .. n |-> doc[i]]
  <2>1. \A i \in 1 .. n : Sorted(found, i)[3] = doc[i]
    BY <1>5
  <2> HIDE DEF found
  <2> QED BY <1>3, <2>1 DEF Joined
<1> QED BY <1>1, <1>6

-----------------------------------------------------------------------------
(* What a read has of a document *)

Acts(r) == SendText(r) \/ SendRead(r) \/ Step(r) \/ ServiceFails(r) \/ AnswerLost(r)
Same(r) ==
  /\ args'[r] = args[r] /\ phase'[r] = phase[r] /\ outcome'[r] = outcome[r]
  /\ todo'[r] = todo[r] /\ passed'[r] = passed[r] /\ hits'[r] = hits[r]
  /\ ended'[r] = ended[r]

\* A step of one request leaves the others as they are.
LEMMA OthersSame ==
  ASSUME TypeOK, NEW r \in Requests, NEW q \in Requests \ {r}, Acts(q)
  PROVE  Same(r)
<1> USE DEF TypeOK, Same
<1>1. ASSUME SendText(q) \/ SendRead(q) PROVE Same(r)
  BY <1>1 DEF SendText, SendRead, reading
<1>2. ASSUME Embed(q) \/ CheckCollection(q) PROVE Same(r)
  BY <1>2 DEF Embed, CheckCollection, Fail, End, reading, history
<1>3. ASSUME CreateCollection(q) PROVE Same(r)
  BY <1>3 DEF CreateCollection, Create, Fail, End, reading, history
<1>4. ASSUME Upsert(q) \/ Query(q) PROVE Same(r)
  BY <1>4 DEF Upsert, Query, End, reading, history
<1>5. ASSUME Resolve(q) PROVE Same(r)
  BY <1>5 DEF Resolve, End, history
<1>6. ASSUME ScrollPage(q) \/ LastPage(q) PROVE Same(r)
  BY <1>6 DEF ScrollPage, LastPage, End, history
<1>7. ASSUME ServiceFails(q) \/ AnswerLost(q) PROVE Same(r)
  BY <1>7 DEF ServiceFails, AnswerLost, Fail, End, history
<1> QED BY <1>1, <1>2, <1>3, <1>4, <1>5, <1>6, <1>7 DEF Acts, Step

LEMMA OneRequest ==
  ASSUME TypeOK, Next, NEW r \in Requests
  PROVE  Acts(r) \/ Same(r)
<1>1. ASSUME PersistUpload \/ Done PROVE Same(r)
  BY <1>1 DEF PersistUpload, Done, vars, reading, history, Same
<1>2. (\E q \in Requests : Acts(q)) \/ PersistUpload \/ Done
  BY DEF Next, Acts
<1> QED BY <1>1, <1>2, OthersSame

\* Only SendText and SendRead give a request its arguments.
LEMMA SentKept ==
  ASSUME TypeOK, Next, NEW r \in Requests, phase[r] # "idle"
  PROVE  /\ phase'[r] # "idle" /\ args'[r] = args[r] /\ ended'[r] = ended[r]
         /\ phase[r] = "ended" => phase'[r] = "ended" /\ outcome'[r] = outcome[r]
<1>1. CASE Same(r)
  BY <1>1 DEF Same
<1>2. ASSUME Acts(r)
      PROVE  /\ phase'[r] # "idle" /\ args'[r] = args[r] /\ ended'[r] = ended[r]
             /\ phase[r] # "ended"
  <2> USE DEF TypeOK, history
  <2>1. ASSUME Embed(r) \/ CheckCollection(r) \/ CreateCollection(r)
        PROVE  /\ phase'[r] # "idle" /\ args'[r] = args[r] /\ ended'[r] = ended[r]
               /\ phase[r] # "ended"
    BY <2>1 DEF Embed, CheckCollection, CreateCollection, Create, Fail, End, Using
  <2>2. ASSUME Upsert(r) \/ Query(r) \/ Resolve(r)
        PROVE  /\ phase'[r] # "idle" /\ args'[r] = args[r] /\ ended'[r] = ended[r]
               /\ phase[r] # "ended"
    BY <2>2 DEF Upsert, Query, Resolve, End
  <2>3. ASSUME ScrollPage(r) \/ LastPage(r)
        PROVE  /\ phase'[r] # "idle" /\ args'[r] = args[r] /\ ended'[r] = ended[r]
               /\ phase[r] # "ended"
    BY <2>3 DEF ScrollPage, LastPage, End
  <2>4. ASSUME ServiceFails(r) \/ AnswerLost(r)
        PROVE  /\ phase'[r] # "idle" /\ args'[r] = args[r] /\ ended'[r] = ended[r]
               /\ phase[r] # "ended"
    BY <2>4 DEF ServiceFails, AnswerLost, Fail, End
  <2> QED BY <1>2, <2>1, <2>2, <2>3, <2>4 DEF Acts, Step, SendText, SendRead
<1> QED BY <1>1, <1>2, OneRequest

\* The points of a source that is sent with one content are that content.
LEMMA SolePoints ==
  ASSUME TypeOK, StoreInv, NEW w \in Indexing, outcome[w] = "ok", Sole(w)
  PROVE  /\ \A id \in DOMAIN index : id[1] = args[w].source =>
              id \in Sent(w) /\ index[id] = args[w].handle
         /\ \A id \in Sent(w) :
              id \in DOMAIN index /\ id[1] = args[w].source /\ index[id] = args[w].handle
<1>1. \A q \in Indexing : \A id \in Sent(q) : id[1] = args[q].source
  BY DEF Sent, Chunks
<1>2. ASSUME NEW id \in DOMAIN index, id[1] = args[w].source
      PROVE  id \in Sent(w) /\ index[id] = args[w].handle
  <2>1. PICK q \in Writers : args[q].handle = index[id] /\ id \in Sent(q)
    BY DEF StoreInv
  <2>2. q \in Indexing
    BY DEF Writers
  <2>3. args[q] = args[w]
    BY <1>1, <1>2, <2>1, <2>2 DEF Sole
  <2> QED BY <2>1, <2>3 DEF Sent
<1>3. Sent(w) \subseteq DOMAIN index
  BY DEF StoreInv
<1> QED BY <1>1, <1>2, <1>3

\* What a read is owed it was owed before, by the same request.
LEMMA OwedBefore ==
  ASSUME TypeOK, Next, NEW r \in Readers, phase[r] # "idle",
         \A q \in ended[r] : phase[q] = "ended",
         NEW w \in Indexing', Owed(r, w)'
  PROVE  /\ w \in Indexing /\ Owed(r, w)
         /\ args'[w] = args[w] /\ Sent(w)' = Sent(w)
<1>0. r \in Requests /\ w \in Requests /\ w \in Indexers
  BY DEF Requests, Indexing
<1>1. args'[r] = args[r] /\ ended'[r] = ended[r]
  BY <1>0, SentKept
<1>2. phase[w] = "ended"
  BY <1>1 DEF Owed
<1>3. args'[w] = args[w] /\ outcome'[w] = outcome[w] /\ w \in Indexing
  BY <1>0, <1>2, SentKept DEF Indexing
<1>4. \A q \in Indexing : q \in Indexing' /\ args'[q] = args[q]
  BY SentKept DEF Indexing, Requests
<1>5. Sole(w)
  BY <1>3, <1>4 DEF Owed, Sole
<1>6. Sent(w)' = Sent(w)
  BY <1>3 DEF Sent
<1> QED BY <1>1, <1>3, <1>5, <1>6 DEF Owed

LEMMA ReadInvInit == Init => ReadInv
BY DEF Init, ReadInv, OwedInv, Owed, Requests

\* A step of another request leaves a read as it is.
LEMMA ReadUntouched ==
  ASSUME TypeOK, Next, ReadInv, NEW r \in Readers, phase[r] # "idle", Same(r),
         NEW w \in Indexing'
  PROVE  OwedInv(r, w)'
<1> SUFFICES ASSUME Owed(r, w)'
             PROVE  /\ phase'[r] = "scroll" => ScrollInv(r, w)'
                    /\ phase'[r] = "ended" /\ outcome'[r] \notin {"service", "persisted"} =>
                         outcome'[r] = "ok" /\ hits'[r] = Sent(w)'
  BY DEF OwedInv
<1>1. /\ w \in Indexing /\ Owed(r, w)
      /\ args'[w] = args[w] /\ Sent(w)' = Sent(w)
  BY OwedBefore DEF ReadInv
<1>2. OwedInv(r, w)
  BY <1>1 DEF ReadInv
<1>3. Turn(r)' = Turn(r)
  BY DEF Turn, Same
<1>4. ScrollInv(r, w) => ScrollInv(r, w)'
  BY <1>1, <1>3 DEF ScrollInv, Same
<1> QED BY <1>1, <1>2, <1>4 DEF OwedInv, Same

\* The pages of a scroll hold, of the chunks that the read is owed, all those
\* it goes past when it is the turn of their handle, and none before.
LEMMA PagesHold ==
  ASSUME TypeOK, StoreInv, NEW r \in Readers, NEW w \in Indexing, Owed(r, w),
         ScrollInv(r, w), NEW page
  PROVE  /\ OfSource(r, page \intersect Ahead(r)) \subseteq Sent(w)
         /\ Turn(r) # args[w].handle => OfSource(r, page \intersect Ahead(r)) = {}
         /\ Turn(r) = args[w].handle =>
              (Sent(w) \ passed[r]) \intersect page \subseteq OfSource(r, page \intersect Ahead(r))
<1>1. /\ \A id \in DOMAIN index : id[1] = args[r].source =>
           id \in Sent(w) /\ index[id] = args[w].handle
      /\ \A id \in Sent(w) :
           id \in DOMAIN index /\ id[1] = args[r].source /\ index[id] = args[w].handle
  BY SolePoints DEF Owed
<1> QED BY <1>1 DEF OfSource, Ahead, MatterHits

LEMMA PageOwed ==
  ASSUME TypeOK, StoreInv, ReadInv, Next, NEW r \in Readers, ScrollPage(r),
         NEW w \in Indexing'
  PROVE  OwedInv(r, w)'
<1>0. r \in Requests /\ phase[r] = "scroll" /\ phase'[r] = "scroll" /\ UNCHANGED todo
  BY DEF Requests, ScrollPage
<1> SUFFICES ASSUME Owed(r, w)' PROVE ScrollInv(r, w)'
  BY <1>0 DEF OwedInv
<1>1. /\ w \in Indexing /\ Owed(r, w)
      /\ args'[w] = args[w] /\ Sent(w)' = Sent(w)
  BY <1>0, OwedBefore DEF ReadInv
<1>2. ScrollInv(r, w)
  BY <1>0, <1>1 DEF ReadInv, OwedInv
<1>3. PICK page :
        /\ hits'[r] = hits[r] \union OfSource(r, page \intersect Ahead(r))
        /\ passed'[r] = passed[r] \union page
  BY <1>0 DEF ScrollPage, PassedWith, TypeOK
<1>4. Turn(r)' = Turn(r)
  BY <1>0 DEF Turn, ScrollPage
<1>5. /\ OfSource(r, page \intersect Ahead(r)) \subseteq Sent(w)
      /\ Turn(r) # args[w].handle => OfSource(r, page \intersect Ahead(r)) = {}
      /\ Turn(r) = args[w].handle =>
           (Sent(w) \ passed[r]) \intersect page \subseteq OfSource(r, page \intersect Ahead(r))
  BY <1>1, <1>2, PagesHold
<1> QED BY <1>0, <1>1, <1>2, <1>3, <1>4, <1>5 DEF ScrollInv

\* A document has a chunk.
LEMMA SentSomething ==
  ASSUME TypeOK, NEW w \in Indexing
  PROVE  Sent(w) # {}
<1>1. args[w] \in [handle : Handles, source : Sources, doc : Documents]
  BY DEF TypeOK, Requests, Arguments, Indexing
<1>2. PICK n \in 1 .. MaxChunks : args[w].doc \in [1 .. n -> Texts]
  BY <1>1, DocumentsAssumption
<1>3. 1 \in DOMAIN args[w].doc
  BY <1>2, DocumentsAssumption
<1> QED BY <1>3 DEF Sent, Chunks

LEMMA LastPageOwed ==
  ASSUME TypeOK, StoreInv, ReadInv, Next, NEW r \in Readers, LastPage(r),
         NEW w \in Indexing'
  PROVE  OwedInv(r, w)'
<1>0. r \in Requests /\ phase[r] = "scroll"
  BY DEF Requests, LastPage
<1> SUFFICES ASSUME Owed(r, w)'
             PROVE  /\ phase'[r] = "scroll" => ScrollInv(r, w)'
                    /\ phase'[r] = "ended" => outcome'[r] = "ok" /\ hits'[r] = Sent(w)'
  BY DEF OwedInv
<1>1. /\ w \in Indexing /\ Owed(r, w)
      /\ args'[w] = args[w] /\ Sent(w)' = Sent(w)
  BY <1>0, OwedBefore DEF ReadInv
<1>2. ScrollInv(r, w)
  BY <1>0, <1>1 DEF ReadInv, OwedInv
<1>3. /\ hits'[r] = hits[r] \union OfSource(r, Ahead(r))
      /\ passed'[r] = {} /\ todo'[r] = todo[r] \ {Turn(r)}
      /\ \/ hits'[r] # {} /\ phase'[r] = "ended" /\ outcome'[r] = "ok"
         \/ hits'[r] = {} /\ Remaining(r) = {} /\ phase'[r] = "ended"
         \/ hits'[r] = {} /\ Remaining(r) # {} /\ phase'[r] = "scroll"
  BY <1>0 DEF LastPage, End, Remaining, TypeOK
<1>4. /\ OfSource(r, Ahead(r)) \subseteq Sent(w)
      /\ Turn(r) # args[w].handle => OfSource(r, Ahead(r)) = {}
      /\ Turn(r) = args[w].handle => Sent(w) \ passed[r] \subseteq OfSource(r, Ahead(r))
  <2> DEFINE page == Ahead(r) \union Sent(w)
  <2>1. page \intersect Ahead(r) = Ahead(r) /\ Sent(w) \ passed[r] \subseteq page
    OBVIOUS
  <2> HIDE DEF page
  <2> QED BY <1>1, <1>2, <2>1, PagesHold
<1>5. CASE Turn(r) = args[w].handle
  <2>1. hits'[r] = Sent(w)
    BY <1>2, <1>3, <1>4, <1>5 DEF ScrollInv
  <2>2. hits'[r] # {}
    BY <1>1, <2>1, SentSomething
  <2> QED BY <1>1, <1>3, <2>1, <2>2
<1>6. CASE Turn(r) # args[w].handle
  <2>1. hits'[r] = {}
    BY <1>2, <1>3, <1>4, <1>6 DEF ScrollInv
  <2>2. args[w].handle \in todo'[r] /\ Remaining(r) # {}
    BY <1>2, <1>3, <1>6 DEF ScrollInv, Remaining
  <2>3. ScrollInv(r, w)'
    BY <1>1, <1>3, <2>1, <2>2 DEF ScrollInv
  <2> QED BY <1>3, <2>1, <2>2, <2>3
<1> QED BY <1>5, <1>6

\* A read is owed the same after it resolves its matter or fails.
LEMMA ReadBegins ==
  ASSUME TypeOK, StoreInv, ReadInv, Next, NEW r \in Readers,
         \/ SendRead(r) \/ Resolve(r) \/ ServiceFails(r),
         NEW w \in Indexing'
  PROVE  OwedInv(r, w)'
<1>0. r \in Requests
  BY DEF Requests
<1>1. CASE SendRead(r)
  BY <1>0, <1>1 DEF SendRead, OwedInv, TypeOK
<1>2. CASE ServiceFails(r)
  BY <1>0, <1>2 DEF ServiceFails, Fail, End, OwedInv, TypeOK
<1>3. CASE Resolve(r)
  <2> SUFFICES ASSUME Owed(r, w)'
               PROVE  /\ phase'[r] = "scroll" => ScrollInv(r, w)'
                      /\ phase'[r] = "ended" => outcome'[r] = "persisted"
    BY DEF OwedInv
  <2>1. phase[r] = "resolve" /\ args' = args
    BY <1>3 DEF Resolve
  <2>2. args[w].handle \in Tried(args[r].handle)
    BY <2>1 DEF Owed
  <2>3. MatterOf[args[r].handle] # NoMatter
    BY <2>2 DEF Tried
  <2>4. \/ phase'[r] = "ended" /\ outcome'[r] = "persisted"
        \/ phase'[r] = "scroll" /\ todo'[r] = Tried(args[r].handle)
    BY <1>0, <1>3, <2>3 DEF Resolve, End, TypeOK
  <2>5. hits'[r] = {} /\ passed'[r] = {}
    BY <1>0, <1>3, <2>1 DEF Resolve, StoreInv, ControlInv, ReadInv
  <2>6. todo'[r] = Tried(args[r].handle) => ScrollInv(r, w)'
    BY <2>1, <2>2, <2>5 DEF ScrollInv
  <2> QED BY <2>4, <2>6
<1> QED BY <1>1, <1>2, <1>3

\* The actions of a read.
LEMMA ReaderActs ==
  ASSUME TypeOK, NEW r \in Readers, Acts(r)
  PROVE  \/ SendRead(r) \/ Resolve(r) \/ ScrollPage(r) \/ LastPage(r) \/ ServiceFails(r)
BY RequestsAssumption DEF Acts, Step, SendText, Embed, CheckCollection, CreateCollection,
   Upsert, Query, AnswerLost, TypeOK, Calls, Requests

LEMMA ReadInvStep == TypeOK /\ StoreInv /\ ReadInv /\ [Next]_vars => ReadInv'
<1> SUFFICES ASSUME TypeOK, StoreInv, ReadInv, [Next]_vars PROVE ReadInv'
  OBVIOUS
<1>1. CASE UNCHANGED vars
  BY <1>1 DEF vars, store, reading, history, ReadInv, OwedInv, Owed, Sole, ScrollInv,
     Turn, Sent, Indexing
<1>2. ASSUME Next, NEW r \in Readers
      PROVE  /\ \A q \in ended'[r] : phase'[q] = "ended"
             /\ phase'[r] = "idle" => ended'[r] = {}
             /\ phase'[r] \in {"idle", "resolve"} => passed'[r] = {}
             /\ phase'[r] = "scroll" => todo'[r] \subseteq Tried(args'[r].handle)
             /\ \A w \in Indexing' : OwedInv(r, w)'
  <2>0. r \in Requests
    BY DEF Requests
  <2>1. \A q \in Requests : phase[q] = "ended" => phase'[q] = "ended"
    BY <1>2, SentKept
  <2>2. ended[r] \subseteq Requests
    BY <2>0 DEF TypeOK
  <2>3. CASE Same(r)
    <3>1. CASE phase[r] = "idle"
      BY <2>3, <3>1 DEF ReadInv, Same, OwedInv, Owed
    <3>2. CASE phase[r] # "idle"
      BY <1>2, <2>1, <2>2, <2>3, <3>2, ReadUntouched DEF ReadInv, Same
    <3> QED BY <3>1, <3>2
  <2>4. CASE Acts(r)
    <3>1. \/ SendRead(r) \/ Resolve(r) \/ ScrollPage(r) \/ LastPage(r) \/ ServiceFails(r)
      BY <2>4, ReaderActs
    <3>2. \A w \in Indexing' : OwedInv(r, w)'
      BY <1>2, <3>1, ReadBegins, PageOwed, LastPageOwed
    <3>3. \A q \in ended'[r] : phase'[q] = "ended"
      <4>1. CASE SendRead(r)
        BY <2>0, <2>1, <4>1 DEF SendRead, TypeOK
      <4>2. CASE ~SendRead(r)
        BY <2>0, <2>1, <2>2, <3>1, <4>2 DEF ReadInv, Resolve, ScrollPage, LastPage,
           ServiceFails, history
      <4> QED BY <4>1, <4>2
    <3>4. /\ phase'[r] # "idle"
          /\ phase'[r] = "resolve" => passed'[r] = {}
          /\ phase'[r] = "scroll" => todo'[r] \subseteq Tried(args'[r].handle)
      BY <2>0, <3>1 DEF SendRead, Resolve, ScrollPage, LastPage, ServiceFails, Fail, End,
         reading, Remaining, ReadInv, TypeOK
    <3> QED BY <3>2, <3>3, <3>4
  <2> QED BY <1>2, <2>0, <2>3, <2>4, OneRequest
<1> QED BY <1>1, <1>2 DEF ReadInv

\* What is stored, and what reads have gone past of what they are owed.
THEOREM ReadInvariant == Spec => [](TypeOK /\ StoreInv /\ ReadInv)
<1>1. Init => TypeOK /\ StoreInv /\ ReadInv
  BY InitType, InitStore, ReadInvInit
<1>2. TypeOK /\ StoreInv /\ ReadInv /\ [Next]_vars => (TypeOK /\ StoreInv /\ ReadInv)'
  BY StepTyped, StepKeepsStore, ReadInvStep
<1> QED BY <1>1, <1>2, PTL DEF Spec

\* A read that began after a document was indexed under one of the matter's
\* handles gets the document, chunk by chunk and in order, however many pages
\* it takes and whatever else is indexed meanwhile.
THEOREM DocumentsReadBack == Spec => []ReadsBack
<1>1. TypeOK /\ ReadInv => ReadsBack
  <2> SUFFICES ASSUME TypeOK, ReadInv, NEW r \in Readers, NEW w \in Indexing,
                      phase[r] = "ended" /\ outcome[r] \notin {"service", "persisted"},
                      Owed(r, w)
               PROVE  outcome[r] = "ok" /\ Joined(hits[r]) = args[w].doc
    BY DEF ReadsBack, Owed, Sole
  <2>1. outcome[r] = "ok" /\ hits[r] = Sent(w)
    BY DEF ReadInv, OwedInv
  <2>2. args[w] \in [handle : Handles, source : Sources, doc : Documents]
    BY DEF TypeOK, Requests, Arguments, Indexing
  <2> QED BY <2>1, <2>2, JoinedChunks DEF Sent
<1> QED BY <1>1, ReadInvariant, PTL

-----------------------------------------------------------------------------
(* Reading and indexing implement the catalogue *)

\* Where a source id is used once, its points are the chunks of its request.
LEMMA OncePoints ==
  ASSUME TypeOK, StoreInv, OncePerSource
  PROVE  /\ \A id \in DOMAIN index : \E w \in Writers : id[1] = args[w].source
         /\ \A w \in Indexing : \A id \in DOMAIN index : id[1] = args[w].source =>
              w \in Writers /\ id \in Sent(w) /\ index[id] = args[w].handle
<1>1. ASSUME NEW id \in DOMAIN index
      PROVE  \E w \in Writers :
               id[1] = args[w].source /\ id \in Sent(w) /\ index[id] = args[w].handle
  <2>1. PICK w \in Writers : args[w].handle = index[id] /\ id \in Sent(w)
    BY DEF StoreInv
  <2>2. id[1] = args[w].source
    BY <2>1 DEF Sent, Chunks
  <2> QED BY <2>1, <2>2
<1>2. \A w \in Writers : w \in Indexing
  BY DEF Writers
<1> QED BY <1>1, <1>2 DEF OncePerSource

\* An indexing that has not ended has no points of its source.
LEMMA FreshSource ==
  ASSUME TypeOK, StoreInv, OncePerSource, NEW r \in Indexing, phase[r] # "ended"
  PROVE  \A id \in DOMAIN index : id[1] # args[r].source
BY OncePoints DEF Writers

\* A step keeps the points, or is an upsert.
LEMMA IndexSteps ==
  ASSUME TypeOK, Next
  PROVE  \/ index' = index
         \/ \E r \in Indexing : /\ phase[r] = "upsert" /\ index' = Upserted(r)
                                /\ Upsert(r) \/ AnswerLost(r)
<1>1. ASSUME NEW r \in Requests, phase[r] = "upsert" PROVE r \in Indexing
  BY <1>1, RequestsAssumption DEF TypeOK, Calls, Using, Requests, Indexing
<1>2. ASSUME NEW r \in Requests, Upsert(r)
      PROVE  r \in Indexing /\ phase[r] = "upsert" /\ index' = Upserted(r)
  BY <1>1, <1>2 DEF Upsert
<1>3. ASSUME NEW r \in Requests, AnswerLost(r)
      PROVE  \/ index' = index
             \/ r \in Indexing /\ phase[r] = "upsert" /\ index' = Upserted(r)
  BY <1>1, <1>3 DEF AnswerLost
<1>4. ASSUME NEW r \in Requests, SendText(r) \/ SendRead(r) \/ Embed(r) \/ CheckCollection(r)
      PROVE  index' = index
  BY <1>4 DEF SendText, SendRead, Embed, CheckCollection, store
<1>5. ASSUME NEW r \in Requests, CreateCollection(r) \/ Query(r) \/ Resolve(r) \/ ScrollPage(r)
      PROVE  index' = index
  BY <1>5 DEF CreateCollection, Create, Query, Resolve, ScrollPage, store
<1>6. ASSUME NEW r \in Requests, LastPage(r) \/ ServiceFails(r) PROVE index' = index
  BY <1>6 DEF LastPage, ServiceFails, store
<1>7. ASSUME PersistUpload \/ Done PROVE index' = index
  BY <1>7 DEF PersistUpload, Done, vars, store
<1> QED BY <1>2, <1>3, <1>4, <1>5, <1>6, <1>7 DEF Next, Step

LEMMA UpsertedPoints ==
  ASSUME TypeOK, StoreInv, OncePerSource, NEW r \in Indexing, phase[r] = "upsert",
         index' = Upserted(r)
  PROVE  /\ DOMAIN index' = DOMAIN index \union Sent(r)
         /\ \A id \in DOMAIN index : id \notin Sent(r) /\ index'[id] = index[id]
         /\ \A id \in Sent(r) : index'[id] = args[r].handle
         /\ \A id \in Sent(r) : id[1] = args[r].source
         /\ \A id \in DOMAIN index : id[1] # args[r].source
<1>1. \A id \in DOMAIN index : id[1] # args[r].source
  BY FreshSource
<1>2. \A id \in Sent(r) : id[1] = args[r].source
  BY DEF Sent, Chunks
<1> QED BY <1>1, <1>2 DEF Upserted

\* Points stay under their handle.
LEMMA PointsStay ==
  ASSUME TypeOK, StoreInv, OncePerSource, Next
  PROVE  \A id \in DOMAIN index : id \in DOMAIN index' /\ index'[id] = index[id]
BY IndexSteps, UpsertedPoints

\* The arguments of an indexing are the document it stores.
LEMMA SentDocument ==
  ASSUME TypeOK, NEW w \in Indexing
  PROVE  /\ args[w] \in StoredDocuments /\ args[w].doc \in Documents
         /\ Chunks(args[w].source, args[w].doc) = Sent(w)
<1>1. args[w] \in StoredDocuments
  BY DEF TypeOK, Requests, Arguments, Indexing, StoredDocuments
<1> QED BY <1>1 DEF StoredDocuments, Sent

\* Documents are told apart by their chunks, of which each has one.
LEMMA ChunksIdentify ==
  ASSUME NEW source, NEW doc \in Documents, NEW other \in Documents
  PROVE  /\ Chunks(source, doc) # {}
         /\ Chunks(source, doc) = Chunks(source, other) => doc = other
<1>1. PICK n \in 1 .. MaxChunks : doc \in [1 .. n -> Texts]
  BY DocumentsAssumption
<1>2. 1 \in DOMAIN doc
  BY <1>1, DocumentsAssumption
<1>3. Chunks(source, doc) # {}
  BY <1>2 DEF Chunks
<1>4. Joined(Chunks(source, doc)) = doc /\ Joined(Chunks(source, other)) = other
  BY JoinedChunks
<1> QED BY <1>3, <1>4

\* A document that is found, is found where its request stored it.
LEMMA PointsAreDocument ==
  ASSUME TypeOK, StoreInv, CatalogueInv, NEW handle, NEW source,
         {id \in DOMAIN index : index[id] = handle /\ id[1] = source} # {}
  PROVE  \E d \in DocumentsIn(index) :
           /\ d.handle = handle /\ d.source = source
           /\ {id \in DOMAIN index : index[id] = handle /\ id[1] = source} =
                Chunks(d.source, d.doc)
           /\ d.doc \in Documents
<1> DEFINE P == {id \in DOMAIN index : index[id] = handle /\ id[1] = source}
<1>0. OncePerSource
  BY DEF CatalogueInv
<1>1. PICK p \in P : TRUE
  OBVIOUS
<1>2. PICK w \in Writers : p[1] = args[w].source
  BY <1>0, <1>1, OncePoints
<1>3. w \in Indexing /\ source = args[w].source
  BY <1>1, <1>2 DEF Writers
<1>4. handle = args[w].handle /\ Sent(w) \subseteq DOMAIN index
  BY <1>0, <1>1, <1>3, OncePoints DEF CatalogueInv
<1>5. \A id \in Sent(w) : id[1] = source
  BY <1>3 DEF Sent, Chunks
<1>6. P = Sent(w)
  <2>1. P \subseteq Sent(w)
    BY <1>0, <1>3, OncePoints
  <2>2. Sent(w) \subseteq P
    BY <1>0, <1>3, <1>4, <1>5, OncePoints
  <2> QED BY <2>1, <2>2
<1>7. args[w] \in DocumentsIn(index)
  <2>1. P = {id \in DOMAIN index : index[id] = args[w].handle /\ id[1] = args[w].source}
    BY <1>3, <1>4
  <2> HIDE DEF P
  <2> QED BY <1>3, <1>6, <2>1, SentDocument DEF DocumentsIn
<1> HIDE DEF P
<1> QED BY <1>3, <1>4, <1>6, <1>7, SentDocument DEF P

LEMMA CatalogueInit == Init => CatalogueInv
<1> SUFFICES ASSUME Init PROVE CatalogueInv
  OBVIOUS
<1>1. Indexing = {}
  BY DEF Init, Indexing, Requests
<1> QED BY <1>1 DEF Init, CatalogueInv, OncePerSource, Requests

\* Documents are stored whole.
LEMMA WholeStays ==
  ASSUME TypeOK, StoreInv, CatalogueInv, Next, OncePerSource', NEW w \in Indexing',
         NEW id \in DOMAIN index', id[1] = args'[w].source
  PROVE  Sent(w)' \subseteq DOMAIN index'
<1>0. w \in Requests /\ w \in Indexers /\ OncePerSource
  BY DEF Indexing, Requests, CatalogueInv
<1>1. CASE phase[w] # "idle"
  <2>1. w \in Indexing /\ args'[w] = args[w] /\ Sent(w)' = Sent(w)
    BY <1>0, <1>1, SentKept DEF Indexing, Sent
  <2>2. CASE id \in DOMAIN index
    <3>1. Sent(w) \subseteq DOMAIN index
      BY <2>1, <2>2 DEF CatalogueInv
    <3> QED BY <1>0, <2>1, <3>1, PointsStay
  <2>3. CASE id \notin DOMAIN index
    <3>1. PICK r \in Indexing : phase[r] = "upsert" /\ index' = Upserted(r)
      BY <2>3, IndexSteps
    <3>2. id \in Sent(r) /\ id[1] = args[r].source /\ Sent(r) \subseteq DOMAIN index'
      BY <1>0, <2>3, <3>1, UpsertedPoints
    <3>3. r = w
      BY <1>0, <2>1, <3>2 DEF OncePerSource
    <3> QED BY <2>1, <3>2, <3>3
  <2> QED BY <2>2, <2>3
<1>2. CASE phase[w] = "idle"
  <2>1. phase'[w] # "idle"
    BY DEF Indexing
  <2>2. SendText(w)
    BY <1>0, <1>2, <2>1, RequestsAssumption, OneRequest DEF Same, Acts, Step, SendRead,
       Embed, CheckCollection, CreateCollection, Upsert, Query, Resolve, ScrollPage,
       LastPage, ServiceFails, AnswerLost
  <2>3. index' = index
    BY <2>2 DEF SendText, store
  <2>4. PICK q \in Writers : id[1] = args[q].source
    BY <1>0, <2>3, OncePoints
  <2>5. q \in Indexing /\ q \in Requests /\ q \in Indexers /\ phase[q] = "ended"
    BY DEF Writers, Indexing, Requests
  <2>6. q \in Indexing' /\ args'[q] = args[q]
    BY <2>5, SentKept DEF Indexing
  <2>7. q = w
    BY <2>4, <2>6 DEF OncePerSource
  <2> QED BY <1>2, <2>5, <2>7
<1> QED BY <1>1, <1>2

\* What a read could see when it was sent changes when it is sent.
LEMMA StoredSteps ==
  ASSUME CatalogueInv, Next
  PROVE  /\ DOMAIN stored' = Requests
         /\ \A r \in Requests : SendRead(r) => stored'[r] = index /\ index' = index
         /\ \A r \in Requests : ~SendRead(r) => stored'[r] = stored[r]
<1>0. DOMAIN stored = Requests
  BY DEF CatalogueInv
<1>1. ASSUME NEW q \in Requests, SendRead(q)
      PROVE  /\ DOMAIN stored' = Requests
             /\ stored'[q] = index /\ index' = index
             /\ \A r \in Requests \ {q} : stored'[r] = stored[r]
  BY <1>0, <1>1 DEF SendRead, store
<1>2. ASSUME \A q \in Requests : ~SendRead(q)
      PROVE  stored' = stored
  BY <1>2 DEF Next, SendText, Step, Embed, CheckCollection, CreateCollection, Upsert,
     Query, ServiceFails, AnswerLost, Resolve, ScrollPage, LastPage, PersistUpload, Done,
     vars, history
<1> QED BY <1>0, <1>1, <1>2

\* On one page, a scroll that goes on has gone past nothing and found nothing.
LEMMA ReadStays ==
  ASSUME TypeOK, StoreInv, ReadInv, CatalogueInv, OnePage, Next, NEW r \in Readers
  PROVE  /\ \A id \in DOMAIN stored'[r] :
              id \in DOMAIN index' /\ index'[id] = stored'[r][id]
         /\ phase'[r] \in {"idle", "resolve", "scroll"} => passed'[r] = {} /\ hits'[r] = {}
         /\ phase'[r] = "scroll" =>
              \A id \in DOMAIN stored'[r] : id[1] = args'[r].source =>
                stored'[r][id] \notin Tried(args'[r].handle) \ todo'[r]
<1>0. r \in Requests /\ OncePerSource
  BY DEF Requests, CatalogueInv
<1>1. \A id \in DOMAIN stored'[r] :
        id \in DOMAIN index' /\ index'[id] = stored'[r][id]
  <2>1. CASE SendRead(r)
    BY <1>0, <2>1, StoredSteps
  <2>2. CASE ~SendRead(r)
    <3>1. stored'[r] = stored[r]
      BY <1>0, <2>2, StoredSteps
    <3>2. \A id \in DOMAIN stored[r] : id \in DOMAIN index /\ index[id] = stored[r][id]
      BY DEF CatalogueInv
    <3> QED BY <1>0, <3>1, <3>2, PointsStay
  <2> QED BY <2>1, <2>2
<1>2. CASE Same(r)
  <2>1. stored'[r] = stored[r] \/ phase'[r] # "scroll"
    BY <1>0, <1>2, StoredSteps DEF Same, SendRead
  <2> QED BY <1>1, <1>2, <2>1 DEF Same, CatalogueInv
<1>3. CASE SendRead(r)
  BY <1>0, <1>1, <1>3 DEF SendRead, CatalogueInv, TypeOK, reading
<1>4. CASE Resolve(r)
  BY <1>0, <1>1, <1>4 DEF Resolve, CatalogueInv, TypeOK, End
<1>5. CASE ServiceFails(r)
  BY <1>0, <1>1, <1>5 DEF ServiceFails, TypeOK, Fail, End
<1>6. CASE LastPage(r)
  <2>1. /\ phase[r] = "scroll" /\ args' = args /\ stored' = stored
        /\ hits'[r] = hits[r] \union OfSource(r, Ahead(r))
        /\ passed'[r] = {} /\ todo'[r] = todo[r] \ {Turn(r)}
        /\ phase'[r] = "scroll" => hits'[r] = {}
        /\ phase'[r] \in {"scroll", "ended"}
    BY <1>0, <1>6 DEF LastPage, End, Remaining, TypeOK, history
  <2> SUFFICES ASSUME phase'[r] = "scroll", NEW id \in DOMAIN stored[r],
                      id[1] = args[r].source,
                      stored[r][id] \in Tried(args[r].handle) \ todo'[r]
               PROVE  FALSE
    BY <1>1, <2>1
  <2>2. /\ passed[r] = {}
        /\ id \in DOMAIN index /\ index[id] = stored[r][id]
        /\ stored[r][id] \notin Tried(args[r].handle) \ todo[r]
    BY <2>1 DEF CatalogueInv
  <2>3. index[id] = Turn(r)
    BY <2>1, <2>2
  <2>4. id \in OfSource(r, Ahead(r))
    BY <2>2, <2>3 DEF OfSource, Ahead, MatterHits
  <2> QED BY <2>1, <2>4
<1>7. CASE ScrollPage(r)
  BY <1>7 DEF ScrollPage, OnePage
<1> QED BY <1>0, <1>2, <1>3, <1>4, <1>5, <1>6, <1>7, OneRequest, ReaderActs

LEMMA CatalogueStep ==
  ASSUME TypeOK, StoreInv, ReadInv, CatalogueInv, OnePage, [Next /\ OncePerSource']_vars
  PROVE  CatalogueInv'
<1>1. CASE Next /\ OncePerSource'
  BY <1>1, WholeStays, StoredSteps, ReadStays DEF CatalogueInv
<1>2. CASE UNCHANGED vars
  BY <1>2 DEF vars, store, reading, history, CatalogueInv, OncePerSource, Indexing, Sent
<1> QED BY <1>1, <1>2

LEMMA CatalogueBegins == Init => Abstract!Init
<1> SUFFICES ASSUME Init PROVE Abstract!Init
  OBVIOUS
<1>1. ASSUME NEW points, DOMAIN points = {} PROVE DocumentsIn(points) = {}
  <2> SUFFICES ASSUME NEW d \in DocumentsIn(points) PROVE FALSE
    OBVIOUS
  <2>1. d.doc \in Documents /\ Chunks(d.source, d.doc) = {}
    BY <1>1 DEF DocumentsIn, StoredDocuments
  <2> QED BY <2>1, ChunksIdentify
<1>2. DOMAIN index = {} /\ \A r \in Readers : stored[r] = index /\ phase[r] = "idle"
  BY DEF Init, Requests
<1>3. DocumentsIn(index) = {} /\ \A r \in Readers : DocumentsIn(stored[r]) = {}
  BY <1>1, <1>2
<1>4. \A r \in Readers : AskedOf(r) = NoRequest /\ AnswerOf(r) = NoRequest
  BY <1>2 DEF AskedOf, AnswerOf
<1> QED BY <1>3, <1>4 DEF Abstract!Init

\* An upsert adds the document of its request.
LEMMA UpsertStores ==
  ASSUME TypeOK, StoreInv, CatalogueInv, NEW r \in Indexing, phase[r] = "upsert",
         index' = Upserted(r)
  PROVE  /\ DocumentsIn(index') = DocumentsIn(index) \union {args[r]}
         /\ \A e \in DocumentsIn(index) : e.source # args[r].source
<1> DEFINE Points(d) == {id \in DOMAIN index : index[id] = d.handle /\ id[1] = d.source}
           Points2(d) == {id \in DOMAIN index' : index'[id] = d.handle /\ id[1] = d.source}
<1>1. /\ DOMAIN index' = DOMAIN index \union Sent(r)
      /\ \A id \in DOMAIN index : id \notin Sent(r) /\ index'[id] = index[id]
      /\ \A id \in Sent(r) : index'[id] = args[r].handle
      /\ \A id \in Sent(r) : id[1] = args[r].source
      /\ \A id \in DOMAIN index : id[1] # args[r].source
  BY UpsertedPoints DEF CatalogueInv
<1>2. /\ args[r] \in StoredDocuments /\ args[r].doc \in Documents
      /\ Chunks(args[r].source, args[r].doc) = Sent(r)
  BY SentDocument
<1>3. \A d \in StoredDocuments : d.doc \in Documents
  BY DEF StoredDocuments
<1>4. ASSUME NEW d \in StoredDocuments, d.source = args[r].source
      PROVE  /\ d \notin DocumentsIn(index)
             /\ d \in DocumentsIn(index') <=> d = args[r]
  <2>1. Chunks(d.source, d.doc) # {}
    BY <1>3, ChunksIdentify
  <2>2. Points(d) = {}
    BY <1>1, <1>4
  <2>3. Points2(d) = IF d.handle = args[r].handle THEN Sent(r) ELSE {}
    BY <1>1, <1>4
  <2>4. Chunks(d.source, d.doc) = Sent(r) <=> d.doc = args[r].doc
    BY <1>2, <1>3, <1>4, ChunksIdentify
  <2>5. d = args[r] <=> d.handle = args[r].handle /\ d.doc = args[r].doc
    BY <1>2, <1>4 DEF StoredDocuments
  <2>6. d \in DocumentsIn(index) <=> Chunks(d.source, d.doc) = Points(d)
    BY DEF DocumentsIn
  <2>7. d \in DocumentsIn(index') <=> Chunks(d.source, d.doc) = Points2(d)
    BY DEF DocumentsIn
  <2> HIDE DEF Points, Points2
  <2> QED BY <2>1, <2>2, <2>3, <2>4, <2>5, <2>6, <2>7
<1>5. ASSUME NEW d \in StoredDocuments, d.source # args[r].source
      PROVE  d \in DocumentsIn(index') <=> d \in DocumentsIn(index)
  <2>1. Points2(d) = Points(d)
    BY <1>1, <1>5
  <2>2. d \in DocumentsIn(index) <=> Chunks(d.source, d.doc) = Points(d)
    BY DEF DocumentsIn
  <2>3. d \in DocumentsIn(index') <=> Chunks(d.source, d.doc) = Points2(d)
    BY DEF DocumentsIn
  <2> HIDE DEF Points, Points2
  <2> QED BY <2>1, <2>2, <2>3
<1>6. /\ DocumentsIn(index) \subseteq StoredDocuments
      /\ DocumentsIn(index') \subseteq StoredDocuments
  BY DEF DocumentsIn
<1>7. DocumentsIn(index') = DocumentsIn(index) \union {args[r]}
  BY <1>2, <1>4, <1>5, <1>6
<1>8. \A e \in DocumentsIn(index) : e.source # args[r].source
  BY <1>4, <1>6
<1> QED BY <1>7, <1>8

\* What the catalogue knows of a read that a step leaves as it is.
LEMMA MappedSame ==
  ASSUME NEW r, Same(r)
  PROVE  AskedOf(r)' = AskedOf(r) /\ AnswerOf(r)' = AnswerOf(r)
BY DEF Same, AskedOf, AnswerOf

\* A read that is done with its handles missed no document that was stored
\* when it began.
LEMMA MissedNothing ==
  ASSUME TypeOK, CatalogueInv, NEW r \in Readers, phase[r] = "scroll",
         OfSource(r, Ahead(r)) = {}, Remaining(r) = {},
         NEW d \in DocumentsIn(stored[r]), d.source = args[r].source
  PROVE  d.handle \notin Tried(args[r].handle)
<1> SUFFICES ASSUME d.handle \in Tried(args[r].handle) PROVE FALSE
  OBVIOUS
<1>1. /\ d.doc \in Documents
      /\ Chunks(d.source, d.doc) =
           {id \in DOMAIN stored[r] : stored[r][id] = d.handle /\ id[1] = d.source}
  BY DEF DocumentsIn, StoredDocuments
<1>2. Chunks(d.source, d.doc) # {}
  BY <1>1, ChunksIdentify
<1>3. PICK id \in DOMAIN stored[r] : stored[r][id] = d.handle /\ id[1] = args[r].source
  BY <1>1, <1>2
<1>4. /\ id \in DOMAIN index /\ index[id] = d.handle
      /\ d.handle \in todo[r] /\ passed[r] = {}
  BY <1>3 DEF CatalogueInv
<1>5. d.handle = Turn(r)
  BY <1>4 DEF Remaining
<1> QED BY <1>3, <1>4, <1>5 DEF OfSource, Ahead, MatterHits

\* Every step is one of the catalogue, or none.
LEMMA StepImplements ==
  ASSUME TypeOK, StoreInv, ReadInv, CatalogueInv, OnePage, uploads = {},
         [Next /\ OncePerSource']_vars
  PROVE  [Abstract!Next]_(Abstract!vars)
<1> DEFINE Asked == [r \in Readers |-> AskedOf(r)]
           Known == [r \in Readers |-> DocumentsIn(stored[r])]
           Answers == [r \in Readers |-> AnswerOf(r)]
<1> SUFFICES Abstract!Next \/ UNCHANGED <<DocumentsIn(index), Asked, Known, Answers>>
  BY DEF Abstract!vars
<1>1. CASE UNCHANGED vars
  <2>1. \A r \in Readers : Same(r) /\ stored'[r] = stored[r]
    BY <1>1 DEF vars, reading, history, Same
  <2>2. index' = index
    BY <1>1 DEF vars, store
  <2> QED BY <2>1, <2>2, MappedSame
<1>2. ASSUME Next, \A r \in Readers : Same(r) /\ stored'[r] = stored[r]
      PROVE  Abstract!Next \/ UNCHANGED <<DocumentsIn(index), Asked, Known, Answers>>
  <2>1. UNCHANGED <<Asked, Known, Answers>>
    BY <1>2, MappedSame
  <2>2. CASE index' = index
    BY <2>1, <2>2
  <2>3. ASSUME NEW r \in Indexing, phase[r] = "upsert", index' = Upserted(r)
        PROVE  Abstract!Next
    <3>1. /\ DocumentsIn(index') = DocumentsIn(index) \union {args[r]}
          /\ \A e \in DocumentsIn(index) : e.source # args[r].source
      BY <2>3, UpsertStores
    <3>2. args[r] \in StoredDocuments
      BY SentDocument
    <3>3. DocumentsIn(index)' = DocumentsIn(index')
      BY DEF DocumentsIn, StoredDocuments
    <3>4. Abstract!Store
      <4> HIDE DEF Asked, Known, Answers
      <4> QED BY <2>1, <3>1, <3>2, <3>3 DEF Abstract!Store, Asked, Known, Answers
    <3> QED BY <3>4 DEF Abstract!Next
  <2> QED BY <1>2, <2>2, <2>3, IndexSteps
<1>3. ASSUME Next, NEW r \in Readers, Acts(r)
      PROVE  Abstract!Next \/ UNCHANGED <<DocumentsIn(index), Asked, Known, Answers>>
  <2>0. r \in Requests
    BY DEF Requests
  <2>1. \A q \in Readers \ {r} : AskedOf(q)' = AskedOf(q) /\ AnswerOf(q)' = AnswerOf(q)
    BY <1>3, <2>0, OthersSame, MappedSame DEF Requests
  <2>2. SendRead(r) \/ Resolve(r) \/ LastPage(r) \/ ServiceFails(r)
    BY <1>3, ReaderActs DEF ScrollPage, OnePage
  <2>3. index' = index /\ DocumentsIn(index)' = DocumentsIn(index)
    BY <2>2 DEF SendRead, Resolve, LastPage, ServiceFails, store
  <2>4. phase[r] # "idle" =>
          /\ AskedOf(r)' = AskedOf(r) /\ AskedOf(r) = <<args[r].handle, args[r].source>>
          /\ \A q \in Readers : stored'[q] = stored[q]
          /\ UNCHANGED <<Asked, Known>>
    <3>1. phase[r] # "idle" => stored' = stored /\ args' = args /\ phase'[r] # "idle"
      BY <2>0, <2>2 DEF SendRead, Resolve, LastPage, ServiceFails, Fail, End, history, TypeOK
    <3> QED BY <2>1, <3>1 DEF AskedOf
  <2>5. phase[r] \notin {"idle", "ended"} => AnswerOf(r) = <<"none">>
    BY <2>0 DEF AnswerOf, StoreInv, ControlInv
  \* A read that is answered.
  <2>6. ASSUME phase[r] \notin {"idle", "ended"},
               \/ \E d \in DocumentsIn(index) :
                    /\ d.handle \in Tried(args[r].handle) /\ d.source = args[r].source
                    /\ AnswerOf(r)' = d.doc
               \/ /\ {d \in DocumentsIn(stored[r]) :
                        d.handle \in Tried(args[r].handle) /\ d.source = args[r].source} = {}
                  /\ AnswerOf(r)' = <<"missing">>
               \/ AnswerOf(r)' = <<"service">>
        PROVE  Abstract!Next
    <3>1. Answers' = [Answers EXCEPT ![r] = AnswerOf(r)']
      BY <2>1
    <3>2. Answers[r] = <<"none">> /\ Known[r] = DocumentsIn(stored[r])
          /\ Asked[r] = <<args[r].handle, args[r].source>>
      BY <2>4, <2>5, <2>6
    <3>3. UNCHANGED <<DocumentsIn(index), Asked, Known>>
      BY <2>3, <2>4, <2>6
    <3>4. ASSUME NEW among
          PROVE  Abstract!Found(r, among) =
                   {d \in among : /\ d.handle \in Tried(args[r].handle)
                                  /\ d.source = args[r].source}
      BY <3>2 DEF Abstract!Found
    <3>5. Abstract!Answer(r) <=>
            /\ Answers[r] = <<"none">>
            /\ \/ \E d \in Abstract!Found(r, DocumentsIn(index)) :
                    Answers' = [Answers EXCEPT ![r] = d.doc]
               \/ /\ Abstract!Found(r, Known[r]) = {}
                  /\ Answers' = [Answers EXCEPT ![r] = <<"missing">>]
               \/ Answers' = [Answers EXCEPT ![r] = <<"service">>]
            /\ UNCHANGED <<DocumentsIn(index), Asked, Known>>
      BY DEF Abstract!Answer
    <3> HIDE DEF Asked, Known, Answers
    <3>6. ASSUME \E d \in DocumentsIn(index) :
                   /\ d.handle \in Tried(args[r].handle) /\ d.source = args[r].source
                   /\ AnswerOf(r)' = d.doc
          PROVE  Abstract!Answer(r)
      <4>1. PICK d \in Abstract!Found(r, DocumentsIn(index)) : AnswerOf(r)' = d.doc
        BY <3>4, <3>6
      <4> QED BY <3>1, <3>2, <3>3, <3>5, <4>1
    <3>7. ASSUME {d \in DocumentsIn(stored[r]) :
                    d.handle \in Tried(args[r].handle) /\ d.source = args[r].source} = {},
                 AnswerOf(r)' = <<"missing">>
          PROVE  Abstract!Answer(r)
      <4>1. Abstract!Found(r, Known[r]) = {}
        BY <3>2, <3>4, <3>7
      <4> QED BY <3>1, <3>2, <3>3, <3>5, <3>7, <4>1
    <3>8. ASSUME AnswerOf(r)' = <<"service">> PROVE Abstract!Answer(r)
      BY <3>1, <3>2, <3>3, <3>5, <3>8
    <3>9. Abstract!Answer(r)
      BY <2>6, <3>6, <3>7, <3>8
    <3> QED BY <3>9 DEF Abstract!Next
  <2>7. CASE SendRead(r)
    <3>1. phase[r] = "idle" /\ phase'[r] = "resolve" /\ outcome'[r] = "none"
      BY <2>0, <2>7 DEF SendRead, StoreInv, ControlInv, TypeOK
    <3>2. PICK q \in [handle : Handles, source : Sources] : args'[r] = q
      BY <2>0, <2>7, RequestsAssumption DEF SendRead, Arguments, Requests, TypeOK
    <3>3. /\ AskedOf(r)' = <<q.handle, q.source>>
          /\ AnswerOf(r) = NoRequest /\ AnswerOf(r)' = <<"none">>
      BY <3>1, <3>2 DEF AskedOf, AnswerOf
    <3>4. <<q.handle, q.source>> \in Handles \X Sources
      BY <3>2
    <3>5. /\ Asked' = [Asked EXCEPT ![r] = <<q.handle, q.source>>]
          /\ Answers' = [Answers EXCEPT ![r] = <<"none">>]
          /\ Answers[r] = NoRequest
      BY <2>1, <3>3
    <3>6. /\ stored'[r] = index
          /\ \A p \in Readers \ {r} : stored'[p] = stored[p]
      BY <2>0, <2>7 DEF SendRead, CatalogueInv
    <3>7. Known' = [Known EXCEPT ![r] = DocumentsIn(index)]
      BY <3>6
    <3>8. Abstract!Begin(r) <=>
            /\ Answers[r] = NoRequest
            /\ \E p \in Handles \X Sources : Asked' = [Asked EXCEPT ![r] = p]
            /\ Known' = [Known EXCEPT ![r] = DocumentsIn(index)]
            /\ Answers' = [Answers EXCEPT ![r] = <<"none">>]
            /\ UNCHANGED DocumentsIn(index)
      BY DEF Abstract!Begin
    <3> HIDE DEF Asked, Known, Answers
    <3>9. Abstract!Begin(r)
      BY <2>3, <3>4, <3>5, <3>7, <3>8
    <3> QED BY <3>9 DEF Abstract!Next
  <2>8. CASE Resolve(r)
    <3>1. phase[r] = "resolve" /\ outcome[r] = "none"
      BY <2>0, <2>8 DEF Resolve, StoreInv, ControlInv
    <3>2. CASE MatterOf[args[r].handle] = NoMatter
      <4>1. AnswerOf(r)' = <<"missing">>
        BY <2>0, <2>8, <3>2 DEF Resolve, End, AnswerOf, TypeOK
      <4>2. Tried(args[r].handle) = {}
        BY <3>2 DEF Tried
      <4> QED BY <2>6, <3>1, <4>1, <4>2
    <3>3. CASE MatterOf[args[r].handle] # NoMatter
      <4>1. phase'[r] = "scroll" /\ outcome'[r] = "none"
        BY <2>0, <2>8, <3>1, <3>3 DEF Resolve, TypeOK
      <4>2. AnswerOf(r)' = AnswerOf(r)
        BY <3>1, <4>1 DEF AnswerOf
      <4> QED BY <2>1, <2>3, <2>4, <3>1, <4>2
    <3> QED BY <3>2, <3>3
  <2>9. CASE LastPage(r)
    <3>1. /\ phase[r] = "scroll" /\ outcome[r] = "none" /\ hits[r] = {} /\ passed[r] = {}
      BY <2>0, <2>9 DEF LastPage, StoreInv, ControlInv, CatalogueInv
    <3>2. hits'[r] = OfSource(r, Ahead(r))
      BY <2>0, <2>9, <3>1 DEF LastPage, TypeOK
    <3>3. OfSource(r, Ahead(r)) =
            {id \in DOMAIN index : index[id] = Turn(r) /\ id[1] = args[r].source}
      BY <3>1 DEF OfSource, Ahead, MatterHits
    <3>4. CASE hits'[r] # {}
      <4>1. PICK d \in DocumentsIn(index) :
              /\ d.handle = Turn(r) /\ d.source = args[r].source
              /\ hits'[r] = Chunks(d.source, d.doc)
              /\ d.doc \in Documents
        BY <3>2, <3>3, <3>4, PointsAreDocument
      <4>2. phase'[r] = "ended" /\ outcome'[r] = "ok"
        BY <2>0, <2>9, <3>4 DEF LastPage, End, TypeOK
      <4>3. AnswerOf(r)' = d.doc
        BY <4>1, <4>2, JoinedChunks DEF AnswerOf
      <4>4. Turn(r) \in Tried(args[r].handle)
        BY <2>0, <3>1, HandleTyped, TurnTried DEF StoreInv, ControlInv
      <4> QED BY <2>6, <3>1, <4>1, <4>3, <4>4
    <3>5. CASE hits'[r] = {} /\ Remaining(r) = {}
      <4>1. AnswerOf(r)' = <<"missing">>
        BY <2>0, <2>9, <3>5 DEF LastPage, End, AnswerOf, TypeOK
      <4>2. {d \in DocumentsIn(stored[r]) :
               d.handle \in Tried(args[r].handle) /\ d.source = args[r].source} = {}
        BY <3>1, <3>2, <3>5, MissedNothing
      <4> QED BY <2>6, <3>1, <4>1, <4>2
    <3>6. CASE hits'[r] = {} /\ Remaining(r) # {}
      <4>1. phase'[r] = "scroll" /\ outcome'[r] = "none"
        BY <2>9, <3>1, <3>6 DEF LastPage
      <4>2. AnswerOf(r)' = AnswerOf(r)
        BY <3>1, <4>1 DEF AnswerOf
      <4> QED BY <2>1, <2>3, <2>4, <3>1, <4>2
    <3> QED BY <3>4, <3>5, <3>6
  <2>10. CASE ServiceFails(r)
    <3>1. phase[r] \notin {"idle", "ended"} /\ AnswerOf(r)' = <<"service">>
      BY <2>0, <2>10 DEF ServiceFails, Fail, End, AnswerOf, TypeOK
    <3> QED BY <2>6, <3>1
  <2> QED BY <2>2, <2>7, <2>8, <2>9, <2>10
<1>4. CASE Next
  <2>1. ASSUME \A r \in Readers : ~Acts(r)
        PROVE  \A r \in Readers : Same(r) /\ stored'[r] = stored[r]
    BY <1>4, <2>1, OneRequest, StoredSteps DEF Requests, Acts
  <2> QED BY <1>2, <1>3, <1>4, <2>1
<1> QED BY <1>1, <1>4

\* Reading and indexing implement the catalogue, where each source id is used
\* once, every read finds a handle's points on one page, and no upload is
\* preferred to the index: a document is stored whole or not at all, and a read
\* gets it whole, or misses it only if it was not stored when the read began.
THEOREM CatalogueImplemented ==
  OnceSpec /\ [](OnePage /\ uploads = {}) => ImplementsCatalogue
<1> DEFINE IInv == TypeOK /\ StoreInv /\ ReadInv /\ CatalogueInv
           Alone == OnePage /\ uploads = {}
<1>1. Init => IInv
  BY InitType, InitStore, ReadInvInit, CatalogueInit
<1>2. IInv /\ Alone /\ [Next /\ OncePerSource']_vars => IInv'
  BY StepTyped, StepKeepsStore, ReadInvStep, CatalogueStep
<1>3. IInv /\ Alone /\ [Next /\ OncePerSource']_vars => [Abstract!Next]_(Abstract!vars)
  BY StepImplements
<1> QED
  BY <1>1, <1>2, <1>3, CatalogueBegins, PTL
  DEF OnceSpec, ImplementsCatalogue, Abstract!Spec

=============================================================================
