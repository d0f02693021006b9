----------------------------- MODULE CorpusIndex -----------------------------
(***************************************************************************)
(* The corpus of indexed documents: POST /corpus/documents and its upload  *)
(* form (corpus.py, corpus_indexing.py), the evidence search of an         *)
(* analysis (rag_retrieval.py), and GET /corpus/documents/{id}/text, over  *)
(* one Qdrant collection (qdrant_vector_index.py).  Each request is a      *)
(* sequence of calls to services that other requests call in between, and  *)
(* that can fail.                                                          *)
(*                                                                         *)
(* A chunk is stored under an id computed from its source, its position    *)
(* and its text; the id leaves out the matter, which is only in the        *)
(* payload.  So the index maps chunk ids to the matter handle of the last  *)
(* upsert of each.  Embedding vectors are abstracted: a search returns any *)
(* chunks of its matter.                                                   *)
(***************************************************************************)
EXTENDS Integers, FiniteSets, Chunking

CONSTANTS
  Indexers,    \* requests that index a document
  Searchers,   \* analyses that search for evidence
  Readers,     \* requests that read a document back
  Handles,     \* the strings a request may give as its matter_id
  Matters,     \* the rows of the matters table
  MatterOf,    \* the matter that each handle resolves to, or NoMatter
  IdOf,        \* the handle that is a matter's id
  NumberOf,    \* the handle that is a matter's number
  NoMatter,    \* what a handle of no matter resolves to
  Sources,     \* source ids, stripped
  Texts,       \* the texts of chunks
  MaxChunks,   \* the number of chunks of the longest document
  Documents,   \* what chunkers return: sequences of chunk texts
  PageSize,    \* the number of points on a page of a scroll
  MaxUploads,  \* how many documents redline uploads may persist
  Limit,       \* how many chunks a search asks for
  NoRequest    \* the arguments of a request that has not been sent

ASSUME HandlesAssumption ==
  /\ MatterOf \in [Handles -> Matters \union {NoMatter}]
  /\ IdOf \in [Matters -> Handles]
  /\ NumberOf \in [Matters -> Handles]
  /\ NoMatter \notin Matters
ASSUME DocumentsAssumption ==
  /\ MaxChunks \in Nat
  /\ Documents \subseteq UNION {[1 .. n -> Texts] : n \in 1 .. MaxChunks}
ASSUME BoundsAssumption == PageSize \in Nat \ {0} /\ MaxUploads \in Nat /\ Limit \in Nat
ASSUME RequestsAssumption ==
  Indexers \intersect (Searchers \union Readers) = {} /\ Searchers \intersect Readers = {}

Requests == Indexers \union Searchers \union Readers

VARIABLES
  collection,  \* "absent", "ours", or "other" if made for another dimension
  index,       \* the points: the handle each stored chunk id was sent under
  uploads,     \* documents that redline uploads have committed
  args,        \* args[r]: what request r was sent with
  phase,       \* phase[r]: the call r makes next
  todo,        \* todo[r]: the handles a read has not finished with
  passed,      \* passed[r]: chunk ids that its scroll has gone past
  hits,        \* hits[r]: the chunks it has found
  outcome      \* outcome[r]: how r ended

\* History variables: no code reads or writes them.
VARIABLES
  early,   \* early[r]: the collection when r, not a read, was sent
  ended,   \* ended[r]: the requests that had ended when read r was sent
  stored   \* stored[r]: the points when read r was sent

store == <<collection, index, uploads>>
reading == <<todo, passed, hits>>
history == <<early, ended, stored>>
vars == <<store, args, phase, reading, outcome, history>>

-----------------------------------------------------------------------------
(* Chunks *)

Positions == 0 .. MaxChunks - 1
ChunkIds == Sources \X Positions \X Texts

\* Faults: the position is left out of the chunk id; positions count from 1.
ChunksUnplaced(source, doc) == {<<source, 0, doc[i]>> : i \in DOMAIN doc}
ChunksFromOne(source, doc) == {<<source, i, doc[i]>> : i \in DOMAIN doc}

\* _chunk_id over the enumerated chunks of a document.
Chunks(source, doc) == {<<source, i - 1, doc[i]>> : i \in DOMAIN doc}

\* What a request sends to the index.
Sent(r) == Chunks(args[r].source, args[r].doc)

\* The chunks stored for one matter handle (the payload filter of search and
\* scroll).  Fault: no filter.
AllHits(handle) == DOMAIN index
MatterHits(handle) == {id \in DOMAIN index : index[id] = handle}

\* The points after an upsert: an id that is already stored gets the new
\* payload.
Upserted(r) ==
  [id \in DOMAIN index \union Sent(r) |->
     IF id \in Sent(r) THEN args[r].handle ELSE index[id]]

\* _matter_handles: the handle given, the matter's id and its number.  Only a
\* resolved matter has any.
Tried(handle) ==
  IF MatterOf[handle] = NoMatter THEN {}
  ELSE {handle, IdOf[MatterOf[handle]], NumberOf[MatterOf[handle]]}

\* The handle whose chunks a read scrolls through now, in that order.
Turn(r) ==
  LET given == args[r].handle
      id == IdOf[MatterOf[given]]
  IN IF given \in todo[r] THEN given
     ELSE IF id \in todo[r] THEN id ELSE NumberOf[MatterOf[given]]

\* Faults: the loop over handles ends after the first; the next page begins
\* where the last one did.
RemainingNone(r) == {}
PassedNothing(r, page) == passed[r]

\* The handles left for a read that found nothing through one.
Remaining(r) == todo[r] \ {Turn(r)}

\* The ids that the offset of the next page is past.
PassedWith(r, page) == passed[r] \union page

\* The points that a scroll through one handle has yet to return.
Ahead(r) == MatterHits(Turn(r)) \ passed[r]

\* Those of a page that have the source id of the read.
OfSource(r, page) == {id \in page : id[1] = args[r].source}

-----------------------------------------------------------------------------
(* The end of a request *)

End(r, how) ==
  /\ phase' = [phase EXCEPT ![r] = "ended"]
  /\ outcome' = [outcome EXCEPT ![r] = how]

\* A ProcessingError: 503 for an indexing or a read, no evidence for a search.
Fail(r, why) ==
  /\ End(r, why)
  /\ hits' = [hits EXCEPT ![r] = {}]
  /\ UNCHANGED <<todo, passed>>

-----------------------------------------------------------------------------
(* Steps *)

\* The call after the collection is known to be there.
Using(r) == IF r \in Indexers THEN "upsert" ELSE "query"

\* The calls a request makes.
Calls(r) ==
  IF r \in Readers THEN {"resolve", "scroll"} ELSE {"embed", "check", "create", Using(r)}

\* What a request may be sent with.
Arguments(r) ==
  IF r \in Indexers THEN [handle : Handles, source : Sources, doc : Documents]
  ELSE IF r \in Searchers THEN [handle : Handles]
  ELSE [handle : Handles, source : Sources]

Init ==
  /\ collection \in {"absent", "ours", "other"}
  /\ index = [id \in {} |-> NoRequest]
  /\ uploads = {}
  /\ args = [r \in Requests |-> NoRequest]
  /\ phase = [r \in Requests |-> "idle"]
  /\ todo = [r \in Requests |-> {}]
  /\ passed = [r \in Requests |-> {}]
  /\ hits = [r \in Requests |-> {}]
  /\ outcome = [r \in Requests |-> "none"]
  /\ early = [r \in Requests |-> "absent"]
  /\ ended = [r \in Requests |-> {}]
  /\ stored = [r \in Requests |-> index]

\* A text to index arrives and is chunked, or a transcript to search with.
SendText(r) ==
  /\ r \in Indexers \union Searchers
  /\ phase[r] = "idle"
  /\ \E a \in Arguments(r) : args' = [args EXCEPT ![r] = a]
  /\ phase' = [phase EXCEPT ![r] = "embed"]
  /\ early' = [early EXCEPT ![r] = collection]
  /\ UNCHANGED <<store, reading, outcome, ended, stored>>

SendRead(r) ==
  /\ r \in Readers
  /\ phase[r] = "idle"
  /\ \E a \in Arguments(r) : args' = [args EXCEPT ![r] = a]
  /\ phase' = [phase EXCEPT ![r] = "resolve"]
  /\ ended' = [ended EXCEPT ![r] = {q \in Requests : phase[q] = "ended"}]
  /\ stored' = [stored EXCEPT ![r] = index]
  /\ UNCHANGED <<store, reading, outcome, early>>

Embed(r) ==
  /\ phase[r] = "embed"
  /\ phase' = [phase EXCEPT ![r] = "check"]
  /\ UNCHANGED <<store, args, reading, outcome, history>>

\* Fault: create the collection without looking for it.
AbsentUnchecked == collection # "other"

\* What collection_exists denies.
Absent == collection = "absent"

\* _ensure_collection_sync, up to its check.
CheckCollection(r) ==
  /\ phase[r] = "check"
  /\ IF collection = "other" THEN Fail(r, "collection")
     ELSE /\ phase' = [phase EXCEPT ![r] = IF Absent THEN "create" ELSE Using(r)]
          /\ UNCHANGED <<reading, outcome>>
  /\ UNCHANGED <<store, args, history>>

\* Fault: recreate_collection, which drops the points.
CreateAnew(r) ==
  /\ collection' = "ours"
  /\ index' = [id \in {} |-> NoRequest]
  /\ phase' = [phase EXCEPT ![r] = Using(r)]
  /\ UNCHANGED <<uploads, reading, outcome>>

\* create_collection refuses if another request created it since.
Create(r) ==
  /\ IF collection = "absent"
     THEN /\ collection' = "ours"
          /\ phase' = [phase EXCEPT ![r] = Using(r)]
          /\ UNCHANGED <<reading, outcome>>
     ELSE Fail(r, "collection") /\ UNCHANGED collection
  /\ UNCHANGED <<index, uploads>>

CreateCollection(r) ==
  /\ phase[r] = "create"
  /\ Create(r)
  /\ UNCHANGED <<args, history>>

Upsert(r) ==
  /\ phase[r] = "upsert"
  /\ index' = Upserted(r)
  /\ End(r, "ok")
  /\ UNCHANGED <<collection, uploads, args, reading, history>>

\* query_points: the nearest chunks of the matter above a score.
Query(r) ==
  /\ phase[r] = "query"
  /\ \E found \in SUBSET MatterHits(args[r].handle) :
       /\ Cardinality(found) <= Limit
       /\ hits' = [hits EXCEPT ![r] = found]
  /\ End(r, "ok")
  /\ UNCHANGED <<store, args, todo, passed, history>>

\* Ollama or Qdrant does not answer, or refuses.
ServiceFails(r) ==
  /\ phase[r] \in {"embed", "check", "create", "upsert", "query", "scroll"}
  /\ Fail(r, "service")
  /\ UNCHANGED <<store, args, history>>

\* Qdrant does what it was asked to, but its answer is lost.
AnswerLost(r) ==
  /\ \/ /\ phase[r] = "create" /\ collection = "absent"
        /\ collection' = "ours"
        /\ UNCHANGED index
     \/ /\ phase[r] = "upsert"
        /\ index' = Upserted(r)
        /\ UNCHANGED collection
  /\ Fail(r, "service")
  /\ UNCHANGED <<uploads, args, history>>

\* get_document_text, up to the rows of PostgreSQL: they are preferred to the
\* index.
Resolve(r) ==
  LET m == MatterOf[args[r].handle]
  IN /\ phase[r] = "resolve"
     /\ \/ m = NoMatter /\ End(r, "missing") /\ UNCHANGED todo
        \/ /\ \E u \in uploads : u.matter = m /\ u.source = args[r].source
           /\ End(r, "persisted") /\ UNCHANGED todo
        \/ /\ m # NoMatter
           /\ \A u \in uploads : u.matter # m \/ u.source # args[r].source
           /\ phase' = [phase EXCEPT ![r] = "scroll"]
           /\ todo' = [todo EXCEPT ![r] = Tried(args[r].handle)]
           /\ UNCHANGED outcome
     /\ UNCHANGED <<store, args, passed, hits, history>>

\* One page of _scroll_sync, in the order of the point ids, which is any order.
ScrollPage(r) ==
  /\ phase[r] = "scroll"
  /\ Cardinality(Ahead(r)) > PageSize
  /\ \E page \in SUBSET (ChunkIds \ passed[r]) :
       /\ Cardinality(page \intersect Ahead(r)) = PageSize
       /\ hits' = [hits EXCEPT ![r] = @ \union OfSource(r, page \intersect Ahead(r))]
       /\ passed' = [passed EXCEPT ![r] = PassedWith(r, page)]
  /\ UNCHANGED <<store, args, phase, todo, outcome, history>>

\* The last page of a handle: the matches are the answer, if there are any;
\* otherwise it is the next handle's turn.
LastPage(r) ==
  /\ phase[r] = "scroll"
  /\ Cardinality(Ahead(r)) <= PageSize
  /\ hits' = [hits EXCEPT ![r] = @ \union OfSource(r, Ahead(r))]
  /\ passed' = [passed EXCEPT ![r] = {}]
  /\ todo' = [todo EXCEPT ![r] = Remaining(r)]
  /\ \/ hits'[r] # {} /\ End(r, "ok")
     \/ hits'[r] = {} /\ Remaining(r) = {} /\ End(r, "missing")
     \/ hits'[r] = {} /\ Remaining(r) # {} /\ UNCHANGED <<phase, outcome>>
  /\ UNCHANGED <<store, args, history>>

\* A redline upload commits a document whose file name or title is a source id.
PersistUpload ==
  /\ Cardinality(uploads) < MaxUploads
  /\ \E m \in Matters, s \in Sources :
       uploads' = uploads \union {[matter |-> m, source |-> s]}
  /\ UNCHANGED <<collection, index, args, phase, reading, outcome, history>>

\* A step of the code, or the answer to its call.
Step(r) ==
  \/ Embed(r)
  \/ CheckCollection(r)
  \/ CreateCollection(r)
  \/ Upsert(r)
  \/ Query(r)
  \/ Resolve(r)
  \/ ScrollPage(r)
  \/ LastPage(r)

Done == (\A r \in Requests : phase[r] = "ended") /\ UNCHANGED vars

Next ==
  \/ \E r \in Requests :
       \/ SendText(r) \/ SendRead(r)
       \/ Step(r)
       \/ ServiceFails(r) \/ AnswerLost(r)
  \/ PersistUpload
  \/ Done

Spec == Init /\ [][Next]_vars

\* A request that was sent is carried on: every call is answered, or fails by
\* the timeout of its client.  No failure is relied on.
FairSpec == Spec /\ \A r \in Requests : WF_vars(Step(r))

\* The index requests of a run use each source id once.
Indexing == {r \in Indexers : phase[r] # "idle"}
OncePerSource == \A q, r \in Indexing : args[q].source = args[r].source => q = r
OnceSpec == Init /\ [][Next /\ OncePerSource']_vars

-----------------------------------------------------------------------------
(* Properties *)

TypeOK ==
  /\ collection \in {"absent", "ours", "other"}
  /\ DOMAIN index \subseteq ChunkIds
  /\ index \in [DOMAIN index -> Handles]
  /\ uploads \subseteq [matter : Matters, source : Sources]
  /\ DOMAIN args = Requests
  /\ \A r \in Requests :
       args[r] \in (IF phase[r] = "idle" THEN {NoRequest} ELSE Arguments(r))
  /\ DOMAIN phase = Requests
  /\ \A r \in Requests : phase[r] \in {"idle", "ended"} \union Calls(r)
  /\ todo \in [Requests -> SUBSET Handles]
  /\ passed \in [Requests -> SUBSET ChunkIds]
  /\ hits \in [Requests -> SUBSET ChunkIds]
  /\ outcome \in [Requests -> {"none", "ok", "missing", "persisted", "service",
                               "collection"}]
  /\ early \in [Requests -> {"absent", "ours", "other"}]
  /\ ended \in [Requests -> SUBSET Requests]

\* Requests that may have written: they ended after the call of the upsert.
Writers == {r \in Indexing : phase[r] = "ended" /\ outcome[r] \in {"ok", "service"}}

\* The handles a request may get chunks of.
Scope(r) ==
  IF r \in Readers THEN Tried(args[r].handle) ELSE {args[r].handle}

\* No request is given text of another matter: every chunk a search or a read
\* finds was sent for indexing under a handle it asked for, with the source id
\* it is reported with ("under the supplied matter scope").
OwnText ==
  \A r \in Requests : \A id \in hits[r] :
    \E w \in Writers : args[w].handle \in Scope(r) /\ id \in Sent(w)

\* What was indexed stays stored, whatever fails and however often the
\* collection is set up, but for chunks that another request sent with the
\* same source, position and text under another handle.
StoredUnlessTaken ==
  \A r \in Indexing : outcome[r] = "ok" =>
    \A id \in Sent(r) :
      /\ id \in DOMAIN index
      /\ \/ index[id] = args[r].handle
         \/ \E w \in Writers : args[w].handle = index[id] /\ id \in Sent(w)

\* Why: every point is due to a writer, and stays.
ControlInv ==
  \A r \in Requests :
    /\ outcome[r] # "none" <=> phase[r] = "ended"
    /\ phase[r] \in {"idle", "resolve"} => hits[r] = {}
    /\ phase[r] = "scroll" => MatterOf[args[r].handle] # NoMatter

StoreInv ==
  /\ ControlInv
  /\ \A id \in DOMAIN index : \E w \in Writers :
       args[w].handle = index[id] /\ id \in Sent(w)
  /\ \A r \in Indexing : outcome[r] = "ok" => Sent(r) \subseteq DOMAIN index
  /\ OwnText

\* The chunk that sorting by position puts i-th.
Sorted(found, i) ==
  CHOOSE c \in found :
    /\ Cardinality({d \in found : d[2] < c[2]}) < i
    /\ i <= Cardinality({d \in found : d[2] <= c[2]})
Joined(found) == [i \in 1 .. Cardinality(found) |-> Sorted(found, i)[3]]

\* A read that began after a document was indexed under one of the matter's
\* handles gets the document, chunk by chunk and in order, provided the source
\* was never sent with other content or under another handle.
ReadsBack ==
  \A r \in Readers, w \in Indexing :
    /\ phase[r] = "ended" /\ outcome[r] \notin {"service", "persisted"}
    /\ w \in ended[r] /\ outcome[w] = "ok"
    /\ args[w].source = args[r].source
    /\ args[w].handle \in Tried(args[r].handle)
    /\ \A q \in Indexing : args[q].source = args[w].source => args[q] = args[w]
    => outcome[r] = "ok" /\ Joined(hits[r]) = args[w].doc

\* Why: r began after w's document was stored, and names w's source among
\* requests that all send it with the same content.
Sole(w) == \A q \in Indexing : args[q].source = args[w].source => args[q] = args[w]
Owed(r, w) ==
  /\ w \in ended[r] /\ outcome[w] = "ok"
  /\ args[w].source = args[r].source
  /\ args[w].handle \in Tried(args[r].handle)
  /\ Sole(w)

\* What a read has of the document: nothing before the turn of its handle, and
\* then the chunks that its scroll has gone past.
ScrollInv(r, w) ==
  /\ args[w].handle \in todo[r]
  /\ hits[r] # {} => Turn(r) = args[w].handle
  /\ hits[r] \subseteq Sent(w)
  /\ Turn(r) = args[w].handle => Sent(w) \intersect passed[r] \subseteq hits[r]

OwedInv(r, w) ==
  Owed(r, w) =>
    /\ phase[r] = "scroll" => ScrollInv(r, w)
    /\ phase[r] = "ended" /\ outcome[r] \notin {"service", "persisted"} =>
         outcome[r] = "ok" /\ hits[r] = Sent(w)

ReadInv ==
  \A r \in Readers :
    /\ \A q \in ended[r] : phase[q] = "ended"
    /\ phase[r] = "idle" => ended[r] = {}
    /\ phase[r] \in {"idle", "resolve"} => passed[r] = {}
    /\ phase[r] = "scroll" => todo[r] \subseteq Tried(args[r].handle)
    /\ \A w \in Indexing : OwedInv(r, w)

\* Once the collection is there, setting it up fails no request that comes
\* later: only requests that were sent without it can lose the race to create.
SetupSettled ==
  \A r \in Requests : outcome[r] = "collection" => early[r] # "ours"

\* Why: a collection that is there stays, so nobody sent since goes to create it.
SetupInv ==
  \A r \in Requests :
    /\ early[r] = "ours" => collection = "ours"
    /\ phase[r] = "create" => early[r] # "ours"
    /\ phase[r] = "idle" => outcome[r] = "none"
    /\ outcome[r] = "collection" => early[r] # "ours"

\* Every request that was sent is answered.
Answered ==
  \A r \in Requests : phase[r] # "idle" ~> phase[r] = "ended"

\* Before the first request is sent: whatever text it will be sent with, the
\* chunker splits it exactly.
SplitExact == (\A r \in Requests : phase[r] = "idle") => SplitsExactly

-----------------------------------------------------------------------------
(* Refinement *)

StoredDocuments ==
  [handle : Handles, source : Sources, doc : Documents]

\* The documents that a set of points holds whole.
DocumentsIn(points) ==
  {d \in StoredDocuments :
     Chunks(d.source, d.doc) =
       {id \in DOMAIN points : points[id] = d.handle /\ id[1] = d.source}}

\* The points of a handle fit on one page, whatever handle a read looks at.
OnePage == \A r \in Readers : phase[r] = "scroll" => ~(Cardinality(Ahead(r)) > PageSize)

\* Why a document is stored whole, and a read misses none: points that are
\* there stay under their handle, and of those a read could see when it was
\* sent, none was the document's under the handles it is done with.
CatalogueInv ==
  /\ OncePerSource
  /\ \A w \in Indexing :
       (\E id \in DOMAIN index : id[1] = args[w].source) => Sent(w) \subseteq DOMAIN index
  /\ DOMAIN stored = Requests
  /\ \A r \in Readers :
       /\ \A id \in DOMAIN stored[r] : id \in DOMAIN index /\ index[id] = stored[r][id]
       /\ phase[r] \in {"idle", "resolve", "scroll"} => passed[r] = {} /\ hits[r] = {}
       /\ phase[r] = "scroll" =>
            \A id \in DOMAIN stored[r] :
              id[1] = args[r].source => stored[r][id] \notin Tried(args[r].handle) \ todo[r]

\* What a read asks for, and is told.
AskedOf(r) ==
  IF phase[r] = "idle" THEN NoRequest ELSE <<args[r].handle, args[r].source>>
AnswerOf(r) ==
  IF phase[r] = "idle" THEN NoRequest
  ELSE IF outcome[r] = "ok" THEN Joined(hits[r]) ELSE <<outcome[r]>>

Abstract == INSTANCE Catalogue WITH
  Stored <- StoredDocuments,
  Tries <- Tried,
  NoRead <- NoRequest,
  Begun <- <<"none">>,
  Missing <- <<"missing">>,
  Failed <- <<"service">>,
  documents <- DocumentsIn(index),
  asked <- [r \in Readers |-> AskedOf(r)],
  known <- [r \in Readers |-> DocumentsIn(stored[r])],
  answer <- [r \in Readers |-> AnswerOf(r)]

\* Reading and indexing implement the catalogue where a source id is used once
\* and a matter's points fit on one page.
ImplementsCatalogue == Abstract!Spec

=============================================================================
