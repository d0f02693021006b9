------------------------------ MODULE Catalogue ------------------------------
(***************************************************************************)
(* What the corpus promises of documents whose source ids are used once: a *)
(* document is stored whole or not at all, under the matter handle it was  *)
(* sent with; a read that names the source and, among the handles it       *)
(* tries, that one, gets the whole document, and is told that there is     *)
(* none only if there was none when the read began.                        *)
(***************************************************************************)
CONSTANTS Readers,  \* requests that may read
          Stored,   \* every [handle, source, doc] that may be stored
          Tries(_), \* the handles tried for the one a read names
          Handles,  \* the handles a read may name
          Sources,  \* the source ids
          NoRead,   \* a reader that has not begun
          Begun,    \* a read without an answer yet
          Missing,  \* the answer to a read that finds nothing
          Failed    \* the answer to a read that cannot look

VARIABLES
  documents,  \* the stored documents
  asked,      \* asked[r]: the <<handle, source>> reader r names, or NoRead
  known,      \* known[r]: the documents stored when r began
  answer      \* answer[r]: NoRead, Begun, Missing, Failed or a document

vars == <<documents, asked, known, answer>>

Init ==
  /\ documents = {}
  /\ asked = [r \in Readers |-> NoRead]
  /\ known = [r \in Readers |-> {}]
  /\ answer = [r \in Readers |-> NoRead]

Store ==
  /\ \E d \in Stored :
       /\ \A e \in documents : e.source # d.source
       /\ documents' = documents \union {d}
  /\ UNCHANGED <<asked, known, answer>>

Begin(r) ==
  /\ answer[r] = NoRead
  /\ \E q \in Handles \X Sources : asked' = [asked EXCEPT ![r] = q]
  /\ known' = [known EXCEPT ![r] = documents]
  /\ answer' = [answer EXCEPT ![r] = Begun]
  /\ UNCHANGED documents

Found(r, among) ==
  {d \in among : d.handle \in Tries(asked[r][1]) /\ d.source = asked[r][2]}

Answer(r) ==
  /\ answer[r] = Begun
  /\ \/ \E d \in Found(r, documents) : answer' = [answer EXCEPT ![r] = d.doc]
     \/ Found(r, known[r]) = {} /\ answer' = [answer EXCEPT ![r] = Missing]
     \/ answer' = [answer EXCEPT ![r] = Failed]
  /\ UNCHANGED <<documents, asked, known>>

Next == Store \/ \E r \in Readers : Begin(r) \/ Answer(r)

Spec == Init /\ [][Next]_vars
=============================================================================
