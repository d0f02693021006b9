--------------------------- MODULE CaseFilesProofs --------------------------
(***************************************************************************)
(* Proofs about CaseFiles, for any users, commands, texts and answers of   *)
(* the ports.  What is stored is only ever replaced by the copy of some    *)
(* command, so the invariant speaks of both: whatever is stored is fit,    *)
(* and so is whatever a command may still store, which also keeps what was *)
(* settled and frozen in the aggregate that the command looked up, and is  *)
(* seen as one step of the case file after it.                             *)
(***************************************************************************)
EXTENDS CaseFiles, FiniteSetTheorems, SequenceTheorems, TLAPS

FiledKinds == {"document", "meeting", "report", "redline"}

\* An aggregate as it may be stored.
Fit(k, x) ==
  /\ x \in FilesOf(k)
  /\ Whole(k, x)
  /\ k = "matter" => Owners(x) # {}

\* What is seen of y is what is seen of x, or one step of the case file later.
Follows(k, x, y) ==
  /\ k = "matter" =>
       StatusSeen(y) = StatusSeen(x) \/ File!MatterStep(StatusSeen(x), StatusSeen(y))
  /\ k = "document" =>
       VersionsSeen(y) = VersionsSeen(x) \/ File!VersionsStep(VersionsSeen(x), VersionsSeen(y))
  /\ k = "meeting" =>
       MeetingSeen(y) = MeetingSeen(x) \/ File!MeetingStep(MeetingSeen(x), MeetingSeen(y))
  /\ k = "report" =>
       StatusSeen(y) = StatusSeen(x) \/ File!ReportStep(StatusSeen(x), StatusSeen(y))
  /\ k = "redline" =>
       RedlineSeen(y) = RedlineSeen(x) \/ File!RedlineStep(RedlineSeen(x), RedlineSeen(y))

\* A command of kind k that looked base up and will save work.
Sound(x) ==
  /\ CommandOK(x)
  /\ x.at = "save" => Fit(x.kind, x.work) /\ Follows(x.kind, x.base, x.work)
  /\ x.at = "save" /\ x.base # Nothing =>
       /\ Keeps(x.kind, x.base, x.work)
       /\ x.kind = "matter" => Frozen(x.base, x.work)
  /\ x.at = "await" =>
       /\ Fit(x.kind, x.base)
       /\ x.kind = "document" =>
            /\ x.version \in DOMAIN x.base.versions
            /\ Transition(x.base.versions[x.version].status, "processing")
       /\ x.kind = "redline" => \E context \in Contexts : x.shown \subseteq ToSet(context)

StoredFit == \A k \in Kinds : stored[k] # Nothing => Fit(k, stored[k])
CommandsSound == \A c \in Commands : command[c] = Free \/ Sound(command[c])

\* Whoever creates the aggregate of a kind has it to itself.
OneCreator ==
  \A c \in Commands : command[c] # Free /\ command[c].base = Nothing =>
    /\ stored[command[c].kind] = Nothing
    /\ \A d \in Commands \ {c} : command[d].kind # command[c].kind

\* Commands on what is filed under a matter began when there was one.
UnderMatter ==
  \A c \in Commands : command[c].kind \in FiledKinds => stored["matter"] # Nothing

Shape == DOMAIN stored = Kinds /\ DOMAIN command = Commands

FilesInvariant == Shape /\ StoredFit /\ CommandsSound /\ OneCreator /\ UnderMatter

-----------------------------------------------------------------------------
(* Values *)

\* A second owner is left when one of at least two goes.
LEMMA OwnerLeft ==
  ASSUME NEW m \in Matters, NEW u \in Users, Owners(m) # {}, OwnerStays(m, u)
  PROVE  \E v \in Users \ {u} : m.roles[v] = "owner"
<1>1. CASE m.roles[u] # "owner"
  BY <1>1 DEF Owners
<1>2. CASE m.roles[u] = "owner"
  <2>1. Cardinality(Owners(m)) > 1
    BY <1>2 DEF OwnerStays
  <2>2. SUFFICES ASSUME Owners(m) \subseteq {u} PROVE FALSE
    BY DEF Owners
  <2>3. IsFiniteSet({u}) /\ Cardinality({u}) = 1
    BY FS_Singleton
  <2>4. Cardinality(Owners(m)) <= 1
    BY <2>2, <2>3, FS_Subset
  <2>5. Cardinality(Owners(m)) \in Nat
    BY <2>2, <2>3, FS_Subset, FS_CardinalityType
  <2> QED
    BY <2>1, <2>4, <2>5
<1> QED
  BY <1>1, <1>2

\* Every change of a role leaves an owner.
LEMMA RolesKeepOwner ==
  ASSUME NEW m \in Matters, Owners(m) # {},
         NEW n \in Joined(m) \union Reassigned(m) \union Removed(m)
  PROVE  /\ n \in Matters /\ Owners(n) # {}
         /\ n.status = m.status /\ n.hold = m.hold
<1>1. PICK u \in Users, r \in MatterMemberRole \union {"none"} :
        /\ n = WithRole(m, u, r)
        /\ ~ Member(m, u) \/ r = "owner" \/ OwnerStays(m, u)
  BY DEF Joined, Reassigned, Removed, MatterMemberRole
<1>2. n \in Matters /\ n.status = m.status /\ n.hold = m.hold
      /\ n.roles = [m.roles EXCEPT ![u] = r]
  BY <1>1 DEF WithRole, Matters
<1>3. CASE r = "owner"
  BY <1>2, <1>3 DEF Owners, Matters
<1>4. CASE ~ Member(m, u)
  <2>1. PICK v \in Users : m.roles[v] = "owner"
    BY DEF Owners
  <2>2. v # u
    BY <1>4, <2>1 DEF Member
  <2> QED
    BY <1>2, <2>1, <2>2 DEF Owners, Matters
<1>5. CASE OwnerStays(m, u)
  <2>1. PICK v \in Users \ {u} : m.roles[v] = "owner"
    BY <1>5, OwnerLeft
  <2> QED
    BY <1>2, <2>1 DEF Owners, Matters
<1> QED
  BY <1>1, <1>2, <1>3, <1>4, <1>5

LEMMA KeepsTransitive ==
  ASSUME NEW k, NEW x, NEW y, NEW z, Keeps(k, x, y), Keeps(k, y, z)
  PROVE  Keeps(k, x, z)
BY DEF Keeps

-----------------------------------------------------------------------------
(* Commands that begin *)

\* Command c begins and then holds x.
Begins(c, x) ==
  /\ command[c] = Free /\ Takes(c, x)
  /\ x # Free /\ Sound(x)
  /\ x.base = stored[x.kind]
  /\ x.base = Nothing => \A d \in Commands : command[d].kind # x.kind
  /\ x.kind \in FiledKinds => stored["matter"] # Nothing

LEMMA FilesIncluded ==
  ASSUME NEW k \in Kinds, NEW x \in FilesOf(k) \union {Nothing}
  PROVE  x \in Files
<1>1. x \in FilesOf(k) => x \in UNION {FilesOf(i) : i \in Kinds}
  OBVIOUS
<1> QED
  BY <1>1 DEF Files

LEMMA SavingOK ==
  ASSUME NEW k \in Kinds, NEW w \in FilesOf(k), stored[k] \in FilesOf(k) \union {Nothing}
  PROVE  CommandOK(Saving(k, w))
<1>1. stored[k] \in Files /\ w \in Files
  BY FilesIncluded
<1> QED
  BY <1>1 DEF CommandOK, CommandRecords, Saving

LEMMA AwaitingBegins ==
  ASSUME StoredFit, NEW c \in Commands, NEW k \in Kinds, NEW v \in Nat, NEW shown \in SUBSET Passages,
         command[c] = Free, stored[k] # Nothing, Takes(c, Awaiting(k, v, shown)),
         k = "document" => v \in DOMAIN stored[k].versions
                           /\ Transition(stored[k].versions[v].status, "processing"),
         k = "redline" => \E context \in Contexts : shown \subseteq ToSet(context),
         stored["matter"] # Nothing
  PROVE  \E x : Begins(c, x)
<1> DEFINE x == Awaiting(k, v, shown)
<1>1. Fit(k, stored[k]) /\ stored[k] \in FilesOf(k)
  BY DEF StoredFit, Fit
<1>2. /\ x.kind = k /\ x.at = "await" /\ x.base = stored[k] /\ x.version = v /\ x.shown = shown
      /\ x # Free
  BY DEF Awaiting, Free
<1>3. x \in CommandRecords
  <2>1. stored[k] \in Files /\ Nothing \in Files
    BY <1>1, FilesIncluded
  <2> QED
    BY <2>1 DEF CommandRecords, Awaiting
<1> HIDE DEF x
<1>4. CommandOK(x)
  BY <1>1, <1>2, <1>3 DEF CommandOK
<1>5. Sound(x)
  BY <1>1, <1>2, <1>4 DEF Sound
<1>6. Begins(c, x)
  BY <1>1, <1>2, <1>5 DEF Begins, x
<1> QED
  BY <1>6

LEMMA SavingBegins ==
  ASSUME StoredFit, NEW c \in Commands, NEW k \in Kinds, NEW w,
         command[c] = Free, stored[k] # Nothing, Takes(c, Saving(k, w)),
         Fit(k, w), Keeps(k, stored[k], w), k = "matter" => Frozen(stored[k], w),
         Follows(k, stored[k], w), k \in FiledKinds => stored["matter"] # Nothing
  PROVE  \E x : Begins(c, x)
<1>1. CommandOK(Saving(k, w))
  BY SavingOK DEF StoredFit, Fit
<1>2. Begins(c, Saving(k, w))
  BY <1>1 DEF Begins, Saving, Sound, Free
<1> QED
  BY <1>2

LEMMA CreatingBegins ==
  ASSUME NEW c \in Commands, NEW k \in Kinds, NEW w,
         command[c] = Free, Creates(c, k, w), Fit(k, w), Follows(k, Nothing, w),
         k \in FiledKinds => stored["matter"] # Nothing
  PROVE  \E x : Begins(c, x)
<1>1. CommandOK(Saving(k, w))
  BY SavingOK DEF Creates, Fit
<1>2. Begins(c, Saving(k, w))
  BY <1>1 DEF Begins, Creates, Saving, Sound, Free
<1> QED
  BY <1>2

LEMMA OrganizationBegins ==
  ASSUME StoredFit, NEW c \in Commands, NEW actor \in Actors,
         CommandsOn("organization", c, actor)
  PROVE  \E x : Begins(c, x)
<1> DEFINE o == stored["organization"]
<1>1. ASSUME NEW n \in Names PROVE Fit("organization", NewOrganization(n))
                                     /\ Follows("organization", Nothing, NewOrganization(n))
  BY DEF Fit, FilesOf, Organizations, NewOrganization, OrganizationStatus, Whole, Follows
<1>2. CASE CreateOrganization(c, actor)
  BY <1>1, <1>2, CreatingBegins DEF CreateOrganization, Kinds, FiledKinds
<1>3. ASSUME NEW w \in Organizations, command[c] = Free, o # Nothing,
             Takes(c, Saving("organization", w)), o.status = "archived" => w.status = "archived"
      PROVE  \E x : Begins(c, x)
  <2>1. Fit("organization", w) /\ Keeps("organization", o, w) /\ Follows("organization", o, w)
    BY <1>3 DEF Fit, FilesOf, Whole, Keeps, Follows
  <2> QED
    BY <1>3, <2>1, SavingBegins DEF Kinds, FiledKinds
<1>4. o # Nothing => o \in Organizations
  BY DEF StoredFit, Fit, FilesOf, Kinds
<1>5. CASE RenameOrganization(c, actor)
  BY <1>3, <1>4, <1>5 DEF RenameOrganization, OnOrganization, Organizations
<1>6. CASE SuspendOrganization(c, actor) \/ ActivateOrganization(c, actor)
             \/ ArchiveOrganization(c, actor)
  BY <1>3, <1>4, <1>6 DEF SuspendOrganization, ActivateOrganization, ArchiveOrganization,
     OnOrganization, Becomes, Organizations, OrganizationStatus
<1> QED
  BY <1>2, <1>5, <1>6 DEF CommandsOn, OrganizationCommands

LEMMA MatterBegins ==
  ASSUME StoredFit, NEW c \in Commands, NEW actor \in Actors,
         CommandsOn("matter", c, actor)
  PROVE  \E x : Begins(c, x)
<1> DEFINE m == stored["matter"]
<1>1. ASSUME NEW n \in Names
      PROVE  /\ Fit("matter", NewMatter(n, actor.user))
             /\ Follows("matter", Nothing, NewMatter(n, actor.user))
  <2>1. actor.user \in Users /\ NewMatter(n, actor.user).roles[actor.user] = "owner"
    BY DEF Actors, NewMatter
  <2>2. NewMatter(n, actor.user) \in Matters
    BY DEF NewMatter, Matters, MatterStatus, MatterMemberRole
  <2>3. StatusSeen(Nothing) = "none" /\ StatusSeen(NewMatter(n, actor.user)) = "active"
    BY <2>2, NothingAssumption DEF StatusSeen, NewMatter
  <2> QED
    BY <2>1, <2>2, <2>3 DEF Fit, FilesOf, Whole, Owners, Follows, File!MatterStep
<1>2. CASE CreateMatter(c, actor)
  BY <1>1, <1>2, CreatingBegins DEF CreateMatter, OnOrganization, Kinds, FiledKinds
<1>3. m # Nothing => m \in Matters /\ Owners(m) # {}
  BY DEF StoredFit, Fit, FilesOf, Kinds
<1>4. ASSUME NEW w \in Matters, command[c] = Free, m # Nothing, Takes(c, Saving("matter", w)),
             Owners(w) # {}, Keeps("matter", m, w), Frozen(m, w),
             w.status = m.status \/ File!MatterStep(m.status, w.status)
      PROVE  \E x : Begins(c, x)
  <2>1. Fit("matter", w)
    BY <1>4 DEF Fit, FilesOf, Whole
  <2>2. StatusSeen(m) = m.status /\ StatusSeen(w) = w.status
    BY <1>4, NothingAssumption DEF StatusSeen
  <2>3. Follows("matter", m, w)
    BY <1>4, <2>2 DEF Follows
  <2> QED
    BY <1>4, <2>1, <2>3, SavingBegins DEF Kinds, FiledKinds
<1>5. CASE RenameMatter(c, actor)
  <2>1. PICK n \in Names : Takes(c, Saving("matter", [m EXCEPT !.name = n]))
    BY <1>5 DEF RenameMatter
  <2>2. m \in Matters /\ Modifiable(m) /\ m # Nothing /\ command[c] = Free /\ Owners(m) # {}
    BY <1>3, <1>5 DEF RenameMatter, Opens
  <2>3. /\ [m EXCEPT !.name = n] \in Matters
        /\ Owners([m EXCEPT !.name = n]) # {}
        /\ Keeps("matter", m, [m EXCEPT !.name = n]) /\ Frozen(m, [m EXCEPT !.name = n])
        /\ [m EXCEPT !.name = n].status = m.status
    BY <2>2 DEF Matters, Owners, Keeps, Frozen, Modifiable
  <2> QED
    BY <1>4, <2>1, <2>2, <2>3
<1>6. CASE ManageMembers(c, actor)
  <2>1. m # Nothing /\ command[c] = Free /\ Modifiable(m) /\ m \in Matters /\ Owners(m) # {}
    BY <1>3, <1>6 DEF ManageMembers, Opens
  <2>2. PICK w \in Joined(m) \union Reassigned(m) \union Removed(m) :
          Takes(c, Saving("matter", w))
    BY <1>6 DEF ManageMembers
  <2>3. w \in Matters /\ Owners(w) # {} /\ w.status = m.status
    BY <2>1, RolesKeepOwner
  <2>4. Keeps("matter", m, w) /\ Frozen(m, w)
    BY <2>1 DEF Keeps, Frozen, Modifiable
  <2> QED
    BY <1>4, <2>1, <2>2, <2>3, <2>4
<1>7. CASE HoldMatter(c, actor)
  <2>1. PICK hold \in BOOLEAN : Takes(c, Saving("matter", [m EXCEPT !.hold = hold]))
    BY <1>7 DEF HoldMatter
  <2>2. m \in Matters /\ m # Nothing /\ command[c] = Free /\ Owners(m) # {}
    BY <1>3, <1>7 DEF HoldMatter, Opens
  <2>3. /\ [m EXCEPT !.hold = hold] \in Matters
        /\ Owners([m EXCEPT !.hold = hold]) # {}
        /\ Keeps("matter", m, [m EXCEPT !.hold = hold])
        /\ [m EXCEPT !.hold = hold].status = m.status
    BY <2>2 DEF Matters, Owners, Keeps, Structure
  <2>4. Frozen(m, [m EXCEPT !.hold = hold])
    BY <2>2 DEF Frozen, Structure, Matters
  <2> QED
    BY <1>4, <2>1, <2>2, <2>3, <2>4
<1>8. CASE PutOnHold(c, actor) \/ Resume(c, actor) \/ CloseMatter(c, actor)
             \/ ArchiveMatter(c, actor)
  <2>1. PICK st \in MatterStatus :
          /\ Takes(c, Saving("matter", [m EXCEPT !.status = st]))
          /\ m.status \in {"closed", "archived"} => st = "archived"
          /\ File!MatterStep(m.status, st)
    BY <1>8 DEF PutOnHold, Resume, CloseMatter, ArchiveMatter, Becomes, MatterStatus,
       File!MatterStep
  <2>2. m \in Matters /\ m # Nothing /\ command[c] = Free /\ Owners(m) # {}
    BY <1>3, <1>8 DEF PutOnHold, Resume, CloseMatter, ArchiveMatter, Opens
  <2>3. /\ [m EXCEPT !.status = st] \in Matters
        /\ Owners([m EXCEPT !.status = st]) # {}
        /\ Keeps("matter", m, [m EXCEPT !.status = st])
        /\ [m EXCEPT !.status = st].status = st
    BY <2>1, <2>2 DEF Matters, Owners, Keeps, Structure
  <2>4. Frozen(m, [m EXCEPT !.status = st])
    BY <2>2 DEF Frozen, Structure, Matters
  <2> QED
    BY <1>4, <2>1, <2>2, <2>3, <2>4
<1> QED
  BY <1>2, <1>5, <1>6, <1>7, <1>8 DEF CommandsOn, MatterCommands

\* A version that is not complete may be replaced by another that is whole.
LEMMA VersionReplaced ==
  ASSUME NEW d, Fit("document", d), NEW v \in DOMAIN d.versions, NEW w \in DocumentVersions,
         d.versions[v].status # "completed", w.status # "processing",
         IF w.status = "completed" THEN w.segments \in Texts \ {<<>>} ELSE w.segments = <<>>,
         w.error <=> w.status = "failed",
         \/ w.status = "completed"
         \/ w.status = "failed" /\ d.versions[v].status = "pending"
  PROVE  /\ Fit("document", [d EXCEPT !.versions[v] = w])
         /\ Keeps("document", d, [d EXCEPT !.versions[v] = w])
         /\ Follows("document", d, [d EXCEPT !.versions[v] = w])
<1> DEFINE e == [d EXCEPT !.versions[v] = w]
<1>1. d \in Documents /\ d.versions \in Seq(DocumentVersions)
  BY DEF Fit, FilesOf, Documents
<1>2. e = [d EXCEPT !.versions = [d.versions EXCEPT ![v] = w]]
  BY <1>1 DEF Documents
<1>3. v \in 1 .. Len(d.versions)
  BY <1>1, LenProperties
<1>4. /\ [d.versions EXCEPT ![v] = w] \in Seq(DocumentVersions)
      /\ DOMAIN [d.versions EXCEPT ![v] = w] = DOMAIN d.versions
      /\ \A i \in DOMAIN d.versions :
           [d.versions EXCEPT ![v] = w][i] = IF i = v THEN w ELSE d.versions[i]
  BY <1>1, <1>3, ExceptSeq, LenProperties
<1>5. e \in Documents /\ e.versions = [d.versions EXCEPT ![v] = w]
  BY <1>1, <1>2, <1>4 DEF Documents
<1> HIDE DEF e
<1>6. Whole("document", d)
  BY DEF Fit
<1>7. Whole("document", e)
  BY <1>4, <1>5, <1>6 DEF Whole
<1>8. Keeps("document", d, e)
  BY <1>4, <1>5 DEF Keeps
<1>9. Follows("document", d, e)
  <2>1. /\ VersionsSeen(d) = [i \in DOMAIN d.versions |-> d.versions[i].status]
        /\ VersionsSeen(e) = [i \in DOMAIN d.versions |-> e.versions[i].status]
    BY <1>1, <1>4, <1>5, NothingAssumption DEF VersionsSeen
  <2>2. VersionsSeen(e) = [VersionsSeen(d) EXCEPT ![v] = w.status]
    BY <1>4, <1>5, <2>1
  <2>3. v \in DOMAIN VersionsSeen(d) /\ VersionsSeen(d)[v] = d.versions[v].status
    BY <2>1
  <2>4. d.versions[v].status \in {"pending", "failed"}
    <3>1. d.versions[v] \in DocumentVersions
      BY <1>1, <1>3, ElementOfSeq
    <3>2. d.versions[v].status \in ProcessingStatus
      BY <3>1 DEF DocumentVersions
    <3> QED
      BY <1>6, <3>2 DEF Whole, ProcessingStatus
  <2>5. File!VersionsStep(VersionsSeen(d), VersionsSeen(e))
    BY <2>2, <2>3, <2>4 DEF File!VersionsStep
  <2> QED
    BY <2>5 DEF Follows
<1> QED
  BY <1>5, <1>7, <1>8, <1>9 DEF Fit, FilesOf, e

\* A version that is added is seen as pending.
LEMMA VersionAppended ==
  ASSUME NEW d \in Documents, NEW e \in Documents, e.versions = Append(d.versions, NewVersion)
  PROVE  Follows("document", d, e)
<1> DEFINE x == VersionsSeen(d)
           y == VersionsSeen(e)
           n == Len(d.versions)
<1>1. d.versions \in Seq(DocumentVersions) /\ n \in Nat /\ DOMAIN d.versions = 1 .. n
  BY LenProperties DEF Documents
<1>2. /\ DOMAIN e.versions = 1 .. n + 1
      /\ \A i \in 1 .. n : e.versions[i] = d.versions[i]
      /\ e.versions[n + 1] = NewVersion
  BY <1>1
<1>3. x = [i \in 1 .. n |-> d.versions[i].status]
  BY <1>1, NothingAssumption DEF VersionsSeen
<1>4. y = [i \in 1 .. n + 1 |-> e.versions[i].status]
  BY <1>2, NothingAssumption DEF VersionsSeen
<1>5. x \in Seq(ProcessingStatus) /\ Len(x) = n
  <2>1. \A i \in 1 .. n : d.versions[i].status \in ProcessingStatus
    <3>1. \A i \in 1 .. n : d.versions[i] \in DocumentVersions
      BY <1>1, ElementOfSeq
    <3> QED
      BY <3>1 DEF DocumentVersions
  <2>2. x \in [1 .. n -> ProcessingStatus]
    BY <1>3, <2>1
  <2> HIDE DEF x
  <2>3. x \in Seq(ProcessingStatus)
    BY <1>1, <2>2, SeqDef
  <2> QED
    BY <1>1, <2>2, <2>3, LenProperties
<1>6. y = [i \in 1 .. n + 1 |-> IF i = n + 1 THEN "pending" ELSE x[i]]
  <2>1. \A i \in 1 .. n + 1 : i # n + 1 => i \in 1 .. n
    BY <1>1
  <2> QED
    BY <1>2, <1>3, <1>4, <2>1 DEF NewVersion
<1> HIDE DEF x, y, n
<1>7. y = Append(x, "pending")
  BY <1>1, <1>5, <1>6 DEF Append
<1> QED
  BY <1>7 DEF Follows, File!VersionsStep, x, y

LEMMA DocumentBegins ==
  ASSUME StoredFit, NEW c \in Commands, NEW actor \in Actors,
         CommandsOn("document", c, actor)
  PROVE  \E x : Begins(c, x)
<1> DEFINE d == stored["document"]
<1>1. CASE RegisterDocument(c, actor)
  <2>1. Fit("document", NewDocument)
    BY DEF Fit, FilesOf, Documents, NewDocument, Whole
  <2>2. Follows("document", Nothing, NewDocument)
    BY DEF Follows, VersionsSeen, NewDocument
  <2> QED
    BY <1>1, <2>1, <2>2, CreatingBegins DEF RegisterDocument, Filed, Kinds
<1>2. d # Nothing => Fit("document", d) /\ d \in Documents /\ d.versions \in Seq(DocumentVersions)
  BY DEF StoredFit, Fit, FilesOf, Kinds, Documents
<1>3. CASE AddDocumentVersion(c, actor)
  <2> DEFINE e == AddVersion(d)
  <2>1. /\ d # Nothing /\ command[c] = Free /\ Takes(c, Saving("document", e))
        /\ stored["matter"] # Nothing
    BY <1>3 DEF AddDocumentVersion, Opens
  <2>2. NewVersion \in DocumentVersions
    BY DEF NewVersion, DocumentVersions, ProcessingStatus
  <2> DEFINE versions == Append(d.versions, NewVersion)
  <2>9. versions \in Seq(DocumentVersions)
    BY <1>2, <2>1, <2>2, AppendProperties
  <2>10. e = [d EXCEPT !.versions = versions]
    BY DEF AddVersion
  <2> HIDE DEF versions, e
  <2>11. e \in Documents /\ e.versions = versions
    BY <1>2, <2>1, <2>9, <2>10 DEF Documents
  <2>3. e \in Documents /\ e.versions = Append(d.versions, NewVersion)
    BY <2>11 DEF versions
  <2>4. \A i \in DOMAIN e.versions :
          \/ i \in DOMAIN d.versions /\ e.versions[i] = d.versions[i]
          \/ e.versions[i] = NewVersion
    BY <1>2, <2>1, <2>2, <2>3
  <2>5. \A i \in DOMAIN d.versions : i \in DOMAIN e.versions /\ e.versions[i] = d.versions[i]
    BY <1>2, <2>1, <2>2, <2>3
  <2>6. Whole("document", e)
    BY <1>2, <2>1, <2>4 DEF Whole, Fit, NewVersion
  <2>7. Keeps("document", d, e)
    BY <2>5 DEF Keeps
  <2>8. Fit("document", e)
    BY <2>3, <2>6 DEF Fit, FilesOf, e
  <2>12. Follows("document", d, e)
    BY <1>2, <2>1, <2>3, VersionAppended DEF Fit, FilesOf
  <2> QED
    BY <2>1, <2>7, <2>8, <2>12, SavingBegins DEF Kinds
<1>4. CASE ProcessVersion(c, actor)
  <2>1. PICK v \in DOMAIN d.versions :
          /\ Transition(d.versions[v].status, "processing")
          /\ Takes(c, Awaiting("document", v, {}))
    BY <1>4 DEF ProcessVersion
  <2>2. d # Nothing /\ command[c] = Free /\ Fit("document", d) /\ stored["matter"] # Nothing
    BY <1>2, <1>4 DEF ProcessVersion, Opens
  <2>3. v \in Nat
    BY <1>2, <2>1, <2>2, LenProperties
  <2> QED
    BY <2>1, <2>2, <2>3, AwaitingBegins DEF Kinds
<1>5. CASE FailVersion(c, actor)
  <2>1. PICK v \in DOMAIN d.versions :
          /\ Transition(d.versions[v].status, "failed")
          /\ Takes(c, Saving("document", [d EXCEPT !.versions[v] = Failed(@)]))
    BY <1>5 DEF FailVersion
  <2>2. /\ d # Nothing /\ command[c] = Free /\ Fit("document", d) /\ d \in Documents
        /\ stored["matter"] # Nothing
    BY <1>2, <1>5 DEF FailVersion, Opens
  <2> DEFINE w == Failed(d.versions[v])
  <2>3. d.versions[v] \in DocumentVersions
    BY <1>2, <2>2, ElementOfSeq, LenProperties
  <2>4. /\ w \in DocumentVersions /\ w.status = "failed" /\ w.error
        /\ w.segments = d.versions[v].segments
    BY <2>3 DEF Failed, DocumentVersions, ProcessingStatus
  <2>5. d.versions[v].status = "pending" /\ d.versions[v].segments = <<>>
    BY <2>1, <2>2 DEF Transition, Fit, Whole
  <2>6. [d EXCEPT !.versions[v] = Failed(@)] = [d EXCEPT !.versions[v] = w]
    BY <2>2 DEF Documents
  <2> HIDE DEF w
  <2>7. /\ Fit("document", [d EXCEPT !.versions[v] = w])
        /\ Keeps("document", d, [d EXCEPT !.versions[v] = w])
        /\ Follows("document", d, [d EXCEPT !.versions[v] = w])
    BY <2>2, <2>4, <2>5, VersionReplaced
  <2> QED
    BY <2>1, <2>2, <2>6, <2>7, SavingBegins DEF Kinds
<1> QED
  BY <1>1, <1>3, <1>4, <1>5 DEF CommandsOn, DocumentCommands

LEMMA MeetingBegins ==
  ASSUME StoredFit, NEW c \in Commands, NEW actor \in Actors,
         CommandsOn("meeting", c, actor)
  PROVE  \E x : Begins(c, x)
<1> DEFINE m == stored["meeting"]
<1>1. CASE CreateMeeting(c, actor)
  <2>1. NewMeeting \in Meetings
    BY DEF NewMeeting, Meetings
  <2>2. Fit("meeting", NewMeeting)
    BY <2>1 DEF Fit, FilesOf, NewMeeting, Whole
  <2>3. MeetingSeen(Nothing) = [status |-> "none", segments |-> 0] /\ MeetingSeen(NewMeeting) = NewMeeting
    BY <2>1, NothingAssumption DEF MeetingSeen, StatusSeen, NewMeeting
  <2>4. Follows("meeting", Nothing, NewMeeting)
    BY <2>3 DEF Follows, File!MeetingStep, NewMeeting
  <2> QED
    BY <1>1, <2>2, <2>4, CreatingBegins DEF CreateMeeting, Filed, Kinds
<1>2. m # Nothing => Fit("meeting", m) /\ m \in Meetings
  BY DEF StoredFit, Fit, FilesOf, Kinds
<1>3. ASSUME NEW w \in Meetings, m # Nothing, command[c] = Free, Takes(c, Saving("meeting", w)),
             w.status \in {"ready", "archived"} => w.segments > 0, Keeps("meeting", m, w),
             File!MeetingStep(m, w), stored["matter"] # Nothing
      PROVE  \E x : Begins(c, x)
  <2>1. Fit("meeting", w)
    BY <1>3 DEF Fit, FilesOf, Whole
  <2>2. MeetingSeen(m) = m /\ MeetingSeen(w) = w
    BY <1>2, <1>3, NothingAssumption DEF MeetingSeen, StatusSeen, Meetings
  <2>3. Follows("meeting", m, w)
    BY <1>3, <2>2 DEF Follows
  <2> QED
    BY <1>3, <2>1, <2>3, SavingBegins DEF Kinds
<1>4. CASE AddTranscriptSegment(c, actor)
  <2> DEFINE w == [status |-> "transcribing", segments |-> m.segments + 1]
  <2>1. m # Nothing /\ command[c] = Free /\ m \in Meetings /\ CanReceive(m)
        /\ Takes(c, Saving("meeting", w)) /\ stored["matter"] # Nothing
    BY <1>2, <1>4 DEF AddTranscriptSegment, Opens
  <2>2. /\ w \in Meetings /\ w.status = "transcribing" /\ Keeps("meeting", m, w)
        /\ File!MeetingStep(m, w)
    BY <2>1 DEF Meetings, Keeps, CanReceive, File!MeetingStep
  <2> QED
    BY <1>3, <2>1, <2>2
<1>5. CASE BeginTranscription(c, actor) \/ CompleteTranscription(c, actor)
             \/ ArchiveMeeting(c, actor)
  <2>1. PICK st \in {"transcribing", "ready", "archived"} :
          /\ Takes(c, Saving("meeting", [m EXCEPT !.status = st]))
          /\ m.status \in {"draft", "transcribing"} \/ (m.status = "ready" /\ st = "archived")
          /\ st = "ready" => m.segments > 0
          /\ st = "archived" => m.status = "ready"
    <3>1. CASE BeginTranscription(c, actor)
      BY <3>1 DEF BeginTranscription, Becomes, CanReceive
    <3>2. CASE CompleteTranscription(c, actor)
      BY <3>2 DEF CompleteTranscription, Becomes, CanReceive
    <3>3. CASE ArchiveMeeting(c, actor)
      BY <3>3 DEF ArchiveMeeting, Becomes
    <3> QED
      BY <1>5, <3>1, <3>2, <3>3
  <2>2. /\ m # Nothing /\ command[c] = Free /\ m \in Meetings /\ Whole("meeting", m)
        /\ stored["matter"] # Nothing
    BY <1>2, <1>5 DEF BeginTranscription, CompleteTranscription, ArchiveMeeting, Opens, Fit
  <2> DEFINE w == [m EXCEPT !.status = st]
  <2>3. /\ w \in Meetings /\ w.status = st /\ w.segments = m.segments
        /\ w = [status |-> st, segments |-> m.segments]
    BY <2>2 DEF Meetings
  <2> HIDE DEF w
  <2>4. Keeps("meeting", m, w) /\ (w.status \in {"ready", "archived"} => w.segments > 0)
    BY <2>1, <2>2, <2>3 DEF Keeps, Whole
  <2>5. File!MeetingStep(m, w)
    BY <2>1, <2>3 DEF File!MeetingStep
  <2> QED
    BY <1>3, <2>1, <2>2, <2>3, <2>4, <2>5 DEF w
<1> QED
  BY <1>1, <1>4, <1>5 DEF CommandsOn, MeetingCommands

\* A report is seen by its status.
LEMMA ReportFollows ==
  ASSUME NEW r \in Reports, NEW w \in Reports, File!ReportStep(r.status, w.status)
  PROVE  Follows("report", r, w)
BY NothingAssumption DEF Follows, StatusSeen

LEMMA ReportBegins ==
  ASSUME StoredFit, NEW c \in Commands, NEW actor \in Actors,
         CommandsOn("report", c, actor)
  PROVE  \E x : Begins(c, x)
<1> DEFINE r == stored["report"]
<1>1. CASE CreateReport(c, actor)
  <2>1. Fit("report", NewReport) /\ NewReport \in Reports /\ NewReport.status = "draft"
    BY DEF Fit, FilesOf, Reports, NewReport, Whole
  <2>2. Follows("report", Nothing, NewReport)
    BY <2>1, NothingAssumption DEF Follows, StatusSeen, File!ReportStep
  <2> QED
    BY <1>1, <2>1, <2>2, CreatingBegins DEF CreateReport, Filed, Kinds
<1>2. r # Nothing => Fit("report", r) /\ r \in Reports /\ Whole("report", r)
  BY DEF StoredFit, Fit, FilesOf, Kinds
<1>3. CASE GenerateReport(c, actor)
  <2>1. /\ r # Nothing /\ command[c] = Free /\ Takes(c, Awaiting("report", 0, {}))
        /\ stored["matter"] # Nothing
    BY <1>3 DEF GenerateReport, Opens
  <2> QED
    BY <2>1, AwaitingBegins DEF Kinds
<1>4. CASE ApproveReport(c, actor)
  <2> DEFINE w == [r EXCEPT !.status = "approved"]
  <2>1. /\ r # Nothing /\ command[c] = Free /\ r.status = "ready" /\ Takes(c, Saving("report", w))
        /\ stored["matter"] # Nothing
    BY <1>4 DEF ApproveReport, Opens, Becomes
  <2>2. /\ w \in Reports /\ w.status = "approved"
        /\ w.sections = r.sections /\ w.formats = r.formats
    BY <1>2, <2>1 DEF Reports
  <2> HIDE DEF w
  <2>3. Whole("report", w) /\ Keeps("report", r, w)
    BY <1>2, <2>1, <2>2 DEF Whole, Keeps
  <2>4. Follows("report", r, w)
    BY <1>2, <2>1, <2>2, ReportFollows DEF File!ReportStep
  <2> QED
    BY <2>1, <2>2, <2>3, <2>4, SavingBegins DEF Kinds, Fit, FilesOf
<1>5. CASE ExportReport(c, actor)
  <2>1. PICK f \in Formats : Takes(c, Saving("report", ExportedReport(r, f)))
    BY <1>5 DEF ExportReport
  <2>2. /\ r # Nothing /\ command[c] = Free /\ r.status \in {"ready", "approved"}
        /\ stored["matter"] # Nothing
    BY <1>5 DEF ExportReport, Opens, CanExportReport
  <2> DEFINE w == ExportedReport(r, f)
  <2>3. /\ w \in Reports /\ w.status = "exported"
        /\ w.sections = r.sections /\ w.formats = r.formats \union {f}
    BY <1>2, <2>2 DEF Reports, ExportedReport
  <2> HIDE DEF w
  <2>4. r.formats = {}
    BY <1>2, <2>2 DEF Whole
  <2>5. Whole("report", w) /\ Keeps("report", r, w)
    BY <1>2, <2>2, <2>3, <2>4 DEF Whole, Keeps
  <2>6. Fit("report", w)
    BY <2>3, <2>5 DEF Fit, FilesOf
  <2>7. Follows("report", r, w)
    BY <1>2, <2>2, <2>3, ReportFollows DEF File!ReportStep
  <2> QED
    BY <2>1, <2>2, <2>5, <2>6, <2>7, SavingBegins DEF Kinds, w
<1> QED
  BY <1>1, <1>3, <1>4, <1>5 DEF CommandsOn, ReportCommands

\* How a job is seen.
LEMMA JobSeen ==
  ASSUME NEW j \in RedlineJobs
  PROVE  RedlineSeen(j) = [status |-> j.status,
                           verdicts |-> [i \in DOMAIN j.changes |-> j.changes[i].verdict]]
BY NothingAssumption DEF RedlineSeen, StatusSeen

\* The changes of a job that are pending are seen undecided.
LEMMA PendingSeen ==
  ASSUME NEW j \in RedlineJobs
  PROVE  File!Undecided(RedlineSeen(j)) = Pending(j)
<1> DEFINE verdicts == [i \in DOMAIN j.changes |-> j.changes[i].verdict]
<1>1. RedlineSeen(j).verdicts = verdicts
  BY JobSeen
<1> QED
  BY <1>1 DEF File!Undecided, Pending

\* A pending change may be decided.
LEMMA ChangeReviewed ==
  ASSUME NEW j, Fit("redline", j), NEW i \in DOMAIN j.changes, Reviewable(j, i),
         NEW verdict \in {"approved", "rejected"}
  PROVE  /\ Fit("redline", Review(j, i, verdict))
         /\ Keeps("redline", j, Review(j, i, verdict))
         /\ Follows("redline", j, Review(j, i, verdict))
<1> DEFINE w == Review(j, i, verdict)
           changed == [j.changes[i] EXCEPT !.verdict = verdict]
           changes == [j.changes EXCEPT ![i] = changed]
<1>1. j \in RedlineJobs /\ j.changes \in Seq(RedlineChanges) /\ Whole("redline", j)
  BY DEF Fit, FilesOf, RedlineJobs
<1>2. i \in 1 .. Len(j.changes) /\ j.changes[i] \in RedlineChanges
  BY <1>1, LenProperties, ElementOfSeq
<1>3. changed \in RedlineChanges /\ changed.quotes = j.changes[i].quotes
      /\ changed.verdict = verdict
  BY <1>2 DEF RedlineChanges, ReviewStatus
<1> HIDE DEF changed
<1>4. /\ changes \in Seq(RedlineChanges) /\ DOMAIN changes = DOMAIN j.changes
      /\ \A n \in DOMAIN j.changes : changes[n] = IF n = i THEN changed ELSE j.changes[n]
  BY <1>1, <1>2, <1>3, ExceptSeq, LenProperties
<1>5. w = [j EXCEPT !.changes = changes]
  BY <1>1 DEF Review, RedlineJobs, changed
<1> HIDE DEF w, changes
<1>6. w \in RedlineJobs /\ w.status = j.status /\ w.changes = changes
  BY <1>1, <1>4, <1>5 DEF RedlineJobs
<1>7. j.status \notin {"draft", "reviewed", "exported"}
  <2>1. i \in Pending(j)
    BY DEF Reviewable, Pending
  <2>2. j.status \notin {"reviewed", "exported"}
    BY <1>1, <2>1 DEF Whole
  <2>3. j.changes # <<>>
    BY <1>1, <1>2
  <2> QED
    BY <1>1, <2>2, <2>3 DEF Whole
<1>8. \A n \in DOMAIN changes : changes[n].quotes = j.changes[n].quotes
  BY <1>3, <1>4
<1>9. Whole("redline", w)
  BY <1>1, <1>4, <1>6, <1>7, <1>8 DEF Whole
<1>10. Keeps("redline", j, w)
  BY <1>4, <1>6, <1>7 DEF Keeps, Reviewable
<1>11. File!RedlineStep(RedlineSeen(j), RedlineSeen(w))
  <2> DEFINE old == [n \in DOMAIN j.changes |-> j.changes[n].verdict]
             new == [n \in DOMAIN w.changes |-> w.changes[n].verdict]
             x == RedlineSeen(j)
             y == RedlineSeen(w)
  <2>1. x = [status |-> j.status, verdicts |-> old] /\ y = [status |-> j.status, verdicts |-> new]
    BY <1>1, <1>6, JobSeen
  <2>2. new = [old EXCEPT ![i] = verdict]
    BY <1>3, <1>4, <1>6
  <2>3. i \in File!Undecided(x)
    BY <1>1, PendingSeen DEF Reviewable, Pending
  <2>4. j.status = "ready_for_review"
    BY <1>1, <1>7 DEF RedlineJobs, Whole
  <2> HIDE DEF old, new, x, y
  <2>5. x.status = "ready_for_review" /\ y = [x EXCEPT !.verdicts[i] = verdict]
    BY <2>1, <2>2, <2>4
  <2>6. File!RedlineStep(x, y)
    BY <2>3, <2>5 DEF File!RedlineStep
  <2> QED
    BY <2>6 DEF x, y
<1>12. Follows("redline", j, w)
  BY <1>11 DEF Follows
<1> QED
  BY <1>6, <1>9, <1>10, <1>12 DEF Fit, FilesOf, w

LEMMA RedlineBegins ==
  ASSUME StoredFit, NEW c \in Commands, NEW actor \in Actors,
         CommandsOn("redline", c, actor)
  PROVE  \E x : Begins(c, x)
<1> DEFINE j == stored["redline"]
<1>1. CASE CreateRedline(c, actor)
  <2>1. Fit("redline", NewJob) /\ NewJob \in RedlineJobs
    BY DEF Fit, FilesOf, RedlineJobs, NewJob, Whole, Pending
  <2>2. RedlineSeen(Nothing) = [status |-> "none", verdicts |-> <<>>]
    BY DEF RedlineSeen, StatusSeen
  <2>3. RedlineSeen(NewJob) = [status |-> "draft", verdicts |-> <<>>]
    BY <2>1, JobSeen DEF NewJob
  <2>4. Follows("redline", Nothing, NewJob)
    BY <2>2, <2>3 DEF Follows, File!RedlineStep
  <2> QED
    BY <1>1, <2>1, <2>4, CreatingBegins DEF CreateRedline, Filed, Kinds
<1>2. j # Nothing => Fit("redline", j) /\ j \in RedlineJobs /\ Whole("redline", j)
  BY DEF StoredFit, Fit, FilesOf, Kinds
<1>3. CASE GenerateRedline(c, actor)
  <2>6. PICK context \in Contexts : \E n \in 0 .. Len(context) :
          Takes(c, Awaiting("redline", 0, ToSet(SubSeq(context, 1, n))))
    BY <1>3 DEF GenerateRedline
  <2>1. PICK n \in 0 .. Len(context) :
          Takes(c, Awaiting("redline", 0, ToSet(SubSeq(context, 1, n))))
    BY <2>6
  <2>2. j # Nothing /\ command[c] = Free /\ stored["matter"] # Nothing
    BY <1>3 DEF GenerateRedline, Opens
  <2> DEFINE shown == ToSet(SubSeq(context, 1, n))
  <2>3. context \in Seq(Passages)
    BY TextsAssumption
  <2>4. shown \subseteq ToSet(context) /\ ToSet(context) \subseteq Passages
    BY <2>3 DEF ToSet
  <2> HIDE DEF shown
  <2>5. Takes(c, Awaiting("redline", 0, shown))
    BY <2>1 DEF shown
  <2> QED
    BY <2>2, <2>4, <2>5, AwaitingBegins DEF Kinds
<1>4. CASE ReviewChange(c, actor)
  BY <1>2, <1>4, ChangeReviewed, SavingBegins DEF ReviewChange, Opens, Kinds
<1>5. ASSUME NEW st \in {"reviewed", "exported"}, j # Nothing, command[c] = Free,
             Pending(j) = {},
             Takes(c, Saving("redline", [j EXCEPT !.status = st])),
             j.status = IF st = "reviewed" THEN "ready_for_review" ELSE "reviewed",
             stored["matter"] # Nothing
      PROVE  \E x : Begins(c, x)
  <2> DEFINE w == [j EXCEPT !.status = st]
  <2>1. w \in RedlineJobs /\ w.status = st /\ w.changes = j.changes
    BY <1>2, <1>5 DEF RedlineJobs
  <2> HIDE DEF w
  <2>2. Pending(w) = {}
    BY <1>5, <2>1 DEF Pending
  <2>3. Whole("redline", w) /\ Keeps("redline", j, w)
    BY <1>2, <1>5, <2>1, <2>2 DEF Whole, Keeps
  <2>4. Fit("redline", w)
    BY <2>1, <2>3 DEF Fit, FilesOf
  <2>5. File!Undecided(RedlineSeen(j)) = {}
    BY <1>2, <1>5, PendingSeen
  <2>6. RedlineSeen(w) = [RedlineSeen(j) EXCEPT !.status = st] /\ RedlineSeen(j).status = j.status
    BY <1>2, <1>5, <2>1, JobSeen
  <2>7. Follows("redline", j, w)
    BY <1>5, <2>5, <2>6 DEF Follows, File!RedlineStep
  <2> QED
    BY <1>5, <2>3, <2>4, <2>7, SavingBegins DEF Kinds, w
<1>6. CASE MarkReviewed(c, actor)
  BY <1>5, <1>6 DEF MarkReviewed, Opens, CanClose, Becomes
<1>7. CASE ExportRedline(c, actor)
  BY <1>5, <1>7 DEF ExportRedline, Opens, CanExportJob, Becomes
<1> QED
  BY <1>1, <1>3, <1>4, <1>6, <1>7 DEF CommandsOn, RedlineCommands

-----------------------------------------------------------------------------
(* Commands that come back from a port *)

\* Command c goes on with what it looked up, and will save.
Resumes(c, x) ==
  /\ command[c] # Free /\ Takes(c, x)
  /\ x # Free /\ Sound(x)
  /\ x.kind = command[c].kind /\ x.base = command[c].base

\* The copy of an awaiting command is complete.
LEMMA CopyResumes ==
  ASSUME NEW c \in Commands, Sound(command[c]), command[c].at = "await", NEW w,
         Takes(c, [command[c] EXCEPT !.at = "save", !.work = w]),
         Fit(command[c].kind, w), Keeps(command[c].kind, command[c].base, w),
         Follows(command[c].kind, command[c].base, w),
         command[c].kind # "matter"
  PROVE  \E x : Resumes(c, x)
<1> DEFINE x == [command[c] EXCEPT !.at = "save", !.work = w]
<1>2. command[c] # Free /\ command[c] \in CommandRecords
  BY DEF Free, Sound, CommandOK
<1>1. /\ x.at = "save" /\ x.work = w /\ x.kind = command[c].kind /\ x.base = command[c].base
      /\ x \in CommandRecords /\ x # Free
  <2>1. w \in Files
    BY <1>2, FilesIncluded DEF Fit, CommandRecords
  <2> QED
    BY <1>2, <2>1 DEF CommandRecords, Free
<1> HIDE DEF x
<1>3. Sound(x)
  BY <1>1, <1>2 DEF Sound, CommandOK, Fit
<1>4. Resumes(c, x)
  BY <1>1, <1>2, <1>3 DEF Resumes, x
<1> QED
  BY <1>4

LEMMA VersionResumes ==
  ASSUME NEW c \in Commands, Sound(command[c]), VersionProcessed(c)
  PROVE  \E x : Resumes(c, x)
<1> DEFINE d == command[c].base
           v == command[c].version
<1>1. /\ command[c].at = "await" /\ command[c].kind = "document"
      /\ Fit("document", d) /\ d \in Documents /\ v \in DOMAIN d.versions
      /\ Transition(d.versions[v].status, "processing")
  BY DEF VersionProcessed, Sound, Fit, FilesOf
<1>2. PICK text \in Texts :
        /\ d.versions[v].segments \o text # <<>>
        /\ Takes(c, [command[c] EXCEPT !.at = "save",
                       !.work = [d EXCEPT !.versions[v] = Processed(@, text)]])
  BY DEF VersionProcessed
<1> DEFINE w == Processed(d.versions[v], text)
           e == [d EXCEPT !.versions[v] = w]
<1>3. d.versions[v].status # "completed" /\ d.versions[v].segments = <<>>
  BY <1>1 DEF Transition, Fit, Whole
<1>4. text \in Seq(Passages) /\ d.versions[v].segments \o text = text
  BY <1>3, TextsAssumption, ConcatEmptySeq
<1>5. w = [status |-> "completed", segments |-> text, error |-> FALSE] /\ text # <<>>
  BY <1>2, <1>4 DEF Processed
<1>7. Takes(c, [command[c] EXCEPT !.at = "save", !.work = e])
  BY <1>1, <1>2 DEF Documents
<1> HIDE DEF w
<1>6. w \in DocumentVersions
  BY <1>4, <1>5 DEF DocumentVersions, ProcessingStatus
<1>8. Fit("document", e) /\ Keeps("document", d, e) /\ Follows("document", d, e)
  BY <1>1, <1>3, <1>5, <1>6, VersionReplaced
<1> QED
  BY <1>1, <1>7, <1>8, CopyResumes

LEMMA ReportResumes ==
  ASSUME NEW c \in Commands, Sound(command[c]), ReportWritten(c)
  PROVE  \E x : Resumes(c, x)
<1> DEFINE r == command[c].base
<1>1. /\ command[c].at = "await" /\ command[c].kind = "report"
      /\ r \in Reports /\ Whole("report", r)
  BY DEF ReportWritten, Sound, Fit, FilesOf
<1>2. PICK n \in 0 .. MaxSections :
        /\ CanGenerate(r, n)
        /\ Takes(c, [command[c] EXCEPT !.at = "save", !.work = Generated(r, n)])
  BY DEF ReportWritten
<1> DEFINE w == Generated(r, n)
<1>3. r.status = "draft" /\ n \in 1 .. MaxSections /\ r.sections = 0 /\ r.formats = {}
  BY <1>1, <1>2, SectionsAssumption DEF CanGenerate, Whole
<1>4. w \in Reports /\ w.status = "ready" /\ w.sections = n /\ w.formats = {}
  <2>1. r.sections + n = n /\ n \in Nat
    BY <1>3, SectionsAssumption
  <2>2. w = [r EXCEPT !.status = "ready", !.sections = n]
    BY <2>1 DEF Generated
  <2> HIDE DEF w
  <2> QED
    BY <1>1, <1>3, <2>1, <2>2 DEF Reports
<1> HIDE DEF w
<1>5. Whole("report", w) /\ Keeps("report", r, w)
  BY <1>3, <1>4 DEF Whole, Keeps
<1>6. Fit("report", w)
  BY <1>4, <1>5 DEF Fit, FilesOf
<1>7. Follows("report", r, w)
  BY <1>1, <1>3, <1>4, ReportFollows DEF File!ReportStep
<1> QED
  BY <1>1, <1>2, <1>5, <1>6, <1>7, CopyResumes DEF w

LEMMA RedlineResumes ==
  ASSUME NEW c \in Commands, Sound(command[c]), RedlineDrafted(c)
  PROVE  \E x : Resumes(c, x)
<1> DEFINE j == command[c].base
           shown == command[c].shown
<1>1. /\ command[c].at = "await" /\ command[c].kind = "redline"
      /\ j \in RedlineJobs /\ Whole("redline", j)
  BY DEF RedlineDrafted, Sound, Fit, FilesOf
<1>2. PICK context \in Contexts : shown \subseteq ToSet(context)
  BY <1>1 DEF Sound
<1>3. PICK proposed \in Drafts :
        /\ CanApply(j, proposed, shown)
        /\ Takes(c, [command[c] EXCEPT !.at = "save", !.work = Applied(j, proposed)])
  BY DEF RedlineDrafted
<1> DEFINE w == Applied(j, proposed)
           new == Proposed(proposed)
<1>4. proposed \in Seq(Proposals) /\ DOMAIN proposed = 1 .. Len(proposed)
      /\ Len(proposed) \in Nat
  BY DraftsAssumption, LenProperties
<1>5. \A i \in DOMAIN proposed :
        /\ new[i] \in RedlineChanges
        /\ new[i].quotes # {} /\ new[i].quotes \subseteq ToSet(context)
  <2> SUFFICES ASSUME NEW i \in DOMAIN proposed
               PROVE  /\ new[i] \in RedlineChanges
                      /\ new[i].quotes # {} /\ new[i].quotes \subseteq ToSet(context)
    OBVIOUS
  <2>1. proposed[i] \in Proposals
    BY <1>4, ElementOfSeq
  <2>2. proposed[i].quotes # {} /\ proposed[i].quotes \subseteq ToSet(context)
    BY <1>2, <1>3 DEF CanApply, Acceptable, Grounded
  <2>3. new[i] = [quotes |-> proposed[i].quotes, verdict |-> "pending"]
    BY DEF Proposed
  <2> HIDE DEF new
  <2> QED
    BY <2>1, <2>2, <2>3 DEF Proposals, RedlineChanges, ReviewStatus
<1>6. new \in Seq(RedlineChanges) /\ DOMAIN new = DOMAIN proposed
  <2>1. new \in [1 .. Len(proposed) -> RedlineChanges] /\ DOMAIN new = DOMAIN proposed
    BY <1>4, <1>5 DEF Proposed
  <2> QED
    BY <1>4, <2>1, SeqDef
<1> HIDE DEF new
<1>7. j.status = "draft" /\ j.changes = <<>>
  BY <1>1, <1>3 DEF CanApply, Whole
<1>8. w = [status |-> "ready_for_review", changes |-> new]
  BY <1>6, <1>7, ConcatEmptySeq DEF Applied, new
<1>9. w \in RedlineJobs
  BY <1>6, <1>8 DEF RedlineJobs
<1> HIDE DEF w
<1>10. Whole("redline", w)
  BY <1>5, <1>6, <1>8 DEF Whole
<1>11. Keeps("redline", j, w)
  BY <1>7 DEF Keeps
<1>12. Fit("redline", w)
  BY <1>9, <1>10 DEF Fit, FilesOf
<1>13. Follows("redline", j, w)
  <2> DEFINE verdicts == [i \in DOMAIN new |-> new[i].verdict]
  <2>1. RedlineSeen(w) = [status |-> "ready_for_review", verdicts |-> verdicts]
    BY <1>8, <1>9, JobSeen
  <2>2. verdicts \in [1 .. Len(proposed) -> {"pending"}]
    BY <1>4, <1>6 DEF new, Proposed
  <2> HIDE DEF verdicts
  <2>3. verdicts \in Seq({"pending"})
    BY <1>4, <2>2, SeqDef
  <2>4. RedlineSeen(j).status = "draft"
    BY <1>1, <1>7, JobSeen
  <2> QED
    BY <2>1, <2>3, <2>4 DEF Follows, File!RedlineStep
<1> QED
  BY <1>1, <1>3, <1>11, <1>12, <1>13, CopyResumes DEF w

-----------------------------------------------------------------------------
(* The invariant *)

LEMMA InitFilesInvariant == FilesInit => FilesInvariant
BY DEF FilesInit, FilesInvariant, Shape, StoredFit, CommandsSound, OneCreator, UnderMatter,
   FiledKinds, Free

\* What every step does to the two variables.
LEMMA StepsOfFiles ==
  ASSUME FilesInvariant, FilesNext
  PROVE  \E c \in Commands : \/ \E x : Begins(c, x)
                            \/ \E x : Resumes(c, x)
                            \/ Save(c)
                            \/ Abandon(c)
<1>1. PICK c \in Commands :
        \/ \E k \in Kinds, actor \in Actors : CommandsOn(k, c, actor)
        \/ Continues(c)
  BY DEF FilesNext
<1>2. ASSUME NEW k \in Kinds, NEW actor \in Actors, CommandsOn(k, c, actor)
      PROVE  \E x : Begins(c, x)
  BY <1>2, OrganizationBegins, MatterBegins, DocumentBegins, MeetingBegins, ReportBegins,
     RedlineBegins DEF Kinds, FilesInvariant
<1>3. CASE VersionProcessed(c) \/ ReportWritten(c) \/ RedlineDrafted(c)
  <2>1. command[c].at = "await"
    BY <1>3 DEF VersionProcessed, ReportWritten, RedlineDrafted
  <2>2. Sound(command[c])
    BY <2>1 DEF FilesInvariant, CommandsSound, Free
  <2> QED
    BY <1>3, <2>2, VersionResumes, ReportResumes, RedlineResumes
<1> QED
  BY <1>1, <1>2, <1>3 DEF Continues

LEMMA StepKeepsFiles == FilesInvariant /\ [FilesNext]_filesVars => FilesInvariant'
<1> SUFFICES ASSUME FilesInvariant, [FilesNext]_filesVars PROVE FilesInvariant'
  OBVIOUS
<1> USE DEF FilesInvariant
<1>0. Free.base = Nothing /\ Free.kind = "none" /\ "none" \notin Kinds
  BY DEF Free, Kinds
<1>7. "none" \notin FiledKinds /\ FiledKinds \subseteq Kinds /\ "matter" \in Kinds
  BY DEF FiledKinds, Kinds
<1>1. \A d \in Commands : command[d] # Free => command[d].kind \in Kinds
  BY DEF CommandsSound, Sound, CommandOK, CommandRecords
<1>2. CASE UNCHANGED filesVars
  BY <1>2 DEF filesVars, Shape, StoredFit, CommandsSound, OneCreator, UnderMatter
<1>3. ASSUME NEW c \in Commands, NEW x, Begins(c, x) PROVE FilesInvariant'
  <2>1. /\ stored' = stored /\ command' = [command EXCEPT ![c] = x]
        /\ command[c] = Free /\ x # Free /\ Sound(x) /\ x.base = stored[x.kind]
    BY <1>3 DEF Begins, Takes
  <2>2. x.kind \in Kinds
    BY <2>1 DEF Sound, CommandOK, CommandRecords
  <2>3. Shape' /\ StoredFit' /\ CommandsSound'
    BY <2>1 DEF Shape, StoredFit, CommandsSound
  <2>5. UnderMatter'
    BY <1>3, <2>1 DEF UnderMatter, Begins, Shape
  <2>4. ASSUME NEW d \in Commands, command'[d] # Free, command'[d].base = Nothing
        PROVE  /\ stored'[command'[d].kind] = Nothing
               /\ \A e \in Commands \ {d} : command'[e].kind # command'[d].kind
    <3>1. CASE d = c
      BY <1>3, <2>1, <2>4, <3>1 DEF Begins, Shape
    <3>2. CASE d # c
      <4>1. /\ command'[d] = command[d] /\ stored[command[d].kind] = Nothing
            /\ \A e \in Commands \ {d} : command[e].kind # command[d].kind
        BY <2>1, <2>4, <3>2 DEF OneCreator, Shape
      <4>2. x.kind # command[d].kind
        BY <1>3, <2>1, <4>1 DEF Begins
      <4> QED
        BY <2>1, <4>1, <4>2 DEF Shape
    <3> QED
      BY <3>1, <3>2
  <2> QED
    BY <2>3, <2>4, <2>5 DEF OneCreator
<1>4. ASSUME NEW c \in Commands, NEW x, Resumes(c, x) PROVE FilesInvariant'
  <2>1. /\ stored' = stored /\ command' = [command EXCEPT ![c] = x]
        /\ command[c] # Free /\ x # Free /\ Sound(x)
        /\ x.kind = command[c].kind /\ x.base = command[c].base
    BY <1>4 DEF Resumes, Takes
  <2>2. Shape' /\ StoredFit' /\ CommandsSound'
    BY <2>1 DEF Shape, StoredFit, CommandsSound
  <2>3. OneCreator' /\ UnderMatter'
    BY <2>1 DEF OneCreator, UnderMatter, Shape
  <2> QED
    BY <2>2, <2>3
<1>5. ASSUME NEW c \in Commands, Save(c) PROVE FilesInvariant'
  <2> DEFINE k == command[c].kind
             w == command[c].work
  <2>1. /\ command[c].at = "save" /\ command[c] # Free
        /\ stored' = [stored EXCEPT ![k] = w] /\ command' = [command EXCEPT ![c] = Free]
    BY <1>5 DEF Save, Free
  <2>2. k \in Kinds /\ Fit(k, w)
    BY <1>1, <2>1 DEF CommandsSound, Sound
  <2>3. Shape' /\ StoredFit' /\ CommandsSound'
    BY <2>1, <2>2 DEF Shape, StoredFit, CommandsSound
  <2>5. UnderMatter'
    <3>1. w # Nothing
      BY <1>5, <2>2, NothingAssumption DEF Fit, FilesOf, Kinds
    <3> QED
      BY <1>0, <1>7, <2>1, <2>2, <3>1 DEF UnderMatter, Shape
  <2>4. ASSUME NEW d \in Commands, command'[d] # Free, command'[d].base = Nothing
        PROVE  /\ stored'[command'[d].kind] = Nothing
               /\ \A e \in Commands \ {d} : command'[e].kind # command'[d].kind
    <3>1. d # c /\ command'[d] = command[d]
      BY <2>1, <2>4 DEF Shape
    <3>2. /\ stored[command[d].kind] = Nothing /\ command[d].kind \in Kinds
          /\ \A e \in Commands \ {d} : command[e].kind # command[d].kind
      BY <1>1, <2>4, <3>1 DEF OneCreator
    <3> QED
      BY <1>0, <2>1, <3>1, <3>2 DEF Shape
  <2> QED
    BY <2>3, <2>4, <2>5 DEF OneCreator
<1>6. ASSUME NEW c \in Commands, Abandon(c) PROVE FilesInvariant'
  <2>1. stored' = stored /\ command' = [command EXCEPT ![c] = Free]
    BY <1>6 DEF Abandon, Takes
  <2>2. Shape' /\ StoredFit' /\ CommandsSound'
    BY <2>1 DEF Shape, StoredFit, CommandsSound
  <2>4. UnderMatter'
    BY <1>0, <1>7, <2>1 DEF UnderMatter, Shape
  <2>3. ASSUME NEW d \in Commands, command'[d] # Free, command'[d].base = Nothing
        PROVE  /\ stored'[command'[d].kind] = Nothing
               /\ \A e \in Commands \ {d} : command'[e].kind # command'[d].kind
    <3>1. d # c /\ command'[d] = command[d]
      BY <2>1, <2>3 DEF Shape
    <3>2. /\ stored[command[d].kind] = Nothing /\ command[d].kind \in Kinds
          /\ \A e \in Commands \ {d} : command[e].kind # command[d].kind
      BY <1>1, <2>3, <3>1 DEF OneCreator
    <3> QED
      BY <1>0, <2>1, <3>1, <3>2 DEF Shape
  <2> QED
    BY <2>2, <2>3, <2>4 DEF OneCreator
<1> QED
  BY <1>2, <1>3, <1>4, <1>5, <1>6, StepsOfFiles

\* The invariant holds of every command handler and every interleaving.
THEOREM FilesInvariantHolds == FilesSpec => []FilesInvariant
BY InitFilesInvariant, StepKeepsFiles, PTL DEF FilesSpec

-----------------------------------------------------------------------------
(* What follows *)

\* Whatever is stored or held by a command of organization_handlers.py,
\* matter_handlers.py, document_handlers.py, meeting_handlers.py,
\* report_handlers.py or redline_handlers.py is of its type.
THEOREM FilesTypeCorrect == FilesSpec => []FilesTypeOK
<1>1. FilesInvariant => FilesTypeOK
  BY DEF FilesInvariant, StoredFit, CommandsSound, Fit, Sound, FilesTypeOK, CommandOK
<1> QED
  BY <1>1, FilesInvariantHolds, PTL

\* Whatever commands on its members overlap, the guard of ensure_owner_remains
\* (matter/entities.py) leaves every matter an owner: what is stored is
\* always the whole copy of one command, and each leaves an owner in its own.
THEOREM EveryMatterOwned == FilesSpec => []OwnerRemains
<1>1. FilesInvariant => OwnerRemains
  BY DEF FilesInvariant, StoredFit, Fit, OwnerRemains, Kinds
<1> QED
  BY <1>1, FilesInvariantHolds, PTL

\* No document, meeting, report or redline is ever stored half way, although
\* the handlers pass through half of it around the call of a port.
THEOREM FilesAreWhole == FilesSpec => []FilesWhole
<1>1. FilesInvariant => FilesWhole
  BY DEF FilesInvariant, StoredFit, Fit, FilesWhole
<1> QED
  BY <1>1, FilesInvariantHolds, PTL

\* A step replaces the aggregate of kind k, or leaves it alone.
LEMMA OnlySaves ==
  ASSUME FilesInvariant, [FilesNext]_filesVars, NEW k \in Kinds
  PROVE  \/ stored'[k] = stored[k]
         \/ \E c \in Commands :
              /\ Replaces(c, k) /\ stored'[k] = command[c].work /\ command[c] # Free
<1>1. CASE UNCHANGED filesVars
  BY <1>1 DEF filesVars
<1>2. ASSUME NEW c \in Commands, Save(c)
      PROVE  \/ stored'[k] = stored[k]
             \/ Replaces(c, k) /\ stored'[k] = command[c].work /\ command[c] # Free
  BY <1>2 DEF Save, Replaces, FilesInvariant, Shape, Free
<1>3. ASSUME NEW c \in Commands, (\E x : Begins(c, x)) \/ (\E x : Resumes(c, x)) \/ Abandon(c)
      PROVE  stored'[k] = stored[k]
  BY <1>3 DEF Begins, Resumes, Abandon, Takes
<1> QED
  BY <1>1, <1>2, <1>3, StepsOfFiles

\* The copy that replaces what is stored was made of a lookup.
LEMMA ReplacedWasLookedUp ==
  ASSUME FilesInvariant, NEW k \in Kinds, NEW c \in Commands, command[c] # Free,
         Replaces(c, k), stored[k] # Nothing
  PROVE  command[c].base # Nothing /\ Sound(command[c])
BY DEF FilesInvariant, Replaces, OneCreator, CommandsSound

\* A legal hold (ensure_matter_is_modifiable) is undone by nothing but its
\* release, or a command that had looked up another matter than the one it
\* replaces.
THEOREM HoldsFreeze == FilesSpec => HoldFreezes
<1> DEFINE m == stored["matter"]
           n == stored'["matter"]
           A == m # Nothing =>
                  \/ Frozen(m, n)
                  \/ \E c \in Commands : Replaces(c, "matter") /\ command[c].base # m
<1>1. FilesInvariant /\ [FilesNext]_filesVars => A
  <2> SUFFICES ASSUME FilesInvariant, [FilesNext]_filesVars, m # Nothing PROVE A
    OBVIOUS
  <2>1. CASE n = m
    BY <2>1 DEF Frozen
  <2>2. ASSUME NEW c \in Commands, Replaces(c, "matter"), n = command[c].work,
               command[c] # Free, command[c].base = m
        PROVE  Frozen(m, n)
    <3>1. Sound(command[c])
      BY <2>2, ReplacedWasLookedUp DEF Kinds
    <3> QED
      BY <2>2, <3>1 DEF Sound, Replaces
  <2>3. "matter" \in Kinds
    BY DEF Kinds
  <2> QED
    BY <2>1, <2>2, <2>3, OnlySaves
<1>2. FilesInvariant /\ [FilesNext]_filesVars => [A]_filesVars
  BY <1>1
<1>3. []FilesInvariant /\ [][FilesNext]_filesVars => [][A]_filesVars
  BY <1>2, PTL
<1>4. FilesSpec => [][A]_filesVars
  BY <1>3, FilesInvariantHolds, PTL DEF FilesSpec
<1> QED
  BY <1>4 DEF HoldFreezes

\* What is settled of an aggregate is taken back only by a command that looked
\* it up before.
THEOREM SettledStaysSettled == FilesSpec => SettledStays
<1> DEFINE A == \A k \in Kinds : stored[k] # Nothing =>
                  \/ Keeps(k, stored[k], stored'[k])
                  \/ \E c \in Commands :
                       Replaces(c, k) /\ ~ Keeps(k, stored[k], command[c].base)
<1>1. FilesInvariant /\ [FilesNext]_filesVars => A
  <2> SUFFICES ASSUME FilesInvariant, [FilesNext]_filesVars,
                      NEW k \in Kinds, stored[k] # Nothing
               PROVE  \/ Keeps(k, stored[k], stored'[k])
                      \/ \E c \in Commands :
                           Replaces(c, k) /\ ~ Keeps(k, stored[k], command[c].base)
    OBVIOUS
  <2>1. CASE stored'[k] = stored[k]
    BY <2>1 DEF Keeps
  <2>2. ASSUME NEW c \in Commands, Replaces(c, k), stored'[k] = command[c].work,
               command[c] # Free, Keeps(k, stored[k], command[c].base)
        PROVE  Keeps(k, stored[k], stored'[k])
    <3>1. Keeps(k, command[c].base, command[c].work)
      BY <2>2, ReplacedWasLookedUp DEF Sound, Replaces
    <3> QED
      BY <2>2, <3>1, KeepsTransitive
  <2> QED
    BY <2>1, <2>2, OnlySaves
<1>2. []FilesInvariant /\ [][FilesNext]_filesVars => [][A]_filesVars
  BY <1>1, PTL
<1>3. FilesSpec => [][A]_filesVars
  BY <1>2, FilesInvariantHolds, PTL DEF FilesSpec
<1> QED
  BY <1>3 DEF SettledStays

-----------------------------------------------------------------------------
(* The case file *)

\* A command that stores a copy which is still current takes a step of the
\* case file, or one that is not seen.
LEMMA CurrentSaveSeen ==
  ASSUME FilesInvariant, NEW c \in Commands, Save(c), command[c].base = stored[command[c].kind]
  PROVE  File!CaseNext \/ UNCHANGED File!caseVars
<1> DEFINE k == command[c].kind
           y == command[c].work
<1>1. Sound(command[c])
  BY DEF Save, Free, FilesInvariant, CommandsSound
<1>2. k \in Kinds
  BY <1>1 DEF Save, Free, Sound, CommandOK, CommandRecords
<1>3. k \in FiledKinds => stored["matter"] # Nothing
  BY DEF FilesInvariant, UnderMatter
<1>4. /\ stored' = [stored EXCEPT ![k] = y] /\ Follows(k, stored[k], y)
      /\ DOMAIN stored = Kinds
  BY <1>1 DEF Save, Sound, FilesInvariant, Shape
<1> HIDE DEF k, y
<1>5. /\ stored'[k] = y /\ Follows(k, stored[k], stored'[k])
      /\ \A other \in Kinds \ {k} : stored'[other] = stored[other]
  BY <1>4, <1>2
<1>6. k \in FiledKinds => StatusSeen(stored["matter"]) # "none"
  <2>1. "matter" \in Kinds /\ StoredFit
    BY DEF Kinds, FilesInvariant
  <2>2. stored["matter"] # Nothing => stored["matter"].status \in MatterStatus
    BY <2>1 DEF StoredFit, Fit, FilesOf, Matters
  <2> QED
    BY <1>3, <2>2 DEF StatusSeen, MatterStatus
<1>7. CASE k = "organization"
  BY <1>5, <1>7 DEF Kinds, File!caseVars
<1>8. CASE k = "matter"
  BY <1>5, <1>8 DEF Kinds, Follows, File!caseVars, File!CaseNext
<1>9. CASE k = "document"
  BY <1>5, <1>6, <1>9 DEF Kinds, FiledKinds, Follows, File!caseVars, File!CaseNext
<1>10. CASE k = "meeting"
  BY <1>5, <1>6, <1>10 DEF Kinds, FiledKinds, Follows, File!caseVars, File!CaseNext
<1>11. CASE k = "report"
  BY <1>5, <1>6, <1>11 DEF Kinds, FiledKinds, Follows, File!caseVars, File!CaseNext
<1>12. CASE k = "redline"
  BY <1>5, <1>6, <1>12 DEF Kinds, FiledKinds, Follows, File!caseVars, File!CaseNext
<1> QED
  BY <1>2, <1>7, <1>8, <1>9, <1>10, <1>11, <1>12 DEF Kinds

LEMMA CurrentStepSeen ==
  ASSUME FilesInvariant, CopyCurrent, [FilesNext]_filesVars
  PROVE  File!CaseNext \/ UNCHANGED File!caseVars
<1>1. CASE stored' = stored
  BY <1>1 DEF File!caseVars
<1>2. CASE stored' # stored
  <2>1. PICK c \in Commands : Save(c) /\ command[c].base = stored[command[c].kind]
    BY <1>2 DEF CopyCurrent
  <2> QED
    BY <2>1, CurrentSaveSeen
<1> QED
  BY <1>1, <1>2

\* Whatever has happened before, a command that stores a copy of what is still
\* stored takes a step of the case file.
THEOREM SavesFollow == FilesSpec => CurrentSavesFollow
<1> DEFINE A == CopyCurrent => [File!CaseNext]_(File!caseVars)
<1>1. FilesInvariant /\ [FilesNext]_filesVars => A
  BY CurrentStepSeen
<1>2. []FilesInvariant /\ [][FilesNext]_filesVars => [][A]_filesVars
  BY <1>1, PTL
<1>3. FilesSpec => [][A]_filesVars
  BY <1>2, FilesInvariantHolds, PTL DEF FilesSpec
<1> QED
  BY <1>3 DEF CurrentSavesFollow

\* Whatever commands overlap, crash or wait for a port, as long as none stores
\* a copy over what another has stored since, the handlers of matters,
\* documents, meetings, reports and redlines do what they promise of the case
\* file: one step for each command, of the whole and in the right order.
THEOREM FilesImplementCaseFile == CurrentSpec => ImplementsCaseFile
<1>1. FilesInit => File!CaseInit
  BY DEF FilesInit, Kinds, File!CaseInit, StatusSeen, VersionsSeen, MeetingSeen, RedlineSeen
<1>2. FilesInvariant /\ [FilesNext /\ CopyCurrent]_filesVars => [File!CaseNext]_(File!caseVars)
  <2>1. ASSUME UNCHANGED filesVars PROVE UNCHANGED File!caseVars
    BY <2>1 DEF filesVars, File!caseVars
  <2> QED
    BY <2>1, CurrentStepSeen
<1>3. CurrentSpec => []FilesInvariant
  <2>1. FilesInvariant /\ [FilesNext /\ CopyCurrent]_filesVars => FilesInvariant'
    BY StepKeepsFiles
  <2> QED
    BY InitFilesInvariant, <2>1, PTL DEF CurrentSpec
<1> QED
  BY <1>1, <1>2, <1>3, PTL DEF CurrentSpec, ImplementsCaseFile, File!CaseSpec
=============================================================================
