------------------------------ MODULE CaseFiles -----------------------------
(* The command handlers of organizations, matters, documents, meetings,      *)
(* reports and redlines (application/handlers).  Every handler looks its     *)
(* aggregate up, authorizes the actor on the matter as it is loaded, changes *)
(* its own copy, perhaps after it has awaited a port, saves the copy and     *)
(* commits.  Commands of any two handlers overlap: the unit of work is a     *)
(* port, taken to hand out copies and to store an aggregate whole, and       *)
(* nothing in the handlers locks or versions one.  An exception, a refusal   *)
(* or a crash drops the copy.                                                *)
(*                                                                           *)
(* One aggregate of each kind is followed; those of one kind do not meet.    *)
EXTENDS MatterRules, FileRules

CONSTANTS
  Commands,   \* commands that may overlap
  Texts,      \* what the processing port may extract: sequences of Passages
  Contexts,   \* what the documents of a redline may hold: sequences of Passages
  Drafts,     \* what the model may answer: sequences of Proposals
  MaxSections,  \* of a report that the generation port writes
  Nothing

Kinds == {"organization", "matter", "document", "meeting", "report", "redline"}

ASSUME NothingAssumption ==
  Nothing \notin Organizations \union Matters \union Documents \union Meetings
                   \union Reports \union RedlineJobs
ASSUME TextsAssumption == Texts \subseteq Seq(Passages) /\ Contexts \subseteq Seq(Passages)
ASSUME DraftsAssumption == Drafts \subseteq Seq(Proposals)
ASSUME SectionsAssumption == MaxSections \in Nat

VARIABLES
  stored,   \* stored[k]: the aggregate of kind k, as committed
  command   \* command[c]: what the process of c holds

filesVars == <<stored, command>>

\* A command: `base` is what it looked up, `work` what it will save; one that
\* awaits a port remembers the version or the passages it was about.
Free == [kind |-> "none", at |-> "free", base |-> Nothing, work |-> Nothing,
         version |-> 0, shown |-> {}]
Saving(k, work) ==
  [kind |-> k, at |-> "save", base |-> stored[k], work |-> work, version |-> 0, shown |-> {}]
Awaiting(k, version, shown) ==
  [kind |-> k, at |-> "await", base |-> stored[k], work |-> Nothing,
   version |-> version, shown |-> shown]

FilesInit ==
  /\ stored = [k \in Kinds |-> Nothing]
  /\ command = [c \in Commands |-> Free]

-----------------------------------------------------------------------------
(* Steps that the handlers share *)

\* The aggregate is found, and the matter, which the actor may use so.
Opens(c, k, actor, action) ==
  /\ command[c] = Free
  /\ stored["matter"] # Nothing /\ MayAct(actor, stored["matter"], action)
  /\ stored[k] # Nothing

Takes(c, next) ==
  /\ command' = [command EXCEPT ![c] = next]
  /\ UNCHANGED stored

\* The one aggregate of kind k that is followed is created once.
Creates(c, k, new) ==
  /\ stored[k] = Nothing
  /\ \A d \in Commands : command[d].kind # k
  /\ Takes(c, Saving(k, new))

\* Creation of what is filed under a matter.
Filed(c, k, actor, new) ==
  /\ command[c] = Free
  /\ stored["matter"] # Nothing /\ MayAct(actor, stored["matter"], "edit")
  /\ Creates(c, k, new)

\* save and commit: the whole copy replaces what is stored.
Save(c) ==
  /\ command[c].at = "save"
  /\ stored' = [stored EXCEPT ![command[c].kind] = command[c].work]
  /\ command' = [command EXCEPT ![c] = Free]

Abandon(c) ==
  /\ command[c] # Free
  /\ Takes(c, Free)

-----------------------------------------------------------------------------
(* OrganizationCommandHandler *)

OnOrganization(c, actor) ==
  command[c] = Free /\ stored["organization"] # Nothing /\ MayUse(actor)

CreateOrganization(c, actor) ==
  /\ command[c] = Free
  /\ actor.admin
  /\ \E n \in Names : Creates(c, "organization", NewOrganization(n))

RenameOrganization(c, actor) ==
  /\ OnOrganization(c, actor)
  /\ stored["organization"].status = "active"
  /\ \E n \in Names :
       Takes(c, Saving("organization", [stored["organization"] EXCEPT !.name = n]))

Becomes(c, k, status) == Takes(c, Saving(k, [stored[k] EXCEPT !.status = status]))

SuspendOrganization(c, actor) ==
  /\ OnOrganization(c, actor)
  /\ stored["organization"].status = "active"
  /\ Becomes(c, "organization", "suspended")

ActivateOrganization(c, actor) ==
  /\ OnOrganization(c, actor)
  /\ stored["organization"].status # "archived"
  /\ Becomes(c, "organization", "active")

ArchiveOrganization(c, actor) ==
  /\ OnOrganization(c, actor)
  /\ stored["organization"].status # "archived"
  /\ Becomes(c, "organization", "archived")

-----------------------------------------------------------------------------
(* MatterCommandHandler *)

\* Whether the organization is active is not asked.
CreateMatter(c, actor) ==
  /\ OnOrganization(c, actor)
  /\ \E n \in Names : Creates(c, "matter", NewMatter(n, actor.user))

RenameMatter(c, actor) ==
  /\ Opens(c, "matter", actor, "edit")
  /\ Modifiable(stored["matter"])
  /\ \E n \in Names : Takes(c, Saving("matter", [stored["matter"] EXCEPT !.name = n]))

ManageMembers(c, actor) ==
  /\ Opens(c, "matter", actor, "manage_members")
  /\ Modifiable(stored["matter"])
  /\ \E m \in Joined(stored["matter"]) \union Reassigned(stored["matter"])
                \union Removed(stored["matter"]) :
       Takes(c, Saving("matter", m))

HoldMatter(c, actor) ==
  /\ Opens(c, "matter", actor, "manage_legal_hold")
  /\ \E hold \in BOOLEAN : Takes(c, Saving("matter", [stored["matter"] EXCEPT !.hold = hold]))

PutOnHold(c, actor) ==
  /\ Opens(c, "matter", actor, "edit")
  /\ stored["matter"].status = "active"
  /\ Becomes(c, "matter", "on_hold")

Resume(c, actor) ==
  /\ Opens(c, "matter", actor, "edit")
  /\ stored["matter"].status = "on_hold"
  /\ Becomes(c, "matter", "active")

CloseMatter(c, actor) ==
  /\ Opens(c, "matter", actor, "close")
  /\ stored["matter"].status \in {"active", "on_hold"}
  /\ Becomes(c, "matter", "closed")

ArchiveMatter(c, actor) ==
  /\ Opens(c, "matter", actor, "close")
  /\ stored["matter"].status = "closed"
  /\ Becomes(c, "matter", "archived")

-----------------------------------------------------------------------------
(* DocumentCommandHandler *)

RegisterDocument(c, actor) == Filed(c, "document", actor, NewDocument)

AddDocumentVersion(c, actor) ==
  /\ Opens(c, "document", actor, "edit")
  /\ Takes(c, Saving("document", AddVersion(stored["document"])))

\* _process, up to the processing port.
ProcessVersion(c, actor) ==
  /\ Opens(c, "document", actor, "edit")
  /\ \E v \in DOMAIN stored["document"].versions :
       /\ Transition(stored["document"].versions[v].status, "processing")
       /\ Takes(c, Awaiting("document", v, {}))

\* A version without segments is not completed.
VersionProcessed(c) ==
  LET d == command[c].base  v == command[c].version
  IN  /\ command[c].at = "await" /\ command[c].kind = "document"
      /\ \E text \in Texts :
           /\ d.versions[v].segments \o text # <<>>
           /\ Takes(c, [command[c] EXCEPT !.at = "save",
                          !.work = [d EXCEPT !.versions[v] = Processed(@, text)]])

FailVersion(c, actor) ==
  /\ Opens(c, "document", actor, "edit")
  /\ \E v \in DOMAIN stored["document"].versions :
       /\ Transition(stored["document"].versions[v].status, "failed")
       /\ Takes(c, Saving("document", [stored["document"] EXCEPT !.versions[v] = Failed(@)]))

-----------------------------------------------------------------------------
(* MeetingCommandHandler *)

CreateMeeting(c, actor) == Filed(c, "meeting", actor, NewMeeting)

BeginTranscription(c, actor) ==
  /\ Opens(c, "meeting", actor, "edit")
  /\ CanReceive(stored["meeting"])
  /\ Becomes(c, "meeting", "transcribing")

\* The segment with the next sequence number; any other is refused.
AddTranscriptSegment(c, actor) ==
  /\ Opens(c, "meeting", actor, "edit")
  /\ CanReceive(stored["meeting"])
  /\ Takes(c, Saving("meeting", [status |-> "transcribing",
                                 segments |-> stored["meeting"].segments + 1]))

CompleteTranscription(c, actor) ==
  /\ Opens(c, "meeting", actor, "edit")
  /\ CanReceive(stored["meeting"]) /\ stored["meeting"].segments > 0
  /\ Becomes(c, "meeting", "ready")

ArchiveMeeting(c, actor) ==
  /\ Opens(c, "meeting", actor, "edit")
  /\ stored["meeting"].status = "ready"
  /\ Becomes(c, "meeting", "archived")

-----------------------------------------------------------------------------
(* ReportCommandHandler *)

\* For an analysis of the matter that is approved at that time.
CreateReport(c, actor) == Filed(c, "report", actor, NewReport)

\* Up to the generation port.  The report is checked only after it, and the
\* analysis, which may be another one and not approved, never.
GenerateReport(c, actor) ==
  /\ Opens(c, "report", actor, "edit")
  /\ Takes(c, Awaiting("report", 0, {}))

ReportWritten(c) ==
  /\ command[c].at = "await" /\ command[c].kind = "report"
  /\ \E n \in 0 .. MaxSections :
       /\ CanGenerate(command[c].base, n)
       /\ Takes(c, [command[c] EXCEPT !.at = "save", !.work = Generated(command[c].base, n)])

ApproveReport(c, actor) ==
  /\ Opens(c, "report", actor, "edit")
  /\ stored["report"].status = "ready"
  /\ Becomes(c, "report", "approved")

ExportReport(c, actor) ==
  /\ Opens(c, "report", actor, "edit")
  /\ CanExportReport(stored["report"])
  /\ \E f \in Formats : Takes(c, Saving("report", ExportedReport(stored["report"], f)))

-----------------------------------------------------------------------------
(* RedlineCommandHandler *)

CreateRedline(c, actor) == Filed(c, "redline", actor, NewJob)

\* Up to the generation port.  The model is shown what the context optimizer
\* keeps of the documents: a prefix, nothing where none is configured.
GenerateRedline(c, actor) ==
  /\ Opens(c, "redline", actor, "edit")
  /\ \E context \in Contexts : \E n \in 0 .. Len(context) :
       Takes(c, Awaiting("redline", 0, ToSet(SubSeq(context, 1, n))))

RedlineDrafted(c) ==
  /\ command[c].at = "await" /\ command[c].kind = "redline"
  /\ \E proposed \in Drafts :
       /\ CanApply(command[c].base, proposed, command[c].shown)
       /\ Takes(c, [command[c] EXCEPT !.at = "save", !.work = Applied(command[c].base, proposed)])

ReviewChange(c, actor) ==
  /\ Opens(c, "redline", actor, "edit")
  /\ \E i \in DOMAIN stored["redline"].changes, verdict \in {"approved", "rejected"} :
       /\ Reviewable(stored["redline"], i)
       /\ Takes(c, Saving("redline", Review(stored["redline"], i, verdict)))

MarkReviewed(c, actor) ==
  /\ Opens(c, "redline", actor, "edit")
  /\ CanClose(stored["redline"])
  /\ Becomes(c, "redline", "reviewed")

ExportRedline(c, actor) ==
  /\ Opens(c, "redline", actor, "edit")
  /\ CanExportJob(stored["redline"])
  /\ Becomes(c, "redline", "exported")

-----------------------------------------------------------------------------
OrganizationCommands(c, actor) ==
  \/ CreateOrganization(c, actor) \/ RenameOrganization(c, actor)
  \/ SuspendOrganization(c, actor) \/ ActivateOrganization(c, actor)
  \/ ArchiveOrganization(c, actor)
MatterCommands(c, actor) ==
  \/ CreateMatter(c, actor) \/ RenameMatter(c, actor)
  \/ ManageMembers(c, actor) \/ HoldMatter(c, actor)
  \/ PutOnHold(c, actor) \/ Resume(c, actor)
  \/ CloseMatter(c, actor) \/ ArchiveMatter(c, actor)
DocumentCommands(c, actor) ==
  \/ RegisterDocument(c, actor) \/ AddDocumentVersion(c, actor)
  \/ ProcessVersion(c, actor) \/ FailVersion(c, actor)
MeetingCommands(c, actor) ==
  \/ CreateMeeting(c, actor) \/ BeginTranscription(c, actor)
  \/ AddTranscriptSegment(c, actor) \/ CompleteTranscription(c, actor)
  \/ ArchiveMeeting(c, actor)
ReportCommands(c, actor) ==
  \/ CreateReport(c, actor) \/ GenerateReport(c, actor)
  \/ ApproveReport(c, actor) \/ ExportReport(c, actor)
RedlineCommands(c, actor) ==
  \/ CreateRedline(c, actor) \/ GenerateRedline(c, actor)
  \/ ReviewChange(c, actor) \/ MarkReviewed(c, actor) \/ ExportRedline(c, actor)

CommandsOn(k, c, actor) ==
  \/ k = "organization" /\ OrganizationCommands(c, actor)
  \/ k = "matter" /\ MatterCommands(c, actor)
  \/ k = "document" /\ DocumentCommands(c, actor)
  \/ k = "meeting" /\ MeetingCommands(c, actor)
  \/ k = "report" /\ ReportCommands(c, actor)
  \/ k = "redline" /\ RedlineCommands(c, actor)

Continues(c) ==
  \/ VersionProcessed(c) \/ ReportWritten(c) \/ RedlineDrafted(c)
  \/ Save(c) \/ Abandon(c)

FilesNext ==
  \E c \in Commands :
    \/ \E k \in Kinds, actor \in Actors : CommandsOn(k, c, actor)
    \/ Continues(c)

FilesSpec == FilesInit /\ [][FilesNext]_filesVars

\* What is stored changes only by a command whose copy is still what is
\* stored, as a version of each aggregate would grant.
CopyCurrent ==
  stored' # stored =>
    \E c \in Commands : Save(c) /\ command[c].base = stored[command[c].kind]
CurrentSpec == FilesInit /\ [][FilesNext /\ CopyCurrent]_filesVars

-----------------------------------------------------------------------------
(* Properties *)

FilesOf(k) ==
  CASE k = "organization" -> Organizations
    [] k = "matter" -> Matters
    [] k = "document" -> Documents
    [] k = "meeting" -> Meetings
    [] k = "report" -> Reports
    [] k = "redline" -> RedlineJobs

\* Which values a command holds in which stage.
Files == (UNION {FilesOf(k) : k \in Kinds}) \union {Nothing}
CommandRecords ==
  [kind : Kinds, at : {"await", "save"}, base : Files, work : Files,
   version : Nat, shown : SUBSET Passages]
CommandOK(x) ==
  \/ x = Free
  \/ /\ x \in CommandRecords
     /\ x.base \in FilesOf(x.kind) \union {Nothing}
     /\ IF x.at = "save" THEN x.work \in FilesOf(x.kind) ELSE x.base # Nothing
     /\ x.kind = "document" /\ x.at = "await" => x.version \in DOMAIN x.base.versions

FilesTypeOK ==
  /\ \A k \in Kinds : stored[k] \in FilesOf(k) \union {Nothing}
  /\ \A c \in Commands : CommandOK(command[c])

\* A matter has an owner, whatever commands on its members overlap.
OwnerRemains == stored["matter"] # Nothing => Owners(stored["matter"]) # {}

\* The step in which c replaces the aggregate of kind k.
Replaces(c, k) == command[c].at = "save" /\ command[c].kind = k /\ command'[c] = Free

\* "A matter under legal hold cannot be structurally modified": its name and
\* members change, and the hold ends but by its release, only through a
\* command that looked the matter up when it was another.
Frozen(m, n) ==
  m.hold => Structure(n) = Structure(m) /\ (n.hold \/ n = [m EXCEPT !.hold = FALSE])
HoldFreezes ==
  [][stored["matter"] # Nothing =>
       \/ Frozen(stored["matter"], stored'["matter"])
       \/ \E c \in Commands :
            Replaces(c, "matter") /\ command[c].base # stored["matter"]]_filesVars

\* y keeps what was settled of x: an archived organization or meeting stays
\* so, a closed matter stays closed and as it is, a transcript, the sections
\* of a report and the changes of a redline stay as they were completed, and
\* so do completed versions, exports and verdicts.
Keeps(k, x, y) ==
  /\ k = "organization" /\ x.status = "archived" => y.status = "archived"
  /\ k = "matter" =>
       /\ x.status \in {"closed", "archived"} =>
            y.status \in {"closed", "archived"} /\ Structure(y) = Structure(x)
       /\ x.status = "archived" => y.status = "archived"
  /\ k = "document" =>
       \A v \in DOMAIN x.versions : x.versions[v].status = "completed" =>
         v \in DOMAIN y.versions /\ y.versions[v] = x.versions[v]
  /\ k = "meeting" =>
       /\ x.status \in {"ready", "archived"} =>
            y.status \in {"ready", "archived"} /\ y.segments = x.segments
       /\ x.status = "archived" => y.status = "archived"
  /\ k = "report" =>
       /\ x.status # "draft" => y.status # "draft" /\ y.sections = x.sections
       /\ x.status = "exported" => y = x
  /\ k = "redline" =>
       /\ x.status # "draft" => y.status # "draft" /\ DOMAIN y.changes = DOMAIN x.changes
       /\ x.status \in {"reviewed", "exported"} => y.status \in {"reviewed", "exported"}
       /\ \A i \in DOMAIN x.changes : x.changes[i].verdict # "pending" =>
            i \in DOMAIN y.changes /\ y.changes[i] = x.changes[i]

\* What is settled is taken back only by a command that looked the aggregate
\* up before it was settled, whatever other commands did in between.
SettledStays ==
  [][\A k \in Kinds : stored[k] # Nothing =>
       \/ Keeps(k, stored[k], stored'[k])
       \/ \E c \in Commands :
            Replaces(c, k) /\ ~ Keeps(k, stored[k], command[c].base)]_filesVars

\* What is stored is never half way, although the aggregates pass through
\* half of it in every command that awaits a port: a version is complete with
\* the segments of one extraction or has none; a report has the sections of
\* one generation and at most one export; a redline is reviewed when every
\* change is decided, and its changes quote documents they were drafted from.
Whole(k, x) ==
  /\ k = "document" => \A i \in DOMAIN x.versions : LET v == x.versions[i] IN
       /\ v.status # "processing"
       /\ IF v.status = "completed" THEN v.segments \in Texts \ {<<>>} ELSE v.segments = <<>>
       /\ v.error <=> v.status = "failed"
  /\ k = "meeting" /\ x.status \in {"ready", "archived"} => x.segments > 0
  /\ k = "report" =>
       /\ x.status # "generating"
       /\ IF x.status = "draft" THEN x.sections = 0 ELSE x.sections \in 1 .. MaxSections
       /\ x.status = "exported" <=> x.formats # {}
       /\ \A f, g \in x.formats : f = g
  /\ k = "redline" =>
       /\ x.status # "processing"
       /\ x.status = "draft" => x.changes = <<>>
       /\ x.status \in {"reviewed", "exported"} => Pending(x) = {}
       /\ \A i \in DOMAIN x.changes :
            /\ x.changes[i].quotes # {}
            /\ \E context \in Contexts : x.changes[i].quotes \subseteq ToSet(context)
FilesWhole == \A k \in Kinds : stored[k] # Nothing => Whole(k, stored[k])

-----------------------------------------------------------------------------
(* Refinement *)

\* What is seen of each aggregate.
StatusSeen(x) == IF x = Nothing THEN "none" ELSE x.status
VersionsSeen(d) ==
  IF d = Nothing THEN <<>> ELSE [v \in DOMAIN d.versions |-> d.versions[v].status]
MeetingSeen(m) ==
  [status |-> StatusSeen(m), segments |-> IF m = Nothing THEN 0 ELSE m.segments]
RedlineSeen(j) ==
  [status |-> StatusSeen(j),
   verdicts |-> IF j = Nothing THEN <<>> ELSE [i \in DOMAIN j.changes |-> j.changes[i].verdict]]

File == INSTANCE CaseFile WITH
  matter <- StatusSeen(stored["matter"]),
  versions <- VersionsSeen(stored["document"]),
  meeting <- MeetingSeen(stored["meeting"]),
  report <- StatusSeen(stored["report"]),
  redline <- RedlineSeen(stored["redline"])

\* A command that stores a copy of what is still stored does what the case file
\* allows, though it is a lookup, perhaps a call of a port, and a save, and
\* whatever copies that were not current have been stored before.
CurrentSavesFollow ==
  [][CopyCurrent => [File!CaseNext]_(File!caseVars)]_filesVars

\* Where that goes for all of them, the handlers implement the case file.
ImplementsCaseFile == File!CaseSpec
=============================================================================
