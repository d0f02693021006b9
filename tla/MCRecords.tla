------------------------------ MODULE MCRecords -----------------------------
(* Three machines that share no state, for TLC: the chain of audit rows, the *)
(* analyses, and the case files.  A behaviour is of one `side`: the chain,   *)
(* the analyses, or the case files of one kind, for which an organization    *)
(* and a matter are created first.                                           *)
EXTENDS AuditChain, AnalysisTasks, CaseFiles, TLC

CONSTANTS
  s1, s2, p1, p2,
  MaxOpen,      \* tasks on an analysis that overlap
  MaxCommands   \* commands on the kind of the side

VARIABLES side, begun  \* the commands begun on that side

RecordSymmetry == Permutations(Txns)
Sides == {"chain", "analyses"} \union Kinds

MCInit ==
  /\ Init /\ AnalysisInit /\ FilesInit
  /\ side \in Sides
  /\ begun = 0

ChainNext ==
  /\ side = "chain"
  /\ Next
  /\ UNCHANGED <<analysisVars, filesVars, side, begun>>

\* Tasks on different analyses share nothing: one analysis is made, by
\* /analyze or by a command, and the other tasks are on it, not all at once.
AnalysesNext ==
  /\ side = "analyses"
  /\ AnalysisNext
  /\ Cardinality({t \in Tasks : task'[t].op \in {"analyze", "request"}}) < 2
  /\ Cardinality({t \in Tasks : task'[t].at \notin Ended \union {"idle"}}) <= MaxOpen
  /\ UNCHANGED <<vars, filesVars, side, begun>>

\* Administrators of all organizations may do the same.
Acting == {actor \in Actors : ~(actor.admin /\ actor.insider)}

\* Commands on the kind of the side are bounded; those it needs are not.
FilesBegin ==
  \E c \in Commands, actor \in Acting :
    \/ /\ begun < MaxCommands
       /\ begun' = begun + 1
       /\ CommandsOn(side, c, actor)
    \/ /\ side # "organization"
       /\ CreateOrganization(c, actor)
       /\ UNCHANGED begun
    \/ /\ side \notin {"organization", "matter"}
       /\ CreateMatter(c, actor)
       /\ UNCHANGED begun
FilesContinue ==
  /\ \/ \E c \in Commands : Continues(c)
     \/ (\A c \in Commands : command[c] = Free) /\ UNCHANGED filesVars
  /\ UNCHANGED begun

MCNext ==
  \/ ChainNext
  \/ AnalysesNext
  \/ side \in Kinds /\ (FilesBegin \/ FilesContinue) /\ UNCHANGED <<vars, analysisVars, side>>

MCSpec == MCInit /\ [][MCNext]_<<vars, analysisVars, filesVars, side, begun>>

-----------------------------------------------------------------------------
(* Values *)

\* An answer may be empty, cite what was offered or not, cite nothing, or hold
\* an item that the domain refuses.
MCItem(kind, level, cites) == [kind |-> kind, level |-> level, cites |-> cites, sound |-> TRUE]
MCRisk == MCItem("risk", "high", {s1})
MCAnswers == {[summary |-> TRUE, items |-> items] :
  items \in {{}, {MCRisk}, {[MCRisk EXCEPT !.sound = FALSE]},
             {MCItem("obligation", "none", {}), MCItem("action", "none", {s2, Transcript})}}}
MCHits == {<<>>, <<s2, s1>>}
MCQuotes == s1 :> 1 @@ s2 :> 1
\* Room for the transcript and one quote, for nothing, and no budget at all.
MCBudgets == {[maxInput |-> 4, reserved |-> 1], [maxInput |-> 2, reserved |-> 1],
              [maxInput |-> 2, reserved |-> 2]}

MCTexts == {<<>>, <<p1>>, <<p1, p2>>}
MCContexts == {<<p1>>, <<p2>>}
MCChange(quotes) == [sound |-> TRUE, type |-> "listed", quotes |-> quotes]
MCDrafts == {<<>>, <<MCChange({p1})>>, <<MCChange({p1}), MCChange({p1})>>,
             <<MCChange({p1, p2})>>, <<MCChange({})>>,
             <<[MCChange({p1}) EXCEPT !.type = "absent"]>>,
             <<[MCChange({p1}) EXCEPT !.sound = FALSE]>>}
=============================================================================
