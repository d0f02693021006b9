---------------------------- MODULE AnalysisProofs --------------------------
(***************************************************************************)
(* Proofs about AnalysisTasks, for any number of tasks, answers, budgets   *)
(* and faults.  A task is followed through its process by LocalOK; what    *)
(* it may find in the stores by Owned, which says whose analysis, job and  *)
(* audit rows there are; jobs and citations have invariants of their own.  *)
(* What a prompt keeps is proved by the rule of loops of FoldProofs.       *)
(***************************************************************************)
EXTENDS AnalysisTasks, SequenceTheorems, TLAPS

\* What a generator may be shown.
Affordable == {budget \in Budgets : Accepted(budget, Capacity)}
Prompts == {Prompt(hits, budget) : hits \in Hits, budget \in Affordable \union {NoBudget}}

Tasked ==
  [op : {"none", "analyze", "request", "execute", "decide"}, at : Stages, on : Tasks \union {0},
   work : Analyses, base : Analyses \union {NoAnalysis},
   model : BOOLEAN, found : BOOLEAN, caller : BOOLEAN,
   prompt : Prompts \union {NoPrompt},
   rows : {0, 1}, spoilt : BOOLEAN, hurt : BOOLEAN]

\* A complete analysis, whose items are supported by what the prompt offered.
Supported(x) ==
  /\ Finished(x) /\ x.summary
  /\ \A i \in x.items : Material(i) \/ i.kind = "obligation" => i.cites # {}
Generated(x, prompt) == x.status = "ready_for_review" /\ Supported(x) /\ Within(x, prompt)

\* A value that may have been stored.
Storable(x) == x \in Analyses /\ (x = NewAnalysis \/ Supported(x))

\* What the process of task t holds at each of its stages.
LocalOK(t, x) ==
  /\ x \in Tasked
  /\ x.op = "none" => x.at \in {"idle", "refused"} /\ ~ x.hurt
  /\ x.op = "analyze" =>
       /\ x.on = t
       /\ x.at \in {"retrieve", "generate", "dispatch", "commit", "done", "error", "dead"}
       /\ x.at = "retrieve" => x.work = NewAnalysis
       /\ x.at = "error" => x.spoilt \/ x.hurt
       /\ x.at = "commit" => x.rows = (IF x.caller THEN 1 ELSE 0)
  /\ x.op = "request" =>
       /\ x.on = t /\ x.at \in {"commit", "done", "error", "dead"}
       /\ x.at = "commit" => x.work = NewAnalysis
  /\ x.op = "execute" =>
       /\ x.on \in Tasks
       /\ x.at \in {"mark", "missing", "retrieve", "generate", "save", "complete", "failing",
                    "done", "error", "dead"}
       /\ x.at \in {"mark", "retrieve"} => Storable(x.base) /\ x.work = x.base
       /\ x.at \in {"generate", "save"} => x.base = NewAnalysis
  /\ x.op = "decide" =>
       /\ x.on \in Tasks /\ x.at \in {"commit", "done", "error", "dead"}
       /\ x.at = "commit" => /\ x.base \in Analyses /\ x.base.status = "ready_for_review"
                             /\ Supported(x.work) /\ x.work.items = x.base.items
  /\ x.at = "generate" => x.work = BeginProcessing(NewAnalysis) /\ x.prompt \in Prompts
  /\ x.at \in {"dispatch", "save"} \/ (x.at = "commit" /\ x.op = "analyze") =>
       Generated(x.work, x.prompt)
  /\ x.op # "analyze" \/ x.at # "commit" => x.rows = 0

Functions ==
  /\ DOMAIN task = Tasks /\ DOMAIN jobs = Tasks
  /\ trail \in [Tasks -> Nat]
  /\ analyses \in [Tasks -> Analyses \union {NoAnalysis}]

LocalsOK ==
  /\ Functions
  /\ \A t \in Tasks : LocalOK(t, task[t])
  /\ \A a \in Tasks : analyses[a] # NoAnalysis => Storable(analyses[a])

-----------------------------------------------------------------------------
(* What fits of a prompt *)

\* The loops of TotalOf and of Kept, as loops of FoldProofs.
PlusOne(p, total, n) == total + n
Numbers(p, total, counts) == total \in Nat
Totals == INSTANCE FoldProofs WITH Op <- PlusOne, Base <- 0, Inv <- Numbers

TakeNext(limit, acc, n) ==
  IF acc.open /\ acc.total + n <= limit
  THEN [acc EXCEPT !.kept = @ + 1, !.total = @ + n]
  ELSE [acc EXCEPT !.open = FALSE]
TakeNone == [kept |-> 0, total |-> 0, open |-> TRUE]

\* After some items: what is kept of them is their longest prefix within the
\* limit, and as long as nothing was left out it is all of them.
Taken(limit, acc, counts) ==
  /\ acc \in [kept : Nat, total : Nat, open : BOOLEAN]
  /\ counts \in Seq(Nat)
  /\ acc.open => acc.kept = Len(counts) /\ acc.total = TotalOf(counts)
  /\ ~ acc.open => acc.kept < Len(counts)
  /\ \A k \in 0 .. Len(counts) : k <= acc.kept <=> TotalOf(SubSeq(counts, 1, k)) <= limit
Keeping == INSTANCE FoldProofs WITH Op <- TakeNext, Base <- TakeNone, Inv <- Taken

\* They are the same folds.
LEMMA TotalIsLoop == \A counts : TotalOf(counts) = Totals!Loop(0, counts)
BY DEF Totals!Loop, TotalOf, PlusOne, FoldLeft, Totals!FoldLeft, MapThenFoldSet,
       Totals!MapThenFoldSet, Max, Totals!Max

LEMMA KeptIsLoop == \A counts, limit : Kept(counts, limit) = Keeping!Loop(limit, counts).kept
BY DEF Keeping!Loop, Kept, TakeNext, TakeNone, FoldLeft, Keeping!FoldLeft, MapThenFoldSet,
       Keeping!MapThenFoldSet, Max, Keeping!Max

\* A total is taken one number at a time.
LEMMA TotalSteps ==
  /\ TotalOf(<<>>) = 0
  /\ \A counts \in Seq(Nat), n \in Nat : TotalOf(Append(counts, n)) = TotalOf(counts) + n
BY TotalIsLoop, Totals!FoldEmpty, Totals!FoldAppend DEF PlusOne

LEMMA TotalIsNat == \A counts \in Seq(Nat) : TotalOf(counts) \in Nat
<1> TAKE counts \in Seq(Nat)
<1>1. \A t \in Seq(Nat), n \in Nat : \A a : Numbers(0, a, t) => Numbers(0, PlusOne(0, a, n), Append(t, n))
  BY DEF Numbers, PlusOne
<1>2. Numbers(0, Totals!Loop(0, counts), counts)
  BY <1>1, Totals!FoldInduction DEF Numbers
<1> QED BY <1>2, TotalIsLoop DEF Numbers

\* One more item keeps what is claimed of the items taken.
LEMMA TakenStep ==
  ASSUME NEW limit \in Nat, NEW acc, NEW counts \in Seq(Nat), NEW n \in Nat, Taken(limit, acc, counts)
  PROVE  Taken(limit, TakeNext(limit, acc, n), Append(counts, n))
<1> SUFFICES ASSUME NEW more, more = Append(counts, n), NEW next, next = TakeNext(limit, acc, n)
             PROVE  Taken(limit, next, more)
  OBVIOUS
<1>1. more \in Seq(Nat) /\ Len(more) = Len(counts) + 1 /\ TotalOf(more) = TotalOf(counts) + n
  BY TotalSteps
<1>2. TotalOf(counts) \in Nat
  BY TotalIsNat
<1>3. \A k \in 0 .. Len(more) :
        TotalOf(SubSeq(more, 1, k)) = IF k = Len(more) THEN TotalOf(counts) + n
                                      ELSE TotalOf(SubSeq(counts, 1, k))
  <2>1. \A k \in 0 .. Len(counts) : SubSeq(more, 1, k) = SubSeq(counts, 1, k)
    OBVIOUS
  <2>2. SubSeq(more, 1, Len(more)) = more
    BY <1>1
  <2> TAKE k \in 0 .. Len(more)
  <2>3. CASE k = Len(more)
    BY <1>1, <2>2, <2>3
  <2>4. CASE k # Len(more)
    <3>1. k \in 0 .. Len(counts)
      BY <1>1, <2>4
    <3> QED BY <2>1, <2>4, <3>1
  <2> QED BY <2>3, <2>4
<1>4. TotalOf(SubSeq(counts, 1, Len(counts))) = TotalOf(counts)
  <2>1. SubSeq(counts, 1, Len(counts)) = counts
    OBVIOUS
  <2> QED BY <2>1
<1>5. acc \in [kept : Nat, total : Nat, open : BOOLEAN] /\ Len(counts) \in Nat
  BY DEF Taken
<1>6. CASE acc.open /\ acc.total + n <= limit
  <2>1. next.kept = acc.kept + 1 /\ next.total = acc.total + n /\ next.open
        /\ next \in [kept : Nat, total : Nat, open : BOOLEAN]
    <3>1. next = [acc EXCEPT !.kept = acc.kept + 1, !.total = acc.total + n]
      BY <1>6 DEF TakeNext
    <3>2. acc.kept + 1 \in Nat /\ acc.total + n \in Nat
      BY <1>5
    <3>3. acc = [kept |-> acc.kept, total |-> acc.total, open |-> acc.open] /\ acc.open \in BOOLEAN
      BY <1>5
    <3>4. next = [kept |-> acc.kept + 1, total |-> acc.total + n, open |-> acc.open]
      BY <3>1, <3>3, Zenon
    <3>5. next.kept = acc.kept + 1 /\ next.total = acc.total + n
      BY <3>4
    <3>7. next.open = acc.open
      BY <3>4
    <3>6. next \in [kept : Nat, total : Nat, open : BOOLEAN]
      BY <3>2, <3>3, <3>4, SMT
    <3> QED BY <1>6, <3>5, <3>6, <3>7, Zenon
  <2>2. ASSUME NEW k \in 0 .. Len(more)
        PROVE  k <= next.kept <=> TotalOf(SubSeq(more, 1, k)) <= limit
    <3>1. CASE k = Len(more)
      BY <1>1, <1>3, <1>6, <2>1, <3>1 DEF Taken
    <3>2. CASE k # Len(more)
      <4>1. k \in 0 .. Len(counts) /\ k <= acc.kept
        BY <1>1, <1>5, <1>6, <3>2 DEF Taken
      <4> QED BY <1>3, <1>5, <2>1, <4>1 DEF Taken
    <3> QED BY <3>1, <3>2
  <2> QED BY <1>1, <1>6, <2>1, <2>2 DEF Taken
<1>7. CASE ~ (acc.open /\ acc.total + n <= limit)
  <2>1. next.kept = acc.kept /\ ~ next.open
        /\ next \in [kept : Nat, total : Nat, open : BOOLEAN]
    BY <1>5, <1>7 DEF TakeNext
  <2>2. acc.kept <= Len(counts) /\ TotalOf(more) > limit
    <3>1. CASE acc.open
      BY <1>1, <1>2, <1>5, <1>7, <3>1 DEF Taken
    <3>2. CASE ~ acc.open
      <4>1. ~ (TotalOf(SubSeq(counts, 1, Len(counts))) <= limit)
        BY <1>5, <3>2 DEF Taken
      <4> QED BY <1>1, <1>2, <1>4, <1>5, <3>2, <4>1 DEF Taken
    <3> QED BY <3>1, <3>2
  <2>3. ASSUME NEW k \in 0 .. Len(more)
        PROVE  k <= next.kept <=> TotalOf(SubSeq(more, 1, k)) <= limit
    <3>1. CASE k = Len(more)
      BY <1>1, <1>2, <1>3, <1>5, <2>1, <2>2, <3>1
    <3>2. CASE k # Len(more)
      BY <1>1, <1>3, <1>5, <2>1, <3>2 DEF Taken
    <3> QED BY <3>1, <3>2
  <2> QED BY <1>1, <1>5, <2>1, <2>2, <2>3 DEF Taken
<1> QED BY <1>6, <1>7

\* TokenOptimizer.optimize, for any items, counts and limit: what is kept is
\* the longest prefix within the limit, exactly the shorter ones fitting.
THEOREM KeptIsLongestPrefix ==
  ASSUME NEW counts \in Seq(Nat), NEW limit \in Nat
  PROVE  /\ Kept(counts, limit) \in 0 .. Len(counts)
         /\ \A k \in 0 .. Len(counts) :
              k <= Kept(counts, limit) <=> TotalOf(SubSeq(counts, 1, k)) <= limit
<1>1. Taken(limit, TakeNone, <<>>)
  <2>1. \A k \in 0 .. Len(<<>>) : k = 0 /\ SubSeq(<<>>, 1, k) = <<>>
    OBVIOUS
  <2>2. TakeNone \in [kept : Nat, total : Nat, open : BOOLEAN] /\ <<>> \in Seq(Nat)
    BY DEF TakeNone
  <2>3. TakeNone.open /\ TakeNone.kept = 0 /\ TakeNone.total = 0 /\ Len(<<>>) = 0
    BY DEF TakeNone
  <2>4. \A k \in 0 .. Len(<<>>) : k <= TakeNone.kept <=> TotalOf(SubSeq(<<>>, 1, k)) <= limit
    <3> TAKE k \in 0 .. Len(<<>>)
    <3>1. SubSeq(<<>>, 1, k) = <<>> /\ k = 0
      BY <2>1
    <3>2. TotalOf(SubSeq(<<>>, 1, k)) = 0
      BY <3>1, TotalSteps, Zenon
    <3> QED BY <2>3, <3>1, <3>2
  <2> QED BY <2>2, <2>3, <2>4, TotalSteps, Zenon DEF Taken
<1>2. Taken(limit, Keeping!Loop(limit, counts), counts)
  BY <1>1, TakenStep, Keeping!FoldInduction
<1> QED BY <1>2, KeptIsLoop DEF Taken

\* A front of a list behind its first element is that element before a front of the list.
LEMMA FrontOfJoined ==
  ASSUME NEW c \in Nat, NEW r \in Seq(Nat), NEW p \in Seq(Nat), NEW n \in 0 .. Len(r),
         Len(p) = n, \A i \in 1 .. n : r[i] = p[i]
  PROVE  SubSeq(<<c>> \o r, 1, n + 1) = <<c>> \o p
<1> DEFINE whole == <<c>> \o r
           joined == <<c>> \o p
<1>1. /\ whole \in Seq(Nat) /\ Len(whole) = Len(r) + 1 /\ whole[1] = c
      /\ \A i \in 1 .. Len(r) : whole[i + 1] = r[i]
  OBVIOUS
<1>2. /\ joined \in Seq(Nat) /\ Len(joined) = n + 1 /\ joined[1] = c
      /\ \A i \in 1 .. n : joined[i + 1] = p[i]
  OBVIOUS
<1>3. ASSUME NEW j \in 1 .. n + 1 PROVE whole[j] = joined[j]
  <2>1. CASE j = 1
    BY <1>1, <1>2, <2>1
  <2>2. CASE j # 1
    <3>1. j - 1 \in 1 .. n /\ j - 1 \in 1 .. Len(r) /\ (j - 1) + 1 = j
      BY <2>2
    <3> QED BY <1>1, <1>2, <3>1
  <2> QED BY <2>1, <2>2
<1> HIDE DEF whole, joined
<1>4. /\ SubSeq(whole, 1, n + 1) \in Seq(Nat) /\ Len(SubSeq(whole, 1, n + 1)) = n + 1
      /\ \A j \in 1 .. n + 1 : SubSeq(whole, 1, n + 1)[j] = whole[j]
  BY <1>1
<1> DEFINE front == SubSeq(whole, 1, n + 1)
<1> HIDE DEF front
<1>5. front \in Seq(Nat) /\ Len(front) = Len(joined) /\ joined \in Seq(Nat)
      /\ \A j \in 1 .. Len(front) : front[j] = joined[j]
  BY <1>2, <1>3, <1>4 DEF front
<1>6. front = joined
  BY <1>5, SeqEqual
<1> QED BY <1>6 DEF front, whole, joined

\* ContextOptimizer.optimize, as a worker with a budget shows it to the model:
\* without the transcript there is no evidence, and the transcript alone would
\* not have fitted; with it, the evidence is the first results of the search,
\* within the budget, and one more would not have fitted.
THEOREM PromptsFit ==
  ASSUME NEW hits \in Hits, NEW budget \in Budgets, Accepted(budget, Capacity)
  PROVE  LET prompt == Prompt(hits, budget)
             room == AvailableForInput(budget)
             Size(n) == TotalOf(<<TranscriptSize>> \o [i \in 1 .. n |-> QuoteSize[hits[i]]])
         IN  \/ ~ prompt.transcript /\ prompt.evidence = <<>> /\ Size(0) > room
             \/ /\ prompt.transcript
                /\ \E n \in 0 .. Len(hits) :
                     /\ prompt.evidence = SubSeq(hits, 1, n)
                     /\ Size(n) <= room
                     /\ n < Len(hits) => Size(n + 1) > room
<1> DEFINE room == AvailableForInput(budget)
           Sizes(n) == <<TranscriptSize>> \o [i \in 1 .. n |-> QuoteSize[hits[i]]]
           counts == Sizes(Len(hits))
           kept == Kept(counts, room)
<1>1. hits \in Seq(Sources) /\ Len(hits) \in Nat /\ DOMAIN hits = 1 .. Len(hits)
  BY HitsAssumption
<1>2. room \in Nat
  BY SizesAssumption DEF Accepted, AvailableForInput
<1>3. \A n \in 0 .. Len(hits) :
        [i \in 1 .. n |-> QuoteSize[hits[i]]] \in Seq(Nat)
        /\ Len([i \in 1 .. n |-> QuoteSize[hits[i]]]) = n
  BY <1>1, SizesAssumption
<1>4. counts \in Seq(Nat) /\ Len(counts) = Len(hits) + 1
  BY <1>1, <1>3, SizesAssumption
<1>5. ASSUME NEW n \in 0 .. Len(hits) PROVE SubSeq(counts, 1, n + 1) = Sizes(n)
  <2> DEFINE rest == [i \in 1 .. Len(hits) |-> QuoteSize[hits[i]]]
             part == [i \in 1 .. n |-> QuoteSize[hits[i]]]
  <2>1. rest \in Seq(Nat) /\ Len(rest) = Len(hits) /\ part \in Seq(Nat) /\ Len(part) = n
    BY <1>1, <1>3
  <2>2. \A i \in 1 .. n : rest[i] = part[i]
    BY <1>1
  <2> HIDE DEF rest, part
  <2>3. SubSeq(<<TranscriptSize>> \o rest, 1, n + 1) = <<TranscriptSize>> \o part
    <3>1. TranscriptSize \in Nat /\ n \in 0 .. Len(rest) /\ Len(part) = n
      BY <1>1, <2>1, SizesAssumption
    <3> QED BY <2>1, <2>2, <3>1, FrontOfJoined
  <2> QED BY <2>3 DEF rest, part
<1>6. kept \in 0 .. Len(hits) + 1
      /\ \A n \in 0 .. Len(hits) : n + 1 <= kept <=> TotalOf(Sizes(n)) <= room
  <2>1. kept \in 0 .. Len(counts)
        /\ \A k \in 0 .. Len(counts) : k <= kept <=> TotalOf(SubSeq(counts, 1, k)) <= room
    BY <1>2, <1>4, KeptIsLongestPrefix
  <2>2. kept \in 0 .. Len(hits) + 1
    BY <1>4, <2>1
  <2>3. ASSUME NEW n \in 0 .. Len(hits)
        PROVE  n + 1 <= kept <=> TotalOf(Sizes(n)) <= room
    <3>1. n + 1 \in 0 .. Len(counts)
      BY <1>1, <1>4
    <3>2. n + 1 <= kept <=> TotalOf(SubSeq(counts, 1, n + 1)) <= room
      BY <2>1, <3>1
    <3> QED BY <1>5, <3>2
  <2> QED BY <2>2, <2>3
<1>7. \A n \in 0 .. Len(hits) : TotalOf(Sizes(n)) \in Nat
  <2> TAKE n \in 0 .. Len(hits)
  <2>1. Sizes(n) \in Seq(Nat)
    BY <1>3, SizesAssumption
  <2> QED BY <2>1, TotalIsNat
<1>8. Prompt(hits, budget) =
        [transcript |-> kept > 0, evidence |-> SubSeq(hits, 1, IF kept > 0 THEN kept - 1 ELSE 0)]
  BY <1>1, SizesAssumption DEF Prompt, Optimized
<1> HIDE DEF kept, Sizes, room
<1>9. CASE kept = 0
  <2>1. Prompt(hits, budget) = [transcript |-> FALSE, evidence |-> SubSeq(hits, 1, 0)]
    <3>1. (kept > 0) = FALSE
      BY <1>9
    <3> QED BY <1>8, <3>1
  <2>2. TotalOf(Sizes(0)) > room
    BY <1>1, <1>2, <1>6, <1>7, <1>9
  <2>3. SubSeq(hits, 1, 0) = <<>>
    BY <1>1
  <2> QED BY <2>1, <2>2, <2>3 DEF Sizes, room
<1>10. CASE kept > 0
  <2>1. kept - 1 \in 0 .. Len(hits)
    BY <1>1, <1>6, <1>10
  <2>4. Prompt(hits, budget) = [transcript |-> TRUE, evidence |-> SubSeq(hits, 1, kept - 1)]
    <3>1. (kept > 0) = TRUE
      BY <1>10
    <3> QED BY <1>8, <3>1
  <2>2. TotalOf(Sizes(kept - 1)) <= room
    BY <1>1, <1>6, <2>1
  <2>3. kept - 1 < Len(hits) => TotalOf(Sizes(kept - 1 + 1)) > room
    BY <1>1, <1>2, <1>6, <1>7, <2>1
  <2>5. /\ Prompt(hits, budget).transcript
        /\ \E n \in 0 .. Len(hits) :
             /\ Prompt(hits, budget).evidence = SubSeq(hits, 1, n)
             /\ TotalOf(Sizes(n)) <= room
             /\ n < Len(hits) => TotalOf(Sizes(n + 1)) > room
    <3>1. Prompt(hits, budget).transcript
      BY <2>4
    <3>2. \A e : Prompt(hits, budget) = [transcript |-> TRUE, evidence |-> e]
                   => Prompt(hits, budget).evidence = e
      OBVIOUS
    <3>3. Prompt(hits, budget).evidence = SubSeq(hits, 1, kept - 1)
      BY <2>4, <3>2, Zenon
    <3> QED BY <2>1, <2>2, <2>3, <3>1, <3>3, Zenon
  <2> QED BY <2>5, Zenon DEF Sizes, room
<1>11. kept = 0 \/ kept > 0
  BY <1>1, <1>6
<1> QED BY <1>9, <1>10, <1>11

\* What is shown to a generator is a part of the search's results.
LEMMA PromptsTyped == Prompts \subseteq PromptRecords
<1>1. ASSUME NEW hits \in Hits
      PROVE  Prompt(hits, NoBudget) \in PromptRecords
  BY HitsAssumption DEF Prompt, PromptRecords
<1>2. ASSUME NEW hits \in Hits, NEW budget \in Affordable
      PROVE  Prompt(hits, budget) \in PromptRecords
  <2> DEFINE prompt == Prompt(hits, budget)
  <2>1. \/ prompt.evidence = <<>>
        \/ \E n \in 0 .. Len(hits) : prompt.evidence = SubSeq(hits, 1, n)
    BY PromptsFit, Zenon DEF Affordable
  <2>2. prompt.evidence \in Seq(Sources)
    BY <2>1, HitsAssumption
  <2>3. \E b, e : prompt = [transcript |-> b > 0, evidence |-> e]
    BY SizesAssumption DEF Prompt, Optimized, Affordable
  <2> QED BY <2>2, <2>3 DEF PromptRecords
<1> QED BY <1>1, <1>2 DEF Prompts

-----------------------------------------------------------------------------
(* Values *)

LEMMA NewIsAnalysis ==
  /\ NewAnalysis \in Analyses /\ NewAnalysis.items = {} /\ NewAnalysis.status = "draft"
  /\ BeginProcessing(NewAnalysis) \in Analyses
  /\ BeginProcessing(NewAnalysis).items = {}
  /\ BeginProcessing(NewAnalysis).status = "processing"
  /\ NewAnalysis # NoAnalysis
<1>1. NewAnalysis = [status |-> "draft", summary |-> FALSE, items |-> {}]
  BY DEF NewAnalysis
<1>3. NewAnalysis \in Analyses
  BY <1>1 DEF Analyses, AnalysisStatus
<1>4. /\ BeginProcessing(NewAnalysis) \in Analyses
      /\ BeginProcessing(NewAnalysis).items = NewAnalysis.items
      /\ BeginProcessing(NewAnalysis).status = "processing"
  BY <1>3 DEF Analyses, AnalysisStatus, BeginProcessing
<1>5. NewAnalysis # NoAnalysis
  BY <1>3, NoAnalysisAssumption
<1> QED
  BY <1>1, <1>3, <1>4, <1>5

LEMMA IdleIsTasked ==
  /\ Idle \in Tasked /\ Idle.rows = 0 /\ Idle.work = NewAnalysis /\ Idle.base = NoAnalysis
  /\ Idle.op = "none" /\ Idle.at = "idle" /\ ~ Idle.hurt
BY NewIsAnalysis DEF Idle, Tasked, Stages

LEMMA LeftFields ==
  ASSUME NEW x \in Tasked, NEW at \in Stages
  PROVE  LET y == Left(x, at) IN
         /\ y \in Tasked /\ y.op = x.op /\ y.on = x.on /\ y.at = at /\ y.rows = 0
         /\ y.spoilt = x.spoilt /\ y.hurt = x.hurt /\ y.work = NewAnalysis
         /\ x.at = "commit" => y.found = x.found /\ y.caller = x.caller
         /\ x.at \in {"commit", "complete", "failing"} => y.prompt = x.prompt
<1> DEFINE prompt == IF x.at \in {"commit", "complete", "failing"} THEN x.prompt ELSE NoPrompt
           found == x.found /\ x.at = "commit"
           caller == x.caller /\ x.at = "commit"
<1>1. prompt \in Prompts \union {NoPrompt}
  BY DEF Tasked
<1>2. /\ found \in BOOLEAN /\ caller \in BOOLEAN
      /\ x.at = "commit" => (found = x.found /\ caller = x.caller)
      /\ x.at \in {"commit", "complete", "failing"} => prompt = x.prompt
  BY DEF Tasked
<1>3. /\ x.op \in {"none", "analyze", "request", "execute", "decide"}
      /\ x.on \in Tasks \union {0} /\ x.spoilt \in BOOLEAN /\ x.hurt \in BOOLEAN
  BY DEF Tasked
<1>4. Left(x, at) = [Idle EXCEPT !.op = x.op, !.on = x.on, !.spoilt = x.spoilt,
                       !.hurt = x.hurt, !.at = at, !.found = found, !.caller = caller,
                       !.prompt = prompt]
  BY DEF Left
<1> DEFINE y == [Idle EXCEPT !.op = x.op, !.on = x.on, !.spoilt = x.spoilt,
                       !.hurt = x.hurt, !.at = at, !.found = found, !.caller = caller,
                       !.prompt = prompt]
<1> HIDE DEF prompt, found, caller
<1>5. /\ y.op = x.op /\ y.on = x.on /\ y.at = at /\ y.rows = 0
      /\ y.spoilt = x.spoilt /\ y.hurt = x.hurt /\ y.work = NewAnalysis
      /\ y.found = found /\ y.caller = caller /\ y.prompt = prompt
  BY DEF Idle
<1>6. y \in Tasked  \* one field at a time: the solver does not split a record with eight
  <2> DEFINE z0 == Idle
             z1 == [z0 EXCEPT !.op = x.op]
             z2 == [z1 EXCEPT !.on = x.on]
             z3 == [z2 EXCEPT !.spoilt = x.spoilt]
             z4 == [z3 EXCEPT !.hurt = x.hurt]
             z5 == [z4 EXCEPT !.at = at]
             z6 == [z5 EXCEPT !.found = found]
             z7 == [z6 EXCEPT !.caller = caller]
             z8 == [z7 EXCEPT !.prompt = prompt]
  <2>0. z0 \in Tasked
    BY IdleIsTasked
  <2>9. y = z8
    BY DEF Idle
  <2> HIDE DEF y, z0, z1, z2, z3, z4, z5, z6, z7, z8
  <2>1. z1 \in Tasked
    BY <2>0, <1>1, <1>2, <1>3 DEF Tasked, z1
  <2>2. z2 \in Tasked
    BY <2>1, <1>1, <1>2, <1>3 DEF Tasked, z2
  <2>3. z3 \in Tasked
    BY <2>2, <1>1, <1>2, <1>3 DEF Tasked, z3
  <2>4. z4 \in Tasked
    BY <2>3, <1>1, <1>2, <1>3 DEF Tasked, z4
  <2>5. z5 \in Tasked
    BY <2>4, <1>1, <1>2, <1>3 DEF Tasked, z5
  <2>6. z6 \in Tasked
    BY <2>5, <1>1, <1>2, <1>3 DEF Tasked, z6
  <2>7. z7 \in Tasked
    BY <2>6, <1>1, <1>2, <1>3 DEF Tasked, z7
  <2>8. z8 \in Tasked
    BY <2>7, <1>1, <1>2, <1>3 DEF Tasked, z8
  <2> QED BY <2>8, <2>9
<1> HIDE DEF y
<1> QED
  BY <1>2, <1>4, <1>5, <1>6 DEF y

\* What a generator returns are items.
LEMMA ResultOfModel ==
  ASSUME NEW answer \in Answers, NEW evidence
  PROVE  LET result == ModelResult(answer, evidence) IN
         /\ result.items \subseteq Items
         /\ result.summary \in BOOLEAN
         /\ \A i \in result.items : i.cites \subseteq {Transcript} \union ToSet(evidence)
<1> DEFINE offered == {Transcript} \union ToSet(evidence)
<1>1. answer \in [summary : BOOLEAN, items : SUBSET Items]
  BY AnswersAssumption
<1>2. ASSUME NEW i \in Items
      PROVE  Parsed(i, offered) \in Items /\ Parsed(i, offered).cites \subseteq offered
  <2> DEFINE cites == IF Cited(i, offered) = {} /\ i.kind # "action" THEN {Transcript}
                      ELSE Cited(i, offered)
  <2>1. cites \subseteq offered /\ cites \subseteq Sources \union {Transcript}
    BY DEF Cited, Items
  <2>2. Parsed(i, offered) = [i EXCEPT !.cites = cites]
    BY DEF Parsed
  <2> HIDE DEF cites, offered
  <2>3. [i EXCEPT !.cites = cites] \in Items /\ [i EXCEPT !.cites = cites].cites = cites
    BY <2>1 DEF Items
  <2> QED
    BY <2>1, <2>2, <2>3
<1> HIDE DEF offered
<1>3. ModelResult(answer, evidence) =
        [summary |-> answer.summary, items |-> {Parsed(i, offered) : i \in answer.items}]
  BY DEF ModelResult, offered
<1> DEFINE items == {Parsed(i, offered) : i \in answer.items}
<1>4. items \subseteq Items /\ (\A i \in items : i.cites \subseteq offered)
  BY <1>1, <1>2
<1> HIDE DEF items
<1>5. ModelResult(answer, evidence).items = items /\ ModelResult(answer, evidence).summary = answer.summary
  BY <1>3 DEF items
<1> QED
  BY <1>1, <1>4, <1>5 DEF offered

LEMMA ResultOfRules ==
  ASSUME NEW words \in SUBSET SpokenWords
  PROVE  LET result == RuleResult(words) IN
         /\ result.items \subseteq Items
         /\ result.summary = TRUE
         /\ \A i \in result.items : i.cites = {Transcript}
<1>1. ASSUME NEW w \in words
      PROVE  Scanned(w) \in Items /\ Scanned(w).cites = {Transcript}
  BY DEF Scanned, Items, RiskLevel
<1> QED
  BY <1>1 DEF RuleResult

\* A budget without room for the transcript has none for quotes after it.
LEMMA NothingShown ==
  ASSUME NEW prompt \in Prompts, ~ prompt.transcript
  PROVE  Shown(prompt) = {}
<1>1. PICK hits \in Hits, budget \in Affordable : prompt = Prompt(hits, budget) /\ budget # NoBudget
  BY DEF Prompts, Prompt
<1>2. prompt.evidence = SubSeq(hits, 1, 0)
  BY <1>1, Zenon DEF Prompt, Optimized
<1>3. prompt.evidence = <<>>
  BY <1>2, HitsAssumption
<1> QED
  BY <1>3 DEF Shown, ToSet

\* What apply_result makes of the result of a generator.
LEMMA ApplyGenerates ==
  ASSUME NEW result, NEW prompt \in Prompts, NEW x,
         x = BeginProcessing(NewAnalysis), Applies(x, result), result.items \subseteq Items,
         \A i \in result.items : i.cites \subseteq {Transcript} \union ToSet(prompt.evidence)
  PROVE  ApplyResult(x, result) \in Analyses /\ Generated(ApplyResult(x, result), prompt)
<1> DEFINE y == ApplyResult(x, result)
<1>1. y \in Analyses /\ y.status = "ready_for_review" /\ y.summary /\ y.items = result.items
  BY NewIsAnalysis DEF ApplyResult, Analyses, AnalysisStatus
<1> HIDE DEF y
<1>2. \A i \in result.items : Material(i) \/ i.kind = "obligation" => i.cites # {}
  BY DEF Applies, Admitted
<1>3. Within(y, prompt)
  <2>0. prompt # NoPrompt
    BY PromptsTyped, NoPromptAssumption
  <2> DEFINE cited == UNION {i.cites : i \in y.items}
  <2>1. cited \subseteq {Transcript} \union ToSet(prompt.evidence)
    BY <1>1
  <2> HIDE DEF cited
  <2>2. CASE prompt.transcript
    BY <2>0, <2>1, <2>2 DEF Within, Shown, cited
  <2>3. CASE ~ prompt.transcript
    <3>1. Shown(prompt) = {}
      BY <2>3, NothingShown
    <3>2. ToSet(prompt.evidence) = {}
      BY <3>1 DEF Shown
    <3>3. cited \subseteq {Transcript}
      BY <2>1, <3>2
    <3> QED BY <2>0, <3>1, <3>3 DEF Within, cited
  <2> QED BY <2>2, <2>3
<1> QED
  BY <1>1, <1>2, <1>3 DEF Generated, Supported, Finished, y

-----------------------------------------------------------------------------
(* Steps within a process *)

Open(x) == x.at \notin Ended \union {"idle"}

\* A step of task t that touches no store, after which it holds y.
Quiet(t, y) ==
  /\ task' = [task EXCEPT ![t] = y]
  /\ UNCHANGED <<analyses, jobs, trail>>
  /\ LocalOK(t, y)
  /\ Open(task[t])
  /\ y.op = task[t].op /\ y.on = task[t].on
  /\ task[t].hurt => y.hurt
  /\ y.at \in {"retrieve", "generate", "dispatch", "save", "failing", "commit", "error", "dead"}
  /\ y.at \in Ended /\ y.op # "analyze" => y.hurt
  /\ y.at \in {"retrieve", "generate", "save"} => task[t].at \in {"retrieve", "generate"}
  /\ y.at = "commit" => y.op = "analyze"
  /\ task[t].at = "complete" => y.hurt
  /\ task[t].at \in {"complete", "failing"} =>
       y.at \in {"failing", "error", "dead"} /\ y.prompt = task[t].prompt

LEMMA RaisedFields ==
  ASSUME NEW t \in Tasks, task[t] \in Tasked
  PROVE  LET y == Raised(t)  x == task[t] IN
         /\ y \in Tasked /\ y.op = x.op /\ y.on = x.on /\ y.rows = 0
         /\ y.at = IF x.op = "execute" THEN "failing" ELSE "error"
         /\ y.spoilt = x.spoilt /\ y.hurt = x.hurt
         /\ x.at \in {"complete", "failing"} => y.prompt = x.prompt
<1>1. "failing" \in Stages /\ "error" \in Stages
  BY DEF Stages
<1> QED
  BY <1>1, LeftFields DEF Raised

\* An exception is what the domain refused, or a failed call.
LEMMA RaisedSpoilt ==
  ASSUME LocalsOK, NEW t \in Tasks, task[t].at \in {"retrieve", "generate"},
         Proceed(t, [Raised(t) EXCEPT !.spoilt = TRUE])
  PROVE  Quiet(t, [Raised(t) EXCEPT !.spoilt = TRUE])
<1> DEFINE x == task[t]
           y == [Raised(t) EXCEPT !.spoilt = TRUE]
<1>1. x \in Tasked /\ LocalOK(t, x)
  BY DEF LocalsOK, LocalOK
<1>2. x.op \in {"analyze", "execute"}
  BY <1>1 DEF LocalOK, Tasked
<1>3. /\ y \in Tasked /\ y.op = x.op /\ y.on = x.on /\ y.rows = 0 /\ y.spoilt
      /\ y.at = (IF x.op = "execute" THEN "failing" ELSE "error") /\ y.hurt = x.hurt
  <2>1. Raised(t) \in Tasked
    BY <1>1, RaisedFields
  <2> QED
    BY <1>1, <2>1, RaisedFields DEF Tasked
<1> HIDE DEF y
<1>4. LocalOK(t, y)
  BY <1>1, <1>2, <1>3 DEF LocalOK
<1> QED
  BY <1>1, <1>2, <1>3, <1>4 DEF Quiet, Open, Ended, Proceed, y

LEMMA RetrieveIsQuiet ==
  ASSUME LocalsOK, NEW t \in Tasks, Retrieve(t)
  PROVE  \E y : Quiet(t, y)
<1> DEFINE x == task[t]
<1>1. x \in Tasked /\ LocalOK(t, x) /\ x.at = "retrieve"
  BY DEF LocalsOK, LocalOK, Retrieve
<1>2. x.op \in {"analyze", "execute"}
  BY <1>1 DEF LocalOK, Tasked
<1>3. PICK hits \in Hits,
           budget \in (IF x.op = "execute" THEN Budgets \union {NoBudget} ELSE {NoBudget}) :
        Proceed(t,
          IF CanBegin(x.work) /\ (budget = NoBudget \/ Accepted(budget, Capacity))
          THEN [x EXCEPT !.at = "generate", !.work = BeginProcessing(@),
                  !.prompt = Prompt(hits, budget)]
          ELSE Raised(t))
  BY DEF Retrieve
<1>4. CanBegin(x.work) => x.work = NewAnalysis /\ (x.op = "execute" => x.base = NewAnalysis)
  BY <1>1, <1>2 DEF LocalOK, CanBegin, Storable, Supported, Finished, Decided
<1>5. CASE CanBegin(x.work) /\ (budget = NoBudget \/ Accepted(budget, Capacity))
  <2> DEFINE y == [x EXCEPT !.at = "generate", !.work = BeginProcessing(NewAnalysis),
                     !.prompt = Prompt(hits, budget)]
  <2>1. Proceed(t, y)
    BY <1>3, <1>4, <1>5
  <2>2. Prompt(hits, budget) \in Prompts
    BY <1>3, <1>5 DEF Prompts, Affordable
  <2>3. /\ y \in Tasked /\ y.at = "generate" /\ y.work = BeginProcessing(NewAnalysis)
        /\ y.op = x.op /\ y.on = x.on /\ y.base = x.base /\ y.rows = x.rows /\ y.hurt = x.hurt
        /\ y.prompt \in Prompts
    BY <1>1, <2>2, NewIsAnalysis DEF Tasked, Stages
  <2> HIDE DEF y
  <2>4. LocalOK(t, y)
    BY <1>1, <1>2, <1>4, <1>5, <2>3 DEF LocalOK
  <2>5. Quiet(t, y)
    BY <1>1, <1>2, <2>1, <2>3, <2>4 DEF Quiet, Open, Ended, Proceed
  <2> QED
    BY <2>5
<1>6. CASE ~ (CanBegin(x.work) /\ (budget = NoBudget \/ Accepted(budget, Capacity)))
  <2> DEFINE y == Raised(t)
  <2>1. Proceed(t, y)
    BY <1>3, <1>6
  <2>2. x.op = "execute"
    BY <1>1, <1>2, <1>3, <1>6, NewIsAnalysis DEF LocalOK, CanBegin
  <2>3. /\ y \in Tasked /\ y.op = x.op /\ y.on = x.on /\ y.rows = 0
        /\ y.at = "failing" /\ y.hurt = x.hurt
    BY <1>1, <2>2, RaisedFields
  <2> HIDE DEF y
  <2>4. LocalOK(t, y)
    BY <1>1, <2>2, <2>3 DEF LocalOK
  <2>5. Quiet(t, y)
    BY <1>1, <2>1, <2>2, <2>3, <2>4 DEF Quiet, Open, Ended, Proceed
  <2> QED
    BY <2>5
<1> QED
  BY <1>5, <1>6

\* A generator answered with result.
LEMMA ConcludeIsQuiet ==
  ASSUME LocalsOK, NEW t \in Tasks, task[t].at = "generate", NEW result,
         Proceed(t, Conclude(t, result)), result.items \subseteq Items,
         \A i \in result.items : i.cites \subseteq {Transcript} \union ToSet(task[t].prompt.evidence)
  PROVE  \E y : Quiet(t, y)
<1> DEFINE x == task[t]
<1>1. x \in Tasked /\ LocalOK(t, x) /\ x.work = BeginProcessing(NewAnalysis)
  BY DEF LocalsOK, LocalOK
<1>2. x.op \in {"analyze", "execute"}
  BY <1>1 DEF LocalOK, Tasked
<1>3. CASE Applies(x.work, result)
  <2> DEFINE w == ApplyResult(x.work, result)
             y == [x EXCEPT !.work = w, !.at = IF x.op = "analyze" THEN "dispatch" ELSE "save"]
  <2>1. Proceed(t, y)
    BY <1>3 DEF Conclude
  <2>2. w \in Analyses /\ Generated(w, x.prompt)
    <3>1. x.prompt \in Prompts
      BY <1>1 DEF LocalOK
    <3> QED BY <1>1, <1>3, <3>1, ApplyGenerates
  <2> HIDE DEF w
  <2>3. /\ y \in Tasked /\ y.at = (IF x.op = "analyze" THEN "dispatch" ELSE "save")
        /\ y.work = w /\ y.prompt = x.prompt /\ y.op = x.op /\ y.on = x.on
        /\ y.base = x.base /\ y.rows = x.rows /\ y.hurt = x.hurt
    BY <1>1, <2>2 DEF Tasked, Stages
  <2> HIDE DEF y
  <2>4. LocalOK(t, y)
    BY <1>1, <1>2, <2>2, <2>3 DEF LocalOK
  <2>5. Quiet(t, y)
    BY <1>1, <1>2, <2>1, <2>3, <2>4 DEF Quiet, Open, Ended, Proceed
  <2> QED
    BY <2>5
<1>4. CASE ~ Applies(x.work, result)
  BY <1>4, RaisedSpoilt DEF Conclude
<1> QED
  BY <1>3, <1>4

LEMMA GenerateIsQuiet ==
  ASSUME LocalsOK, NEW t \in Tasks,
         ModelAnswers(t) \/ ScanRules(t) \/ ModelFails(t) \/ ModelMisleads(t)
  PROVE  \E y : Quiet(t, y)
<1> DEFINE x == task[t]
<1>1. x \in Tasked /\ LocalOK(t, x) /\ x.at = "generate"
  BY DEF LocalsOK, LocalOK, ModelAnswers, ScanRules, ModelFails, ModelMisleads
<1>2. x.op \in {"analyze", "execute"}
  BY <1>1 DEF LocalOK, Tasked
<1>3. CASE ModelAnswers(t)
  BY <1>1, <1>3, ResultOfModel, ConcludeIsQuiet DEF ModelAnswers
<1>4. CASE ScanRules(t)
  <2> DEFINE words == IF x.prompt.transcript THEN SpokenWords ELSE {}
  <2>1. words \in SUBSET SpokenWords /\ Proceed(t, Conclude(t, RuleResult(words)))
    BY <1>4 DEF ScanRules
  <2> HIDE DEF words
  <2> QED
    BY <1>1, <2>1, ResultOfRules, ConcludeIsQuiet
<1>5. CASE ModelFails(t) /\ x.op = "analyze"
  <2> DEFINE y == Fallback(t)
  <2>1. Proceed(t, y)
    BY <1>5 DEF ModelFails
  <2>2. /\ y \in Tasked /\ y.at = "retrieve" /\ y.work = NewAnalysis
        /\ y.op = x.op /\ y.on = x.on /\ y.rows = x.rows /\ y.hurt = x.hurt
    BY <1>1, NewIsAnalysis DEF Fallback, Tasked, Stages
  <2> HIDE DEF y
  <2>3. LocalOK(t, y)
    BY <1>1, <1>5, <2>2 DEF LocalOK
  <2>4. Quiet(t, y)
    BY <1>1, <1>5, <2>1, <2>2, <2>3 DEF Quiet, Open, Ended, Proceed
  <2> QED
    BY <2>4
<1>6. CASE ModelFails(t) /\ x.op = "execute"
  <2> DEFINE y == Raised(t)
  <2>1. Proceed(t, y)
    BY <1>6 DEF ModelFails
  <2>2. /\ y \in Tasked /\ y.op = x.op /\ y.on = x.on /\ y.rows = 0
        /\ y.at = "failing" /\ y.hurt = x.hurt
    BY <1>1, <1>6, RaisedFields
  <2> HIDE DEF y
  <2>3. LocalOK(t, y)
    BY <1>1, <1>6, <2>2 DEF LocalOK
  <2>4. Quiet(t, y)
    BY <1>1, <1>6, <2>1, <2>2, <2>3 DEF Quiet, Open, Ended, Proceed
  <2> QED
    BY <2>4
<1>7. CASE ModelMisleads(t)
  BY <1>1, <1>7, RaisedSpoilt DEF ModelMisleads
<1> QED
  BY <1>2, <1>3, <1>4, <1>5, <1>6, <1>7

LEMMA DispatchIsQuiet ==
  ASSUME LocalsOK, NEW t \in Tasks, DispatchEvents(t)
  PROVE  \E y : Quiet(t, y)
<1> DEFINE x == task[t]
           y == [x EXCEPT !.rows = AuditRows(t), !.at = "commit"]
<1>1. x \in Tasked /\ LocalOK(t, x) /\ x.at = "dispatch" /\ Proceed(t, y)
  BY DEF LocalsOK, LocalOK, DispatchEvents
<1>2. x.op = "analyze"
  BY <1>1 DEF LocalOK, Tasked
<1>3. /\ y \in Tasked /\ y.at = "commit" /\ y.rows = (IF x.caller THEN 1 ELSE 0)
      /\ y.caller = x.caller /\ y.work = x.work /\ y.prompt = x.prompt
      /\ y.op = x.op /\ y.on = x.on /\ y.hurt = x.hurt
  BY <1>1 DEF AuditRows, Tasked, Stages
<1> HIDE DEF y
<1>4. LocalOK(t, y)
  BY <1>1, <1>2, <1>3 DEF LocalOK
<1>5. Quiet(t, y)
  BY <1>1, <1>2, <1>3, <1>4 DEF Quiet, Open, Ended, Proceed
<1> QED
  BY <1>5

LEMMA FaultIsQuiet ==
  ASSUME LocalsOK, NEW t \in Tasks, CallFails(t) \/ Die(t)
  PROVE  \E y : Quiet(t, y)
<1> DEFINE x == task[t]
<1>1. x \in Tasked /\ LocalOK(t, x) /\ Open(x)
  BY DEF LocalsOK, LocalOK, CallFails, Die, Open, Ended
<1>2. ASSUME NEW z \in Tasked, z.op = x.op, z.on = x.on, z.rows = 0,
             z.at = "dead" \/ z.at = "error" \/ (z.at = "failing" /\ x.op = "execute"),
             x.at \in {"complete", "failing"} => z.prompt = x.prompt,
             task' = [task EXCEPT ![t] = [z EXCEPT !.hurt = TRUE]],
             UNCHANGED <<analyses, jobs, trail>>
      PROVE  \E y : Quiet(t, y)
  <2> DEFINE y == [z EXCEPT !.hurt = TRUE]
  <2>1. /\ y \in Tasked /\ y.op = x.op /\ y.on = x.on /\ y.rows = 0 /\ y.hurt
        /\ y.at = z.at /\ y.prompt = z.prompt
    BY <1>2 DEF Tasked
  <2> HIDE DEF y
  <2>2. x.op # "none"
    BY <1>1 DEF LocalOK, Open, Ended
  <2>3. LocalOK(t, y)
    BY <1>1, <1>2, <2>1, <2>2 DEF LocalOK, Tasked
  <2>4. Quiet(t, y)
    BY <1>1, <1>2, <2>1, <2>3 DEF Quiet, Ended, y
  <2> QED
    BY <2>4
<1>3. "dead" \in Stages /\ "error" \in Stages
  BY DEF Stages
<1>4. CASE Die(t)
  BY <1>1, <1>2, <1>3, <1>4, LeftFields DEF Die
<1>5. CASE CallFails(t) /\ x.at = "failing"
  BY <1>1, <1>2, <1>3, <1>5, LeftFields DEF CallFails
<1>6. CASE CallFails(t) /\ x.at # "failing"
  <2>1. task' = [task EXCEPT ![t] = [Raised(t) EXCEPT !.hurt = TRUE]]
    BY <1>6 DEF CallFails, LocalsOK, Functions
  <2> QED
    BY <1>1, <1>2, <1>6, <2>1, RaisedFields DEF CallFails
<1> QED
  BY <1>4, <1>5, <1>6

\* Whatever happens is the arrival of a task, a step within one process, or a
\* call of a store.
LEMMA StepsOfAnalyses ==
  ASSUME LocalsOK, [AnalysisNext]_analysisVars
  PROVE  \/ UNCHANGED analysisVars
         \/ \E t \in Tasks :
              \/ Analyze(t) \/ Refuse(t) \/ RequestAnalysis(t) \/ ExecuteAnalysis(t)
              \/ DecideAnalysis(t)
              \/ \E y : Quiet(t, y)
              \/ MarkRunning(t) \/ CommitTask(t) \/ SaveAnalysis(t)
              \/ MarkCompleted(t) \/ MarkFailed(t)
BY RetrieveIsQuiet, GenerateIsQuiet, DispatchIsQuiet, FaultIsQuiet DEF AnalysisNext, Steps

-----------------------------------------------------------------------------
(* What a process holds *)

LEMMA InitLocals == AnalysisInit => LocalsOK
<1> SUFFICES ASSUME AnalysisInit PROVE LocalsOK
  OBVIOUS
<1>1. LocalOK(0, Idle) /\ \A t \in Tasks : LocalOK(t, Idle)
  BY IdleIsTasked DEF LocalOK
<1> QED
  BY <1>1 DEF AnalysisInit, LocalsOK, Functions

\* A task that arrives holds y.
LEMMA Arrivals ==
  ASSUME LocalsOK, NEW t \in Tasks,
         \/ Analyze(t) \/ Refuse(t) \/ RequestAnalysis(t) \/ ExecuteAnalysis(t)
         \/ DecideAnalysis(t)
  PROVE  \E y :
           /\ task' = [task EXCEPT ![t] = y] /\ LocalOK(t, y)
           /\ task[t].at = "idle" /\ task[t].op = "none"
           /\ UNCHANGED <<analyses, trail>>
           /\ \/ UNCHANGED jobs /\ y.op = "analyze" /\ y.at = "retrieve"
              \/ UNCHANGED jobs /\ y.op = "none"
              \/ /\ jobs' = [jobs EXCEPT ![t] = "queued"]
                 /\ y.op = "request" /\ y.at = "commit"
              \/ /\ UNCHANGED jobs /\ y.op = "execute" /\ jobs[y.on] # "none"
                 /\ \/ y.at = "missing"
                    \/ y.at = "mark" /\ analyses[y.on] # NoAnalysis
              \/ /\ UNCHANGED jobs /\ y.op = "decide" /\ y.at = "commit"
                 /\ analyses[y.on] # NoAnalysis
                 /\ analyses[y.on].status = "ready_for_review"
                 /\ y.work.items = analyses[y.on].items
<1>1. /\ task[t] \in Tasked /\ task[t].at = "idle" /\ task[t].op = "none"
  BY DEF LocalsOK, LocalOK, Tasked, Analyze, Refuse, RequestAnalysis, ExecuteAnalysis,
     DecideAnalysis, Arrives
<1> USE IdleIsTasked
<1>2. CASE Analyze(t)
  <2>1. PICK model \in BOOLEAN, found \in BOOLEAN, caller \in BOOLEAN :
          Proceed(t, [Idle EXCEPT !.op = "analyze", !.on = t, !.at = "retrieve",
                       !.model = model, !.found = found, !.caller = caller])
    BY <1>2 DEF Analyze
  <2> DEFINE y == [Idle EXCEPT !.op = "analyze", !.on = t, !.at = "retrieve",
                     !.model = model, !.found = found, !.caller = caller]
  <2>2. /\ y \in Tasked /\ y.op = "analyze" /\ y.on = t /\ y.at = "retrieve"
        /\ y.work = NewAnalysis /\ y.rows = 0
    <3> DEFINE z == [Idle EXCEPT !.op = "analyze", !.on = t, !.at = "retrieve"]
    <3>1. /\ z \in Tasked /\ z.op = "analyze" /\ z.on = t /\ z.at = "retrieve"
          /\ z.work = NewAnalysis /\ z.rows = 0
      BY DEF Tasked, Stages
    <3> DEFINE z1 == [z EXCEPT !.model = model]
               z2 == [z1 EXCEPT !.found = found]
               z3 == [z2 EXCEPT !.caller = caller]
    <3>2. y = z3
      OBVIOUS
    <3> HIDE DEF y, z, z1, z2, z3
    <3>3. /\ z1 \in Tasked /\ z1.op = "analyze" /\ z1.on = t /\ z1.at = "retrieve"
          /\ z1.work = NewAnalysis /\ z1.rows = 0
      BY <3>1 DEF Tasked, z1
    <3>4. /\ z2 \in Tasked /\ z2.op = "analyze" /\ z2.on = t /\ z2.at = "retrieve"
          /\ z2.work = NewAnalysis /\ z2.rows = 0
      BY <3>3 DEF Tasked, z2
    <3>5. /\ z3 \in Tasked /\ z3.op = "analyze" /\ z3.on = t /\ z3.at = "retrieve"
          /\ z3.work = NewAnalysis /\ z3.rows = 0
      BY <3>4 DEF Tasked, z3
    <3> QED
      BY <3>2, <3>5
  <2>3. Proceed(t, y)
    BY <2>1
  <2> HIDE DEF y
  <2>4. LocalOK(t, y)
    BY <2>2 DEF LocalOK
  <2> QED
    BY <1>1, <2>2, <2>3, <2>4 DEF Proceed
<1>3. CASE Refuse(t)
  <2> DEFINE y == [Idle EXCEPT !.at = "refused"]
  <2>1. /\ y \in Tasked /\ y.op = "none" /\ y.at = "refused" /\ y.rows = 0 /\ ~ y.hurt
    BY DEF Tasked, Stages
  <2>2. Proceed(t, y)
    BY <1>3 DEF Refuse
  <2> HIDE DEF y
  <2>3. LocalOK(t, y)
    BY <2>1 DEF LocalOK
  <2> QED
    BY <1>1, <2>1, <2>2, <2>3 DEF Proceed
<1>4. CASE RequestAnalysis(t)
  <2> DEFINE y == [Idle EXCEPT !.op = "request", !.on = t, !.at = "commit"]
  <2>1. /\ y \in Tasked /\ y.op = "request" /\ y.on = t /\ y.at = "commit"
        /\ y.work = NewAnalysis /\ y.rows = 0
    BY DEF Tasked, Stages
  <2>2. task' = [task EXCEPT ![t] = y] /\ jobs' = [jobs EXCEPT ![t] = "queued"]
        /\ UNCHANGED <<analyses, trail>>
    BY <1>4 DEF RequestAnalysis
  <2> HIDE DEF y
  <2>3. LocalOK(t, y)
    BY <2>1 DEF LocalOK
  <2> QED
    BY <1>1, <2>1, <2>2, <2>3
<1>5. CASE ExecuteAnalysis(t)
  <2>1. PICK a \in Tasks :
          /\ jobs[a] # "none"
          /\ Proceed(t,
               IF analyses[a] = NoAnalysis
               THEN [Idle EXCEPT !.op = "execute", !.on = a, !.at = "missing"]
               ELSE [Idle EXCEPT !.op = "execute", !.on = a, !.at = "mark", !.model = TRUE,
                       !.work = analyses[a], !.base = analyses[a]])
    BY <1>5 DEF ExecuteAnalysis
  <2>2. CASE analyses[a] = NoAnalysis
    <3> DEFINE y == [Idle EXCEPT !.op = "execute", !.on = a, !.at = "missing"]
    <3>1. y \in Tasked /\ y.op = "execute" /\ y.on = a /\ y.at = "missing" /\ y.rows = 0
      BY DEF Tasked, Stages
    <3>2. Proceed(t, y)
      BY <2>1, <2>2
    <3> HIDE DEF y
    <3>3. LocalOK(t, y)
      BY <3>1 DEF LocalOK
    <3> QED
      BY <1>1, <2>1, <3>1, <3>2, <3>3 DEF Proceed
  <2>3. CASE analyses[a] # NoAnalysis
    <3> DEFINE y == [Idle EXCEPT !.op = "execute", !.on = a, !.at = "mark", !.model = TRUE,
                       !.work = analyses[a], !.base = analyses[a]]
    <3>1. Storable(analyses[a]) /\ analyses[a] \in Analyses
      BY <2>3 DEF LocalsOK, Storable
    <3>2. /\ y \in Tasked /\ y.op = "execute" /\ y.on = a /\ y.at = "mark" /\ y.rows = 0
          /\ y.work = analyses[a] /\ y.base = analyses[a]
      BY <3>1 DEF Tasked, Stages
    <3>3. Proceed(t, y)
      BY <2>1, <2>3
    <3> HIDE DEF y
    <3>4. LocalOK(t, y)
      BY <3>1, <3>2 DEF LocalOK
    <3> QED
      BY <1>1, <2>1, <2>3, <3>2, <3>3, <3>4 DEF Proceed
  <2> QED
    BY <2>2, <2>3
<1>6. CASE DecideAnalysis(t)
  <2>1. PICK a \in Tasks, verdict \in Decided :
          /\ analyses[a] # NoAnalysis
          /\ Proceed(t,
               IF CanDecide(analyses[a], verdict)
               THEN [Idle EXCEPT !.op = "decide", !.on = a, !.at = "commit",
                       !.base = analyses[a], !.work = Decide(analyses[a], verdict)]
               ELSE [Idle EXCEPT !.at = "refused"])
    BY <1>6 DEF DecideAnalysis
  <2>2. CASE CanDecide(analyses[a], verdict)
    <3> DEFINE w == Decide(analyses[a], verdict)
               y == [Idle EXCEPT !.op = "decide", !.on = a, !.at = "commit",
                       !.base = analyses[a], !.work = w]
    <3>1. analyses[a] \in Analyses /\ analyses[a].status = "ready_for_review"
      BY <2>1, <2>2 DEF LocalsOK, Storable, CanDecide
    <3>2. Supported(analyses[a])
      BY <2>1, <3>1, NewIsAnalysis DEF LocalsOK, Storable
    <3>3. /\ w \in Analyses /\ w.status = verdict /\ w.items = analyses[a].items
          /\ w.summary = analyses[a].summary
      BY <3>1 DEF Decide, Analyses, AnalysisStatus, Decided
    <3> HIDE DEF w
    <3>4. Supported(w)
      BY <3>2, <3>3 DEF Supported, Finished
    <3>5. /\ y \in Tasked /\ y.op = "decide" /\ y.on = a /\ y.at = "commit" /\ y.rows = 0
          /\ y.work = w /\ y.base = analyses[a]
      BY <3>1, <3>3 DEF Tasked, Stages
    <3>6. Proceed(t, y)
      BY <2>1, <2>2 DEF w
    <3> HIDE DEF y
    <3>7. LocalOK(t, y)
      BY <3>1, <3>3, <3>4, <3>5 DEF LocalOK
    <3> QED
      BY <1>1, <2>1, <3>1, <3>3, <3>5, <3>6, <3>7 DEF Proceed
  <2>3. CASE ~ CanDecide(analyses[a], verdict)
    <3> DEFINE y == [Idle EXCEPT !.at = "refused"]
    <3>1. /\ y \in Tasked /\ y.op = "none" /\ y.at = "refused" /\ y.rows = 0 /\ ~ y.hurt
      BY DEF Tasked, Stages
    <3>2. Proceed(t, y)
      BY <2>1, <2>3
    <3> HIDE DEF y
    <3>3. LocalOK(t, y)
      BY <3>1 DEF LocalOK
    <3> QED
      BY <1>1, <3>1, <3>2, <3>3 DEF Proceed
  <2> QED
    BY <2>2, <2>3
<1> QED
  BY <1>2, <1>3, <1>4, <1>5, <1>6

\* A call of a store; after it the task holds y.
Calls(t, y) ==
  LET x == task[t] IN
  /\ task' = [task EXCEPT ![t] = y] /\ LocalOK(t, y)
  /\ y.op = x.op /\ y.on = x.on /\ y.hurt = x.hurt
  /\ \/ /\ x.at = "mark" /\ y.at = "retrieve"
        /\ jobs' = [jobs EXCEPT ![x.on] = "running"] /\ UNCHANGED <<analyses, trail>>
     \/ /\ x.at = "commit" /\ y.at = "done" /\ y.prompt = x.prompt
        /\ y.found = x.found /\ y.caller = x.caller
        /\ analyses' = IF Stores(t) THEN [analyses EXCEPT ![x.on] = x.work] ELSE analyses
        /\ trail' = [trail EXCEPT ![x.on] = @ + x.rows] /\ UNCHANGED jobs
     \/ /\ x.at = "save" /\ y.at = "complete" /\ y.prompt = x.prompt
        /\ analyses' = [analyses EXCEPT ![x.on] = x.work] /\ UNCHANGED <<jobs, trail>>
     \/ /\ x.at = "complete" /\ y.at = "done" /\ y.prompt = x.prompt
        /\ jobs' = [jobs EXCEPT ![x.on] = "completed"] /\ UNCHANGED <<analyses, trail>>
     \/ /\ x.at = "failing" /\ y.at = "error" /\ y.prompt = x.prompt
        /\ jobs' = [jobs EXCEPT ![x.on] = "failed"] /\ UNCHANGED <<analyses, trail>>

LEMMA StoresAreCalls ==
  ASSUME LocalsOK, NEW t \in Tasks,
         \/ MarkRunning(t) \/ CommitTask(t) \/ SaveAnalysis(t) \/ MarkCompleted(t)
         \/ MarkFailed(t)
  PROVE  \E y : Calls(t, y)
<1> DEFINE x == task[t]
<1>1. x \in Tasked /\ LocalOK(t, x) /\ DOMAIN task = Tasks
  BY DEF LocalsOK, LocalOK, Functions
<1>2. CASE MarkRunning(t)
  <2> DEFINE y == [x EXCEPT !.at = "retrieve"]
  <2>1. task' = [task EXCEPT ![t] = y] /\ x.at = "mark"
    BY <1>2 DEF MarkRunning
  <2>2. /\ y \in Tasked /\ y.at = "retrieve" /\ y.op = x.op /\ y.on = x.on /\ y.hurt = x.hurt
        /\ y.work = x.work /\ y.base = x.base /\ y.rows = x.rows
    BY <1>1 DEF Tasked, Stages
  <2> HIDE DEF y
  <2>3. LocalOK(t, y)
    BY <1>1, <2>1, <2>2 DEF LocalOK, Tasked
  <2>4. Calls(t, y)
    BY <1>2, <2>1, <2>2, <2>3 DEF Calls, MarkRunning
  <2> QED
    BY <2>4
<1>3. ASSUME NEW at \in {"done", "error"}, x.at \in {"commit", "complete", "failing"},
             at = "error" => x.at = "failing"
      PROVE  LET y == Left(x, at) IN
             /\ LocalOK(t, y) /\ y.op = x.op /\ y.on = x.on /\ y.hurt = x.hurt /\ y.at = at
             /\ y.prompt = x.prompt
             /\ x.at = "commit" => y.found = x.found /\ y.caller = x.caller
  <2> DEFINE y == Left(x, at)
  <2>1. /\ y \in Tasked /\ y.op = x.op /\ y.on = x.on /\ y.at = at /\ y.rows = 0
        /\ y.hurt = x.hurt /\ y.prompt = x.prompt
        /\ x.at = "commit" => y.found = x.found /\ y.caller = x.caller
    BY <1>1, <1>3, LeftFields DEF Stages
  <2> HIDE DEF y
  <2>2. LocalOK(t, y)
    BY <1>1, <1>3, <2>1 DEF LocalOK, Tasked
  <2> QED
    BY <2>1, <2>2 DEF y
<1>4. CASE CommitTask(t)
  BY <1>3, <1>4 DEF CommitTask, Calls
<1>5. CASE SaveAnalysis(t)
  <2> DEFINE y == [x EXCEPT !.at = "complete"]
  <2>1. task' = [task EXCEPT ![t] = y] /\ x.at = "save"
    BY <1>5 DEF SaveAnalysis
  <2>2. /\ y \in Tasked /\ y.at = "complete" /\ y.op = x.op /\ y.on = x.on /\ y.hurt = x.hurt
        /\ y.prompt = x.prompt /\ y.rows = x.rows
    BY <1>1 DEF Tasked, Stages
  <2> HIDE DEF y
  <2>3. LocalOK(t, y)
    BY <1>1, <2>1, <2>2 DEF LocalOK, Tasked
  <2>4. Calls(t, y)
    BY <1>5, <2>1, <2>2, <2>3 DEF Calls, SaveAnalysis
  <2> QED
    BY <2>4
<1>6. CASE MarkCompleted(t)
  BY <1>3, <1>6 DEF MarkCompleted, Calls
<1>7. CASE MarkFailed(t)
  BY <1>3, <1>7 DEF MarkFailed, Calls
<1> QED
  BY <1>2, <1>4, <1>5, <1>6, <1>7

\* What a call of a store writes as an analysis.
LEMMA StoredBy ==
  ASSUME LocalsOK, NEW t \in Tasks, NEW y, Calls(t, y)
  PROVE  \/ analyses' = analyses
         \/ /\ task[t].at \in {"commit", "save"} /\ task[t].on \in Tasks
            /\ analyses' = [analyses EXCEPT ![task[t].on] = task[t].work]
            /\ Storable(task[t].work)
            /\ task[t].op # "request" => Supported(task[t].work)
<1>1. LocalOK(t, task[t]) /\ task[t] \in Tasked
  BY DEF LocalsOK, LocalOK
<1>2. task[t].at = "commit" =>
        task[t].op \in {"analyze", "request", "decide"} /\ task[t].on \in Tasks
  BY <1>1 DEF LocalOK, Tasked
<1>3. task[t].at = "save" => task[t].op = "execute" /\ task[t].on \in Tasks
  BY <1>1 DEF LocalOK, Tasked
<1>4. task[t].work \in Analyses
  BY <1>1 DEF Tasked
<1> QED
  BY <1>1, <1>2, <1>3, <1>4 DEF Calls, LocalOK, Generated, Storable

LEMMA StepKeepsLocals == LocalsOK /\ [AnalysisNext]_analysisVars => LocalsOK'
<1> SUFFICES ASSUME LocalsOK, [AnalysisNext]_analysisVars PROVE LocalsOK'
  OBVIOUS
<1>1. CASE UNCHANGED analysisVars
  BY <1>1 DEF analysisVars, LocalsOK, Functions
<1>2. ASSUME NEW t \in Tasks, NEW y, task' = [task EXCEPT ![t] = y], LocalOK(t, y),
             UNCHANGED <<analyses, trail>>, DOMAIN jobs' = Tasks
      PROVE  LocalsOK'
  BY <1>2 DEF LocalsOK, Functions
<1>3. ASSUME NEW t \in Tasks,
             \/ Analyze(t) \/ Refuse(t) \/ RequestAnalysis(t) \/ ExecuteAnalysis(t)
             \/ DecideAnalysis(t)
      PROVE  LocalsOK'
  <2>1. PICK y : /\ task' = [task EXCEPT ![t] = y] /\ LocalOK(t, y)
                 /\ UNCHANGED <<analyses, trail>>
                 /\ UNCHANGED jobs \/ jobs' = [jobs EXCEPT ![t] = "queued"]
    BY <1>3, Arrivals
  <2>2. DOMAIN jobs' = Tasks
    BY <2>1 DEF LocalsOK, Functions
  <2> QED
    BY <1>2, <2>1, <2>2
<1>4. ASSUME NEW t \in Tasks, NEW y, Quiet(t, y) PROVE LocalsOK'
  BY <1>2, <1>4 DEF Quiet, LocalsOK, Functions
<1>5. ASSUME NEW t \in Tasks, NEW y, Calls(t, y) PROVE LocalsOK'
  <2>1. DOMAIN jobs' = Tasks /\ DOMAIN task' = Tasks
        /\ \A u \in Tasks : LocalOK(u, task'[u])
    BY <1>5 DEF Calls, LocalsOK, Functions
  <2>2. /\ analyses' \in [Tasks -> Analyses \union {NoAnalysis}]
        /\ \A a \in Tasks : analyses'[a] # NoAnalysis => Storable(analyses'[a])
    BY <1>5, StoredBy DEF LocalsOK, Functions, Storable
  <2>3. trail' \in [Tasks -> Nat]
    <3>1. task[t].rows \in Nat
      BY DEF LocalsOK, LocalOK, Tasked
    <3> QED
      BY <1>5, <3>1 DEF Calls, LocalsOK, Functions
  <2> QED
    BY <2>1, <2>2, <2>3 DEF LocalsOK, Functions
<1> QED
  BY <1>1, <1>3, <1>4, <1>5, StepsOfAnalyses, StoresAreCalls

-----------------------------------------------------------------------------
(* Whose analyses, jobs and audit rows there are *)

Owned ==
  \A t \in Tasks : LET x == task[t] IN
    /\ x.op \notin {"analyze", "request"} => analyses[t] = NoAnalysis
    /\ x.op \in {"analyze", "request"} /\ x.at # "done" => analyses[t] = NoAnalysis
    /\ x.op # "request" => jobs[t] = "none"
    /\ trail[t] = IF x.op = "analyze" /\ x.at = "done" /\ x.caller THEN 1 ELSE 0
    /\ x.op = "analyze" /\ x.at = "done" =>
         /\ analyses[t] # NoAnalysis <=> x.found
         /\ analyses[t] # NoAnalysis => Supported(analyses[t])
    /\ x.op = "request" =>
         /\ x.at = "done" => analyses[t] # NoAnalysis
         /\ x.at \in {"error", "dead"} => x.hurt

\* What a command on an analysis may find of it.
Finds ==
  \A t \in Tasks : LET x == task[t] IN
    /\ x.op \in {"execute", "decide"} /\ Open(x) => analyses[x.on] # NoAnalysis
    /\ x.op = "decide" /\ Open(x) => Supported(analyses[x.on])
    /\ x.at = "complete" => Supported(analyses[x.on])
    /\ x.op = "execute" /\ x.at # "missing" => jobs[x.on] # "none"

\* Task t writes the analysis w.
Writes(t, w) ==
  /\ task[t].on \in Tasks
  /\ analyses' = [analyses EXCEPT ![task[t].on] = w]
  /\ Storable(w) /\ w # NoAnalysis
  /\ task[t].op # "request" => Supported(w)
  /\ task[t].at = "commit" /\ task[t].op \in {"analyze", "request"} => analyses[task[t].on] = NoAnalysis

LEMMA CallWrites ==
  ASSUME LocalsOK, Owned, NEW t \in Tasks, NEW y, Calls(t, y)
  PROVE  analyses' = analyses \/ Writes(t, task[t].work)
<1>1. LocalOK(t, task[t])
  BY DEF LocalsOK
<1>2. Storable(task[t].work) => task[t].work # NoAnalysis
  BY NoAnalysisAssumption DEF Storable
<1> QED
  BY <1>1, <1>2, StoredBy DEF Writes, Owned, LocalOK

\* No step takes an analysis away, or makes a complete one incomplete.
LEMMA AnalysesStay ==
  ASSUME LocalsOK, Owned, [AnalysisNext]_analysisVars, NEW a \in Tasks, analyses[a] # NoAnalysis
  PROVE  /\ analyses'[a] # NoAnalysis
         /\ Supported(analyses[a]) => Supported(analyses'[a])
<1>1. CASE analyses' = analyses
  BY <1>1
<1>2. ASSUME NEW t \in Tasks, NEW y, Calls(t, y), analyses' # analyses
      PROVE  /\ analyses'[a] # NoAnalysis
             /\ Supported(analyses[a]) => Supported(analyses'[a])
  <2>1. Writes(t, task[t].work) /\ task[t].at \in {"commit", "save"}
    BY <1>2, CallWrites, StoredBy
  <2>2. task[t].op = "request" => task[t].at = "commit"
    BY <2>1 DEF LocalsOK, LocalOK
  <2> QED
    BY <2>1, <2>2 DEF Writes, LocalsOK, Functions
<1>3. ASSUME NEW t \in Tasks,
             \/ Analyze(t) \/ Refuse(t) \/ RequestAnalysis(t) \/ ExecuteAnalysis(t)
             \/ DecideAnalysis(t)
      PROVE  analyses' = analyses
  BY <1>3, Arrivals
<1>4. ASSUME NEW t \in Tasks, NEW y, Quiet(t, y) PROVE analyses' = analyses
  BY <1>4 DEF Quiet
<1>5. UNCHANGED analysisVars => analyses' = analyses
  BY DEF analysisVars
<1> QED
  BY <1>1, <1>2, <1>3, <1>4, <1>5, StepsOfAnalyses, StoresAreCalls

LEMMA StepKeepsOwned == LocalsOK /\ Owned /\ Finds /\ [AnalysisNext]_analysisVars => Owned'
<1> SUFFICES ASSUME LocalsOK, Owned, Finds, [AnalysisNext]_analysisVars PROVE Owned'
  OBVIOUS
<1> USE DEF Owned
<1>0. LocalsOK' /\ DOMAIN task = Tasks /\ DOMAIN jobs = Tasks
      /\ DOMAIN analyses = Tasks /\ DOMAIN trail = Tasks
  BY StepKeepsLocals DEF LocalsOK, Functions
<1>1. CASE UNCHANGED analysisVars
  BY <1>1 DEF analysisVars
<1>2. ASSUME NEW t \in Tasks,
             \/ Analyze(t) \/ Refuse(t) \/ RequestAnalysis(t) \/ ExecuteAnalysis(t)
             \/ DecideAnalysis(t)
      PROVE  Owned'
  BY <1>0, <1>2, Arrivals
<1>3. ASSUME NEW t \in Tasks, NEW y, Quiet(t, y) PROVE Owned'
  <2>1. task[t].at # "done" /\ y.at # "done"
    BY <1>3 DEF Quiet, Open, Ended
  <2>2. y.op = "request" /\ y.at \in {"error", "dead"} => y.hurt
    BY <1>3 DEF Quiet, Ended
  <2> QED
    BY <1>0, <1>3, <2>1, <2>2 DEF Quiet
<1>4. ASSUME NEW t \in Tasks, NEW y, Calls(t, y) PROVE Owned'
  <2> DEFINE x == task[t]
  <2>1. LocalOK(t, x) /\ x \in Tasked
    BY DEF LocalsOK, LocalOK
  <2>2. CASE x.at = "mark" \/ x.at = "failing" \/ x.at = "complete"
    <3>1. x.op = "execute" /\ x.on \in Tasks
      BY <2>1, <2>2 DEF LocalOK, Tasked
    <3>2. task[x.on].op = "request"
      BY <2>2, <3>1 DEF Finds
    <3>3. /\ analyses' = analyses /\ trail' = trail /\ task' = [task EXCEPT ![t] = y]
          /\ y.op = "execute" /\ LocalOK(t, y)
          /\ \E st \in {"running", "completed", "failed"} : jobs' = [jobs EXCEPT ![x.on] = st]
      BY <1>4, <2>2, <3>1 DEF Calls
    <3> QED
      BY <1>0, <1>4, <2>1, <2>2, <3>1, <3>2, <3>3 DEF Calls
  <2>3. CASE x.at = "save"
    <3>1. x.op = "execute" /\ x.on \in Tasks
      BY <2>1, <2>3 DEF LocalOK, Tasked
    <3>2. task[x.on].op = "request" /\ analyses[x.on] # NoAnalysis /\ task[x.on].at = "done"
      BY <2>3, <3>1 DEF Finds, Open, Ended
    <3>3. /\ jobs' = jobs /\ trail' = trail /\ task' = [task EXCEPT ![t] = y]
          /\ y.op = "execute" /\ y.on = x.on
          /\ analyses' = [analyses EXCEPT ![x.on] = x.work] /\ x.work # NoAnalysis
      <4>1. x.work # NoAnalysis
        BY <2>1, NoAnalysisAssumption DEF Tasked
      <4> HIDE DEF Owned
      <4> QED
        BY <1>4, <2>3, <3>1, <4>1 DEF Calls
    <3> QED
      BY <1>0, <2>3, <3>1, <3>2, <3>3
  <2>4. CASE x.at = "commit" /\ x.op = "decide"
    <3>1. /\ x.on \in Tasks /\ analyses[x.on] # NoAnalysis
          /\ task[x.on].op \in {"analyze", "request"} /\ task[x.on].at = "done"
      BY <2>1, <2>4 DEF LocalOK, Finds, Open, Ended
    <3>2. /\ jobs' = jobs /\ trail' = trail /\ task' = [task EXCEPT ![t] = y]
          /\ y.op = "decide" /\ y.on = x.on
          /\ analyses' = [analyses EXCEPT ![x.on] = x.work] /\ Supported(x.work)
          /\ x.work # NoAnalysis
      <4>1. x.rows = 0 /\ trail \in [Tasks -> Nat]
        BY <2>1, <2>4 DEF LocalOK, LocalsOK, Functions
      <4>2. trail' = trail
        <5>1. trail' = [trail EXCEPT ![x.on] = @ + x.rows]
          BY <1>4, <2>4 DEF Calls
        <5>2. trail[x.on] + x.rows = trail[x.on]
          BY <3>1, <4>1
        <5>3. trail' = [trail EXCEPT ![x.on] = trail[x.on]]
          BY <5>1, <5>2
        <5> QED
          BY <4>1, <5>3
      <4>3. Supported(x.work) /\ x.work # NoAnalysis
        BY <2>1, <2>4, NoAnalysisAssumption DEF LocalOK, Tasked
      <4> QED
        BY <1>4, <2>4, <4>2, <4>3 DEF Calls, Stores
    <3> QED
      BY <1>0, <2>4, <3>1, <3>2
  <2>5. CASE x.at = "commit" /\ x.op \in {"analyze", "request"}
    <3>1. /\ x.on = t /\ analyses[t] = NoAnalysis /\ trail[t] = 0
          /\ x.work # NoAnalysis
      BY <2>1, <2>5, NoAnalysisAssumption DEF LocalOK, Tasked
    <3>2. /\ jobs' = jobs /\ task' = [task EXCEPT ![t] = y]
          /\ trail' = [trail EXCEPT ![t] = x.rows]
          /\ y.op = x.op /\ y.on = t /\ y.at = "done" /\ y.found = x.found /\ y.caller = x.caller
          /\ analyses' = IF x.op = "analyze" => x.found THEN [analyses EXCEPT ![t] = x.work]
                         ELSE analyses
      <4>1. x.rows \in Nat
        BY <2>1 DEF Tasked
      <4> QED
        BY <1>4, <2>5, <3>1, <4>1 DEF Calls, Stores
    <3>3. /\ x.op = "analyze" => x.rows = (IF x.caller THEN 1 ELSE 0) /\ Supported(x.work)
          /\ x.op = "request" => x.rows = 0
      BY <2>1, <2>5 DEF LocalOK, Generated
    <3> QED
      BY <1>0, <2>5, <3>1, <3>2, <3>3
  <2>6. x.at = "commit" => x.op \in {"analyze", "request", "decide"}
    BY <2>1 DEF LocalOK, Tasked
  <2> QED
    BY <1>4, <2>2, <2>3, <2>4, <2>5, <2>6 DEF Calls
<1> QED
  BY <1>1, <1>2, <1>3, <1>4, StepsOfAnalyses, StoresAreCalls

\* No step makes a job record go away.
LEMMA JobsStay ==
  ASSUME LocalsOK, [AnalysisNext]_analysisVars, NEW a \in Tasks, jobs[a] # "none"
  PROVE  jobs'[a] # "none"
<1>0. DOMAIN jobs = Tasks
  BY DEF LocalsOK, Functions
<1>1. ASSUME NEW t \in Tasks,
             \/ Analyze(t) \/ Refuse(t) \/ RequestAnalysis(t) \/ ExecuteAnalysis(t)
             \/ DecideAnalysis(t)
      PROVE  jobs'[a] # "none"
  BY <1>0, <1>1, Arrivals
<1>2. ASSUME NEW t \in Tasks, NEW y, Quiet(t, y) PROVE jobs' = jobs
  BY <1>2 DEF Quiet
<1>3. ASSUME NEW t \in Tasks, NEW y, Calls(t, y) PROVE jobs'[a] # "none"
  BY <1>0, <1>3 DEF Calls
<1>4. UNCHANGED analysisVars => jobs' = jobs
  BY DEF analysisVars
<1> QED
  BY <1>1, <1>2, <1>3, <1>4, StepsOfAnalyses, StoresAreCalls

LEMMA StepKeepsFinds == LocalsOK /\ Owned /\ Finds /\ [AnalysisNext]_analysisVars => Finds'
<1> SUFFICES ASSUME LocalsOK, Owned, Finds, [AnalysisNext]_analysisVars, NEW u \in Tasks
             PROVE  LET x == task'[u] IN
                    /\ x.op \in {"execute", "decide"} /\ Open(x) => analyses'[x.on] # NoAnalysis
                    /\ x.op = "decide" /\ Open(x) => Supported(analyses'[x.on])
                    /\ x.at = "complete" => Supported(analyses'[x.on])
                    /\ x.op = "execute" /\ x.at # "missing" => jobs'[x.on] # "none"
  BY DEF Finds
<1>0. DOMAIN task = Tasks /\ DOMAIN analyses = Tasks /\ LocalOK(u, task[u])
  BY DEF LocalsOK, Functions
<1>1. \A a \in Tasks : analyses[a] # NoAnalysis =>
        analyses'[a] # NoAnalysis /\ (Supported(analyses[a]) => Supported(analyses'[a]))
  BY AnalysesStay
<1>2. \A a \in Tasks : jobs[a] # "none" => jobs'[a] # "none"
  BY JobsStay
<1>3. /\ task[u].op \in {"execute", "decide"} => task[u].on \in Tasks
      /\ task[u].at = "complete" => task[u].op = "execute" /\ Open(task[u])
  BY <1>0 DEF LocalOK, Tasked, Open, Ended
<1>4. CASE task'[u] = task[u]
  BY <1>1, <1>2, <1>3, <1>4 DEF Finds
<1>5. ASSUME NEW t \in Tasks,
             \/ Analyze(t) \/ Refuse(t) \/ RequestAnalysis(t) \/ ExecuteAnalysis(t)
             \/ DecideAnalysis(t),
             t = u
      PROVE  LET x == task'[u] IN
             /\ x.op \in {"execute", "decide"} /\ Open(x) => analyses'[x.on] # NoAnalysis
             /\ x.op = "decide" /\ Open(x) => Supported(analyses'[x.on])
             /\ x.at = "complete" => Supported(analyses'[x.on])
             /\ x.op = "execute" /\ x.at # "missing" => jobs'[x.on] # "none"
  <2>1. PICK y :
           /\ task' = [task EXCEPT ![t] = y] /\ LocalOK(t, y)
           /\ UNCHANGED <<analyses, trail>>
           /\ \/ y.op = "analyze" /\ y.at = "retrieve"
              \/ y.op = "none"
              \/ y.op = "request" /\ y.at = "commit"
              \/ /\ UNCHANGED jobs /\ y.op = "execute" /\ jobs[y.on] # "none"
                 /\ \/ y.at = "missing"
                    \/ y.at = "mark" /\ analyses[y.on] # NoAnalysis
              \/ /\ UNCHANGED jobs /\ y.op = "decide" /\ y.at = "commit"
                 /\ analyses[y.on] # NoAnalysis
                 /\ analyses[y.on].status = "ready_for_review"
    BY <1>5, Arrivals
  <2>2. task'[u] = y
    BY <1>0, <1>5, <2>1
  <2>3. y.op = "decide" => Supported(analyses[y.on])
    <3>1. y.op = "decide" => y.on \in Tasks
      BY <2>1 DEF LocalOK
    <3> QED
      BY <2>1, <3>1, NewIsAnalysis DEF LocalsOK, Storable
  <2> QED
    BY <2>1, <2>2, <2>3 DEF LocalOK, Open, Ended
<1>6. ASSUME NEW t \in Tasks, NEW y, Quiet(t, y), t = u
      PROVE  LET x == task'[u] IN
             /\ x.op \in {"execute", "decide"} /\ Open(x) => analyses'[x.on] # NoAnalysis
             /\ x.op = "decide" /\ Open(x) => Supported(analyses'[x.on])
             /\ x.at = "complete" => Supported(analyses'[x.on])
             /\ x.op = "execute" /\ x.at # "missing" => jobs'[x.on] # "none"
  <2>1. task'[u] = y /\ Open(task[u]) /\ y.op = task[u].op /\ y.on = task[u].on
        /\ y.at # "complete" /\ task[u].at # "missing"
    BY <1>0, <1>6 DEF Quiet, Open, Ended
  <2> QED
    BY <1>1, <1>2, <1>3, <2>1 DEF Finds
<1>7. ASSUME NEW t \in Tasks, NEW y, Calls(t, y), t = u
      PROVE  LET x == task'[u] IN
             /\ x.op \in {"execute", "decide"} /\ Open(x) => analyses'[x.on] # NoAnalysis
             /\ x.op = "decide" /\ Open(x) => Supported(analyses'[x.on])
             /\ x.at = "complete" => Supported(analyses'[x.on])
             /\ x.op = "execute" /\ x.at # "missing" => jobs'[x.on] # "none"
  <2>1. task'[u] = y /\ y.op = task[u].op /\ y.on = task[u].on
        /\ Open(task[u]) /\ task[u].at # "missing"
        /\ y.at \in {"retrieve", "done", "complete", "error"}
        /\ (y.at = "retrieve" => task[u].op = "execute")
    BY <1>0, <1>7 DEF Calls, Open, Ended, LocalOK, Tasked
  <2>2. y.at = "complete" => Supported(analyses'[y.on])
    <3> SUFFICES ASSUME y.at = "complete" PROVE Supported(analyses'[y.on])
      OBVIOUS
    <3>1. task[u].at = "save" /\ analyses' = [analyses EXCEPT ![task[u].on] = task[u].work]
      BY <1>7 DEF Calls
    <3>2. task[u].op = "execute" /\ task[u].on \in Tasks /\ Supported(task[u].work)
      BY <1>0, <3>1 DEF LocalOK, Tasked, Generated
    <3> QED
      BY <1>0, <2>1, <3>1, <3>2
  <2> QED
    BY <1>1, <1>2, <1>3, <2>1, <2>2 DEF Finds, Open, Ended
<1>8. ASSUME NEW t \in Tasks, NEW y, task' = [task EXCEPT ![t] = y], t # u
      PROVE  task'[u] = task[u]
  BY <1>0, <1>8
<1>9. CASE UNCHANGED analysisVars
  BY <1>4, <1>9 DEF analysisVars
<1>10. ASSUME NEW t \in Tasks,
             \/ Analyze(t) \/ Refuse(t) \/ RequestAnalysis(t) \/ ExecuteAnalysis(t)
             \/ DecideAnalysis(t)
      PROVE  \E y : task' = [task EXCEPT ![t] = y]
  BY <1>10, Arrivals
<1>11. \A t \in Tasks : \A y : Quiet(t, y) \/ Calls(t, y) => task' = [task EXCEPT ![t] = y]
  BY DEF Quiet, Calls
<1> QED
  BY <1>4, <1>5, <1>6, <1>7, <1>8, <1>9, <1>10, <1>11, StepsOfAnalyses, StoresAreCalls

-----------------------------------------------------------------------------
(* What a step may do to a task *)

\* Past its generation: the prompt that it holds is the one it was made with.
Settled(x) == x.at \in {"complete", "failing", "done", "error", "dead"}

Goes(x, y) ==
  /\ x.at \in Ended => y = x
  /\ x.op = "execute" /\ x.at # "missing" => y.op = "execute" /\ y.on = x.on /\ y.at # "missing"
  /\ x.hurt => y.hurt
  /\ x.at = "complete" => y.at \in {"complete", "done"} \/ y.hurt
  /\ Settled(x) => Settled(y) /\ y.on = x.on /\ y.prompt = x.prompt

LEMMA TasksGo ==
  ASSUME LocalsOK, [AnalysisNext]_analysisVars, NEW u \in Tasks
  PROVE  Goes(task[u], task'[u])
<1> DEFINE x == task[u]
<1>0. DOMAIN task = Tasks /\ LocalOK(u, x) /\ x \in Tasked
  BY DEF LocalsOK, Functions, LocalOK
<1>1. CASE task'[u] = x
  BY <1>0, <1>1 DEF Goes, Tasked
<1>2. ASSUME NEW t \in Tasks, NEW y, task' = [task EXCEPT ![t] = y]
      PROVE  task'[u] = IF t = u THEN y ELSE x
  BY <1>0, <1>2
<1>3. ASSUME NEW y, x.at = "idle", x.op = "none" PROVE Goes(x, y)
  BY <1>0, <1>3 DEF LocalOK, Goes, Ended, Settled
<1>4. ASSUME NEW t \in Tasks,
             \/ Analyze(t) \/ Refuse(t) \/ RequestAnalysis(t) \/ ExecuteAnalysis(t)
             \/ DecideAnalysis(t)
      PROVE  Goes(x, task'[u])
  <2>1. PICK y : task' = [task EXCEPT ![t] = y] /\ task[t].at = "idle" /\ task[t].op = "none"
    BY <1>4, Arrivals
  <2>2. CASE t = u
    BY <1>2, <1>3, <2>1, <2>2
  <2>3. CASE t # u
    BY <1>1, <1>2, <2>1, <2>3
  <2> QED
    BY <2>2, <2>3
<1>5. ASSUME NEW t \in Tasks, NEW y, Quiet(t, y) PROVE Goes(x, task'[u])
  <2>1. t = u => Goes(x, y)
    BY <1>0, <1>5 DEF Quiet, Goes, Open, Ended, Settled
  <2> QED
    BY <1>1, <1>2, <1>5, <2>1 DEF Quiet
<1>6. ASSUME NEW t \in Tasks, NEW y, Calls(t, y) PROVE Goes(x, task'[u])
  <2>1. t = u => Goes(x, y)
    BY <1>0, <1>6 DEF Calls, Goes, Ended, Settled
  <2> QED
    BY <1>1, <1>2, <1>6, <2>1 DEF Calls
<1>7. CASE UNCHANGED analysisVars
  BY <1>1, <1>7 DEF analysisVars
<1> QED
  BY <1>4, <1>5, <1>6, <1>7, StepsOfAnalyses, StoresAreCalls

-----------------------------------------------------------------------------
(* What a job record says *)

CompletedOK(a) == jobs[a] = "completed" => analyses[a] # NoAnalysis /\ Supported(analyses[a])
FailedOK(a) == jobs[a] = "failed" => \E t \in Executions(a) : task[t].at = "error"
RunningOK(a) ==
  jobs[a] = "running" => \E t \in Executions(a) : task[t].hurt \/ task[t].at \notin Ended

\* Where an execution is only after it has marked the job as running.
Begun == {"retrieve", "generate", "save", "complete", "done"}
QueuedOK(a) ==
  jobs[a] = "queued" =>
    /\ analyses[a] # NoAnalysis => ~ Finished(analyses[a])
    /\ \A t \in Executions(a) : task[t].at \notin Begun

\* Only an execution finishes an analysis that was requested.
FinishedOK(a) ==
  task[a].op = "request" /\ analyses[a] # NoAnalysis /\ Finished(analyses[a]) =>
    \E t \in Executions(a) : task[t].at \in {"complete", "done"} \/ task[t].hurt

JobsOK ==
  \A a \in Tasks :
    CompletedOK(a) /\ FailedOK(a) /\ RunningOK(a) /\ QueuedOK(a) /\ FinishedOK(a)

LEMMA ExecutionsStay ==
  ASSUME LocalsOK, [AnalysisNext]_analysisVars, NEW a \in Tasks, NEW t \in Executions(a)
  PROVE  t \in Executions(a)' /\ Goes(task[t], task'[t])
BY TasksGo DEF Executions, Goes

\* A step that leaves the job record of a as it is.
Untold(a) == jobs'[a] = jobs[a]

\* The step that writes a status into the job record of a.
Tells(a) ==
  \/ jobs'[a] = "queued" /\ task[a].op = "none" /\ task'[a].op = "request"
     /\ analyses' = analyses /\ \A u \in Tasks : u # a => task'[u] = task[u]
  \/ \E t \in Tasks :
       /\ task[t].op = "execute" /\ task[t].on = a /\ task[t].at # "missing"
       /\ \/ jobs'[a] = "running" /\ task'[t].at = "retrieve"
          \/ jobs'[a] = "completed" /\ task[t].at = "complete"
          \/ jobs'[a] = "failed" /\ task'[t].at = "error"

LEMMA JobsTold ==
  ASSUME LocalsOK, [AnalysisNext]_analysisVars, NEW a \in Tasks
  PROVE  Untold(a) \/ Tells(a)
<1>0. DOMAIN task = Tasks /\ DOMAIN jobs = Tasks
  BY DEF LocalsOK, Functions
<1>1. ASSUME NEW t \in Tasks,
             \/ Analyze(t) \/ Refuse(t) \/ RequestAnalysis(t) \/ ExecuteAnalysis(t)
             \/ DecideAnalysis(t)
      PROVE  Untold(a) \/ Tells(a)
  <2>1. PICK y :
          /\ task' = [task EXCEPT ![t] = y] /\ task[t].op = "none" /\ UNCHANGED analyses
          /\ \/ UNCHANGED jobs
             \/ jobs' = [jobs EXCEPT ![t] = "queued"] /\ y.op = "request"
    BY <1>1, Arrivals
  <2> QED
    BY <1>0, <2>1 DEF Untold, Tells
<1>2. ASSUME NEW t \in Tasks, NEW y, Quiet(t, y) PROVE Untold(a)
  BY <1>2 DEF Quiet, Untold
<1>3. ASSUME NEW t \in Tasks, NEW y, Calls(t, y) PROVE Untold(a) \/ Tells(a)
  <2>1. task[t].at \in {"mark", "complete", "failing"} =>
          task[t].op = "execute" /\ task[t].on \in Tasks /\ task[t].at # "missing"
    BY DEF LocalsOK, LocalOK, Tasked
  <2>2. CASE a = task[t].on
    BY <1>0, <1>3, <2>1, <2>2 DEF Calls, Untold, Tells
  <2>3. CASE a # task[t].on
    BY <1>0, <1>3, <2>3 DEF Calls, Untold
  <2> QED
    BY <2>2, <2>3
<1>4. CASE UNCHANGED analysisVars
  BY <1>4 DEF analysisVars, Untold
<1> QED
  BY <1>1, <1>2, <1>3, <1>4, StepsOfAnalyses, StoresAreCalls

LEMMA StepKeepsCompleted ==
  ASSUME LocalsOK, Owned, Finds, JobsOK, [AnalysisNext]_analysisVars, NEW a \in Tasks
  PROVE  CompletedOK(a)'
<1>1. SUFFICES ASSUME jobs'[a] = "completed"
               PROVE  analyses'[a] # NoAnalysis /\ Supported(analyses'[a])
  BY DEF CompletedOK
<1>2. SUFFICES analyses[a] # NoAnalysis /\ Supported(analyses[a])
  BY AnalysesStay
<1>3. CASE Untold(a)
  BY <1>1, <1>3 DEF Untold, JobsOK, CompletedOK
<1>4. CASE Tells(a)
  BY <1>1, <1>4 DEF Tells, Finds, Open, Ended
<1> QED
  BY <1>3, <1>4, JobsTold

LEMMA StepKeepsFailed ==
  ASSUME LocalsOK, Owned, Finds, JobsOK, [AnalysisNext]_analysisVars, NEW a \in Tasks
  PROVE  FailedOK(a)'
<1>1. SUFFICES ASSUME jobs'[a] = "failed" PROVE \E t \in Executions(a)' : task'[t].at = "error"
  BY DEF FailedOK
<1>2. CASE Untold(a)
  <2>1. PICK t \in Executions(a) : task[t].at = "error"
    BY <1>1, <1>2 DEF Untold, JobsOK, FailedOK
  <2> QED
    BY <2>1, ExecutionsStay DEF Goes, Ended
<1>3. CASE Tells(a)
  <2>1. PICK t \in Tasks : t \in Executions(a) /\ task'[t].at = "error"
    BY <1>1, <1>3 DEF Tells, Executions
  <2> QED
    BY <2>1, ExecutionsStay
<1> QED
  BY <1>2, <1>3, JobsTold

LEMMA StepKeepsRunning ==
  ASSUME LocalsOK, Owned, Finds, JobsOK, [AnalysisNext]_analysisVars, NEW a \in Tasks
  PROVE  RunningOK(a)'
<1>1. SUFFICES ASSUME jobs'[a] = "running"
               PROVE  \E t \in Executions(a)' : task'[t].hurt \/ task'[t].at \notin Ended
  BY DEF RunningOK
<1>2. CASE Tells(a)
  <2>1. PICK t \in Tasks : t \in Executions(a) /\ task'[t].at = "retrieve"
    BY <1>1, <1>2 DEF Tells, Executions
  <2> QED
    BY <2>1, ExecutionsStay DEF Ended
<1>3. CASE Untold(a)
  <2>1. PICK t \in Executions(a) : task[t].hurt \/ task[t].at \notin Ended
    BY <1>1, <1>3 DEF Untold, JobsOK, RunningOK
  <2>2. t \in Executions(a)' /\ (task[t].hurt => task'[t].hurt)
    BY <2>1, ExecutionsStay DEF Goes
  <2>3. SUFFICES ASSUME ~ task[t].hurt, task[t].at \notin Ended, task'[t].at \in Ended
                 PROVE  task'[t].hurt
    BY <2>1, <2>2
  <2>4. t \in Tasks /\ task[t].op = "execute" /\ task[t].on = a /\ DOMAIN task = Tasks
        /\ DOMAIN jobs = Tasks /\ task[t].at # "idle" /\ task[t].at # "commit"
    BY <2>1 DEF Executions, LocalsOK, Functions, LocalOK
  <2>5. ASSUME NEW s \in Tasks,
               \/ Analyze(s) \/ Refuse(s) \/ RequestAnalysis(s) \/ ExecuteAnalysis(s)
               \/ DecideAnalysis(s)
        PROVE  task'[t] = task[t]
    BY <2>4, <2>5, Arrivals
  <2>6. ASSUME NEW s \in Tasks, NEW y, Quiet(s, y) PROVE task'[t].hurt
    BY <2>3, <2>4, <2>6 DEF Quiet
  <2>7. ASSUME NEW s \in Tasks, NEW y, Calls(s, y) PROVE FALSE
    <3>1. s = t
      BY <2>3, <2>4, <2>7 DEF Calls
    <3>2. task'[t] = y
      BY <2>4, <2>7, <3>1 DEF Calls
    <3>3. jobs'[a] \in {"completed", "failed"}
      BY <2>3, <2>4, <2>7, <3>1, <3>2 DEF Calls, Ended
    <3> QED
      BY <1>1, <3>3
  <2> QED
    BY <2>3, <2>5, <2>6, <2>7, StepsOfAnalyses, StoresAreCalls DEF analysisVars
<1> QED
  BY <1>2, <1>3, JobsTold

\* An execution goes from before its mark to past it only by the mark, which
\* writes into the job record; and one that is new has not passed it.
LEMMA NotBegun ==
  ASSUME LocalsOK, Finds, [AnalysisNext]_analysisVars, NEW a \in Tasks, Untold(a),
         jobs[a] # "running", NEW t \in Executions(a)', t \in Executions(a) => task[t].at \notin Begun
  PROVE  task'[t].at \notin Begun
<1>0. /\ DOMAIN task = Tasks /\ DOMAIN jobs = Tasks /\ t \in Tasks
      /\ task'[t].op = "execute" /\ task'[t].on = a /\ task'[t].at # "missing"
      /\ LocalOK(t, task[t])
  BY DEF LocalsOK, Functions, Executions
<1>1. CASE task'[t] = task[t]
  BY <1>0, <1>1 DEF Executions
<1>2. ASSUME NEW s \in Tasks,
             \/ Analyze(s) \/ Refuse(s) \/ RequestAnalysis(s) \/ ExecuteAnalysis(s)
             \/ DecideAnalysis(s)
      PROVE  task'[t].at \notin Begun
  <2>1. PICK y : task' = [task EXCEPT ![s] = y] /\ (y.op = "execute" => y.at \in {"missing", "mark"})
    BY <1>2, Arrivals
  <2> QED
    BY <1>0, <1>1, <2>1 DEF Begun
<1>3. ASSUME NEW s \in Tasks, NEW y, Quiet(s, y), s = t PROVE task'[t].at \notin Begun
  <2>1. task'[t] = y /\ y.op = task[t].op /\ y.on = task[t].on /\ task[t].at # "missing"
    BY <1>0, <1>3 DEF Quiet, Open, Ended
  <2>2. task[t].at \notin Begun
    BY <1>0, <2>1 DEF Executions
  <2> QED
    BY <1>3, <2>1, <2>2 DEF Quiet, Begun
<1>4. ASSUME NEW s \in Tasks, NEW y, Calls(s, y), s = t PROVE task'[t].at \notin Begun
  <2>1. task'[t] = y /\ y.op = task[t].op /\ y.on = task[t].on
        /\ task[t].at \in {"mark", "commit", "save", "complete", "failing"}
    BY <1>0, <1>4 DEF Calls
  <2>2. task[t].at \notin Begun /\ task[t].at # "commit"
    BY <1>0, <2>1 DEF Executions, LocalOK
  <2>3. CASE task[t].at = "mark"
    BY <1>0, <1>4, <2>1, <2>3 DEF Calls, Untold
  <2>4. CASE task[t].at = "failing"
    BY <1>4, <2>1, <2>4 DEF Calls, Begun
  <2> QED
    BY <2>1, <2>2, <2>3, <2>4 DEF Begun
<1>5. ASSUME NEW s \in Tasks, NEW y, Quiet(s, y) \/ Calls(s, y), s # t PROVE task'[t] = task[t]
  BY <1>0, <1>5 DEF Quiet, Calls
<1> QED
  BY <1>1, <1>2, <1>3, <1>4, <1>5, StepsOfAnalyses, StoresAreCalls DEF analysisVars

\* What a step does to an analysis that another process may hold.
LEMMA AnalysisWritten ==
  ASSUME LocalsOK, Owned, [AnalysisNext]_analysisVars, NEW a \in Tasks, analyses'[a] # analyses[a]
  PROVE  \E t \in Tasks :
           /\ task[t].on = a /\ analyses'[a] = task[t].work /\ Storable(task[t].work)
           /\ task'[t].on = a /\ task'[t].op = task[t].op /\ task'[t].prompt = task[t].prompt
           /\ \/ /\ task[t].at = "commit" /\ task'[t].at = "done" /\ t = a
                 /\ task[t].op \in {"analyze", "request"} /\ analyses[a] = NoAnalysis
              \/ task[t].at = "commit" /\ task'[t].at = "done" /\ task[t].op = "decide"
              \/ task[t].at = "save" /\ task'[t].at = "complete" /\ task[t].op = "execute"
<1>0. DOMAIN task = Tasks /\ DOMAIN analyses = Tasks
  BY DEF LocalsOK, Functions
<1>1. ASSUME NEW t \in Tasks,
             \/ Analyze(t) \/ Refuse(t) \/ RequestAnalysis(t) \/ ExecuteAnalysis(t)
             \/ DecideAnalysis(t)
      PROVE  FALSE
  BY <1>1, Arrivals
<1>2. ASSUME NEW t \in Tasks, NEW y, Quiet(t, y) PROVE FALSE
  BY <1>2 DEF Quiet
<1>3. PICK t \in Tasks : \E y : Calls(t, y)
  BY <1>1, <1>2, StepsOfAnalyses, StoresAreCalls DEF analysisVars
<1>4. PICK y : Calls(t, y)
  BY <1>3
<1>5. LocalOK(t, task[t]) /\ task[t] \in Tasked
  BY DEF LocalsOK, LocalOK
<1>6. /\ task[t].at \in {"commit", "save"} /\ task[t].on \in Tasks
      /\ analyses' = [analyses EXCEPT ![task[t].on] = task[t].work] /\ Storable(task[t].work)
  BY <1>4, StoredBy
<1>7. task[t].on = a /\ analyses'[a] = task[t].work
  BY <1>0, <1>6
<1>8. task'[t] = y /\ y.on = a /\ y.op = task[t].op /\ y.prompt = task[t].prompt
      /\ (task[t].at = "commit" => y.at = "done") /\ (task[t].at = "save" => y.at = "complete")
  BY <1>0, <1>4, <1>6, <1>7 DEF Calls
<1>9. task[t].at = "save" => task[t].op = "execute"
  BY <1>5 DEF LocalOK, Tasked
<1>10. task[t].at = "commit" =>
         task[t].op = "decide" \/ (task[t].op \in {"analyze", "request"} /\ t = a)
  BY <1>5, <1>7 DEF LocalOK, Tasked
<1>11. task[t].at = "commit" /\ task[t].op \in {"analyze", "request"} => analyses[a] = NoAnalysis
  BY <1>10 DEF Owned
<1> QED
  BY <1>6, <1>7, <1>8, <1>9, <1>10, <1>11

LEMMA StepKeepsQueued ==
  ASSUME LocalsOK, Owned, Finds, JobsOK, [AnalysisNext]_analysisVars, NEW a \in Tasks
  PROVE  QueuedOK(a)'
<1>1. SUFFICES ASSUME jobs'[a] = "queued"
               PROVE  /\ analyses'[a] # NoAnalysis => ~ Finished(analyses'[a])
                      /\ \A t \in Executions(a)' : task'[t].at \notin Begun
  BY DEF QueuedOK
<1>2. CASE Untold(a)
  <2>1. /\ analyses[a] # NoAnalysis => ~ Finished(analyses[a])
        /\ \A t \in Executions(a) : task[t].at \notin Begun
    BY <1>1, <1>2 DEF Untold, JobsOK, QueuedOK
  <2>2. \A t \in Executions(a)' : task'[t].at \notin Begun
    BY <1>1, <1>2, <2>1, NotBegun DEF Untold
  <2>3. ASSUME analyses'[a] # analyses[a] PROVE ~ Finished(analyses'[a])
    <3>1. PICK t \in Tasks :
           /\ task[t].on = a /\ analyses'[a] = task[t].work
           /\ \/ /\ task[t].at = "commit" /\ t = a /\ task[t].op \in {"analyze", "request"}
              \/ task[t].at = "commit" /\ task[t].op = "decide"
              \/ task[t].at = "save" /\ task[t].op = "execute"
      BY <2>3, AnalysisWritten
    <3>2. task[a].op = "request"
      BY <1>1, <1>2 DEF Untold, Owned
    <3>3. CASE t = a
      <4>1. analyses'[a] = NewAnalysis
        BY <3>1, <3>2, <3>3 DEF LocalsOK, LocalOK
      <4> QED
        BY <4>1, NewIsAnalysis DEF Finished, Decided
    <3>4. CASE task[t].at = "commit" /\ task[t].op = "decide"
      <4>1. Open(task[t])
        BY <3>4 DEF Open, Ended
      <4> QED
        BY <2>1, <3>1, <3>4, <4>1 DEF Finds, Supported
    <3>5. CASE task[t].at = "save" /\ task[t].op = "execute"
      BY <2>1, <3>1, <3>5 DEF Executions, Begun
    <3> QED
      BY <3>1, <3>3, <3>4, <3>5
  <2> QED
    BY <2>1, <2>2, <2>3
<1>3. CASE Tells(a)
  <2>1. /\ task[a].op = "none" /\ task'[a].op = "request"
        /\ analyses' = analyses /\ \A u \in Tasks : u # a => task'[u] = task[u]
    BY <1>1, <1>3 DEF Tells
  <2>2. analyses'[a] = NoAnalysis /\ jobs[a] = "none"
    BY <2>1 DEF Owned
  <2>3. \A u \in Tasks : u \notin Executions(a)'
    <3>1. \A u \in Tasks : u \notin Executions(a)
      BY <2>2 DEF Executions, Finds
    <3> QED
      BY <2>1, <3>1 DEF Executions
  <2> QED
    BY <2>2, <2>3 DEF Executions
<1> QED
  BY <1>2, <1>3, JobsTold

LEMMA StepKeepsFinished ==
  ASSUME LocalsOK, Owned, Finds, JobsOK, [AnalysisNext]_analysisVars, NEW a \in Tasks
  PROVE  FinishedOK(a)'
<1>1. SUFFICES ASSUME task'[a].op = "request", analyses'[a] # NoAnalysis, Finished(analyses'[a])
               PROVE  \E t \in Executions(a)' : task'[t].at \in {"complete", "done"} \/ task'[t].hurt
  BY DEF FinishedOK
<1>2. CASE task[a].op = "request" /\ analyses[a] # NoAnalysis /\ Finished(analyses[a])
  <2>1. PICK t \in Executions(a) : task[t].at \in {"complete", "done"} \/ task[t].hurt
    BY <1>2 DEF JobsOK, FinishedOK
  <2>2. t \in Executions(a)' /\ Goes(task[t], task'[t])
    BY <2>1, ExecutionsStay
  <2> QED
    BY <2>1, <2>2 DEF Goes, Ended
<1>3. CASE analyses'[a] = analyses[a]
  <2>1. task[a].op \in {"analyze", "request"}
    BY <1>1, <1>3 DEF Owned
  <2>2. task'[a].op = task[a].op
    <3>0. DOMAIN task = Tasks
      BY DEF LocalsOK, Functions
    <3>1. ASSUME NEW t \in Tasks,
                 \/ Analyze(t) \/ Refuse(t) \/ RequestAnalysis(t) \/ ExecuteAnalysis(t)
                 \/ DecideAnalysis(t)
          PROVE  task'[a] = task[a]
      BY <2>1, <3>0, <3>1, Arrivals
    <3>2. ASSUME NEW t \in Tasks, NEW y, Quiet(t, y) \/ Calls(t, y) PROVE task'[a].op = task[a].op
      BY <3>0, <3>2 DEF Quiet, Calls
    <3> QED
      BY <3>1, <3>2, StepsOfAnalyses, StoresAreCalls DEF analysisVars
  <2> QED
    BY <1>1, <1>2, <1>3, <2>1, <2>2
<1>4. CASE analyses'[a] # analyses[a]
  <2>1. PICK t \in Tasks :
           /\ task[t].on = a /\ analyses'[a] = task[t].work
           /\ task'[t].on = a /\ task'[t].op = task[t].op
           /\ \/ /\ task[t].at = "commit" /\ task'[t].at = "done" /\ t = a
                 /\ task[t].op \in {"analyze", "request"}
              \/ task[t].at = "commit" /\ task'[t].at = "done" /\ task[t].op = "decide"
              \/ task[t].at = "save" /\ task'[t].at = "complete" /\ task[t].op = "execute"
    BY <1>4, AnalysisWritten
  <2>3. CASE task[t].at = "save"
    <3>1. t \in Executions(a)'
      BY <2>1, <2>3 DEF Executions
    <3> QED
      BY <2>1, <2>3, <3>1
  <2>4. CASE task[t].at = "commit" /\ task[t].op = "decide"
    <3>1. analyses[a] # NoAnalysis /\ Finished(analyses[a])
      BY <2>1, <2>4 DEF Finds, Open, Ended, Supported
    <3>2. task[a].op \in {"analyze", "request"} /\ task[a].at = "done"
      BY <3>1 DEF Owned
    <3>3. task'[a] = task[a]
      BY <3>2, TasksGo DEF Goes, Ended
    <3> QED
      BY <1>1, <1>2, <3>1, <3>3
  <2>5. CASE task[t].at = "commit" /\ t = a /\ task[t].op = "analyze"
    BY <1>1, <2>1, <2>5
  <2>6. CASE task[t].at = "commit" /\ t = a /\ task[t].op = "request"
    <3>1. analyses'[a] = NewAnalysis
      BY <2>1, <2>6 DEF LocalsOK, LocalOK
    <3> QED
      BY <1>1, <3>1, NewIsAnalysis DEF Finished, Decided
  <2> QED
    BY <2>1, <2>3, <2>4, <2>5, <2>6
<1> QED
  BY <1>3, <1>4

LEMMA StepKeepsJobs ==
  LocalsOK /\ Owned /\ Finds /\ JobsOK /\ [AnalysisNext]_analysisVars => JobsOK'
<1> SUFFICES ASSUME LocalsOK, Owned, Finds, JobsOK, [AnalysisNext]_analysisVars, NEW a \in Tasks
             PROVE  (CompletedOK(a) /\ FailedOK(a) /\ RunningOK(a) /\ QueuedOK(a) /\ FinishedOK(a))'
  BY DEF JobsOK
<1> QED
  BY StepKeepsCompleted, StepKeepsFailed, StepKeepsRunning, StepKeepsQueued, StepKeepsFinished

-----------------------------------------------------------------------------
(* What a stored analysis cites *)

\* Some generation of a, as told by the tasks, was shown whatever w cites.
BackedBy(w, a, tasks) ==
  \E s \in Tasks : tasks[s].on = a /\ Settled(tasks[s]) /\ Within(w, tasks[s].prompt)

Backed ==
  /\ \A a \in Tasks : analyses[a] \notin {NoAnalysis, NewAnalysis} => BackedBy(analyses[a], a, task)
  /\ \A t \in Tasks : task[t].op = "decide" /\ task[t].at = "commit" =>
       BackedBy(task[t].work, task[t].on, task)

LEMMA BackingStays ==
  ASSUME LocalsOK, [AnalysisNext]_analysisVars, NEW w, NEW a, BackedBy(w, a, task)
  PROVE  BackedBy(w, a, task')
<1>1. PICK s \in Tasks : task[s].on = a /\ Settled(task[s]) /\ Within(w, task[s].prompt)
  BY DEF BackedBy
<1>2. task'[s].on = a /\ Settled(task'[s]) /\ task'[s].prompt = task[s].prompt
  BY <1>1, TasksGo DEF Goes
<1> QED
  BY <1>1, <1>2 DEF BackedBy

\* A decision holds the items of the analysis it looked up.
LEMMA DecisionArrives ==
  ASSUME LocalsOK, [AnalysisNext]_analysisVars, NEW t \in Tasks,
         task'[t].op = "decide", task'[t].at = "commit", task'[t] # task[t]
  PROVE  LET a == task'[t].on IN
         /\ a \in Tasks /\ analyses[a] # NoAnalysis /\ analyses[a].status = "ready_for_review"
         /\ task'[t].work.items = analyses[a].items
<1>0. DOMAIN task = Tasks
  BY DEF LocalsOK, Functions
<1>1. ASSUME NEW s \in Tasks,
             \/ Analyze(s) \/ Refuse(s) \/ RequestAnalysis(s) \/ ExecuteAnalysis(s)
             \/ DecideAnalysis(s)
      PROVE  LET a == task'[t].on IN
             /\ a \in Tasks /\ analyses[a] # NoAnalysis /\ analyses[a].status = "ready_for_review"
             /\ task'[t].work.items = analyses[a].items
  <2>1. PICK y :
          /\ task' = [task EXCEPT ![s] = y] /\ LocalOK(s, y)
          /\ y.op = "decide" =>
               /\ analyses[y.on] # NoAnalysis
               /\ analyses[y.on].status = "ready_for_review"
               /\ y.work.items = analyses[y.on].items
    BY <1>1, Arrivals
  <2>2. s = t /\ task'[t] = y
    BY <1>0, <2>1
  <2> QED
    BY <2>1, <2>2 DEF LocalOK
<1>2. ASSUME NEW s \in Tasks, NEW y, Quiet(s, y) PROVE FALSE
  <2>1. s = t /\ task'[t] = y
    BY <1>0, <1>2 DEF Quiet
  <2> QED
    BY <1>2, <2>1 DEF Quiet
<1>3. ASSUME NEW s \in Tasks, NEW y, Calls(s, y) PROVE FALSE
  <2>1. s = t /\ task'[t] = y
    BY <1>0, <1>3 DEF Calls
  <2> QED
    BY <1>3, <2>1 DEF Calls
<1> QED
  BY <1>1, <1>2, <1>3, StepsOfAnalyses, StoresAreCalls DEF analysisVars

LEMMA StepKeepsBacked ==
  LocalsOK /\ Owned /\ Finds /\ Backed /\ [AnalysisNext]_analysisVars => Backed'
<1> SUFFICES ASSUME LocalsOK, Owned, Finds, Backed, [AnalysisNext]_analysisVars PROVE Backed'
  OBVIOUS
<1>1. ASSUME NEW a \in Tasks, analyses'[a] \notin {NoAnalysis, NewAnalysis}
      PROVE  BackedBy(analyses'[a], a, task')
  <2>1. CASE analyses'[a] = analyses[a]
    <3>1. BackedBy(analyses[a], a, task)
      BY <1>1, <2>1 DEF Backed
    <3> QED
      BY <2>1, <3>1, BackingStays
  <2>2. CASE analyses'[a] # analyses[a]
    <3>1. PICK t \in Tasks :
           /\ task[t].on = a /\ analyses'[a] = task[t].work
           /\ task'[t].on = a /\ task'[t].prompt = task[t].prompt
           /\ \/ /\ task[t].at = "commit" /\ task'[t].at = "done" /\ t = a
                 /\ task[t].op \in {"analyze", "request"}
              \/ task[t].at = "commit" /\ task'[t].at = "done" /\ task[t].op = "decide"
              \/ task[t].at = "save" /\ task'[t].at = "complete"
      BY <2>2, AnalysisWritten
    <3>2. CASE task[t].op = "request" /\ task[t].at = "commit"
      BY <1>1, <3>1, <3>2 DEF LocalsOK, LocalOK
    <3>3. CASE task[t].op = "decide" /\ task[t].at = "commit"
      <4>1. BackedBy(task[t].work, a, task)
        BY <3>1, <3>3 DEF Backed
      <4> QED
        BY <3>1, <4>1, BackingStays
    <3>4. CASE task[t].at = "save" \/ (task[t].at = "commit" /\ task[t].op = "analyze")
      <4>1. Within(task[t].work, task[t].prompt)
        BY <3>4 DEF LocalsOK, LocalOK, Generated
      <4>2. Settled(task'[t]) /\ Within(analyses'[a], task'[t].prompt)
        BY <3>1, <3>4, <4>1 DEF Settled
      <4> QED
        BY <3>1, <4>2 DEF BackedBy
    <3> QED
      BY <3>1, <3>2, <3>3, <3>4
  <2> QED
    BY <2>1, <2>2
<1>2. ASSUME NEW t \in Tasks, task'[t].op = "decide", task'[t].at = "commit"
      PROVE  BackedBy(task'[t].work, task'[t].on, task')
  <2>1. CASE task'[t] = task[t]
    <3>1. BackedBy(task[t].work, task[t].on, task)
      BY <1>2, <2>1 DEF Backed
    <3> QED
      BY <2>1, <3>1, BackingStays
  <2>2. CASE task'[t] # task[t]
    <3> DEFINE a == task'[t].on
    <3>1. /\ a \in Tasks /\ analyses[a] # NoAnalysis /\ analyses[a].status = "ready_for_review"
          /\ task'[t].work.items = analyses[a].items
      BY <1>2, <2>2, DecisionArrives
    <3>2. BackedBy(analyses[a], a, task)
      BY <3>1, NewIsAnalysis DEF Backed
    <3>3. PICK s \in Tasks :
            task[s].on = a /\ Settled(task[s]) /\ Within(analyses[a], task[s].prompt)
      BY <3>2 DEF BackedBy
    <3>4. task'[s].on = a /\ Settled(task'[s]) /\ task'[s].prompt = task[s].prompt
      BY <3>3, TasksGo DEF Goes
    <3>5. Within(task'[t].work, task'[s].prompt)
      BY <3>1, <3>3, <3>4 DEF Within
    <3> QED
      BY <3>4, <3>5 DEF BackedBy
  <2> QED
    BY <2>1, <2>2
<1> QED
  BY <1>1, <1>2 DEF Backed

-----------------------------------------------------------------------------
(* Theorems *)

AnalysisInv == LocalsOK /\ Owned /\ Finds /\ JobsOK /\ Backed

LEMMA InitInvariant == AnalysisInit => AnalysisInv
<1> SUFFICES ASSUME AnalysisInit PROVE AnalysisInv
  OBVIOUS
<1>1. /\ \A a \in Tasks : analyses[a] = NoAnalysis /\ jobs[a] = "none" /\ trail[a] = 0
      /\ \A t \in Tasks : task[t].op = "none" /\ task[t].at = "idle"
  BY IdleIsTasked DEF AnalysisInit
<1>2. Owned /\ Finds /\ Backed
  BY <1>1 DEF Owned, Finds, Backed
<1>3. JobsOK
  BY <1>1 DEF JobsOK, CompletedOK, FailedOK, RunningOK, QueuedOK, FinishedOK
<1> QED
  BY <1>2, <1>3, InitLocals DEF AnalysisInv

\* The invariant that the theorems below rest on: what every process holds,
\* whose stored values there are, what a command finds of them, what a job
\* record says and what a stored analysis cites.
THEOREM AnalysisInvariantHolds == AnalysisSpec => []AnalysisInv
<1>1. AnalysisInv /\ [AnalysisNext]_analysisVars => AnalysisInv'
  BY StepKeepsLocals, StepKeepsOwned, StepKeepsFinds, StepKeepsJobs, StepKeepsBacked
     DEF AnalysisInv
<1> QED
  BY <1>1, InitInvariant, PTL DEF AnalysisSpec

\* A model or an index that is away fails no /analyze: after an error, the
\* domain refused what the model answered, or a call of the database failed.
THEOREM OutagesHidden == AnalysisSpec => []OutageHidden
<1>1. AnalysisInv => OutageHidden
  BY DEF AnalysisInv, LocalsOK, LocalOK, OutageHidden
<1> QED
  BY <1>1, AnalysisInvariantHolds, PTL

\* An answered /analyze has stored and audited its analysis; one that is not
\* answered has left no row of either, whichever of its calls failed.
THEOREM AnswersAreAudited == AnalysisSpec => []AnalysesAudited
<1>1. AnalysisInv => AnalysesAudited
  BY DEF AnalysisInv, Owned, AnalysesAudited, Supported
<1> QED
  BY <1>1, AnalysisInvariantHolds, PTL

\* A stored analysis is an empty draft or a complete one, whose citations one
\* generation of it was shown; or of which one, shown nothing at all, was still
\* allowed the transcript.
THEOREM StoredAreSupported == AnalysisSpec => []StoredIsSupported
<1>1. AnalysisInv => StoredIsSupported
  <2> SUFFICES ASSUME AnalysisInv, NEW a \in Tasks, analyses[a] \notin {NoAnalysis, NewAnalysis}
               PROVE  /\ Finished(analyses[a]) /\ analyses[a].summary
                      /\ \A i \in analyses[a].items :
                           Material(i) \/ i.kind = "obligation" => i.cites # {}
                      /\ \E t \in Tasks : task[t].on = a /\ Within(analyses[a], task[t].prompt)
    BY DEF StoredIsSupported
  <2>1. Supported(analyses[a])
    BY DEF AnalysisInv, LocalsOK, Storable
  <2>2. BackedBy(analyses[a], a, task)
    BY DEF AnalysisInv, Backed
  <2> QED
    BY <2>1, <2>2 DEF Supported, BackedBy
<1> QED
  BY <1>1, AnalysisInvariantHolds, PTL

\* The job record agrees with the analysis beside it, although no transaction
\* spans both stores, up to failed calls and repeated executions.
THEOREM JobsTellTruth == AnalysisSpec => []JobTellsTruth
<1>1. AnalysisInv => JobTellsTruth
  <2> SUFFICES ASSUME AnalysisInv, NEW a \in Tasks
               PROVE
        LET stored == analyses[a] # NoAnalysis
            hurt == \E t \in Executions(a) : task[t].hurt
        IN  /\ jobs[a] = "completed" => stored /\ Finished(analyses[a])
            /\ jobs[a] = "failed" /\ stored /\ Finished(analyses[a]) =>
                 hurt \/ \E s, t \in Executions(a) : s # t
            /\ jobs[a] = "running" => hurt \/ \E t \in Executions(a) : task[t].at \notin Ended
            /\ jobs[a] = "queued" /\ stored => ~ Finished(analyses[a])
            /\ jobs[a] # "none" /\ ~ stored => task[a].at = "commit" \/ task[a].hurt
    BY DEF JobTellsTruth
  <2>1. CompletedOK(a) /\ FailedOK(a) /\ RunningOK(a) /\ QueuedOK(a) /\ FinishedOK(a)
    BY DEF AnalysisInv, JobsOK
  <2>2. jobs[a] # "none" => task[a].op = "request"
    BY DEF AnalysisInv, Owned
  <2>3. jobs[a] = "failed" /\ analyses[a] # NoAnalysis /\ Finished(analyses[a]) =>
          \/ \E t \in Executions(a) : task[t].hurt
          \/ \E s, t \in Executions(a) : s # t
    BY <2>1, <2>2 DEF FailedOK, FinishedOK
  <2>4. jobs[a] # "none" /\ analyses[a] = NoAnalysis => task[a].at = "commit" \/ task[a].hurt
    BY <2>2 DEF AnalysisInv, Owned, LocalsOK, LocalOK
  <2>5. jobs[a] = "completed" => analyses[a] # NoAnalysis /\ Finished(analyses[a])
    BY <2>1 DEF CompletedOK, Supported
  <2>6. jobs[a] = "running" =>
          \/ \E t \in Executions(a) : task[t].hurt
          \/ \E t \in Executions(a) : task[t].at \notin Ended
    BY <2>1 DEF RunningOK
  <2>7. jobs[a] = "queued" /\ analyses[a] # NoAnalysis => ~ Finished(analyses[a])
    BY <2>1 DEF QueuedOK
  <2> QED
    BY <2>3, <2>4, <2>5, <2>6, <2>7
<1> QED
  BY <1>1, AnalysisInvariantHolds, PTL

\* Only an execution or a decision that began before an analysis was decided
\* changes it afterwards.
THEOREM DecisionsAreKept == AnalysisSpec => DecisionsKept
<1> DEFINE Unspoilt ==
      \A a \in Tasks :
        /\ analyses[a] # NoAnalysis /\ analyses[a].status \in Decided
        /\ analyses'[a] # analyses[a]
        => \E t \in Tasks : /\ task[t].on = a /\ task[t].at \in {"commit", "save"}
                            /\ task'[t].at \in {"done", "complete"}
                            /\ task[t].base.status \notin Decided
<1>1. AnalysisInv /\ [AnalysisNext]_analysisVars => Unspoilt
  <2> SUFFICES ASSUME AnalysisInv, [AnalysisNext]_analysisVars, NEW a \in Tasks,
                      analyses[a] # NoAnalysis, analyses'[a] # analyses[a]
               PROVE  \E t \in Tasks : /\ task[t].on = a /\ task[t].at \in {"commit", "save"}
                                       /\ task'[t].at \in {"done", "complete"}
                                       /\ task[t].base.status \notin Decided
    OBVIOUS
  <2>1. PICK t \in Tasks :
           /\ task[t].on = a
           /\ \/ task[t].at = "commit" /\ task'[t].at = "done" /\ task[t].op = "decide"
              \/ task[t].at = "save" /\ task'[t].at = "complete" /\ task[t].op = "execute"
    BY AnalysisWritten DEF AnalysisInv
  <2>2. task[t].base.status \in {"ready_for_review", "draft"}
    BY <2>1, NewIsAnalysis DEF AnalysisInv, LocalsOK, LocalOK
  <2> QED
    BY <2>1, <2>2 DEF Decided
<1>2. AnalysisInv /\ [AnalysisNext]_analysisVars => [Unspoilt]_analysisVars
  BY <1>1
<1> HIDE DEF Unspoilt
<1>3. AnalysisSpec => [][Unspoilt]_analysisVars
  BY <1>2, AnalysisInvariantHolds, PTL DEF AnalysisSpec
<1> QED
  BY <1>3 DEF Unspoilt, DecisionsKept

LEMMA LongestPrefixIsKept == LongestPrefixKept
<1> SUFFICES ASSUME NEW n \in 0 .. 4, NEW counts \in [1 .. n -> 0 .. 3], NEW limit \in 0 .. 6
             PROVE  \A k \in 0 .. n : k <= Kept(counts, limit) <=> TotalOf(SubSeq(counts, 1, k)) <= limit
  BY DEF LongestPrefixKept
<1>1. counts \in Seq(Nat) /\ Len(counts) = n /\ limit \in Nat
  OBVIOUS
<1> QED BY <1>1, KeptIsLongestPrefix

\* What is kept of a prompt is the longest prefix within the budget.
THEOREM PrefixesKept == AnalysisSpec => []KeepsLongestPrefix
<1>1. KeepsLongestPrefix
  BY LongestPrefixIsKept DEF KeepsLongestPrefix
<1> QED
  BY <1>1, PTL

\* What LocalOK does not say: the job records, the count of faults, and that
\* there is one process for every task.
JobsTyped ==
  /\ jobs \in [Tasks -> JobStatus]
  /\ faults \in Nat
  /\ task = [t \in Tasks |-> task[t]]

LEMMA StepKeepsJobsTyped == JobsTyped /\ [AnalysisNext]_analysisVars => JobsTyped'
<1> SUFFICES ASSUME JobsTyped, [AnalysisNext]_analysisVars PROVE JobsTyped'
  OBVIOUS
<1>1. \A a, status : status \in JobStatus => [jobs EXCEPT ![a] = status] \in [Tasks -> JobStatus]
  BY DEF JobsTyped
<1>2. {"queued", "running", "completed", "failed"} \subseteq JobStatus /\ faults + 1 \in Nat
  BY DEF JobStatus, JobsTyped
<1>3. ASSUME NEW t \in Tasks,
             \/ Analyze(t) \/ Refuse(t) \/ RequestAnalysis(t) \/ ExecuteAnalysis(t)
             \/ DecideAnalysis(t)
      PROVE  JobsTyped'
  BY <1>1, <1>2, <1>3
     DEF JobsTyped, Analyze, Refuse, RequestAnalysis, ExecuteAnalysis, DecideAnalysis, Proceed
<1>4. ASSUME NEW t \in Tasks, Steps(t) PROVE JobsTyped'
  <2>1. CASE Retrieve(t) \/ ModelAnswers(t) \/ ScanRules(t) \/ ModelFails(t) \/ ModelMisleads(t)
             \/ DispatchEvents(t)
    BY <2>1 DEF JobsTyped, Retrieve, ModelAnswers, ScanRules, ModelFails, ModelMisleads,
                DispatchEvents, Proceed
  <2>2. CASE MarkRunning(t) \/ CommitTask(t) \/ SaveAnalysis(t) \/ MarkCompleted(t) \/ MarkFailed(t)
    BY <1>1, <1>2, <2>2
       DEF JobsTyped, MarkRunning, CommitTask, SaveAnalysis, MarkCompleted, MarkFailed
  <2> QED BY <1>4, <2>1, <2>2 DEF Steps
<1>5. ASSUME NEW t \in Tasks, CallFails(t) \/ Die(t) PROVE JobsTyped'
  BY <1>2, <1>5 DEF JobsTyped, CallFails, Die
<1> QED BY <1>3, <1>4, <1>5 DEF AnalysisNext, analysisVars, JobsTyped

\* Every variable keeps its type, for any tasks, answers, budgets and faults.
THEOREM AnalysesTyped == AnalysisSpec => []AnalysisTypeOK
<1>1. AnalysisInit => JobsTyped
  BY DEF AnalysisInit, JobsTyped, JobStatus
<1>2. Tasked \subseteq TaskRecords
  BY PromptsTyped DEF Tasked, TaskRecords
<1>3. ASSUME AnalysisInv, JobsTyped PROVE AnalysisTypeOK
  <2>1. \A t \in Tasks : task[t] \in TaskRecords
    BY <1>2, <1>3 DEF AnalysisInv, LocalsOK, LocalOK
  <2>2. task \in [Tasks -> TaskRecords]
    BY <1>3, <2>1 DEF JobsTyped
  <2> QED BY <1>3, <2>2 DEF AnalysisInv, LocalsOK, Functions, JobsTyped, AnalysisTypeOK
<1> QED
  BY <1>1, <1>3, StepKeepsJobsTyped, AnalysisInvariantHolds, PTL DEF AnalysisSpec
=============================================================================
