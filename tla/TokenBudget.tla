----------------------------- MODULE TokenBudget ----------------------------
(* What of a prompt's items fits a model: domain/ai/value_objects.py,        *)
(* domain/ai/services/token_optimizer.py and context_optimizer.py.  An item  *)
(* is known by its place and stands for its number of tokens.                *)
EXTENDS Naturals, Sequences, SequencesExt

\* A budget that TokenBudget and ContextWindow.require_fit accept.
Accepted(budget, capacity) ==
  /\ budget.maxInput > 0
  /\ budget.reserved < budget.maxInput
  /\ budget.maxInput <= capacity

AvailableForInput(budget) == budget.maxInput - budget.reserved

\* Fault: items that do not fit are skipped, and later ones still taken.
KeptAnywhere(counts, limit) ==
  LET Take(acc, n) == IF acc.total + n <= limit
                      THEN [acc EXCEPT !.kept = @ + 1, !.total = @ + n] ELSE acc
  IN  FoldLeft(Take, [kept |-> 0, total |-> 0, open |-> TRUE], counts).kept

\* TokenOptimizer.optimize: items are taken in their order of priority up to
\* the first that does not fit; the result is how many.
Kept(counts, limit) ==
  LET Take(acc, n) ==
        IF acc.open /\ acc.total + n <= limit
        THEN [acc EXCEPT !.kept = @ + 1, !.total = @ + n]
        ELSE [acc EXCEPT !.open = FALSE]
  IN  FoldLeft(Take, [kept |-> 0, total |-> 0, open |-> TRUE], counts).kept

TotalOf(counts) == FoldLeft(LAMBDA a, b : a + b, 0, counts)

\* ContextOptimizer.optimize of a transcript and quotes, as analysis_service
\* reads its result: the first item kept is the transcript, if any is.
Optimized(transcriptTokens, hits, tokensOf, budget) ==
  LET counts == <<transcriptTokens>> \o [i \in DOMAIN hits |-> tokensOf[hits[i]]]
      kept == Kept(counts, AvailableForInput(budget))
  IN  [transcript |-> kept > 0,
       evidence |-> SubSeq(hits, 1, IF kept > 0 THEN kept - 1 ELSE 0)]

\* What is kept is the longest prefix within the limit: exactly the shorter
\* prefixes fit.  Over lists of up to four small items.
LongestPrefixKept ==
  \A n \in 0 .. 4 : \A counts \in [1 .. n -> 0 .. 3], limit \in 0 .. 6, k \in 0 .. n :
    k <= Kept(counts, limit) <=> TotalOf(SubSeq(counts, 1, k)) <= limit
=============================================================================
