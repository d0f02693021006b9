----------------------------- MODULE MCRedline ------------------------------
(* Instances of RedlineRequests for TLC. *)
EXTENDS RedlineRequests, TLC

CONSTANTS j1, j2, c1, c2, c3, owner, editor, viewer, outsider

\* One job with every change, or two jobs that share them.
OneJob == [c \in Changes |-> j1]
TwoJobs == [c \in Changes |-> IF c = c3 THEN j2 ELSE j1]

MatterRole == [u \in Users |->
  CASE u = owner -> "owner"
    [] u = editor -> "editor"
    [] u = viewer -> "viewer"
    [] OTHER -> "none"]

\* Requests are interchangeable, and so are the changes of one job.
RequestSymmetry == Permutations(Requests)
ReviewSymmetry == Permutations(Requests) \union Permutations(Changes)
SplitSymmetry == Permutations(Requests) \union Permutations({c1, c2})

=============================================================================
