------------------------------ MODULE MCCorpus ------------------------------
(* Instances of CorpusIndex: one matter with its id and its number, another  *)
(* one known by its id alone, and a handle of no matter.                     *)
EXTENDS CorpusIndex, TLC

CONSTANTS id1, number1, id2, nobody, m1, m2, a, b

MCAllHandles == {id1, number1, id2}
MCMatterOf == id1 :> m1 @@ number1 :> m1 @@ id2 :> m2
MCIdOf == m1 :> id1 @@ m2 :> id2
MCNumberOf == m1 :> number1 @@ m2 :> id2

\* The first matter by its two handles, and a handle of no matter.
MCHandles1 == {id1, number1, nobody}
MCMatterOf1 == id1 :> m1 @@ number1 :> m1 @@ nobody :> NoMatter
MCIdOf1 == m1 :> id1
MCNumberOf1 == m1 :> number1

\* Its two handles alone.
MCHandles2 == {id1, number1}
MCMatterOf2 == id1 :> m1 @@ number1 :> m1

\* Documents that share their beginning; one repeats a chunk.
MCPairs == {<<a, a>>, <<a, b>>}
MCOne == {<<a, a>>}

Symmetry == Permutations(Indexers)
=============================================================================
