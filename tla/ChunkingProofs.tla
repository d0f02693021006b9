---------------------------- MODULE ChunkingProofs --------------------------
(***************************************************************************)
(* Proofs about Chunking, for texts and segments of any length, and any    *)
(* limit.  Every loop of the chunker is a fold, which FoldProofs is        *)
(* instantiated with, together with what is claimed of the loop; what the  *)
(* pieces of a text are when put together (FlattenSeq) is one of them.     *)
(***************************************************************************)
EXTENDS CorpusIndex, SequenceTheorems, TLAPS

-----------------------------------------------------------------------------
(* Putting sequences together *)

\* FlattenSeq as a loop; what it makes of sequences of members of p.set, and
\* of those after p.first.
Glue(p, whole, s) == whole \o s
Glued(p, whole, ss) ==
  /\ ss \in Seq(Seq(p.set))
  /\ whole \in Seq(p.set)
  /\ whole = FlattenSeq(ss)
  /\ FlattenSeq(p.first \o ss) = FlattenSeq(p.first) \o whole
Gluing == INSTANCE FoldProofs WITH Op <- Glue, Base <- <<>>, Inv <- Glued

\* The equation of the recursive function of FlattenSeq has one solution, the
\* loop over the first i sequences.
LEMMA FlattenIsLoop ==
  ASSUME NEW S, NEW ss \in Seq(Seq(S))
  PROVE  FlattenSeq(ss) = Gluing!Loop(0, ss)
<1> DEFINE n == Len(ss)
           Upto(i) == SubSeq(ss, 1, i)
           First(i) == Gluing!Loop(0, Upto(i))
           Next1(h, i) == IF i = 1 THEN ss[i] ELSE h[i - 1] \o ss[i]
           Solves(h) == h = [i \in 1 .. n |-> Next1(h, i)]
           h == CHOOSE h : Solves(h)
           f == [i \in 1 .. n |-> First(i)]
<1>1. n \in Nat /\ \A i \in 1 .. n : ss[i] \in Seq(S)
  BY LenProperties, ElementOfSeq
<1>2. \A i \in 0 .. n : Upto(i) \in Seq(Seq(S))
  BY <1>1, SubSeqProperties
<1>3. Upto(0) = <<>> /\ Upto(n) = ss
  BY SubSeqEmpty, SubSeqFull
<1>4. \A i \in 0 .. n - 1 : Upto(i + 1) = Append(Upto(i), ss[i + 1])
  <2> TAKE i \in 0 .. n - 1
  <2>1. Upto(i + 1) = Upto(i) \o <<ss[i + 1]>>
    BY <1>1, SubSeqRecursiveSecond
  <2> QED BY <1>1, <1>2, <2>1, AppendIsConcat
<1> HIDE DEF Upto, n
<1>5. First(0) = <<>>
  BY <1>3, Gluing!FoldEmpty
<1>6. ASSUME NEW i \in 0 .. n - 1 PROVE First(i + 1) = First(i) \o ss[i + 1]
  <2>1. Upto(i) \in Seq(Seq(S)) /\ ss[i + 1] \in Seq(S)
    BY <1>1, <1>2
  <2>2. Gluing!Loop(0, Append(Upto(i), ss[i + 1])) = Glue(0, Gluing!Loop(0, Upto(i)), ss[i + 1])
    BY <2>1, Gluing!FoldAppend
  <2> QED BY <1>4, <2>2 DEF Glue
<1> HIDE DEF First
<1>7. \A i \in 1 .. n : First(i) = IF i = 1 THEN ss[i] ELSE First(i - 1) \o ss[i]
  <2> TAKE i \in 1 .. n
  <2>1. i - 1 \in 0 .. n - 1 /\ i - 1 + 1 = i
    BY <1>1
  <2>2. First(i) = First(i - 1) \o ss[i]
    BY <1>6, <2>1
  <2>3. i = 1 => First(i - 1) \o ss[i] = ss[i]
    <3> SUFFICES ASSUME i = 1 PROVE First(0) \o ss[i] = ss[i]
      OBVIOUS
    <3> QED BY <1>1, <1>5, ConcatEmptySeq
  <2> QED BY <2>2, <2>3
<1>8. CASE n = 0
  <2>1. ss = <<>>
    BY <1>8, EmptySeq DEF n
  <2> QED BY <2>1, Gluing!FoldEmpty DEF FlattenSeq
<1>9. CASE n # 0
  <2>1. Solves(f)
    <3>1. \A i \in 1 .. n : First(i) = Next1(f, i)
      <4> TAKE i \in 1 .. n
      <4>1. i # 1 => f[i - 1] = First(i - 1)
        BY <1>1
      <4> QED BY <1>7, <4>1
    <3> HIDE DEF Next1
    <3> QED BY <3>1
  <2>2. Solves(h)
    BY <2>1
  <2> HIDE DEF h, f
  <2>3. \A i \in 1 .. n : h[i] = IF i = 1 THEN ss[i] ELSE h[i - 1] \o ss[i]
    BY <2>2
  <2> DEFINE G == {i \in Nat : i \in 1 .. n => h[i] = First(i)}
  <2>4. 0 \in G
    OBVIOUS
  <2>5. ASSUME NEW i \in G PROVE i + 1 \in G
    <3> SUFFICES ASSUME NEW j \in 1 .. n, j = i + 1 PROVE h[j] = First(j)
      OBVIOUS
    <3>1. i \in Nat /\ j - 1 = i
      OBVIOUS
    <3>2. h[j] = IF j = 1 THEN ss[j] ELSE h[i] \o ss[j]
      BY <2>3, <3>1
    <3>3. First(j) = IF j = 1 THEN ss[j] ELSE First(i) \o ss[j]
      BY <1>7, <3>1
    <3>4. j # 1 => h[i] = First(i)
      BY <1>1, <3>1
    <3> QED BY <3>2, <3>3, <3>4
  <2> HIDE DEF G
  <2>6. G = Nat
    <3>1. G \in SUBSET Nat
      BY DEF G
    <3> QED BY <2>4, <2>5, <3>1, Gluing!AllNumbers
  <2>7. h[n] = First(n)
    BY <1>1, <1>9, <2>6 DEF G
  <2>8. FlattenSeq(ss) = h[n]
    BY <1>9 DEF FlattenSeq, h, n
  <2> QED BY <1>3, <2>7, <2>8 DEF First
<1> QED BY <1>8, <1>9

LEMMA FlattenEmpty == FlattenSeq(<<>>) = <<>>
BY DEF FlattenSeq

LEMMA FlattenAppend ==
  ASSUME NEW S, NEW ss \in Seq(Seq(S)), NEW s \in Seq(S)
  PROVE  FlattenSeq(Append(ss, s)) = FlattenSeq(ss) \o s
<1>1. Append(ss, s) \in Seq(Seq(S))
  BY AppendProperties
<1>2. FlattenSeq(ss) = Gluing!Loop(0, ss) /\ FlattenSeq(Append(ss, s)) = Gluing!Loop(0, Append(ss, s))
  BY <1>1, FlattenIsLoop
<1>3. Gluing!Loop(0, Append(ss, s)) = Gluing!Loop(0, ss) \o s
  BY Gluing!FoldAppend DEF Glue
<1> QED BY <1>2, <1>3

\* What is put together is a sequence of what the sequences hold; and putting
\* together one list after another is putting together both.
LEMMA FlattenConcat ==
  ASSUME NEW S, NEW rr \in Seq(Seq(S)), NEW ss \in Seq(Seq(S))
  PROVE  /\ FlattenSeq(ss) \in Seq(S)
         /\ FlattenSeq(rr \o ss) = FlattenSeq(rr) \o FlattenSeq(ss)
<1> DEFINE Typed(tt) == FlattenSeq(tt) \in Seq(S)
<1>1. ASSUME NEW qq \in Seq(Seq(S)), Typed(qq), NEW tt \in Seq(Seq(S)) 
      PROVE  Glued([set |-> S, first |-> qq], FlattenSeq(tt), tt)
  <2> DEFINE p == [set |-> S, first |-> qq]
  <2>1. p.set = S /\ p.first = qq
    OBVIOUS
  <2> HIDE DEF p
  <2>2. Glued(p, <<>>, <<>>)
    <3>1. <<>> \in Seq(Seq(S)) /\ <<>> \in Seq(S) /\ qq \o <<>> = qq
          /\ FlattenSeq(qq) \o <<>> = FlattenSeq(qq)
      BY <1>1, EmptySeq, ConcatEmptySeq
    <3> QED BY <2>1, <3>1, FlattenEmpty DEF Glued
  <2>3. ASSUME NEW uu \in Seq(Seq(S)), NEW u \in Seq(S), NEW whole, Glued(p, whole, uu)
        PROVE  Glued(p, Glue(p, whole, u), Append(uu, u))
    <3>1. whole \in Seq(S) /\ whole = FlattenSeq(uu) /\ FlattenSeq(qq \o uu) = FlattenSeq(qq) \o whole
      BY <2>1, <2>3 DEF Glued
    <3>2. Append(uu, u) \in Seq(Seq(S)) /\ whole \o u \in Seq(S)
      BY <3>1, AppendProperties, ConcatProperties
    <3>3. FlattenSeq(Append(uu, u)) = whole \o u
      BY <3>1, FlattenAppend
    <3>4. qq \o Append(uu, u) = Append(qq \o uu, u) /\ qq \o uu \in Seq(Seq(S))
      <4>1. <<u>> \in Seq(Seq(S))
        OBVIOUS
      <4>2. qq \o (uu \o <<u>>) = (qq \o uu) \o <<u>>
        BY SMTT(30), <1>1, <4>1, ConcatAssociative
      <4>3. qq \o uu \in Seq(Seq(S))
        BY <1>1, ConcatProperties
      <4> QED BY <4>2, <4>3, AppendIsConcat
    <3>5. FlattenSeq(qq \o Append(uu, u)) = FlattenSeq(qq \o uu) \o u
      BY <3>4, FlattenAppend
    <3>6. (FlattenSeq(qq) \o whole) \o u = FlattenSeq(qq) \o (whole \o u)
      <4>1. \A a, b, c \in Seq(S) : (a \o b) \o c = a \o (b \o c)
        BY SMTT(30), ConcatAssociative
      <4> HIDE DEF p
      <4> QED BY <1>1, <3>1, <4>1
    <3> QED BY <2>1, <3>1, <3>2, <3>3, <3>5, <3>6 DEF Glued, Glue
  <2>4. Glued(p, Gluing!Loop(p, tt), tt)
    BY <2>2, <2>3, Gluing!FoldInduction
  <2>5. Gluing!Loop(p, tt) = FlattenSeq(tt)
    BY <2>4 DEF Glued
  <2> QED BY <2>4, <2>5 DEF p
<1>2. Typed(<<>>) /\ <<>> \in Seq(Seq(S))
  <2>1. <<>> \in Seq(S) /\ <<>> \in Seq(Seq(S))
    OBVIOUS
  <2> QED BY <2>1, FlattenEmpty
<1>3. \A tt \in Seq(Seq(S)) : Typed(tt)
  BY <1>1, <1>2 DEF Glued
<1> QED BY <1>1, <1>3 DEF Glued

-----------------------------------------------------------------------------
(* Sentences *)

\* The loop of Sentences, and what it has cut off after some words, which are
\* members of S: whole sentences, and words none of which ends one.
TakeWord(S, acc, word) ==
  IF word.ends THEN [done |-> Append(acc.done, Append(acc.open, word)), open |-> <<>>]
               ELSE [acc EXCEPT !.open = Append(@, word)]
NoSentence == [done |-> <<>>, open |-> <<>>]

Unended(s) == \A j \in 1 .. Len(s) : ~ s[j].ends
IsSentence(s) == s # <<>> /\ \A j \in 1 .. Len(s) - 1 : ~ s[j].ends
IsEnded(s) == IsSentence(s) /\ s[Len(s)].ends

CutUp(S, acc, text) ==
  /\ text \in Seq(S)
  /\ acc = [done |-> acc.done, open |-> acc.open]
  /\ acc.done \in Seq(Seq(S)) /\ acc.open \in Seq(S)
  /\ FlattenSeq(acc.done) \o acc.open = text
  /\ \A i \in 1 .. Len(acc.done) : IsEnded(acc.done[i])
  /\ Unended(acc.open)
Cutting == INSTANCE FoldProofs WITH Op <- TakeWord, Base <- NoSentence, Inv <- CutUp

LEMMA SentencesIsLoop ==
  \A S, text :
    LET all == Cutting!Loop(S, text)
    IN  Sentences(text) = IF all.open = <<>> THEN all.done ELSE Append(all.done, all.open)
BY DEF Cutting!Loop, Sentences, TakeWord, NoSentence, FoldLeft, Cutting!FoldLeft, MapThenFoldSet,
       Cutting!MapThenFoldSet, Max, Cutting!Max

\* One more word, which ends a sentence or not, keeps what is claimed.
LEMMA CutUpStep ==
  ASSUME NEW S, NEW acc, NEW text \in Seq(S), NEW word \in S, CutUp(S, acc, text)
  PROVE  CutUp(S, TakeWord(S, acc, word), Append(text, word))
<1> DEFINE done == acc.done
           open == acc.open
           more == Append(open, word)
<1>1. /\ done \in Seq(Seq(S)) /\ open \in Seq(S) /\ FlattenSeq(done) \in Seq(S)
      /\ FlattenSeq(done) \o open = text
      /\ \A i \in 1 .. Len(done) : IsEnded(done[i])
      /\ Unended(open)
      /\ acc = [done |-> done, open |-> open]
  BY FlattenConcat DEF CutUp
<1> HIDE DEF done, open
<1>2. /\ more \in Seq(S) /\ Len(more) = Len(open) + 1 /\ Len(open) \in Nat
      /\ \A i \in 1 .. Len(open) : more[i] = open[i]
      /\ more[Len(open) + 1] = word
  BY <1>1
<1>3. Append(text, word) \in Seq(S) /\ FlattenSeq(done) \o more = Append(text, word)
  <2>1. \A s, t \in Seq(S) : s \o Append(t, word) = Append(s \o t, word)
    OBVIOUS
  <2>2. FlattenSeq(done) \o more = Append(FlattenSeq(done) \o open, word)
    BY <1>1, <2>1, Zenon
  <2> QED BY <1>1, <2>2
<1> HIDE DEF more
<1>4. CASE word.ends
  <2>1. TakeWord(S, acc, word) = [done |-> Append(done, more), open |-> <<>>]
    BY <1>1, <1>4 DEF TakeWord, done, open, more
  <2>2. IsEnded(more)
    <3>1. more # <<>>
      BY <1>2
    <3>2. \A j \in 1 .. Len(more) - 1 : ~ more[j].ends
      BY <1>1, <1>2 DEF Unended
    <3>3. more[Len(more)].ends
      BY <1>2, <1>4
    <3> QED BY <3>1, <3>2, <3>3 DEF IsEnded, IsSentence
  <2>3. Append(done, more) \in Seq(Seq(S)) /\ <<>> \in Seq(S) /\ Unended(<<>>)
        /\ \A i \in 1 .. Len(Append(done, more)) : IsEnded(Append(done, more)[i])
    <3>1. Append(done, more) \in Seq(Seq(S)) /\ <<>> \in Seq(S) /\ Unended(<<>>)
      BY <1>1, <1>2 DEF Unended
    <3>2. /\ Len(Append(done, more)) = Len(done) + 1 /\ Len(done) \in Nat
          /\ Append(done, more)[Len(done) + 1] = more
          /\ \A i \in 1 .. Len(done) : Append(done, more)[i] = done[i]
      BY <1>1, <1>2, AppendProperties, LenProperties
    <3>3. ASSUME NEW i \in 1 .. Len(done) + 1 PROVE IsEnded(Append(done, more)[i])
      <4>1. CASE i = Len(done) + 1
        BY <2>2, <3>2, <4>1
      <4>2. CASE i \in 1 .. Len(done)
        BY <1>1, <3>2, <4>2
      <4> QED BY <3>2, <4>1, <4>2
    <3> QED BY <3>1, <3>2, <3>3
  <2>4. FlattenSeq(Append(done, more)) \o <<>> = Append(text, word)
    <3>1. FlattenSeq(Append(done, more)) = FlattenSeq(done) \o more
      BY <1>1, <1>2, FlattenAppend
    <3>2. (FlattenSeq(done) \o more) \o <<>> = FlattenSeq(done) \o more
      BY <1>1, <1>2, ConcatProperties, ConcatEmptySeq
    <3> QED BY <1>3, <3>1, <3>2
  <2>5. /\ TakeWord(S, acc, word).done = Append(done, more)
        /\ TakeWord(S, acc, word).open = <<>>
    BY <2>1
  <2> QED BY <1>3, <2>1, <2>3, <2>4, <2>5 DEF CutUp
<1>5. CASE ~ word.ends
  <2>1. TakeWord(S, acc, word) = [done |-> done, open |-> more]
    <3>1. TakeWord(S, acc, word) = [acc EXCEPT !.open = more]
      BY <1>5 DEF TakeWord, open, more
    <3> QED BY <1>1, <3>1
  <2>2. Unended(more)
    <3>1. ASSUME NEW j \in 1 .. Len(more) PROVE ~ more[j].ends
      <4>1. CASE j = Len(open) + 1
        BY <1>2, <1>5, <4>1
      <4>2. CASE j \in 1 .. Len(open)
        BY <1>1, <1>2, <4>2 DEF Unended
      <4> QED BY <1>2, <4>1, <4>2
    <3> QED BY <3>1 DEF Unended
  <2>3. /\ TakeWord(S, acc, word).done = done
        /\ TakeWord(S, acc, word).open = more
    BY <2>1
  <2> QED BY <1>1, <1>2, <1>3, <2>1, <2>2, <2>3 DEF CutUp
<1> QED BY <1>4, <1>5

\* The sentences of a text are the text again when put together; every one ends
\* with the first word in it that ends a sentence, but for the last, which may
\* have none.
THEOREM SentencesCutText ==
  ASSUME NEW S, NEW text \in Seq(S)
  PROVE  LET ss == Sentences(text) IN
         /\ ss \in Seq(Seq(S))
         /\ FlattenSeq(ss) = text
         /\ \A i \in 1 .. Len(ss) : IsSentence(ss[i]) /\ (i < Len(ss) => IsEnded(ss[i]))
<1> DEFINE all == Cutting!Loop(S, text)
<1>1. CutUp(S, NoSentence, <<>>)
  <2>1. NoSentence.done = <<>> /\ NoSentence.open = <<>> /\ <<>> \in Seq(S) /\ <<>> \in Seq(Seq(S))
    BY DEF NoSentence
  <2>2. NoSentence = [done |-> NoSentence.done, open |-> NoSentence.open]
    BY DEF NoSentence
  <2>3. <<>> \o <<>> = <<>> /\ Len(<<>>) = 0
    BY <2>1, ConcatEmptySeq
  <2> QED BY <2>1, <2>2, <2>3, FlattenEmpty DEF CutUp, Unended
<1>2. CutUp(S, all, text)
  BY <1>1, CutUpStep, Cutting!FoldInduction
<1> HIDE DEF all
<1>3. CASE all.open = <<>>
  <2>1. Sentences(text) = all.done
    BY <1>3, SentencesIsLoop DEF all
  <2>2. FlattenSeq(all.done) = text
    <3>1. FlattenSeq(all.done) \o <<>> = FlattenSeq(all.done)
      BY <1>2, FlattenConcat, ConcatEmptySeq DEF CutUp
    <3> QED BY <1>2, <1>3, <3>1 DEF CutUp
  <2> QED BY <1>2, <2>1, <2>2 DEF CutUp, IsEnded
<1>4. CASE all.open # <<>>
  <2> DEFINE ss == Append(all.done, all.open)
  <2>1. Sentences(text) = ss
    BY <1>4, SentencesIsLoop DEF all
  <2>2. /\ ss \in Seq(Seq(S)) /\ Len(ss) = Len(all.done) + 1 /\ Len(all.done) \in Nat
        /\ ss[Len(all.done) + 1] = all.open
        /\ \A i \in 1 .. Len(all.done) : ss[i] = all.done[i]
    BY <1>2, AppendProperties, LenProperties DEF CutUp
  <2>3. FlattenSeq(ss) = text
    BY <1>2, FlattenAppend DEF CutUp
  <2>4. IsSentence(all.open)
    BY <1>2, <1>4 DEF CutUp, Unended, IsSentence
  <2> HIDE DEF ss
  <2>5. ASSUME NEW i \in 1 .. Len(ss) PROVE IsSentence(ss[i]) /\ (i < Len(ss) => IsEnded(ss[i]))
    <3>1. CASE i = Len(ss)
      BY <2>2, <2>4, <3>1
    <3>2. CASE i \in 1 .. Len(all.done)
      BY <1>2, <2>2, <3>2 DEF CutUp, IsEnded
    <3> QED BY <2>2, <3>1, <3>2
  <2> QED BY <2>1, <2>2, <2>3, <2>5
<1> QED BY <1>3, <1>4


-----------------------------------------------------------------------------
(* Packing sentences *)

\* A chunk is the sentences a .. b, and only one if it is above the limit.
Spans(max, ss, chunk, a, b) ==
  /\ a \in 1 .. Len(ss) /\ b \in 1 .. Len(ss) /\ a <= b
  /\ chunk = FlattenSeq(SubSeq(ss, a, b))
  /\ Len(chunk) > max => a = b

\* A chunk that has no room for the sentence that follows it.
Settled(max, ss, chunk) ==
  \E a, b \in 1 .. Len(ss) :
    Spans(max, ss, chunk, a, b) /\ b < Len(ss) /\ Len(chunk) + Len(ss[b + 1]) > max

\* A sentence that is above the limit by itself.
Lone(max, ss, chunk) ==
  Len(chunk) > max /\ \E a, b \in 1 .. Len(ss) : Spans(max, ss, chunk, a, b)

\* The loop of SplitAtSentenceBoundaries, over sentences of members of p.set:
\* every chunk is settled, but for one above the limit when nothing follows it
\* yet; what is collected goes up to the last sentence, and is counted.
PackNext(p, acc, sentence) == Pack(p.max, acc, sentence)
Unpacked == [chunks |-> <<>>, current |-> <<>>, count |-> 0]
Packed(p, acc, ss) ==
  /\ ss \in Seq(Seq(p.set) \ {<<>>})
  /\ acc = [chunks |-> acc.chunks, current |-> acc.current, count |-> acc.count]
  /\ acc.chunks \in Seq(Seq(p.set)) /\ acc.current \in Seq(p.set)
  /\ acc.count = Len(acc.current) /\ acc.count <= p.max
  /\ FlattenSeq(acc.chunks) \o acc.current = FlattenSeq(ss)
  /\ \A i \in 1 .. Len(acc.chunks) :
       \/ Settled(p.max, ss, acc.chunks[i])
       \/ i = Len(acc.chunks) /\ acc.current = <<>> /\ Lone(p.max, ss, acc.chunks[i])
  /\ acc.current # <<>> => \E a \in 1 .. Len(ss) : Spans(p.max, ss, acc.current, a, Len(ss))
Packing == INSTANCE FoldProofs WITH Op <- PackNext, Base <- Unpacked, Inv <- Packed

LEMMA SplitIsLoop ==
  \A S, max, text : text # <<>> =>
    SplitAtSentenceBoundaries(max, text) =
      Flushed(Packing!Loop([max |-> max, set |-> S], Sentences(text)))
<1> TAKE S, max, text
<1> DEFINE p == [max |-> max, set |-> S]
<1>1. p.max = max
  OBVIOUS
<1> HIDE DEF p
<1>2. Packing!Loop(p, Sentences(text)) =
        FoldLeft(LAMBDA acc, sentence : Pack(max, acc, sentence), Unpacked, Sentences(text))
  BY <1>1 DEF Packing!Loop, PackNext, FoldLeft, Packing!FoldLeft, MapThenFoldSet,
              Packing!MapThenFoldSet, Max, Packing!Max
<1> QED BY <1>2 DEF p, SplitAtSentenceBoundaries, Unpacked

\* Where sentences are, after one more.
LEMMA SpansStay ==
  ASSUME NEW S, NEW max \in Nat, NEW ss \in Seq(Seq(S)), NEW x \in Seq(S), NEW chunk, NEW a, NEW b,
         Spans(max, ss, chunk, a, b)
  PROVE  /\ Spans(max, Append(ss, x), chunk, a, b)
         /\ b < Len(Append(ss, x))
         /\ Append(ss, x)[b + 1] = IF b < Len(ss) THEN ss[b + 1] ELSE x
<1> DEFINE more == Append(ss, x)
<1>1. /\ Len(ss) \in Nat /\ Len(more) = Len(ss) + 1 /\ more[Len(ss) + 1] = x
      /\ \A i \in 1 .. Len(ss) : more[i] = ss[i]
  BY AppendProperties, LenProperties
<1>2. a \in 1 .. Len(ss) /\ b \in 1 .. Len(ss)
  BY DEF Spans
<1>3. SubSeq(more, a, b) = SubSeq(ss, a, b)
  BY <1>2
<1> HIDE DEF more
<1>4. Spans(max, more, chunk, a, b)
  BY <1>1, <1>2, <1>3 DEF Spans
<1>5. b < Len(more) /\ more[b + 1] = IF b < Len(ss) THEN ss[b + 1] ELSE x
  <2>1. CASE b < Len(ss)
    <3>1. b + 1 \in 1 .. Len(ss)
      BY <1>1, <1>2, <2>1
    <3> QED BY <1>1, <1>2, <2>1, <3>1
  <2>2. CASE b = Len(ss)
    BY <1>1, <2>2
  <2> QED BY <1>1, <1>2, <2>1, <2>2
<1> QED BY <1>4, <1>5 DEF more

LEMMA SettledStays ==
  ASSUME NEW S, NEW max \in Nat, NEW ss \in Seq(Seq(S)), NEW x \in Seq(S), NEW chunk \in Seq(S),
         Settled(max, ss, chunk) \/ Lone(max, ss, chunk)
  PROVE  Settled(max, Append(ss, x), chunk)
<1> DEFINE more == Append(ss, x)
<1>1. /\ Len(ss) \in Nat /\ Len(more) = Len(ss) + 1 /\ Len(chunk) \in Nat /\ Len(x) \in Nat
      /\ \A i \in 1 .. Len(ss) : Len(ss[i]) \in Nat
  BY AppendProperties, LenProperties, ElementOfSeq
<1>2. PICK a, b \in 1 .. Len(ss) :
        /\ Spans(max, ss, chunk, a, b)
        /\ Len(chunk) > max \/ (b < Len(ss) /\ Len(chunk) + Len(ss[b + 1]) > max)
  BY DEF Settled, Lone
<1>3. /\ Spans(max, more, chunk, a, b) /\ b < Len(more)
      /\ more[b + 1] = IF b < Len(ss) THEN ss[b + 1] ELSE x
  BY <1>2, SpansStay
<1> HIDE DEF more
<1>4. Len(chunk) + Len(more[b + 1]) > max
  <2>1. CASE b < Len(ss)
    <3>1. b + 1 \in 1 .. Len(ss)
      BY <1>1, <2>1
    <3>2. Len(ss[b + 1]) \in Nat
      BY <1>1, <3>1
    <3> QED BY <1>1, <1>2, <1>3, <2>1, <3>2
  <2>2. CASE ~ (b < Len(ss))
    BY <1>1, <1>2, <1>3, <2>2
  <2> QED BY <2>1, <2>2
<1>5. a \in 1 .. Len(more) /\ b \in 1 .. Len(more)
  BY <1>1
<1> QED BY <1>3, <1>4, <1>5 DEF Settled, more

\* What is collected is a chunk that is settled by a sentence that does not fit.
LEMMA CollectedSettles ==
  ASSUME NEW S, NEW max \in Nat, NEW ss \in Seq(Seq(S)), NEW x \in Seq(S), NEW current \in Seq(S),
         NEW a \in 1 .. Len(ss), Spans(max, ss, current, a, Len(ss)), Len(current) + Len(x) > max
  PROVE  Settled(max, Append(ss, x), current)
<1> DEFINE more == Append(ss, x)
           b == Len(ss)
<1>1. Len(ss) \in Nat /\ Len(more) = Len(ss) + 1
  BY AppendProperties, LenProperties
<1>2. Spans(max, more, current, a, b) /\ b < Len(more) /\ more[b + 1] = x
  BY <1>1, SpansStay
<1>3. a \in 1 .. Len(more) /\ b \in 1 .. Len(more)
  BY <1>1
<1> HIDE DEF more, b
<1> QED BY <1>2, <1>3 DEF Settled, more

\* A sentence is the sentences from itself to itself.
LEMMA SentenceSpans ==
  ASSUME NEW S, NEW max \in Nat, NEW ss \in Seq(Seq(S)), NEW x \in Seq(S)
  PROVE  LET n == Len(Append(ss, x)) IN
         n \in 1 .. n /\ Spans(max, Append(ss, x), x, n, n)
<1> DEFINE more == Append(ss, x)
           n == Len(more)
<1>1. more \in Seq(Seq(S)) /\ n = Len(ss) + 1 /\ Len(ss) \in Nat /\ more[n] = x
  BY AppendProperties, LenProperties
<1>2. SubSeq(more, n, n) = Append(<<>>, x)
  <2>1. n \in 1 .. Len(more) /\ n \in n .. Len(more)
    BY <1>1
  <2> HIDE DEF more, n
  <2>2. SubSeq(more, n, n) = SubSeq(more, n, n - 1) \o <<more[n]>>
    BY <1>1, <2>1, SubSeqRecursiveSecond
  <2>3. SubSeq(more, n, n - 1) = <<>>
    BY <1>1, SubSeqEmpty
  <2>4. <<>> \o <<x>> = Append(<<>>, x)
    OBVIOUS
  <2> QED BY <1>1, <2>2, <2>3, <2>4, Zenon
<1>3. FlattenSeq(Append(<<>>, x)) = <<>> \o x
  <2>1. <<>> \in Seq(Seq(S))
    OBVIOUS
  <2> QED BY <2>1, FlattenAppend, FlattenEmpty
<1>4. <<>> \o x = x
  BY ConcatEmptySeq
<1> HIDE DEF more, n
<1>5. n \in 1 .. n /\ x = FlattenSeq(SubSeq(more, n, n))
  <2>1. x = FlattenSeq(SubSeq(more, n, n))
    BY <1>2, <1>3, <1>4, Zenon
  <2> QED BY <1>1, <2>1
<1>6. Spans(max, more, x, n, n)
  BY <1>1, <1>5 DEF Spans, n
<1> QED BY <1>5, <1>6 DEF more, n

\* With a sentence that fits, what is collected goes one sentence further.
LEMMA CollectedGrows ==
  ASSUME NEW S, NEW max \in Nat, NEW ss \in Seq(Seq(S)), NEW x \in Seq(S), NEW current \in Seq(S),
         NEW a \in 1 .. Len(ss), Spans(max, ss, current, a, Len(ss)), Len(current) + Len(x) <= max
  PROVE  LET n == Len(Append(ss, x)) IN
         a \in 1 .. n /\ Spans(max, Append(ss, x), current \o x, a, n)
<1> DEFINE more == Append(ss, x)
           n == Len(more)
           part == SubSeq(ss, a, Len(ss))
<1>1. more \in Seq(Seq(S)) /\ n = Len(ss) + 1 /\ Len(ss) \in Nat /\ a \in 1 .. n
  BY AppendProperties, LenProperties
<1>2. part \in Seq(Seq(S)) /\ SubSeq(more, a, n) = Append(part, x)
  <2>1. SubSeq(more, a, Len(ss)) = part /\ part \in Seq(Seq(S)) /\ more[n] = x
    BY <1>1
  <2>2. n \in a .. Len(more)
    BY <1>1
  <2> HIDE DEF more, n, part
  <2>3. SubSeq(more, a, n) = SubSeq(more, a, n - 1) \o <<more[n]>>
    BY <1>1, <2>2, SubSeqRecursiveSecond DEF n
  <2>4. n - 1 = Len(ss)
    BY <1>1
  <2> QED BY <2>1, <2>3, <2>4, AppendIsConcat
<1>3. current = FlattenSeq(part)
  BY DEF Spans
<1>4. FlattenSeq(Append(part, x)) = FlattenSeq(part) \o x
  BY <1>2, FlattenAppend
<1>5. Len(current \o x) <= max
  BY ConcatProperties
<1> HIDE DEF more, n, part
<1>6. current \o x = FlattenSeq(SubSeq(more, a, n))
  BY <1>2, <1>3, <1>4
<1>7. Len(current \o x) \in Nat
  BY ConcatProperties, LenProperties
<1>8. Spans(max, more, current \o x, a, n)
  BY <1>1, <1>5, <1>6, <1>7 DEF Spans, n
<1> QED BY <1>1, <1>8 DEF more, n


\* The chunks that are closed are settled by whatever sentence comes next.
LEMMA ClosedSettle ==
  ASSUME NEW p, p.max \in Nat, NEW acc, NEW ss, NEW x \in Seq(p.set), Packed(p, acc, ss)
  PROVE  \A i \in 1 .. Len(acc.chunks) : Settled(p.max, Append(ss, x), acc.chunks[i])
<1> TAKE i \in 1 .. Len(acc.chunks)
<1>1. ss \in Seq(Seq(p.set)) /\ acc.chunks[i] \in Seq(p.set)
  <2>1. ss \in Seq(Seq(p.set) \ {<<>>}) /\ acc.chunks \in Seq(Seq(p.set))
    BY DEF Packed
  <2>2. (Seq(p.set) \ {<<>>}) \subseteq Seq(p.set)
    OBVIOUS
  <2> QED BY <2>1, <2>2, SeqMonotonic, ElementOfSeq
<1>2. Settled(p.max, ss, acc.chunks[i]) \/ Lone(p.max, ss, acc.chunks[i])
  BY DEF Packed
<1> QED BY <1>1, <1>2, SettledStays

\* So is what is collected, if that sentence does not join it.
LEMMA FlushedSettle ==
  ASSUME NEW p, p.max \in Nat, NEW acc, NEW ss, NEW x \in Seq(p.set), Packed(p, acc, ss),
         acc.current = <<>> \/ Len(acc.current) + Len(x) > p.max
  PROVE  /\ Flushed(acc) \in Seq(Seq(p.set))
         /\ FlattenSeq(Flushed(acc)) = FlattenSeq(ss)
         /\ \A i \in 1 .. Len(Flushed(acc)) : Settled(p.max, Append(ss, x), Flushed(acc)[i])
<1> DEFINE chunks == acc.chunks
           current == acc.current
<1>1. /\ chunks \in Seq(Seq(p.set)) /\ current \in Seq(p.set) /\ ss \in Seq(Seq(p.set))
      /\ FlattenSeq(chunks) \o current = FlattenSeq(ss)
  <2>1. (Seq(p.set) \ {<<>>}) \subseteq Seq(p.set)
    OBVIOUS
  <2> QED BY <2>1, SeqMonotonic DEF Packed
<1>2. \A i \in 1 .. Len(chunks) : Settled(p.max, Append(ss, x), chunks[i])
  BY ClosedSettle
<1>3. CASE current = <<>>
  <2>1. Flushed(acc) = chunks
    BY <1>3 DEF Flushed
  <2>2. FlattenSeq(chunks) = FlattenSeq(ss)
    <3>1. FlattenSeq(chunks) \o <<>> = FlattenSeq(chunks)
      BY <1>1, FlattenConcat, ConcatEmptySeq
    <3> QED BY <1>1, <1>3, <3>1
  <2> QED BY <1>1, <1>2, <2>1, <2>2
<1>4. CASE current # <<>>
  <2> DEFINE more == Append(chunks, current)
  <2>1. Flushed(acc) = more
    BY <1>4 DEF Flushed
  <2>2. /\ more \in Seq(Seq(p.set)) /\ Len(more) = Len(chunks) + 1 /\ Len(chunks) \in Nat
        /\ more[Len(chunks) + 1] = current
        /\ \A i \in 1 .. Len(chunks) : more[i] = chunks[i]
    <3>1. chunks \in Seq(Seq(p.set)) /\ current \in Seq(p.set)
      BY <1>1
    <3> HIDE DEF chunks, current
    <3> QED BY <3>1, AppendProperties, LenProperties
  <2>3. FlattenSeq(more) = FlattenSeq(ss)
    <3>1. FlattenSeq(more) = FlattenSeq(chunks) \o current
      BY <1>1, FlattenAppend
    <3> QED BY <1>1, <3>1
  <2>4. Settled(p.max, Append(ss, x), current)
    <3>1. PICK a \in 1 .. Len(ss) : Spans(p.max, ss, current, a, Len(ss))
      BY <1>4 DEF Packed
    <3> QED BY <1>1, <1>4, <3>1, CollectedSettles
  <2> HIDE DEF more, chunks, current
  <2>5. ASSUME NEW i \in 1 .. Len(more) PROVE Settled(p.max, Append(ss, x), more[i])
    <3>1. CASE i = Len(chunks) + 1
      BY <2>2, <2>4, <3>1
    <3>2. CASE i \in 1 .. Len(chunks)
      BY <1>2, <2>2, <3>2
    <3> QED BY <2>2, <3>1, <3>2
  <2> QED BY <2>1, <2>2, <2>3, <2>5
<1> QED BY <1>3, <1>4

\* One more sentence keeps what is claimed, whether it is above the limit, does
\* not fit what is collected, or joins it.
LEMMA PackedStep ==
  ASSUME NEW p, p.max \in Nat, NEW acc, NEW ss \in Seq(Seq(p.set) \ {<<>>}),
         NEW x \in Seq(p.set) \ {<<>>}, Packed(p, acc, ss)
  PROVE  Packed(p, PackNext(p, acc, x), Append(ss, x))
<1> DEFINE more == Append(ss, x)
           n == Len(more)
           chunks == acc.chunks
           current == acc.current
           closed == Flushed(acc)
<1>1. /\ chunks \in Seq(Seq(p.set)) /\ current \in Seq(p.set)
      /\ Len(current) \in Nat /\ Len(x) \in Nat /\ Len(x) > 0
      /\ acc.count = Len(current) /\ acc.count <= p.max
      /\ FlattenSeq(chunks) \o current = FlattenSeq(ss)
      /\ acc = [chunks |-> chunks, current |-> current, count |-> acc.count]
      /\ current = <<>> <=> Len(current) = 0
  BY LenProperties, EmptySeq DEF Packed
<1>2. ss \in Seq(Seq(p.set)) /\ x \in Seq(p.set)
  <2>1. (Seq(p.set) \ {<<>>}) \subseteq Seq(p.set)
    OBVIOUS
  <2> QED BY <2>1, SeqMonotonic
<1>3. more \in Seq(Seq(p.set) \ {<<>>}) /\ FlattenSeq(more) = FlattenSeq(ss) \o x
  BY <1>2, FlattenAppend, AppendProperties
<1>4. n \in 1 .. n /\ Spans(p.max, more, x, n, n)
  BY <1>2, SentenceSpans
<1>5. acc.current = <<>> \/ Len(acc.current) + Len(x) > p.max =>
        /\ closed \in Seq(Seq(p.set))
        /\ FlattenSeq(closed) = FlattenSeq(ss)
        /\ \A i \in 1 .. Len(closed) : Settled(p.max, more, closed[i])
  BY <1>2, FlushedSettle
<1> HIDE DEF more, n, closed
<1>6. CASE Len(x) > p.max
  <2> DEFINE all == Append(closed, x)
             count == IF current = <<>> THEN acc.count ELSE 0
  <2>1. PackNext(p, acc, x) = [chunks |-> all, current |-> <<>>, count |-> count]
    BY <1>6 DEF PackNext, Pack, Tokens, closed
  <2>2. closed \in Seq(Seq(p.set)) /\ FlattenSeq(closed) = FlattenSeq(ss)
        /\ \A i \in 1 .. Len(closed) : Settled(p.max, more, closed[i])
    BY <1>1, <1>5, <1>6
  <2>3. /\ all \in Seq(Seq(p.set)) /\ Len(all) = Len(closed) + 1 /\ Len(closed) \in Nat
        /\ all[Len(closed) + 1] = x
        /\ \A i \in 1 .. Len(closed) : all[i] = closed[i]
    BY <1>2, <2>2, AppendProperties, LenProperties
  <2>4. count = 0 /\ count <= p.max /\ Len(<<>>) = 0 /\ <<>> \in Seq(p.set)
    BY <1>1
  <2>5. FlattenSeq(all) \o <<>> = FlattenSeq(more)
    <3>1. FlattenSeq(all) = FlattenSeq(ss) \o x
      BY <1>2, <2>2, FlattenAppend
    <3>2. FlattenSeq(more) \o <<>> = FlattenSeq(more)
      <4>1. FlattenSeq(more) \in Seq(p.set)
        BY <1>2, FlattenConcat, AppendProperties DEF more
      <4> QED BY <4>1, ConcatEmptySeq
    <3> QED BY <1>3, <3>1, <3>2
  <2>6. Lone(p.max, more, x)
    BY <1>4, <1>6 DEF Lone, n
  <2> HIDE DEF all, count
  <2>7. ASSUME NEW i \in 1 .. Len(all)
        PROVE  Settled(p.max, more, all[i]) \/ (i = Len(all) /\ Lone(p.max, more, all[i]))
    <3>1. CASE i = Len(closed) + 1
      BY <2>3, <2>6, <3>1
    <3>2. CASE i \in 1 .. Len(closed)
      BY <2>2, <2>3, <3>2
    <3> QED BY <2>3, <3>1, <3>2
  <2>8. /\ PackNext(p, acc, x).chunks = all /\ PackNext(p, acc, x).current = <<>>
        /\ PackNext(p, acc, x).count = count
    BY <2>1
  <2>9. Packed(p, PackNext(p, acc, x), more)
    BY <1>3, <2>1, <2>3, <2>4, <2>5, <2>7, <2>8 DEF Packed
  <2> QED BY <2>9 DEF more
<1>7. CASE ~ (Len(x) > p.max) /\ acc.count + Len(x) > p.max /\ current # <<>>
  <2>1. PackNext(p, acc, x) = [chunks |-> closed, current |-> x, count |-> Len(x)]
    BY <1>7 DEF PackNext, Pack, Tokens, closed
  <2>2. closed \in Seq(Seq(p.set)) /\ FlattenSeq(closed) = FlattenSeq(ss)
        /\ \A i \in 1 .. Len(closed) : Settled(p.max, more, closed[i])
    BY <1>1, <1>5, <1>7
  <2>3. Len(x) <= p.max
    BY <1>1, <1>7
  <2>4. /\ PackNext(p, acc, x).chunks = closed /\ PackNext(p, acc, x).current = x
        /\ PackNext(p, acc, x).count = Len(x)
    BY <2>1
  <2>5. FlattenSeq(closed) \o x = FlattenSeq(more)
    BY <1>3, <2>2
  <2>6. \E a \in 1 .. n : Spans(p.max, more, x, a, n)
    BY <1>4
  <2>7. Packed(p, PackNext(p, acc, x), more)
    BY <1>2, <1>3, <2>1, <2>2, <2>3, <2>4, <2>5, <2>6 DEF Packed, n
  <2> QED BY <2>7 DEF more
<1>8. CASE ~ (Len(x) > p.max) /\ ~ (acc.count + Len(x) > p.max /\ current # <<>>)
  <2> DEFINE joined == current \o x
             count == acc.count + Len(x)
  <2>1. PackNext(p, acc, x) = [chunks |-> chunks, current |-> joined, count |-> count]
    <3>1. PackNext(p, acc, x) = [acc EXCEPT !.current = joined, !.count = count]
      BY <1>8 DEF PackNext, Pack, Tokens
    <3> HIDE DEF joined, count, chunks, current
    <3>2. PICK c : acc = [chunks |-> chunks, current |-> current, count |-> c]
      BY <1>1
    <3>3. [acc EXCEPT !.current = joined, !.count = count]
            = [chunks |-> chunks, current |-> joined, count |-> count]
      <4>1. [acc EXCEPT !.current = joined, !.count = count]
              = [[acc EXCEPT !.current = joined] EXCEPT !.count = count]
        OBVIOUS
      <4>2. [acc EXCEPT !.current = joined]
              = [chunks |-> chunks, current |-> joined, count |-> c]
        BY <3>2
      <4>3. [[chunks |-> chunks, current |-> joined, count |-> c] EXCEPT !.count = count]
              = [chunks |-> chunks, current |-> joined, count |-> count]
        OBVIOUS
      <4> QED BY <4>1, <4>2, <4>3
    <3> QED BY <3>1, <3>3
  <2>2. joined \in Seq(p.set) /\ Len(joined) = Len(current) + Len(x) /\ joined # <<>>
    <3>1. joined \in Seq(p.set) /\ Len(joined) = Len(current) + Len(x)
      BY <1>1, <1>2, ConcatProperties
    <3> QED BY <1>1, <3>1, EmptySeq
  <2>3. count = Len(joined) /\ count <= p.max
    BY <1>1, <1>8, <2>2
  <2>4. FlattenSeq(chunks) \o joined = FlattenSeq(more)
    <3>1. FlattenSeq(chunks) \in Seq(p.set)
      BY <1>1, FlattenConcat
    <3>2. (FlattenSeq(chunks) \o current) \o x = FlattenSeq(chunks) \o (current \o x)
      <4>1. \A a, b, c \in Seq(p.set) : (a \o b) \o c = a \o (b \o c)
        BY SMTT(30), ConcatAssociative
      <4> QED BY <1>1, <1>2, <3>1, <4>1, Zenon
    <3> QED BY <1>1, <1>3, <3>2
  <2>5. \A i \in 1 .. Len(chunks) : Settled(p.max, more, chunks[i])
    BY <1>2, ClosedSettle DEF more
  <2>6. \E a \in 1 .. n : Spans(p.max, more, joined, a, n)
    <3>1. CASE current = <<>>
      <4>1. joined = x
        BY <1>2, <3>1, ConcatEmptySeq
      <4> QED BY <1>4, <4>1
    <3>2. CASE current # <<>>
      <4>1. PICK a \in 1 .. Len(ss) : Spans(p.max, ss, current, a, Len(ss))
        BY <3>2 DEF Packed
      <4>2. Len(current) + Len(x) <= p.max
        BY <1>1, <1>8, <3>2
      <4> QED BY <1>1, <1>2, <4>1, <4>2, CollectedGrows DEF more, n
    <3> QED BY <3>1, <3>2
  <2>7. /\ PackNext(p, acc, x).chunks = chunks /\ PackNext(p, acc, x).current = joined
        /\ PackNext(p, acc, x).count = count
    BY <2>1
  <2> HIDE DEF joined, count, chunks, current
  <2>8. Packed(p, PackNext(p, acc, x), more)
    BY <1>1, <1>3, <2>1, <2>2, <2>3, <2>4, <2>5, <2>6, <2>7 DEF Packed, n
  <2> QED BY <2>8 DEF more
<1> QED BY <1>6, <1>7, <1>8


\* _split_at_sentence_boundaries, for any text and limit: the chunks are the
\* text again when put together, each is one or more whole sentences, above the
\* limit only if it is one, and none but the last has room for the sentence
\* that follows it.
THEOREM SplitIsGreedy ==
  ASSUME NEW S, NEW text \in Seq(S), text # <<>>, NEW max \in Nat
  PROVE  /\ SplitAtSentenceBoundaries(max, text) \in Seq(Seq(S))
         /\ Greedy(SplitAtSentenceBoundaries(max, text), text, max)
<1> DEFINE p == [max |-> max, set |-> S]
           ss == Sentences(text)
           acc == Packing!Loop(p, ss)
           chunks == Flushed(acc)
<1>1. p.max = max /\ p.set = S
  OBVIOUS
<1>2. ss \in Seq(Seq(S) \ {<<>>}) /\ FlattenSeq(ss) = text
  <2>1. ss \in Seq(Seq(S)) /\ FlattenSeq(ss) = text /\ \A i \in 1 .. Len(ss) : IsSentence(ss[i])
    BY SentencesCutText
  <2> HIDE DEF ss
  <2>2. \A i \in 1 .. Len(ss) : ss[i] \in Seq(S) \ {<<>>}
    BY <2>1, ElementOfSeq DEF IsSentence
  <2>3. ss \in [1 .. Len(ss) -> Seq(S) \ {<<>>}] /\ Len(ss) \in Nat
    BY <2>1, <2>2, LenProperties
  <2> DEFINE T == Seq(S) \ {<<>>}
  <2> HIDE DEF T
  <2>4. ss \in [1 .. Len(ss) -> T]
    BY <2>3 DEF T
  <2>5. ss \in Seq(T)
    BY <2>3, <2>4
  <2> QED BY <2>1, <2>5 DEF T
<1> HIDE DEF p, ss
<1>3. Packed(p, Unpacked, <<>>)
  <2>1. /\ Unpacked.chunks = <<>> /\ Unpacked.current = <<>> /\ Unpacked.count = 0
        /\ Unpacked = [chunks |-> Unpacked.chunks, current |-> Unpacked.current,
                       count |-> Unpacked.count]
    BY DEF Unpacked
  <2>2. /\ <<>> \in Seq(S) /\ <<>> \in Seq(Seq(S)) /\ <<>> \in Seq(Seq(S) \ {<<>>})
        /\ Len(<<>>) = 0 /\ <<>> \o <<>> = <<>>
    BY EmptySeq, ConcatEmptySeq
  <2> QED BY <1>1, <2>1, <2>2, FlattenEmpty DEF Packed
<1>4. Packed(p, acc, ss)
  <2>1. \A tt \in Seq(Seq(S) \ {<<>>}), x \in Seq(S) \ {<<>>} : \A a :
          Packed(p, a, tt) => Packed(p, PackNext(p, a, x), Append(tt, x))
    BY <1>1, PackedStep
  <2> QED BY <1>2, <1>3, <2>1, Packing!FoldInduction
<1>5. SplitAtSentenceBoundaries(max, text) = chunks
  BY SplitIsLoop DEF p, ss
<1> HIDE DEF acc
<1>6. /\ acc.chunks \in Seq(Seq(S)) /\ acc.current \in Seq(S)
      /\ FlattenSeq(acc.chunks) \o acc.current = text
      /\ \A i \in 1 .. Len(acc.chunks) :
           \/ Settled(max, ss, acc.chunks[i])
           \/ i = Len(acc.chunks) /\ acc.current = <<>> /\ Lone(max, ss, acc.chunks[i])
      /\ acc.current # <<>> => \E a \in 1 .. Len(ss) : Spans(max, ss, acc.current, a, Len(ss))
  BY <1>1, <1>2, <1>4 DEF Packed
<1>7. /\ chunks \in Seq(Seq(S)) /\ FlattenSeq(chunks) = text
      /\ \A i \in 1 .. Len(chunks) :
           \/ Settled(max, ss, chunks[i])
           \/ i = Len(chunks) /\ \E a, b \in 1 .. Len(ss) : Spans(max, ss, chunks[i], a, b)
  <2>1. CASE acc.current = <<>>
    <3>1. chunks = acc.chunks
      BY <2>1 DEF Flushed
    <3>2. FlattenSeq(acc.chunks) \o <<>> = FlattenSeq(acc.chunks)
      BY <1>6, FlattenConcat, ConcatEmptySeq
    <3> QED BY <1>6, <2>1, <3>1, <3>2 DEF Lone
  <2>2. CASE acc.current # <<>>
    <3> DEFINE more == Append(acc.chunks, acc.current)
               n == Len(acc.chunks)
    <3>1. chunks = more
      BY <2>2 DEF Flushed
    <3>2. /\ more \in Seq(Seq(S)) /\ Len(more) = n + 1 /\ n \in Nat
          /\ more[n + 1] = acc.current /\ \A i \in 1 .. n : more[i] = acc.chunks[i]
      BY <1>6, AppendProperties, LenProperties
    <3>3. FlattenSeq(more) = text
      BY <1>6, FlattenAppend
    <3>4. PICK a \in 1 .. Len(ss) : Spans(max, ss, acc.current, a, Len(ss))
      BY <1>6, <2>2
    <3>5. \A i \in 1 .. n : Settled(max, ss, acc.chunks[i])
      BY <1>6, <2>2
    <3>6. Len(ss) \in 1 .. Len(ss)
      BY <3>4 DEF Spans
    <3> HIDE DEF more, n
    <3>7. ASSUME NEW i \in 1 .. Len(more)
          PROVE  \/ Settled(max, ss, more[i])
                 \/ i = Len(more) /\ \E c, b \in 1 .. Len(ss) : Spans(max, ss, more[i], c, b)
      <4>1. CASE i = n + 1
        BY <3>2, <3>4, <3>6, <4>1
      <4>2. CASE i \in 1 .. n
        BY <3>2, <3>5, <4>2
      <4> QED BY <3>2, <4>1, <4>2
    <3> QED BY <3>1, <3>2, <3>3, <3>7
  <2> QED BY <2>1, <2>2
<1> HIDE DEF chunks
<1>8. DOMAIN chunks = 1 .. Len(chunks) /\ DOMAIN ss = 1 .. Len(ss)
  BY <1>2, <1>7, LenProperties
<1>9. ASSUME NEW i \in 1 .. Len(chunks)
      PROVE  \E a, b \in 1 .. Len(ss) :
               /\ a <= b
               /\ chunks[i] = FlattenSeq(SubSeq(ss, a, b))
               /\ Len(chunks[i]) > max => a = b
               /\ i < Len(chunks) => b < Len(ss) /\ Len(chunks[i]) + Len(ss[b + 1]) > max
  <2>1. CASE Settled(max, ss, chunks[i])
    BY <2>1 DEF Settled, Spans
  <2>2. CASE i = Len(chunks) /\ \E a, b \in 1 .. Len(ss) : Spans(max, ss, chunks[i], a, b)
    <3>1. Len(chunks) \in Nat
      BY <1>7, LenProperties
    <3>2. ~ (i < Len(chunks))
      BY <2>2, <3>1
    <3> QED BY <2>2, <3>2, Zenon DEF Spans
  <2> QED BY <1>7, <2>1, <2>2
<1>10. Greedy(chunks, text, max)
  BY <1>7, <1>8, <1>9 DEF Greedy, ss
<1> QED BY <1>5, <1>7, <1>10


-----------------------------------------------------------------------------
(* Words and whose they are *)

\* The words of a segment, each with the segment's key; of segments, in order.
Owned(K, S) == K \X S
Tag(key, words) == [j \in 1 .. Len(words) |-> <<key, words[j]>>]
Tags(segments) == [i \in 1 .. Len(segments) |-> Tag(segments[i].key, segments[i].text)]
KeyedWords(segments) == FlattenSeq(Tags(segments))

\* Segments, groups and chunks: keys of K, words of S.
SegmentsOf(K, S) == [key : K, text : Seq(S)]

\* A sequence that has the members of two others, one after the other, is both.
LEMMA JoinedIs ==
  ASSUME NEW T, NEW u \in Seq(T), NEW v \in Seq(T), NEW w \in Seq(T),
         Len(w) = Len(u) + Len(v),
         \A j \in 1 .. Len(w) : w[j] = IF j <= Len(u) THEN u[j] ELSE v[j - Len(u)]
  PROVE  w = u \o v
<1> DEFINE both == u \o v
<1>1. /\ both \in Seq(T) /\ Len(both) = Len(u) + Len(v)
      /\ \A j \in 1 .. Len(both) : both[j] = IF j <= Len(u) THEN u[j] ELSE v[j - Len(u)]
  BY ConcatProperties
<1> HIDE DEF both
<1>2. w = both
  BY <1>1, SeqEqual
<1> QED BY <1>2 DEF both

LEMMA TagTyped ==
  ASSUME NEW K, NEW S, NEW key \in K, NEW s \in Seq(S)
  PROVE  /\ Tag(key, s) \in Seq(Owned(K, S)) /\ Len(Tag(key, s)) = Len(s) /\ Len(s) \in Nat
         /\ \A j \in 1 .. Len(s) : Tag(key, s)[j] = <<key, s[j]>>
BY DEF Tag, Owned

LEMMA TagConcat ==
  ASSUME NEW S, NEW key, NEW s \in Seq(S), NEW t \in Seq(S)
  PROVE  Tag(key, s \o t) = Tag(key, s) \o Tag(key, t)
<1> DEFINE K == {key}
<1>1. ASSUME NEW r \in Seq(S)
      PROVE  /\ Tag(key, r) \in Seq(Owned(K, S)) /\ Len(Tag(key, r)) = Len(r) /\ Len(r) \in Nat
             /\ \A j \in 1 .. Len(r) : Tag(key, r)[j] = <<key, r[j]>>
  <2>1. key \in K
    OBVIOUS
  <2> HIDE DEF K
  <2> QED BY <2>1, TagTyped
<1> HIDE DEF K
<1>2. /\ s \o t \in Seq(S) /\ Len(s \o t) = Len(s) + Len(t)
      /\ \A j \in 1 .. Len(s) + Len(t) : (s \o t)[j] = IF j <= Len(s) THEN s[j] ELSE t[j - Len(s)]
  BY ConcatProperties
<1> DEFINE whole == Tag(key, s \o t)
           u == Tag(key, s)
           v == Tag(key, t)
<1>3. /\ whole \in Seq(Owned(K, S)) /\ Len(whole) = Len(s) + Len(t)
      /\ u \in Seq(Owned(K, S)) /\ Len(u) = Len(s) /\ v \in Seq(Owned(K, S)) /\ Len(v) = Len(t)
  BY <1>1, <1>2
<1>4. ASSUME NEW j \in 1 .. Len(s) + Len(t)
      PROVE  whole[j] = IF j <= Len(s) THEN u[j] ELSE v[j - Len(s)]
  <2>1. whole[j] = <<key, (s \o t)[j]>>
    BY <1>1, <1>2
  <2>2. CASE j <= Len(s)
    <3>1. j \in 1 .. Len(s)
      BY <1>1, <2>2
    <3>2. u[j] = <<key, s[j]>>
      BY <1>1, <3>1
    <3> QED BY <1>2, <2>1, <2>2, <3>2
  <2>3. CASE ~ (j <= Len(s))
    <3>1. j - Len(s) \in 1 .. Len(t)
      BY <1>1, <2>3
    <3>2. v[j - Len(s)] = <<key, t[j - Len(s)]>>
      BY <1>1, <3>1
    <3> QED BY <1>2, <2>1, <2>3, <3>2
  <2> QED BY <2>2, <2>3
<1> HIDE DEF whole, u, v
<1>5. whole = u \o v
  <2>1. /\ Len(whole) = Len(u) + Len(v)
        /\ \A j \in 1 .. Len(whole) : whole[j] = IF j <= Len(u) THEN u[j] ELSE v[j - Len(u)]
    BY <1>3, <1>4
  <2> QED BY <1>3, <2>1, JoinedIs
<1> QED BY <1>1, <1>5 DEF whole, u, v

LEMMA KeyedAppend ==
  ASSUME NEW K, NEW S, NEW ss \in Seq(SegmentsOf(K, S)), NEW s \in SegmentsOf(K, S)
  PROVE  /\ Tags(ss) \in Seq(Seq(Owned(K, S)))
         /\ KeyedWords(ss) \in Seq(Owned(K, S))
         /\ Tag(s.key, s.text) \in Seq(Owned(K, S))
         /\ KeyedWords(Append(ss, s)) = KeyedWords(ss) \o Tag(s.key, s.text)
<1> DEFINE n == Len(ss)
           more == Append(ss, s)
           tag == Tag(s.key, s.text)
<1>1. \A r \in SegmentsOf(K, S) : Tag(r.key, r.text) \in Seq(Owned(K, S))
  BY TagTyped DEF SegmentsOf
<1>2. /\ n \in Nat /\ \A i \in 1 .. n : ss[i] \in SegmentsOf(K, S)
      /\ more \in Seq(SegmentsOf(K, S)) /\ Len(more) = n + 1 /\ more[n + 1] = s
      /\ \A i \in 1 .. n : more[i] = ss[i]
  BY AppendProperties, LenProperties, ElementOfSeq
<1>3. Tags(ss) \in Seq(Seq(Owned(K, S))) /\ Len(Tags(ss)) = n /\ tag \in Seq(Owned(K, S))
  BY <1>1, <1>2 DEF Tags
<1> HIDE DEF more, n, tag
<1>4. Tags(more) = Append(Tags(ss), tag)
  <2>1. Tags(more) \in Seq(Seq(Owned(K, S))) /\ Len(Tags(more)) = n + 1
    <3>1. \A i \in 1 .. n + 1 : more[i] \in SegmentsOf(K, S)
      BY <1>2
    <3>2. \A i \in 1 .. n + 1 : Tag(more[i].key, more[i].text) \in Seq(Owned(K, S))
      BY <1>1, <3>1
    <3> QED BY <1>2, <3>2 DEF Tags
  <2>2. /\ Append(Tags(ss), tag) \in Seq(Seq(Owned(K, S))) /\ Len(Append(Tags(ss), tag)) = n + 1
        /\ Append(Tags(ss), tag)[n + 1] = tag
        /\ \A i \in 1 .. n : Append(Tags(ss), tag)[i] = Tags(ss)[i]
    BY <1>3, AppendProperties
  <2>3. ASSUME NEW i \in 1 .. n + 1 PROVE Tags(more)[i] = Append(Tags(ss), tag)[i]
    <3>1. Tags(more)[i] = Tag(more[i].key, more[i].text)
      BY <1>2 DEF Tags
    <3>2. CASE i = n + 1
      BY <1>2, <2>2, <3>1, <3>2 DEF tag
    <3>3. CASE i \in 1 .. n
      <4>1. Tags(ss)[i] = Tag(ss[i].key, ss[i].text)
        BY <3>3 DEF Tags, n
      <4> QED BY <1>2, <2>2, <3>1, <3>3, <4>1
    <3>4. i = n + 1 \/ i \in 1 .. n
      BY <1>2
    <3> QED BY <3>2, <3>3, <3>4
  <2> QED BY <2>1, <2>2, <2>3, SeqEqual
<1>5. FlattenSeq(Append(Tags(ss), tag)) = FlattenSeq(Tags(ss)) \o tag
  BY <1>3, FlattenAppend
<1>6. FlattenSeq(Tags(ss)) \in Seq(Owned(K, S))
  BY <1>3, FlattenConcat
<1> QED BY <1>3, <1>4, <1>5, <1>6 DEF KeyedWords, more, tag

LEMMA KeyedEmpty == KeyedWords(<<>>) = <<>>
<1>1. Tags(<<>>) = <<>>
  BY DEF Tags
<1> QED BY <1>1, FlattenEmpty DEF KeyedWords

LEMMA KeyedConcat ==
  ASSUME NEW K, NEW S, NEW rr \in Seq(SegmentsOf(K, S)), NEW ss \in Seq(SegmentsOf(K, S))
  PROVE  KeyedWords(rr \o ss) = KeyedWords(rr) \o KeyedWords(ss)
<1>1. \A r \in SegmentsOf(K, S) : Tag(r.key, r.text) \in Seq(Owned(K, S))
  BY TagTyped DEF SegmentsOf
<1> DEFINE m == Len(rr)
           n == Len(ss)
           whole == rr \o ss
<1>2. /\ m \in Nat /\ n \in Nat /\ whole \in Seq(SegmentsOf(K, S)) /\ Len(whole) = m + n
      /\ \A i \in 1 .. m + n : whole[i] = IF i <= m THEN rr[i] ELSE ss[i - m]
  BY ConcatProperties, LenProperties
<1>3. ASSUME NEW qq \in Seq(SegmentsOf(K, S))
      PROVE  /\ Tags(qq) \in Seq(Seq(Owned(K, S))) /\ Len(Tags(qq)) = Len(qq)
             /\ \A i \in 1 .. Len(qq) : Tags(qq)[i] = Tag(qq[i].key, qq[i].text)
  <2>1. Len(qq) \in Nat /\ \A i \in 1 .. Len(qq) : qq[i] \in SegmentsOf(K, S)
    BY LenProperties, ElementOfSeq
  <2>2. \A i \in 1 .. Len(qq) : Tag(qq[i].key, qq[i].text) \in Seq(Owned(K, S))
    BY <1>1, <2>1
  <2> QED BY <2>1, <2>2 DEF Tags
<1> HIDE DEF whole
<1>4. ASSUME NEW i \in 1 .. m + n
      PROVE  Tags(whole)[i] = IF i <= m THEN Tags(rr)[i] ELSE Tags(ss)[i - m]
  <2>1. Tags(whole)[i] = Tag(whole[i].key, whole[i].text)
    BY <1>2, <1>3
  <2>2. CASE i <= m
    <3>1. i \in 1 .. m /\ whole[i] = rr[i]
      BY <1>2, <2>2
    <3> QED BY <1>3, <2>1, <2>2, <3>1
  <2>3. CASE ~ (i <= m)
    <3>1. i - m \in 1 .. n /\ whole[i] = ss[i - m]
      BY <1>2, <2>3
    <3> QED BY <1>3, <2>1, <2>3, <3>1
  <2> QED BY <2>2, <2>3
<1>5. Tags(whole) = Tags(rr) \o Tags(ss)
  <2> DEFINE all == Tags(whole)
             first == Tags(rr)
             last == Tags(ss)
  <2>1. /\ first \in Seq(Seq(Owned(K, S))) /\ Len(first) = m /\ last \in Seq(Seq(Owned(K, S)))
        /\ Len(last) = n /\ all \in Seq(Seq(Owned(K, S))) /\ Len(all) = m + n
    BY <1>2, <1>3
  <2>2. \A i \in 1 .. m + n : all[i] = IF i <= m THEN first[i] ELSE last[i - m]
    BY <1>4
  <2> HIDE DEF all, first, last
  <2>3. \A i \in 1 .. Len(all) : all[i] = IF i <= Len(first) THEN first[i] ELSE last[i - Len(first)]
    BY <2>1, <2>2
  <2>4. all = first \o last
    <3> DEFINE T == Seq(Owned(K, S))
    <3>1. /\ first \in Seq(T) /\ last \in Seq(T) /\ all \in Seq(T)
          /\ Len(all) = Len(first) + Len(last)
      BY <2>1
    <3> HIDE DEF T
    <3> QED BY <2>3, <3>1, JoinedIs
  <2> QED BY <2>4 DEF all, first, last
<1>6. FlattenSeq(Tags(rr) \o Tags(ss)) = FlattenSeq(Tags(rr)) \o FlattenSeq(Tags(ss))
  BY <1>3, FlattenConcat
<1> QED BY <1>5, <1>6 DEF KeyedWords, whole


-----------------------------------------------------------------------------
(* Groups *)

LEMMA FrontLast ==
  ASSUME NEW T, NEW s \in Seq(T), s # <<>>
  PROVE  /\ Front(s) \in Seq(T) /\ Last(s) \in T
         /\ Len(s) \in Nat \ {0} /\ Len(Front(s)) = Len(s) - 1
         /\ \A i \in 1 .. Len(s) - 1 : Front(s)[i] = s[i]
         /\ s = Append(Front(s), Last(s))
<1> DEFINE n == Len(s)
           f == SubSeq(s, 1, n - 1)
<1>1. n \in Nat \ {0} /\ \A i \in 1 .. n : s[i] \in T
  BY EmptySeq, LenProperties, ElementOfSeq
<1>2. f \in Seq(T) /\ Len(f) = n - 1 /\ \A i \in 1 .. n - 1 : f[i] = s[i]
  <2>1. n - 1 \in Int /\ 1 \in Int /\ \A i \in 1 .. n - 1 : s[i] \in T
    BY <1>1
  <2> HIDE DEF n
  <2>2. /\ f \in Seq(T) /\ Len(f) = IF 1 <= n - 1 THEN n - 1 - 1 + 1 ELSE 0
        /\ \A i \in 1 .. n - 1 - 1 + 1 : f[i] = s[1 + i - 1]
    BY <2>1, SubSeqProperties
  <2> QED BY <1>1, <2>2
<1>3. s = f \o <<s[n]>>
  <2>1. n \in 1 .. Len(s) /\ 1 \in 1 .. Len(s) /\ n \in 1 .. n
    BY <1>1
  <2>2. SubSeq(s, 1, n) = f \o <<s[n]>>
    BY <2>1, SubSeqRecursiveSecond
  <2> QED BY <2>2, SubSeqFull
<1>4. f \o <<s[n]>> = Append(f, s[n])
  BY <1>1, <1>2, AppendIsConcat
<1> HIDE DEF f
<1>5. Front(s) = f /\ Last(s) = s[n]
  BY DEF Front, Last, f
<1> QED BY <1>1, <1>2, <1>3, <1>4, <1>5

\* The loop of GroupConsecutive, and what its groups are after some segments:
\* their words, with their keys, and no two groups next to each other that
\* have one key.
Join(p, groups, s) ==
  IF groups # <<>> /\ Last(groups).key = s.key
  THEN Append(Front(groups), [Last(groups) EXCEPT !.text = @ \o s.text])
  ELSE Append(groups, s)
KeysDiffer(groups) == \A i \in 1 .. Len(groups) - 1 : groups[i].key # groups[i + 1].key
Grouped(p, groups, segments) ==
  /\ segments \in Seq(SegmentsOf(p.keys, p.set))
  /\ groups \in Seq(SegmentsOf(p.keys, p.set))
  /\ KeyedWords(groups) = KeyedWords(segments)
  /\ KeysDiffer(groups)
Grouping == INSTANCE FoldProofs WITH Op <- Join, Base <- <<>>, Inv <- Grouped

LEMMA GroupsIsLoop == \A p, segments : GroupConsecutive(segments) = Grouping!Loop(p, segments)
BY DEF Grouping!Loop, GroupConsecutive, Join, FoldLeft, Grouping!FoldLeft, MapThenFoldSet,
       Grouping!MapThenFoldSet, Max, Grouping!Max, Last, Grouping!Last, Front, Grouping!Front

\* One more segment joins the last group, if it has the group's key, or is the
\* next group.
LEMMA GroupedStep ==
  ASSUME NEW K, NEW S, NEW p, p.keys = K, p.set = S, NEW groups,
         NEW segments \in Seq(SegmentsOf(K, S)), NEW s \in SegmentsOf(K, S),
         Grouped(p, groups, segments)
  PROVE  Grouped(p, Join(p, groups, s), Append(segments, s))
<1>1. /\ groups \in Seq(SegmentsOf(K, S)) /\ KeyedWords(groups) = KeyedWords(segments)
      /\ KeysDiffer(groups)
  BY DEF Grouped
<1>2. Append(segments, s) \in Seq(SegmentsOf(K, S))
  BY AppendProperties
<1>3. /\ KeyedWords(Append(segments, s)) = KeyedWords(segments) \o Tag(s.key, s.text)
      /\ KeyedWords(segments) \in Seq(Owned(K, S))
      /\ Tag(s.key, s.text) \in Seq(Owned(K, S))
  BY KeyedAppend
<1>a. \A qq \in Seq(SegmentsOf(K, S)), x \in SegmentsOf(K, S) :
        /\ KeyedWords(qq) \in Seq(Owned(K, S)) /\ Tag(x.key, x.text) \in Seq(Owned(K, S))
        /\ KeyedWords(Append(qq, x)) = KeyedWords(qq) \o Tag(x.key, x.text)
  BY KeyedAppend
<1>b. \A a, b, c \in Seq(Owned(K, S)) : (a \o b) \o c = a \o (b \o c)
  BY SMTT(30), ConcatAssociative
<1>4. CASE groups # <<>> /\ Last(groups).key = s.key
  <2> DEFINE f == Front(groups)
             l == Last(groups)
             joined == [key |-> l.key, text |-> l.text \o s.text]
             n == Len(groups)
  <2>1. /\ f \in Seq(SegmentsOf(K, S)) /\ l \in SegmentsOf(K, S)
        /\ n \in Nat \ {0} /\ Len(f) = n - 1
        /\ \A i \in 1 .. n - 1 : f[i] = groups[i]
        /\ groups = Append(f, l)
    BY <1>1, <1>4, FrontLast
  <2>2. /\ l.key \in K /\ l.text \in Seq(S) /\ s.key \in K /\ s.text \in Seq(S) /\ l.key = s.key
        /\ l = [key |-> l.key, text |-> l.text]
    BY <1>4, <2>1 DEF SegmentsOf
  <2>3. Join(p, groups, s) = Append(f, joined)
    <3>1. [l EXCEPT !.text = l.text \o s.text] = joined
      <4> DEFINE k == l.key
                 b == l.text
                 e == l.text \o s.text
      <4>1. l = [key |-> k, text |-> b]
        BY <2>2
      <4> HIDE DEF k, b, e, l
      <4>2. [l EXCEPT !.text = e] = [key |-> k, text |-> e]
        BY <4>1
      <4> QED BY <4>2 DEF e, k
    <3> QED BY <1>4, <3>1 DEF Join
  <2>4. joined \in SegmentsOf(K, S) /\ joined.key = l.key /\ joined.text = l.text \o s.text
    <3>1. l.text \o s.text \in Seq(S)
      BY <2>2, ConcatProperties
    <3> QED BY <2>2, <3>1 DEF SegmentsOf
  <2> HIDE DEF f, l, joined, n
  <2>5. Append(f, joined) \in Seq(SegmentsOf(K, S))
    BY <2>1, <2>4, AppendProperties
  <2>6. KeyedWords(Append(f, joined)) = KeyedWords(Append(segments, s))
    <3>1. KeyedWords(groups) = KeyedWords(f) \o Tag(l.key, l.text)
          /\ KeyedWords(f) \in Seq(Owned(K, S)) /\ Tag(l.key, l.text) \in Seq(Owned(K, S))
      BY <1>a, <2>1, Zenon
    <3>2. KeyedWords(Append(f, joined)) = KeyedWords(f) \o Tag(l.key, l.text \o s.text)
      <4>1. KeyedWords(Append(f, joined)) = KeyedWords(f) \o Tag(joined.key, joined.text)
        BY <1>a, <2>1, <2>4, Zenon
      <4> QED BY <2>4, <4>1, Zenon
    <3>3. Tag(l.key, l.text \o s.text) = Tag(l.key, l.text) \o Tag(s.key, s.text)
      <4>1. ASSUME NEW k \in K, NEW u \in Seq(S), NEW v \in Seq(S)
            PROVE  Tag(k, u \o v) = Tag(k, u) \o Tag(k, v)
        BY TagConcat
      <4>2. Tag(l.key, l.text \o s.text) = Tag(l.key, l.text) \o Tag(l.key, s.text)
        BY <2>2, <4>1, Zenon
      <4> QED BY <2>2, <4>2, Zenon
    <3>5. KeyedWords(f) \o (Tag(l.key, l.text) \o Tag(s.key, s.text))
            = (KeyedWords(f) \o Tag(l.key, l.text)) \o Tag(s.key, s.text)
      <4> DEFINE a == KeyedWords(f)
                 b == Tag(l.key, l.text)
                 c == Tag(s.key, s.text)
      <4>1. a \in Seq(Owned(K, S)) /\ b \in Seq(Owned(K, S)) /\ c \in Seq(Owned(K, S))
        BY <1>3, <3>1
      <4> HIDE DEF a, b, c
      <4>2. (a \o b) \o c = a \o (b \o c)
        BY <1>b, <4>1
      <4> QED BY <4>2, Zenon DEF a, b, c
    <3> QED BY <1>1, <1>3, <3>1, <3>2, <3>3, <3>5
  <2>7. KeysDiffer(Append(f, joined))
    <3> DEFINE more == Append(f, joined)
    <3>1. /\ Len(more) = n /\ more[n] = joined
          /\ \A i \in 1 .. n - 1 : more[i] = groups[i]
      BY <2>1, <2>4, AppendProperties
    <3>2. groups[n] = l
      BY <2>1, AppendProperties
    <3> HIDE DEF more
    <3>3. ASSUME NEW i \in 1 .. n - 1 PROVE more[i].key # more[i + 1].key
      <4>1. groups[i].key # groups[i + 1].key
        BY <1>1 DEF KeysDiffer, n
      <4>2. more[i] = groups[i]
        BY <3>1
      <4>3. more[i + 1].key = groups[i + 1].key
        <5>1. CASE i + 1 = n
          BY <2>4, <3>1, <3>2, <5>1
        <5>2. CASE i + 1 # n
          <6>1. i + 1 \in 1 .. n - 1
            BY <2>1, <5>2
          <6> QED BY <3>1, <6>1
        <5> QED BY <5>1, <5>2
      <4> QED BY <4>1, <4>2, <4>3
    <3> QED BY <3>1, <3>3 DEF KeysDiffer, more
  <2> QED BY <1>2, <2>3, <2>5, <2>6, <2>7 DEF Grouped
<1>5. CASE ~ (groups # <<>> /\ Last(groups).key = s.key)
  <2> DEFINE more == Append(groups, s)
             n == Len(groups)
  <2>1. Join(p, groups, s) = more
    BY <1>5 DEF Join
  <2>2. /\ more \in Seq(SegmentsOf(K, S)) /\ Len(more) = n + 1 /\ more[n + 1] = s /\ n \in Nat
        /\ \A i \in 1 .. n : more[i] = groups[i]
    BY <1>1, AppendProperties, LenProperties
  <2>3. KeyedWords(more) = KeyedWords(Append(segments, s))
    <3>1. KeyedWords(more) = KeyedWords(groups) \o Tag(s.key, s.text)
      BY <1>1, <1>a, Zenon
    <3> QED BY <1>1, <1>3, <3>1, Zenon
  <2>4. n # 0 => groups[n].key # s.key
    BY <1>1, <1>5, EmptySeq DEF Last
  <2> HIDE DEF more
  <2>5. ASSUME NEW i \in 1 .. n PROVE more[i].key # more[i + 1].key
    <3>1. CASE i = n
      BY <2>2, <2>4, <3>1
    <3>2. CASE i # n
      <4>1. i \in 1 .. Len(groups) - 1 /\ i + 1 \in 1 .. n
        BY <2>2, <3>2
      <4>2. groups[i].key # groups[i + 1].key
        BY <1>1, <4>1 DEF KeysDiffer
      <4> QED BY <2>2, <4>1, <4>2
    <3> QED BY <3>1, <3>2
  <2>6. KeysDiffer(more)
    BY <2>2, <2>5 DEF KeysDiffer
  <2> QED BY <1>2, <2>1, <2>2, <2>3, <2>6 DEF Grouped
<1> QED BY <1>4, <1>5

\* The groups of segments are those runs of them that have one key.
LEMMA GroupsKeepWords ==
  ASSUME NEW K, NEW S, NEW segments \in Seq(SegmentsOf(K, S))
  PROVE  /\ GroupConsecutive(segments) \in Seq(SegmentsOf(K, S))
         /\ KeyedWords(GroupConsecutive(segments)) = KeyedWords(segments)
         /\ KeysDiffer(GroupConsecutive(segments))
<1> DEFINE p == [keys |-> K, set |-> S]
<1>1. p.keys = K /\ p.set = S
  OBVIOUS
<1> HIDE DEF p
<1>2. Grouped(p, <<>>, <<>>)
  <2>1. <<>> \in Seq(SegmentsOf(K, S)) /\ Len(<<>>) = 0
    BY EmptySeq
  <2> QED BY <1>1, <2>1 DEF Grouped, KeysDiffer
<1>3. \A tt \in Seq(SegmentsOf(K, S)), x \in SegmentsOf(K, S) : \A a :
        Grouped(p, a, tt) => Grouped(p, Join(p, a, x), Append(tt, x))
  BY <1>1, GroupedStep
<1>4. Grouped(p, Grouping!Loop(p, segments), segments)
  BY <1>2, <1>3, Grouping!FoldInduction
<1>5. GroupConsecutive(segments) = Grouping!Loop(p, segments)
  BY GroupsIsLoop
<1> QED BY <1>1, <1>4, <1>5 DEF Grouped


-----------------------------------------------------------------------------
(* Chunks of segments *)

\* The chunks of a text with the key of the group that it is.
Pieces(key, chunks) == [i \in DOMAIN chunks |-> [key |-> key, text |-> chunks[i]]]

\* Putting chunks together, and what is claimed of their words.
Pieced(p, whole, chunks) ==
  /\ chunks \in Seq(Seq(p.set))
  /\ whole \in Seq(p.set)
  /\ whole = FlattenSeq(chunks)
  /\ KeyedWords(Pieces(p.key, chunks)) = Tag(p.key, whole)
Piecing == INSTANCE FoldProofs WITH Op <- Glue, Base <- <<>>, Inv <- Pieced

LEMMA PiecesTyped ==
  ASSUME NEW K, NEW S, NEW key \in K, NEW chunks \in Seq(Seq(S))
  PROVE  /\ Pieces(key, chunks) \in Seq(SegmentsOf(K, S))
         /\ Len(Pieces(key, chunks)) = Len(chunks)
         /\ Len(chunks) \in Nat
         /\ \A i \in 1 .. Len(chunks) : /\ Pieces(key, chunks)[i].key = key
                                        /\ Pieces(key, chunks)[i].text = chunks[i]
         /\ Bodies(Pieces(key, chunks)) = chunks
<1> DEFINE n == Len(chunks)
           pieces == [i \in 1 .. n |-> [key |-> key, text |-> chunks[i]]]
<1>1. /\ n \in Nat /\ DOMAIN chunks = 1 .. n /\ chunks = [i \in 1 .. n |-> chunks[i]]
      /\ \A i \in 1 .. n : chunks[i] \in Seq(S)
  BY LenProperties, ElementOfSeq
<1>2. Pieces(key, chunks) = pieces
  BY <1>1 DEF Pieces
<1>3. \A i \in 1 .. n : [key |-> key, text |-> chunks[i]] \in SegmentsOf(K, S)
  BY <1>1 DEF SegmentsOf
<1>4. pieces \in Seq(SegmentsOf(K, S)) /\ Len(pieces) = n
  <2> DEFINE T == SegmentsOf(K, S)
  <2>1. \A i \in 1 .. n : [key |-> key, text |-> chunks[i]] \in T
    BY <1>3
  <2> HIDE DEF T, n
  <2>2. pieces \in [1 .. n -> T]
    BY <2>1
  <2>3. n \in Nat
    BY <1>1
  <2> HIDE DEF pieces
  <2>4. pieces \in Seq(T) /\ Len(pieces) = n
    BY <2>2, <2>3
  <2> QED BY <2>4 DEF T
<1>5. \A i \in 1 .. n : pieces[i].key = key /\ pieces[i].text = chunks[i]
  OBVIOUS
<1>6. Bodies(pieces) = chunks
  <2>1. DOMAIN pieces = 1 .. n
    OBVIOUS
  <2> HIDE DEF pieces, n
  <2>2. Bodies(pieces) = [i \in 1 .. n |-> chunks[i]]
    BY <1>5, <2>1 DEF Bodies
  <2> QED BY <1>1, <2>2
<1> QED BY <1>1, <1>2, <1>4, <1>5, <1>6

LEMMA PiecesAppend ==
  ASSUME NEW S, NEW key, NEW chunks \in Seq(Seq(S)), NEW s \in Seq(S)
  PROVE  Pieces(key, Append(chunks, s)) = Append(Pieces(key, chunks), [key |-> key, text |-> s])
<1> DEFINE n == Len(chunks)
           more == Append(chunks, s)
           pieces == Pieces(key, chunks)
           piece == [key |-> key, text |-> s]
           K == {key}
<1>1. /\ more \in Seq(Seq(S)) /\ Len(more) = n + 1 /\ n \in Nat /\ more[n + 1] = s
      /\ \A i \in 1 .. n : more[i] = chunks[i]
  BY AppendProperties, LenProperties
<1>2. /\ pieces \in Seq(SegmentsOf(K, S)) /\ Len(pieces) = n
      /\ Pieces(key, more) \in Seq(SegmentsOf(K, S)) /\ Len(Pieces(key, more)) = n + 1
  <2>1. key \in K
    OBVIOUS
  <2> HIDE DEF K
  <2>2. ASSUME NEW cc \in Seq(Seq(S))
        PROVE  Pieces(key, cc) \in Seq(SegmentsOf(K, S)) /\ Len(Pieces(key, cc)) = Len(cc)
    BY <2>1, PiecesTyped
  <2> HIDE DEF more
  <2> QED BY <1>1, <2>2
<1>3. piece \in SegmentsOf(K, S)
  BY DEF SegmentsOf
<1>4. /\ \A i \in 1 .. n : pieces[i] = [key |-> key, text |-> chunks[i]]
      /\ \A i \in 1 .. n + 1 : Pieces(key, more)[i] = [key |-> key, text |-> more[i]]
  <2>1. DOMAIN chunks = 1 .. n /\ DOMAIN more = 1 .. n + 1
    BY <1>1, LenProperties
  <2> HIDE DEF n, more
  <2> QED BY <2>1 DEF Pieces
<1> HIDE DEF more, pieces, piece, K, n
<1>5. /\ Append(pieces, piece) \in Seq(SegmentsOf(K, S)) /\ Len(Append(pieces, piece)) = n + 1
      /\ Append(pieces, piece)[n + 1] = piece
      /\ \A i \in 1 .. n : Append(pieces, piece)[i] = pieces[i]
  BY <1>2, <1>3, AppendProperties
<1>6. ASSUME NEW i \in 1 .. n + 1 PROVE Pieces(key, more)[i] = Append(pieces, piece)[i]
  <2>1. CASE i = n + 1
    BY <1>1, <1>4, <1>5, <2>1 DEF piece
  <2>2. CASE i \in 1 .. n
    BY <1>1, <1>4, <1>5, <2>2
  <2>3. i = n + 1 \/ i \in 1 .. n
    BY <1>1
  <2> QED BY <2>1, <2>2, <2>3
<1>7. Pieces(key, more) = Append(pieces, piece)
  BY <1>2, <1>5, <1>6, SeqEqual
<1> QED BY <1>7 DEF more, pieces, piece

\* The words of the chunks of a text are those of the text.
LEMMA PiecesKeepWords ==
  ASSUME NEW K, NEW S, NEW key \in K, NEW chunks \in Seq(Seq(S))
  PROVE  KeyedWords(Pieces(key, chunks)) = Tag(key, FlattenSeq(chunks))
<1> DEFINE p == [key |-> key, set |-> S]
<1>1. p.key = key /\ p.set = S
  OBVIOUS
<1> HIDE DEF p
<1>2. Pieced(p, <<>>, <<>>)
  <2>1. Pieces(key, <<>>) = <<>> /\ Tag(key, <<>>) = <<>>
    BY DEF Pieces, Tag
  <2>2. <<>> \in Seq(S) /\ <<>> \in Seq(Seq(S))
    OBVIOUS
  <2> QED BY <1>1, <2>1, <2>2, FlattenEmpty, KeyedEmpty DEF Pieced
<1>3. ASSUME NEW tt \in Seq(Seq(S)), NEW t \in Seq(S), NEW whole, Pieced(p, whole, tt)
      PROVE  Pieced(p, Glue(p, whole, t), Append(tt, t))
  <2> DEFINE piece == [key |-> key, text |-> t]
             pieces == Pieces(key, tt)
  <2>1. whole \in Seq(S) /\ whole = FlattenSeq(tt) /\ KeyedWords(pieces) = Tag(key, whole)
    BY <1>1, <1>3 DEF Pieced
  <2>2. /\ Append(tt, t) \in Seq(Seq(S)) /\ whole \o t \in Seq(S)
        /\ FlattenSeq(Append(tt, t)) = whole \o t
    BY <2>1, AppendProperties, ConcatProperties, FlattenAppend
  <2>3. pieces \in Seq(SegmentsOf(K, S)) /\ piece \in SegmentsOf(K, S)
        /\ piece.key = key /\ piece.text = t
    <3>1. piece \in SegmentsOf(K, S)
      BY DEF SegmentsOf
    <3> QED BY <3>1, PiecesTyped
  <2>4. Pieces(key, Append(tt, t)) = Append(pieces, piece)
    BY PiecesAppend
  <2> HIDE DEF pieces, piece
  <2>5. /\ KeyedWords(pieces) \in Seq(Owned(K, S))
        /\ KeyedWords(Append(pieces, piece)) = KeyedWords(pieces) \o Tag(key, t)
    <3>1. ASSUME NEW qq \in Seq(SegmentsOf(K, S)), NEW x \in SegmentsOf(K, S)
          PROVE  /\ KeyedWords(qq) \in Seq(Owned(K, S)) /\ Tag(x.key, x.text) \in Seq(Owned(K, S))
                 /\ KeyedWords(Append(qq, x)) = KeyedWords(qq) \o Tag(x.key, x.text)
      BY KeyedAppend
    <3> QED BY <2>3, <3>1
  <2>6. /\ Tag(key, whole) \in Seq(Owned(K, S))
        /\ Tag(key, whole \o t) = Tag(key, whole) \o Tag(key, t)
    <3>1. ASSUME NEW u \in Seq(S) PROVE Tag(key, u) \in Seq(Owned(K, S))
      BY TagTyped
    <3>2. ASSUME NEW u \in Seq(S), NEW v \in Seq(S)
          PROVE  Tag(key, u \o v) = Tag(key, u) \o Tag(key, v)
      BY TagConcat
    <3> QED BY <2>1, <3>1, <3>2
  <2> QED BY SMTT(30), <1>1, <2>1, <2>2, <2>4, <2>5, <2>6 DEF Pieced, Glue, pieces
<1>4. \A tt \in Seq(Seq(S)), t \in Seq(S) : \A a :
        Pieced(p, a, tt) => Pieced(p, Glue(p, a, t), Append(tt, t))
  BY <1>3
<1>5. Pieced(p, Piecing!Loop(p, chunks), chunks)
  BY <1>2, <1>4, Piecing!FoldInduction
<1> QED BY <1>1, <1>5 DEF Pieced


\* Sequences of one and of two.
LEMMA OneAndTwo ==
  ASSUME NEW T, NEW a \in T, NEW b \in T
  PROVE  /\ <<>> \in Seq(T) /\ <<a>> \in Seq(T)
         /\ Append(<<>>, a) = <<a>> /\ Append(<<a>>, b) = <<a, b>>
<1>1. <<>> \in Seq(T) /\ <<a>> \in Seq(T)
  OBVIOUS
<1>2. Append(<<>>, a) = <<a>>
  OBVIOUS
<1>3. Append(<<a>>, b) = <<a, b>>
  <2> DEFINE s == <<a>>
             t == Append(s, b)
             u == <<a, b>>
  <2>1. s \in Seq(T) /\ Len(s) = 1 /\ s[1] = a
    OBVIOUS
  <2>2. u \in Seq(T) /\ Len(u) = 2 /\ u[1] = a /\ u[2] = b
    OBVIOUS
  <2> HIDE DEF s, u
  <2>3. t \in Seq(T) /\ Len(t) = 2 /\ t[1] = a /\ t[2] = b
    <3>1. /\ t \in Seq(T) /\ Len(t) = Len(s) + 1 /\ t[Len(s) + 1] = b
          /\ \A i \in 1 .. Len(s) : t[i] = s[i]
      <4>1. \A q \in Seq(T), x \in T :
              /\ Append(q, x) \in Seq(T) /\ Len(Append(q, x)) = Len(q) + 1
              /\ Append(q, x)[Len(q) + 1] = x
              /\ \A i \in 1 .. Len(q) : Append(q, x)[i] = q[i]
        BY AppendProperties
      <4> QED BY <2>1, <4>1, Zenon
    <3> HIDE DEF t
    <3> QED BY <2>1, <3>1
  <2> HIDE DEF t
  <2>4. t = u
    BY <2>2, <2>3, SeqEqual
  <2> QED BY <2>4 DEF t, s, u
<1> QED BY <1>1, <1>2, <1>3

\* Every group split by itself, its chunks with its key.
SplitGroup(max, g) == Pieces(g.key, SplitAtSentenceBoundaries(max, g.text))
SplitGroups(max, groups) == [i \in 1 .. Len(groups) |-> SplitGroup(max, groups[i])]

\* The loop of ChunkSegments over the groups, and what it has made of some.
AddChunks(p, chunks, g) == chunks \o SplitGroup(p.max, g)
Chunked(p, chunks, groups) ==
  /\ groups \in Seq(SegmentsOf(p.keys, p.set))
  /\ chunks \in Seq(SegmentsOf(p.keys, p.set))
  /\ KeyedWords(chunks) = KeyedWords(groups)
  /\ chunks = FlattenSeq(SplitGroups(p.max, groups))
ChunkLoop == INSTANCE FoldProofs WITH Op <- AddChunks, Base <- <<>>, Inv <- Chunked

LEMMA ChunksIsLoop ==
  \A p, segments : ChunkSegments(p.max, segments) = ChunkLoop!Loop(p, GroupConsecutive(segments))
BY DEF ChunkLoop!Loop, ChunkSegments, AddChunks, SplitGroup, Pieces, FoldLeft, ChunkLoop!FoldLeft,
       MapThenFoldSet, ChunkLoop!MapThenFoldSet, Max, ChunkLoop!Max

\* The chunks of one group: its words, with its key.
LEMMA GroupIsSplit ==
  ASSUME NEW K, NEW S, NEW max \in Nat, NEW g \in SegmentsOf(K, S)
  PROVE  /\ SplitGroup(max, g) \in Seq(SegmentsOf(K, S))
         /\ KeyedWords(SplitGroup(max, g)) = Tag(g.key, g.text)
         /\ \A i \in 1 .. Len(SplitGroup(max, g)) : SplitGroup(max, g)[i].key = g.key
         /\ g.text # <<>> => Greedy(Bodies(SplitGroup(max, g)), g.text, max)
<1> DEFINE key == g.key
           text == g.text
           cc == SplitAtSentenceBoundaries(max, text)
<1>1. key \in K /\ text \in Seq(S)
  BY DEF SegmentsOf
<1> HIDE DEF key, text
<1>2. cc \in Seq(Seq(S)) /\ FlattenSeq(cc) = text /\ (text # <<>> => Greedy(cc, text, max))
  <2>1. CASE text # <<>>
    BY <1>1, <2>1, SplitIsGreedy DEF Greedy
  <2>2. CASE text = <<>>
    <3>1. cc = << <<>> >>
      BY <2>2 DEF SplitAtSentenceBoundaries
    <3>2. <<>> \in Seq(S) /\ << <<>> >> \in Seq(Seq(S))
      OBVIOUS
    <3>3. FlattenSeq(<< <<>> >>) = <<>>
      <4>1. FlattenSeq(Append(<<>>, <<>>)) = FlattenSeq(<<>>) \o <<>>
        BY <3>2, EmptySeq, FlattenAppend
      <4>2. Append(<<>>, <<>>) = << <<>> >>
        BY <3>2, OneAndTwo
      <4>3. <<>> \o <<>> = <<>>
        BY <3>2, ConcatEmptySeq
      <4> QED BY <4>1, <4>2, <4>3, FlattenEmpty
    <3> QED BY <2>2, <3>1, <3>2, <3>3
  <2> QED BY <2>1, <2>2
<1>3. FlattenSeq(cc) = text
  BY <1>2
<1> HIDE DEF cc
<1>4. SplitGroup(max, g) = Pieces(key, cc)
  BY DEF SplitGroup, key, text, cc
<1>5. /\ Pieces(key, cc) \in Seq(SegmentsOf(K, S)) /\ Len(Pieces(key, cc)) = Len(cc)
      /\ \A i \in 1 .. Len(cc) : Pieces(key, cc)[i].key = key
      /\ Bodies(Pieces(key, cc)) = cc
  <2>1. ASSUME NEW k \in K, NEW qq \in Seq(Seq(S))
        PROVE  /\ Pieces(k, qq) \in Seq(SegmentsOf(K, S)) /\ Len(Pieces(k, qq)) = Len(qq)
               /\ \A i \in 1 .. Len(qq) : Pieces(k, qq)[i].key = k
               /\ Bodies(Pieces(k, qq)) = qq
    BY PiecesTyped
  <2> QED BY <1>1, <1>2, <2>1
<1>6. KeyedWords(Pieces(key, cc)) = Tag(key, FlattenSeq(cc))
  BY <1>1, <1>2, PiecesKeepWords
<1> QED BY <1>2, <1>3, <1>4, <1>5, <1>6 DEF key, text

\* One more group adds its chunks to those of the groups before.
LEMMA ChunkedStep ==
  ASSUME NEW K, NEW S, NEW p, p.max \in Nat, p.keys = K, p.set = S, NEW chunks,
         NEW groups \in Seq(SegmentsOf(K, S)), NEW g \in SegmentsOf(K, S),
         Chunked(p, chunks, groups)
  PROVE  Chunked(p, AddChunks(p, chunks, g), Append(groups, g))
<1> DEFINE T == SegmentsOf(K, S)
           max == p.max
           cuts == SplitGroup(max, g)
           all == SplitGroups(max, groups)
           n == Len(groups)
           more == Append(groups, g)
<1>1. /\ chunks \in Seq(T) /\ KeyedWords(chunks) = KeyedWords(groups)
      /\ chunks = FlattenSeq(all)
  BY DEF Chunked
<1>2. cuts \in Seq(T) /\ KeyedWords(cuts) = Tag(g.key, g.text)
  BY GroupIsSplit
<1>3. /\ more \in Seq(T) /\ Len(more) = n + 1 /\ n \in Nat /\ more[n + 1] = g
      /\ \A i \in 1 .. n : more[i] = groups[i] /\ groups[i] \in T
  BY AppendProperties, LenProperties, ElementOfSeq
<1>4. all \in Seq(Seq(T)) /\ Len(all) = n /\ \A i \in 1 .. n : all[i] = SplitGroup(max, groups[i])
  <2>1. \A i \in 1 .. n : SplitGroup(max, groups[i]) \in Seq(T)
    BY <1>3, GroupIsSplit
  <2> HIDE DEF T, max, n
  <2> QED BY <1>3, <2>1 DEF SplitGroups, n
<1>5. KeyedWords(chunks \o cuts) = KeyedWords(more)
  <2>1. KeyedWords(chunks \o cuts) = KeyedWords(chunks) \o KeyedWords(cuts)
    <3>1. ASSUME NEW rr \in Seq(SegmentsOf(K, S)), NEW ss \in Seq(SegmentsOf(K, S))
          PROVE  KeyedWords(rr \o ss) = KeyedWords(rr) \o KeyedWords(ss)
      BY KeyedConcat
    <3> HIDE DEF cuts
    <3> QED BY <1>1, <1>2, <3>1
  <2>2. KeyedWords(more) = KeyedWords(groups) \o Tag(g.key, g.text)
    <3>1. KeyedWords(groups) \in Seq(Owned(K, S))
          /\ KeyedWords(more) = KeyedWords(groups) \o Tag(g.key, g.text)
      BY KeyedAppend
    <3> QED BY <3>1
  <2> QED BY <1>1, <1>2, <2>1, <2>2
<1> HIDE DEF T, cuts, all, more, max, n
<1>6. SplitGroups(max, more) = Append(all, cuts)
  <2> DEFINE both == Append(all, cuts)
             whole == SplitGroups(max, more)
  <2>1. /\ both \in Seq(Seq(T)) /\ Len(both) = n + 1 /\ both[n + 1] = cuts
        /\ \A i \in 1 .. n : both[i] = all[i]
    BY <1>2, <1>4, AppendProperties
  <2>2. whole = [i \in 1 .. n + 1 |-> SplitGroup(max, more[i])]
    BY <1>3 DEF SplitGroups
  <2> HIDE DEF both
  <2>3. ASSUME NEW i \in 1 .. n + 1 PROVE both[i] = SplitGroup(max, more[i])
    <3>1. CASE i = n + 1
      BY <1>3, <2>1, <3>1 DEF cuts
    <3>2. CASE i \in 1 .. n
      BY <1>3, <1>4, <2>1, <3>2
    <3>3. i = n + 1 \/ i \in 1 .. n
      BY <1>3
    <3> QED BY <3>1, <3>2, <3>3
  <2>4. DOMAIN both = 1 .. n + 1 /\ both = [i \in DOMAIN both |-> both[i]]
    BY <2>1, LenProperties
  <2>5. both = [i \in 1 .. n + 1 |-> both[i]]
    BY <2>4
  <2> QED BY <2>2, <2>3, <2>5 DEF both
<1>7. FlattenSeq(Append(all, cuts)) = chunks \o cuts
  BY <1>1, <1>2, <1>4, FlattenAppend
<1>8. chunks \o cuts \in Seq(T)
  BY <1>1, <1>2, ConcatProperties
<1>9. AddChunks(p, chunks, g) = chunks \o cuts
  BY DEF AddChunks, cuts, max
<1> QED BY <1>3, <1>5, <1>6, <1>7, <1>8, <1>9 DEF Chunked, T, more, max

\* chunk_document and chunk_transcript, for any segments and limit: the words
\* of the chunks are those of the segments, in their order, each under the key
\* of its segment; and the chunks are those of the runs of segments with one
\* key, every run split by itself, so that no chunk has words of two keys, and
\* no run is split where its segments meet.  A segment is never blank
\* (domain/document/entities.py, domain/meeting/entities.py), so no run is.
THEOREM SegmentsAreChunked ==
  ASSUME NEW K, NEW S, NEW max \in Nat, NEW segments \in Seq(SegmentsOf(K, S))
  PROVE  LET groups == GroupConsecutive(segments)
             chunks == ChunkSegments(max, segments) IN
         /\ chunks \in Seq(SegmentsOf(K, S))
         /\ KeyedWords(chunks) = KeyedWords(segments)
         /\ KeyedWords(groups) = KeyedWords(segments) /\ KeysDiffer(groups)
         /\ chunks = FlattenSeq(SplitGroups(max, groups))
         /\ \A i \in 1 .. Len(groups) : groups[i].text # <<>> =>
              Greedy(Bodies(SplitGroup(max, groups[i])), groups[i].text, max)
<1> DEFINE p == [max |-> max, keys |-> K, set |-> S]
           groups == GroupConsecutive(segments)
           chunks == ChunkSegments(max, segments)
<1>1. p.max = max /\ p.keys = K /\ p.set = S
  OBVIOUS
<1>2. groups \in Seq(SegmentsOf(K, S)) /\ KeyedWords(groups) = KeyedWords(segments)
      /\ KeysDiffer(groups)
  BY GroupsKeepWords
<1>3. chunks = ChunkLoop!Loop(p, groups)
  BY <1>1, ChunksIsLoop
<1> HIDE DEF p, groups, chunks
<1>4. Chunked(p, <<>>, <<>>)
  <2>1. <<>> \in Seq(SegmentsOf(K, S)) /\ SplitGroups(max, <<>>) = <<>>
    BY DEF SplitGroups
  <2> QED BY <1>1, <2>1, FlattenEmpty DEF Chunked
<1>5. \A tt \in Seq(SegmentsOf(K, S)), g \in SegmentsOf(K, S) : \A a :
        Chunked(p, a, tt) => Chunked(p, AddChunks(p, a, g), Append(tt, g))
  BY <1>1, ChunkedStep
<1>6. Chunked(p, chunks, groups)
  BY <1>2, <1>3, <1>4, <1>5, ChunkLoop!FoldInduction
<1>7. \A i \in 1 .. Len(groups) : groups[i].text # <<>> =>
        Greedy(Bodies(SplitGroup(max, groups[i])), groups[i].text, max)
  <2> TAKE i \in 1 .. Len(groups)
  <2>1. groups[i] \in SegmentsOf(K, S)
    BY <1>2, ElementOfSeq
  <2> QED BY <2>1, GroupIsSplit
<1> QED BY <1>1, <1>2, <1>6, <1>7 DEF Chunked, groups, chunks


-----------------------------------------------------------------------------
(* A text in two segments *)

\* Two segments of one key are one group; of two keys, they are two.
LEMMA TwoSegmentsGroup ==
  ASSUME NEW S, NEW a \in SegmentsOf({1, 2}, S), NEW b \in SegmentsOf({1, 2}, S)
  PROVE  GroupConsecutive(<<a, b>>)
           = IF a.key = b.key THEN << [a EXCEPT !.text = a.text \o b.text] >> ELSE <<a, b>>
<1> DEFINE T == SegmentsOf({1, 2}, S)
<1>0. a \in T /\ b \in T
  OBVIOUS
<1> HIDE DEF T
<1>1. <<>> \in Seq(T) /\ <<a>> \in Seq(T) /\ Append(<<>>, a) = <<a>> /\ Append(<<a>>, b) = <<a, b>>
  BY <1>0, OneAndTwo
<1>l. \A s \in Seq(T), x \in T : Grouping!Loop(0, Append(s, x)) = Join(0, Grouping!Loop(0, s), x)
  BY Grouping!FoldAppend
<1>2. Grouping!Loop(0, <<>>) = <<>>
  BY Grouping!FoldEmpty
<1>3. Grouping!Loop(0, <<a>>) = Join(0, <<>>, a)
  <2>1. Grouping!Loop(0, Append(<<>>, a)) = Join(0, Grouping!Loop(0, <<>>), a)
    BY <1>0, <1>1, <1>l, Zenon
  <2> QED BY <1>1, <1>2, <2>1
<1>4. Join(0, <<>>, a) = <<a>>
  BY <1>1 DEF Join
<1>5. Grouping!Loop(0, <<a, b>>) = Join(0, <<a>>, b)
  <2>1. Grouping!Loop(0, Append(<<a>>, b)) = Join(0, Grouping!Loop(0, <<a>>), b)
    BY <1>0, <1>1, <1>l, Zenon
  <2> QED BY <1>1, <1>3, <1>4, <2>1
<1>6. Last(<<a>>) = a /\ Front(<<a>>) = <<>> /\ <<a>> # <<>>
  BY DEF Last, Front
<1>7. Join(0, <<a>>, b) = IF a.key = b.key THEN << [a EXCEPT !.text = a.text \o b.text] >> ELSE <<a, b>>
  <2> DEFINE l == Last(<<a>>)
             f == Front(<<a>>)
             both == [a EXCEPT !.text = a.text \o b.text]
  <2>1. Join(0, <<a>>, b) = IF a.key = b.key THEN Append(<<>>, both) ELSE Append(<<a>>, b)
    BY <1>6, Zenon DEF Join
  <2>2. Append(<<>>, both) = << both >>
    OBVIOUS
  <2> HIDE DEF both
  <2> QED BY <1>1, <2>1, <2>2 DEF both
<1> QED BY <1>5, <1>7, GroupsIsLoop

LEMMA OneGroupChunks ==
  ASSUME NEW S, NEW max, NEW segments, NEW g \in SegmentsOf({1, 2}, S),
         GroupConsecutive(segments) = <<g>>
  PROVE  ChunkSegments(max, segments) = <<>> \o SplitGroup(max, g)
<1> DEFINE p == [max |-> max]
           T == SegmentsOf({1, 2}, S)
<1>0. g \in T /\ p.max = max
  OBVIOUS
<1> HIDE DEF p, T
<1>1. p.max = max /\ <<>> \in Seq(T) /\ Append(<<>>, g) = <<g>>
  BY <1>0, OneAndTwo
<1>l. \A s \in Seq(T), x \in T : ChunkLoop!Loop(p, Append(s, x)) = AddChunks(p, ChunkLoop!Loop(p, s), x)
  BY ChunkLoop!FoldAppend
<1>2. ChunkLoop!Loop(p, <<>>) = <<>>
  BY ChunkLoop!FoldEmpty
<1>3. ChunkLoop!Loop(p, Append(<<>>, g)) = AddChunks(p, ChunkLoop!Loop(p, <<>>), g)
  BY <1>0, <1>1, <1>l, Zenon
<1>4. ChunkSegments(max, segments) = ChunkLoop!Loop(p, <<g>>)
  BY <1>1, ChunksIsLoop
<1> QED BY <1>1, <1>2, <1>3, <1>4 DEF AddChunks

LEMMA TwoGroupsChunks ==
  ASSUME NEW S, NEW max, NEW segments,
         NEW a \in SegmentsOf({1, 2}, S), NEW b \in SegmentsOf({1, 2}, S),
         GroupConsecutive(segments) = <<a, b>>
  PROVE  ChunkSegments(max, segments) = (<<>> \o SplitGroup(max, a)) \o SplitGroup(max, b)
<1> DEFINE p == [max |-> max]
           T == SegmentsOf({1, 2}, S)
<1>0. a \in T /\ b \in T /\ p.max = max
  OBVIOUS
<1> HIDE DEF p, T
<1>1. /\ p.max = max /\ <<>> \in Seq(T) /\ Append(<<>>, a) = <<a>>
      /\ <<a>> \in Seq(T) /\ Append(<<a>>, b) = <<a, b>>
  BY <1>0, OneAndTwo
<1>l. \A s \in Seq(T), x \in T : ChunkLoop!Loop(p, Append(s, x)) = AddChunks(p, ChunkLoop!Loop(p, s), x)
  BY ChunkLoop!FoldAppend
<1>2. ChunkLoop!Loop(p, <<>>) = <<>>
  BY ChunkLoop!FoldEmpty
<1>3. ChunkLoop!Loop(p, Append(<<>>, a)) = AddChunks(p, ChunkLoop!Loop(p, <<>>), a)
  BY <1>0, <1>1, <1>l, Zenon
<1>4. ChunkLoop!Loop(p, Append(<<a>>, b)) = AddChunks(p, ChunkLoop!Loop(p, <<a>>), b)
  BY <1>0, <1>1, <1>l, Zenon
<1>5. ChunkSegments(max, segments) = ChunkLoop!Loop(p, <<a, b>>)
  BY <1>1, ChunksIsLoop
<1> QED BY <1>1, <1>2, <1>3, <1>4, <1>5 DEF AddChunks

\* A text in two segments, cut anywhere, neither blank, for any text and limit:
\* what SplitsAt states, of which SplitsExactly looks at texts of bounded length.
THEOREM SplitsAnywhere ==
  ASSUME NEW S, NEW text \in Seq(S), NEW max \in Nat, NEW k \in 1 .. Len(text) - 1
  PROVE  SplitsAt(max, text, k)
<1> DEFINE T == SegmentsOf({1, 2}, S)
           first == SubSeq(text, 1, k)
           rest == SubSeq(text, k + 1, Len(text))
           a == [key |-> 1, text |-> first]
           b == [key |-> 1, text |-> rest]
           c == [key |-> 2, text |-> rest]
           g == [key |-> 1, text |-> text]
<1>0. text # <<>> /\ first # <<>> /\ rest # <<>>
  <2>1. Len(text) \in Nat /\ \A i \in 1 .. Len(text) : text[i] \in S
    BY LenProperties, ElementOfSeq
  <2>2. Len(first) = k
    BY <2>1, SubSeqProperties
  <2>3. Len(rest) = Len(text) - k
    BY <2>1, SubSeqProperties
  <2> HIDE DEF first, rest
  <2> QED BY <2>1, <2>2, <2>3, EmptySeq
<1>1. first \in Seq(S) /\ rest \in Seq(S) /\ first \o rest = text
  <2>1. Len(text) \in Nat /\ \A i \in 1 .. Len(text) : text[i] \in S
    BY LenProperties, ElementOfSeq
  <2>2. first \in Seq(S)
    BY <2>1, SubSeqProperties
  <2>3. rest \in Seq(S)
    BY <2>1, SubSeqProperties
  <2>4. /\ 1 \in 1 .. Len(text) + 1 /\ k \in 1 - 1 .. Len(text)
        /\ Len(text) \in k .. Len(text)
    BY <2>1
  <2>5. first \o rest = SubSeq(text, 1, Len(text))
    BY <2>4, ConcatAdjacentSubSeq
  <2> QED BY <2>2, <2>3, <2>5, SubSeqFull
<1>2. /\ CutAt(text, k, TRUE) = <<a, b>>
      /\ CutAt(text, k, FALSE) = <<a, c>>
  BY DEF CutAt
<1> HIDE DEF first, rest
<1>3. a \in T /\ b \in T /\ c \in T /\ g \in T
  BY <1>1 DEF SegmentsOf
<1>4. /\ a.key = 1 /\ a.text = first /\ b.key = 1 /\ b.text = rest
      /\ c.key = 2 /\ c.text = rest /\ g.key = 1 /\ g.text = text
  OBVIOUS
<1>5. [a EXCEPT !.text = first \o rest] = g
  BY <1>1
<1> HIDE DEF a, b, c, g, T
<1> DEFINE whole == ChunkSegments(max, <<a, b>>)
           parts == ChunkSegments(max, <<a, c>>)
           one == SplitGroup(max, a)
           two == SplitGroup(max, c)
           all == SplitGroup(max, g)
<1>6. \A h \in T : /\ SplitGroup(max, h) \in Seq(T)
                   /\ \A i \in 1 .. Len(SplitGroup(max, h)) : SplitGroup(max, h)[i].key = h.key
                   /\ h.text # <<>> => Greedy(Bodies(SplitGroup(max, h)), h.text, max)
  BY GroupIsSplit DEF T
<1>7. whole = all
  <2>1. GroupConsecutive(<<a, b>>) = << g >>
    <3>1. GroupConsecutive(<<a, b>>)
            = IF a.key = b.key THEN << [a EXCEPT !.text = a.text \o b.text] >> ELSE <<a, b>>
      BY <1>3, TwoSegmentsGroup DEF T
    <3> QED BY <1>4, <1>5, <3>1
  <2>2. whole = <<>> \o all
    BY <1>3, <2>1, OneGroupChunks DEF T
  <2>3. <<>> \o all = all
    BY <1>3, <1>6, ConcatEmptySeq
  <2> QED BY <2>2, <2>3
<1>8. parts = one \o two
  <2>1. GroupConsecutive(<<a, c>>) = <<a, c>>
    <3>1. GroupConsecutive(<<a, c>>)
            = IF a.key = c.key THEN << [a EXCEPT !.text = a.text \o c.text] >> ELSE <<a, c>>
      BY <1>3, TwoSegmentsGroup DEF T
    <3> QED BY <1>4, <3>1
  <2>2. parts = (<<>> \o one) \o two
    <3>1. a \in SegmentsOf({1, 2}, S) /\ c \in SegmentsOf({1, 2}, S)
      BY <1>3 DEF T
    <3> HIDE DEF parts, one, two
    <3> QED BY ZenonT(40), <2>1, <3>1, TwoGroupsChunks DEF parts, one, two
  <2>3. <<>> \o one = one
    BY <1>3, <1>6, ConcatEmptySeq
  <2> QED BY <2>2, <2>3
<1>9. /\ all \in Seq(T) /\ \A i \in 1 .. Len(all) : all[i].key = 1
      /\ Greedy(Bodies(all), text, max)
  BY <1>0, <1>3, <1>4, <1>6
<1>10. /\ one \in Seq(T) /\ \A i \in 1 .. Len(one) : one[i].key = 1
       /\ Greedy(Bodies(one), first, max)
  BY <1>0, <1>3, <1>4, <1>6
<1>11. /\ two \in Seq(T) /\ \A i \in 1 .. Len(two) : two[i].key = 2
       /\ Greedy(Bodies(two), rest, max)
  BY <1>0, <1>3, <1>4, <1>6
<1> HIDE DEF whole, parts, one, two, all
<1> DEFINE m == Len(one)
           n == Len(two)
<1>12. /\ m \in Nat /\ n \in Nat /\ parts \in Seq(T) /\ Len(parts) = m + n
       /\ \A i \in 1 .. m + n : parts[i] = IF i <= m THEN one[i] ELSE two[i - m]
       /\ DOMAIN parts = 1 .. m + n /\ DOMAIN whole = 1 .. Len(all)
  <2>1. m \in Nat /\ n \in Nat
    BY <1>10, <1>11, LenProperties
  <2>2. /\ parts \in Seq(T) /\ Len(parts) = m + n
        /\ \A i \in 1 .. m + n : parts[i] = IF i <= m THEN one[i] ELSE two[i - m]
    BY <1>8, <1>10, <1>11, ConcatProperties
  <2> QED BY <1>7, <1>9, <2>1, <2>2, LenProperties
<1>13. SubSeq(parts, 1, m) = one
  <2> DEFINE sub == SubSeq(parts, 1, m)
  <2>1. \A i \in 1 .. m : parts[i] \in T
    BY <1>12, ElementOfSeq
  <2>2. /\ sub \in Seq(T) /\ Len(sub) = IF 1 <= m THEN m - 1 + 1 ELSE 0
        /\ \A i \in 1 .. m - 1 + 1 : sub[i] = parts[1 + i - 1]
    BY <1>12, <2>1, SubSeqProperties
  <2> HIDE DEF sub, m, n
  <2>3. Len(sub) = m
    BY <1>12, <2>2
  <2>a. ASSUME NEW i \in 1 .. m PROVE sub[i] = one[i]
    <3>1. i \in 1 .. m - 1 + 1 /\ 1 + i - 1 = i /\ i \in 1 .. m + n /\ i <= m
      BY <1>12
    <3>2. sub[i] = parts[i]
      BY <2>2, <3>1
    <3> QED BY <1>12, <3>1, <3>2
  <2>4. sub = one
    BY <1>10, <2>2, <2>3, <2>a, SeqEqual DEF m
  <2> QED BY <2>4 DEF sub, m
<1>14. SubSeq(parts, m + 1, Len(parts)) = two
  <2> DEFINE e == Len(parts)
             sub == SubSeq(parts, m + 1, e)
  <2>1. \A i \in m + 1 .. e : parts[i] \in T
    BY <1>12, ElementOfSeq
  <2>2. /\ sub \in Seq(T) /\ Len(sub) = IF m + 1 <= e THEN e - (m + 1) + 1 ELSE 0
        /\ \A i \in 1 .. e - (m + 1) + 1 : sub[i] = parts[m + 1 + i - 1]
    <3>1. m + 1 \in Int /\ e \in Int
      BY <1>12
    <3> QED BY <2>1, <3>1, SubSeqProperties
  <2> HIDE DEF sub, m, n
  <2>3. Len(sub) = n /\ \A i \in 1 .. n : sub[i] = two[i]
    BY <1>12, <2>2
  <2>4. sub = two
    BY <1>11, <2>2, <2>3, SeqEqual DEF n
  <2> QED BY <2>4 DEF sub, m
<1>15. \A i \in DOMAIN parts : parts[i].key = IF i <= m THEN 1 ELSE 2
  <2> TAKE i \in DOMAIN parts
  <2>1. i \in 1 .. m + n
    BY <1>12
  <2>2. CASE i <= m
    <3>1. i \in 1 .. m
      BY <1>12, <2>1, <2>2
    <3> QED BY <1>10, <1>12, <2>1, <2>2, <3>1
  <2>3. CASE ~ (i <= m)
    <3>1. i - m \in 1 .. n
      BY <1>12, <2>1, <2>3
    <3> QED BY <1>11, <1>12, <2>1, <2>3, <3>1
  <2> QED BY <2>2, <2>3
<1>16. m \in 0 .. Len(parts)
  BY <1>12
<1>17. \A i \in DOMAIN whole : whole[i].key = 1
  BY <1>7, <1>9, <1>12
<1> HIDE DEF m, n
<1>18. SplitsAt(max, text, k)
  <2>1. ChunkSegments(max, CutAt(text, k, TRUE)) = whole /\ ChunkSegments(max, CutAt(text, k, FALSE)) = parts
    BY <1>2 DEF whole, parts
  <2>2. Greedy(Bodies(whole), text, max)
    BY <1>7, <1>9
  <2>3. /\ Greedy(Bodies(SubSeq(parts, 1, m)), SubSeq(text, 1, k), max)
        /\ Greedy(Bodies(SubSeq(parts, m + 1, Len(parts))), SubSeq(text, k + 1, Len(text)), max)
    BY <1>10, <1>11, <1>13, <1>14 DEF first, rest
  <2> QED BY <1>15, <1>16, <1>17, <2>1, <2>2, <2>3 DEF SplitsAt
<1> QED BY <1>18


LEMMA WordsAreText ==
  ASSUME NEW n \in Nat, NEW ends \in [1 .. n -> BOOLEAN]
  PROVE  Words(ends) \in Seq([pos : 1 .. n, ends : BOOLEAN]) /\ Len(Words(ends)) = n
<1> DEFINE T == [pos : 1 .. n, ends : BOOLEAN]
           w == Words(ends)
<1>1. w = [i \in 1 .. n |-> [pos |-> i, ends |-> ends[i]]]
  BY DEF Words
<1>2. \A i \in 1 .. n : [pos |-> i, ends |-> ends[i]] \in T
  OBVIOUS
<1> HIDE DEF T, w
<1>3. w \in [1 .. n -> T]
  BY <1>1, <1>2
<1>4. w \in Seq(T) /\ Len(w) = n
  BY <1>3
<1> QED BY <1>4 DEF T, w

\* Whatever texts of words a run looks at, they are split exactly.
THEOREM SplitsAreExact == Spec => []SplitExact
<1>1. SplitsExactly
  <2> SUFFICES ASSUME NEW n \in 1 .. MaxWords, NEW ends \in [1 .. n -> BOOLEAN],
                      NEW max \in 1 .. 3, NEW k \in 1 .. n - 1
               PROVE  SplitsAt(max, Words(ends), k)
    BY DEF SplitsExactly
  <2>1. n \in Nat /\ max \in Nat
    OBVIOUS
  <2>2. Words(ends) \in Seq([pos : 1 .. n, ends : BOOLEAN]) /\ Len(Words(ends)) = n
    BY <2>1, WordsAreText
  <2>3. k \in 1 .. Len(Words(ends)) - 1
    BY <2>1, <2>2
  <2> DEFINE T == [pos : 1 .. n, ends : BOOLEAN]
             w == Words(ends)
  <2> HIDE DEF T, w
  <2>4. w \in Seq(T) /\ k \in 1 .. Len(w) - 1
    BY <2>2, <2>3 DEF T, w
  <2>5. SplitsAt(max, w, k)
    BY <2>1, <2>4, SplitsAnywhere
  <2> QED BY <2>5 DEF w
<1>2. SplitExact
  BY <1>1 DEF SplitExact
<1> QED BY <1>2, PTL
=============================================================================
