------------------------------ MODULE Chunking ------------------------------
(* How a text becomes chunks: app/application/services/chunker.py, called by *)
(* corpus_indexing.py with the whitespace tokenizer.  A text is a sequence   *)
(* of words; a word carries a position, by which it is known, and whether a  *)
(* sentence ends after it ([.!?]).  Whitespace is not kept.                  *)
EXTENDS Naturals, Sequences, SequencesExt

CONSTANT MaxWords   \* the longest text SplitsExactly looks at

\* Splitting after every word that ends a sentence; the rest is one more.
Sentences(text) ==
  LET Take(acc, word) ==
        IF word.ends THEN [done |-> Append(acc.done, Append(acc.open, word)), open |-> <<>>]
                     ELSE [acc EXCEPT !.open = Append(@, word)]
      all == FoldLeft(Take, [done |-> <<>>, open |-> <<>>], text)
  IN  IF all.open = <<>> THEN all.done ELSE Append(all.done, all.open)

\* SimpleTokenizer counts words.
Tokens(sentence) == Len(sentence)

Flushed(acc) == IF acc.current = <<>> THEN acc.chunks ELSE Append(acc.chunks, acc.current)

\* Fault: the count of the chunk that was closed is carried on.
PackCarried(max, acc, sentence) ==
  IF Tokens(sentence) > max
  THEN [chunks |-> Append(Flushed(acc), sentence), current |-> <<>>, count |-> acc.count]
  ELSE IF acc.count + Tokens(sentence) > max /\ acc.current # <<>>
  THEN [chunks |-> Flushed(acc), current |-> sentence, count |-> Tokens(sentence)]
  ELSE [acc EXCEPT !.current = @ \o sentence, !.count = @ + Tokens(sentence)]

\* One sentence of the loop: a sentence above the limit closes the current
\* chunk and stands alone; one that does not fit the current chunk opens the
\* next; any other joins it.
Pack(max, acc, sentence) ==
  IF Tokens(sentence) > max
  THEN [chunks |-> Append(Flushed(acc), sentence), current |-> <<>>,
        count |-> IF acc.current = <<>> THEN acc.count ELSE 0]
  ELSE IF acc.count + Tokens(sentence) > max /\ acc.current # <<>>
  THEN [chunks |-> Flushed(acc), current |-> sentence, count |-> Tokens(sentence)]
  ELSE [acc EXCEPT !.current = @ \o sentence, !.count = @ + Tokens(sentence)]

SplitAtSentenceBoundaries(max, text) ==
  LET Step(acc, sentence) == Pack(max, acc, sentence)
      all == FoldLeft(Step, [chunks |-> <<>>, current |-> <<>>, count |-> 0], Sentences(text))
  IN  IF text = <<>> THEN <<text>> ELSE Flushed(all)

\* Runs of segments with one key: the speaker of a transcript segment, the
\* paragraph and section of a document segment.
GroupConsecutive(segments) ==
  LET Join(groups, s) ==
        IF groups # <<>> /\ Last(groups).key = s.key
        THEN Append(Front(groups), [Last(groups) EXCEPT !.text = @ \o s.text])
        ELSE Append(groups, s)
  IN  FoldLeft(Join, <<>>, segments)

\* chunk_document and chunk_transcript: every group is split by itself, and
\* its chunks carry the group's key.
ChunkSegments(max, segments) ==
  LET Keyed(g) == [i \in DOMAIN SplitAtSentenceBoundaries(max, g.text) |->
                     [key |-> g.key, text |-> SplitAtSentenceBoundaries(max, g.text)[i]]]
      Add(chunks, g) == chunks \o Keyed(g)
  IN  FoldLeft(Add, <<>>, GroupConsecutive(segments))

-----------------------------------------------------------------------------
(* Properties, over texts of bounded length *)

\* A text of one word per member of `ends`, and two segments cut from it at k,
\* of the same or of different keys.
Words(ends) == [i \in DOMAIN ends |-> [pos |-> i, ends |-> ends[i]]]
CutAt(text, k, same) ==
  << [key |-> 1, text |-> SubSeq(text, 1, k)],
     [key |-> IF same THEN 1 ELSE 2, text |-> SubSeq(text, k + 1, Len(text))] >>

\* What chunks of a text under a limit are: the text again when put together;
\* whole sentences, from the a-th to the b-th; within the limit, unless a chunk
\* is one sentence; and as few as that allows, no chunk but the last having
\* room for the sentence that follows it.
Greedy(chunks, text, max) ==
  LET sentences == Sentences(text)
  IN  /\ FlattenSeq(chunks) = text
      /\ \A i \in DOMAIN chunks : \E a, b \in DOMAIN sentences :
           /\ a <= b
           /\ chunks[i] = FlattenSeq(SubSeq(sentences, a, b))
           /\ Len(chunks[i]) > max => a = b
           /\ i < Len(chunks) => /\ b < Len(sentences)
                                 /\ Len(chunks[i]) + Len(sentences[b + 1]) > max

Bodies(chunks) == [i \in DOMAIN chunks |-> chunks[i].text]

\* A text cut in two segments at k: with one key they are split as one text;
\* with two, each by itself, the chunks of the first before those of the second.
SplitsAt(max, text, k) ==
  LET whole == ChunkSegments(max, CutAt(text, k, TRUE))
      parts == ChunkSegments(max, CutAt(text, k, FALSE))
  IN  /\ \A i \in DOMAIN whole : whole[i].key = 1
      /\ Greedy(Bodies(whole), text, max)
      /\ \E m \in 0 .. Len(parts) :
           /\ \A i \in DOMAIN parts : parts[i].key = IF i <= m THEN 1 ELSE 2
           /\ Greedy(Bodies(SubSeq(parts, 1, m)), SubSeq(text, 1, k), max)
           /\ Greedy(Bodies(SubSeq(parts, m + 1, Len(parts))), SubSeq(text, k + 1, Len(text)), max)

\* The splitting loses, repeats and reorders nothing, cuts between sentences
\* alone, keeps the limit where a sentence allows it and makes no chunk that
\* could have joined the one before; segments of different keys never share a
\* chunk, and segments of one key are split as one text.
SplitsExactly ==
  \A n \in 1 .. MaxWords : \A ends \in [1 .. n -> BOOLEAN], max \in 1 .. 3, k \in 1 .. n - 1 :
    SplitsAt(max, Words(ends), k)
=============================================================================
