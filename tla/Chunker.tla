------------------------------ MODULE Chunker -------------------------------
(***************************************************************************)
(* How the text of a file becomes chunks: it is cut at its headings, what  *)
(* is too long at paragraphs, sentences and words, and the units that come *)
(* of it are packed into chunks, each of which repeats the end of the one  *)
(* before.  A text is a sequence of words, and what is cut out of it is a  *)
(* span of them; what a span counts in tokens is any number, for neither   *)
(* of the two counters is additive.                                        *)
(***************************************************************************)
EXTENDS Integers, Sequences

CONSTANTS
    Documents,   \* sequences of sections; one without a heading can only be the first
    Limits       \* chunk_size_tokens and chunk_overlap_tokens

VARIABLES
    doc, limit, chunker,   \* what chunk() is called with, and which chunker was created
    section, path,         \* the section in hand, and the headings above it
    pc, units,             \* where the chunker is; the units of the section
    pos, current,          \* the next unit, and what is in hand of those before it
    tail,                  \* the part of it that the next chunk repeats
    chunks

vars == << doc, limit, chunker, section, path, pc, units, pos, current, tail, chunks >>

\* A section: the level of its heading, its words, after which of them a paragraph or a
\* sentence ends, what its spans count, and what a word counts with the space behind it.
\* chunk() refuses other limits.
Parameters ==
    /\ Limits \subseteq [size : Nat \ {0}, overlap : Nat]
    /\ \A d \in Documents : Len(d) \in Nat /\ DOMAIN d = 1..Len(d)
    /\ \A d \in Documents : \A s \in DOMAIN d :
          /\ d[s].level \in Nat /\ d[s].words \in Nat
          /\ d[s].sentences \subseteq 1..d[s].words /\ d[s].paragraphs \subseteq d[s].sentences
          /\ d[s].words > 0 => d[s].words \in d[s].paragraphs
          /\ d[s].count \in [(1..d[s].words) \X (1..d[s].words) -> Nat]
          /\ d[s].weight \in [1..d[s].words -> Nat]

\* The units in hand are those from `from' to the one before pos, of which those before
\* `fresh' have been in the last chunk.
None == [from |-> 1, tokens |-> 0, fresh |-> 1]

Init ==
    /\ doc \in Documents /\ limit \in Limits /\ chunker \in {"null", "plain", "headings"}
    /\ chunker = "plain" => Len(doc) = 1 /\ doc[1].level = 0
    /\ section = 0 /\ path = << >>
    /\ pc = "section" /\ units = << >>
    /\ pos = 1 /\ current = None /\ tail = None
    /\ chunks = << >>

-----------------------------------------------------------------------------
(* Units.                                                                  *)
Words == doc[section].words
Count(first, last) == doc[section].count[<< first, last >>]
Small(first, last) == Count(first, last) <= limit.size

\* The first of these places that is not before word a.
EndAfter(places, a) == CHOOSE e \in places : a <= e /\ \A x \in places : a <= x => e <= x
Starts(places, a) == a = 1 \/ a - 1 \in places

\* As many words from a on as go together; one that is too long is not cut.
Together(a) ==
    LET sum[k \in (a - 1)..Words] == IF k < a THEN 0 ELSE sum[k - 1] + doc[section].weight[k] IN sum
HardEnd(a, last) ==
    EndAfter({k \in a..last : k = last \/ Together(a)[k + 1] > limit.size}, a)

\* The end of the unit that begins with word a: the text, a paragraph, a sentence or what
\* goes together of one.
UnitEnd(a) ==
    LET paragraph == EndAfter(doc[section].paragraphs, a)
        sentence  == EndAfter(doc[section].sentences, a)
    IN  IF Small(1, Words) THEN Words
        ELSE IF Starts(doc[section].paragraphs, a) /\ Small(a, paragraph) THEN paragraph
        ELSE IF Starts(doc[section].sentences, a) /\ Small(a, sentence) THEN sentence
        ELSE HardEnd(a, sentence)

NextWord == IF units = << >> THEN 1 ELSE units[Len(units)].last + 1

-----------------------------------------------------------------------------
(* Chunks.                                                                 *)

\* (A variant, used by no specification: a heading stays above the next of its level.)
PathKept(level) ==
    [k \in 1..level |-> IF k <= Len(path) THEN path[k] ELSE IF k = level THEN section + 1 ELSE 0]

\* The headings above a heading of this level; levels the document skips are empty.
PathUnder(level) ==
    [k \in 1..level |-> IF k = level THEN section + 1 ELSE IF k <= Len(path) THEN path[k] ELSE 0]

\* What the units of a chunk count together; how many of them it does not repeat.
Chunk(first, last, tokens, fresh) ==
    [section |-> section, path |-> path, first |-> first, last |-> last, tokens |-> tokens,
     fresh |-> fresh]

\* The chunk of the units in hand.
InHand ==
    Chunk(units[current.from].first, units[pos - 1].last, current.tokens, pos - current.fresh)

\* The next section, if the text is cut at its headings.  One without words has no chunk.
NextSection ==
    /\ pc = "section"
    /\ chunker # "null"
    /\ section < Len(doc)
    /\ section' = section + 1
    /\ path' = PathUnder(doc[section + 1].level)
    /\ pc' = IF doc[section + 1].words = 0 THEN "section" ELSE "body"
    /\ UNCHANGED << doc, limit, chunker, units, pos, current, tail, chunks >>

\* A small section is a chunk.
WholeSection ==
    /\ pc = "body"
    /\ chunker = "headings" /\ Small(1, Words)
    /\ chunks' = Append(chunks, Chunk(1, Words, Count(1, Words), 1))
    /\ pc' = "section"
    /\ UNCHANGED << doc, limit, chunker, section, path, units, pos, current, tail >>

\* The plain chunker begins, on the text or on a section.
Begin ==
    /\ pc = "body"
    /\ chunker = "headings" => ~Small(1, Words)
    /\ pc' = "split"
    /\ units' = << >> /\ pos' = 1 /\ current' = None /\ tail' = None
    /\ UNCHANGED << doc, limit, chunker, section, path, chunks >>

Split ==
    /\ pc = "split"
    /\ IF NextWord <= Words
         THEN units' = Append(units, [first |-> NextWord, last |-> UnitEnd(NextWord)]) /\ UNCHANGED pc
         ELSE pc' = "pack" /\ UNCHANGED units
    /\ UNCHANGED << doc, limit, chunker, section, path, pos, current, tail, chunks >>

Tokens(u) == Count(units[u].first, units[u].last)
Empty == current.from = pos
Fits == current.tokens + Tokens(pos) <= limit.size

\* The next unit joins those in hand: if it fits, or if they are what the last chunk left.
Take ==
    /\ \/ pc = "pack" /\ pos <= Len(units) /\ (Empty \/ Fits)
       \/ pc = "repeat"
    /\ current' = [current EXCEPT !.tokens = @ + Tokens(pos)]
    /\ pos' = pos + 1
    /\ pc' = "pack"
    /\ UNCHANGED << doc, limit, chunker, section, path, units, tail, chunks >>

\* It does not fit: those in hand are a chunk.
Emit ==
    /\ pc = "pack" /\ pos <= Len(units)
    /\ ~Empty /\ ~Fits
    /\ chunks' = Append(chunks, InHand)
    /\ tail' = [from |-> pos, tokens |-> 0, fresh |-> pos]
    /\ pc' = "overlap"
    /\ UNCHANGED << doc, limit, chunker, section, path, units, pos, current >>

\* An overlap that is no smaller than a chunk is none.
Overlap == IF limit.overlap >= limit.size THEN 0 ELSE limit.overlap

\* From the end of the chunk, units are repeated until they count as much as the overlap;
\* the first of them whatever it counts.
Repeats ==
    /\ tail.from > current.from
    /\ tail.tokens < Overlap
    /\ tail.from < pos => tail.tokens + Tokens(tail.from - 1) <= Overlap

TakeOverlap ==
    /\ pc = "overlap"
    /\ IF Repeats
         THEN /\ tail' = [tail EXCEPT !.from = @ - 1, !.tokens = @ + Tokens(tail.from - 1)]
              /\ UNCHANGED << pc, current >>
         ELSE /\ current' = tail
              /\ pc' = "repeat"
              /\ UNCHANGED tail
    /\ UNCHANGED << doc, limit, chunker, section, path, units, pos, chunks >>

EmitLast ==
    /\ pc = "pack" /\ pos > Len(units)
    /\ chunks' = IF Empty THEN chunks ELSE Append(chunks, InHand)
    /\ pc' = "section"
    /\ UNCHANGED << doc, limit, chunker, section, path, units, pos, current, tail >>

Next ==
    \/ NextSection \/ WholeSection \/ Begin
    \/ Split \/ Take \/ Emit \/ TakeOverlap \/ EmitLast

Spec == Init /\ [][Next]_vars

-----------------------------------------------------------------------------
(* Properties.                                                             *)

Run == [from : Nat \ {0}, tokens : Nat, fresh : Nat \ {0}]
TypeOK ==
    /\ doc \in Documents /\ limit \in Limits /\ chunker \in {"null", "plain", "headings"}
    /\ section \in 0..Len(doc) /\ path \in Seq(0..Len(doc))
    /\ pc \in {"section", "body", "split", "pack", "overlap", "repeat"}
    /\ units \in Seq([first : Nat, last : Nat])
    /\ pos \in Nat \ {0} /\ current \in Run /\ tail \in Run
    /\ chunks \in Seq([section : 1..Len(doc), path : Seq(0..Len(doc)), first : Nat, last : Nat,
                       tokens : Nat, fresh : Nat])

\* The heading of level k above section s: the last one before it that is not of a deeper
\* level, if it is of this one.
Above(s, k) ==
    LET last == {h \in 1..s : doc[h].level <= k /\ \A x \in (h + 1)..s : doc[x].level > k}
    IN  IF \E h \in last : doc[h].level = k THEN CHOOSE h \in last : doc[h].level = k ELSE 0

\* Every word of a section that has been dealt with is in a chunk; the chunks are in the
\* order of the text, and each goes beyond the one before, of which it repeats no more than
\* an end; a chunk whose units count too much has but one that it does not repeat; what is
\* repeated is within the overlap or one unit; and a chunk is under the headings of its section.
ChunksHoldTheText ==
    /\ chunker # "null" =>
         \A s \in 1..section : s < section \/ pc = "section" =>
             \A w \in 1..doc[s].words :
                 \E c \in DOMAIN chunks : chunks[c].section = s /\ w \in chunks[c].first..chunks[c].last
    /\ \A c \in DOMAIN chunks, d \in DOMAIN chunks : d = c + 1 =>
         \/ chunks[c].section < chunks[d].section /\ chunks[d].first = 1
         \/ /\ chunks[c].section = chunks[d].section
            /\ chunks[c].first <= chunks[d].first /\ chunks[d].first <= chunks[c].last + 1
            /\ chunks[c].last < chunks[d].last
    /\ \A c \in DOMAIN chunks :
         /\ chunks[c].tokens <= limit.size \/ chunks[c].fresh = 1
         /\ chunks[c].path = [k \in 1..doc[chunks[c].section].level |-> Above(chunks[c].section, k)]
    /\ pc = "repeat" => current.tokens <= Overlap \/ current.from = pos - 1
=============================================================================
