------------------------------ MODULE Chunker ------------------------------
(***************************************************************************)
(* From a document to its chunks: the extraction handlers that know        *)
(* headings (Markdown, HTML, DOCX, PDF) give every fragment the path of    *)
(* the headings it stands under, and the chunker packs fragments into      *)
(* chunks, a new one for a new path or past a number of tokens, each       *)
(* beginning with the end of the one before.  The chunker reads the        *)
(* fragments in order, so that a fragment is chunked here as soon as it is *)
(* extracted.  Fragments and headings are numbered; blank fragments, which *)
(* the chunker skips, have no number.                                      *)
(***************************************************************************)
EXTENDS Integers, SequencesExt

CONSTANTS
  MaxTokens,     \* max_tokens
  Overlap,       \* overlap_tokens
  Sizes,         \* tokens a fragment may have
  Levels,        \* of headings
  Titles,        \* their texts
  MaxHeadings,   \* bounds on the document
  MaxFragments

ASSUME ChunkerAssumption ==
  /\ MaxTokens \in Nat /\ Overlap \in Nat
  /\ Sizes \subseteq Nat \ {0} /\ Levels \subseteq Nat
  /\ MaxHeadings \in Nat /\ MaxFragments \in Nat

VARIABLES
  structured,  \* the result has blocks: headings count
  headings,    \* how many headings there were
  level,       \* their levels
  title,       \* and texts
  stack,       \* heading_stack, the headings in it
  read,        \* how many fragments there were
  upto,        \* tokens in the fragments up to one
  path,        \* heading_path of a fragment
  first,       \* the bucket is the fragments from here to the last one
  chunks,      \* first and last fragments of the chunks
  done

headingVars == <<headings, level, title, stack>>
fragmentVars == <<read, upto, path>>
chunkVars == <<first, chunks>>
vars == <<structured, headingVars, fragmentVars, chunkVars, done>>

Spans == [from : Nat \ {0}, to : Nat \ {0}]

\* Types; the bucket and the chunks are of fragments that were read.
ChunkTypeOK ==
  /\ structured \in BOOLEAN /\ done \in BOOLEAN
  /\ headings \in Nat
  /\ level \in [1..headings -> Nat] /\ DOMAIN title = 1..headings
  /\ stack \subseteq 1..headings
  /\ read \in Nat /\ upto \in [0..read -> Nat] /\ DOMAIN path = 1..read
  /\ first \in 1..(read + 1)
  /\ chunks \in Seq(Spans)
  /\ \A c \in 1..Len(chunks) : chunks[c].from <= chunks[c].to /\ chunks[c].to <= read

Init ==
  /\ structured \in BOOLEAN /\ done = FALSE
  /\ headings = 0 /\ level = [h \in 1..0 |-> 0] /\ title = << >> /\ stack = {}
  /\ read = 0 /\ upto = [i \in 0..0 |-> 0] /\ path = << >>
  /\ first = 1 /\ chunks = << >>

-----------------------------------------------------------------------------

\* f and one more value.
With(f, n, v) == [i \in 1..n |-> IF i = n THEN v ELSE f[i]]

\* Mutant: a heading closes only deeper ones, not those of its level.
KeptBelow(l) == {h \in stack : level[h] <= l}

\* The headings a heading of level l does not close.
Kept(l) == {h \in stack : level[h] < l}

Heading(l, t) ==
  /\ ~done /\ structured /\ headings < MaxHeadings
  /\ headings' = headings + 1
  /\ level' = With(level, headings + 1, l)
  /\ title' = With(title, headings + 1, t)
  /\ stack' = Kept(l) \cup {headings + 1}
  /\ UNCHANGED <<structured, fragmentVars, chunkVars, done>>

\* The texts in the stack, outermost first.
HeadingPath ==
  LET open == SetToSortSeq(stack, <) IN [i \in DOMAIN open |-> title[open[i]]]

\* count_tokens of fragments i to j.
Tokens(i, j) == upto[j] - upto[i - 1]

\* Mutant: one more fragment is carried than fits.
CarriesMore(i, k) ==
  /\ k \in i..read
  /\ Tokens(k + 1, read) <= Overlap
  /\ k > i => Tokens(k, read) > Overlap

\* flush() of the bucket that begins with i leaves the one that begins with k,
\* the longest end of it within overlap_tokens.
Carries(i, k) ==
  /\ k \in i..(read + 1)
  /\ Tokens(k, read) <= Overlap
  /\ k > i => Tokens(k - 1, read) > Overlap

\* Mutant: the size of the next fragment is not added.
FullBefore(i, n) == i <= read /\ Tokens(i, read) > MaxTokens

\* Mutant: a bucket that fits exactly is flushed.
FullAt(i, n) == i <= read /\ Tokens(i, read) + n >= MaxTokens

\* The bucket that begins with i has no room for n more tokens.
Full(i, n) == i <= read /\ Tokens(i, read) + n > MaxTokens

\* Mutant: the path is not compared with that of the fragment before.
SameSection(p) == FALSE

\* section_changed: a fragment under p is of another section than the bucket.
NewSection(p) == structured /\ first <= read /\ p # path[read]

\* flush() makes a chunk of the bucket; what it stores is taken from the
\* fragments, its heading_path from the first one.
Bucket(i) == [from |-> i, to |-> read]

HeadingPathOf(chunk) == path[chunk.from]

\* The chunks after at most two flushes, of the buckets from i and from k.
Stored(i, k, p, n) ==
  LET once == IF NewSection(p) THEN Append(chunks, Bucket(i)) ELSE chunks
  IN  IF Full(k, n) THEN Append(once, Bucket(k)) ELSE once

\* One fragment with n tokens: a flush if its section is a new one, a flush if
\* it does not fit, and into the bucket.
Fragment(n) ==
  /\ ~done /\ read < MaxFragments
  /\ \E k, m \in first..(read + 1) :
       /\ IF NewSection(HeadingPath) THEN Carries(first, k) ELSE k = first
       /\ IF Full(k, n) THEN Carries(k, m) ELSE m = k
       /\ chunks' = Stored(first, k, HeadingPath, n)
       /\ first' = m
  /\ read' = read + 1
  /\ upto' = [i \in 0..(read + 1) |-> IF i = read + 1 THEN upto[read] + n ELSE upto[i]]
  /\ path' = With(path, read + 1, HeadingPath)
  /\ UNCHANGED <<structured, headingVars, done>>

\* Mutant: what is in the bucket at the end is left there.
FinishOpen ==
  /\ ~done
  /\ done' = TRUE
  /\ UNCHANGED <<structured, headingVars, fragmentVars, chunks, first>>

\* The flush after the last fragment.
Finish ==
  /\ ~done
  /\ done' = TRUE
  /\ IF first <= read
     THEN chunks' = Append(chunks, Bucket(first)) /\ Carries(first, first')
     ELSE UNCHANGED chunkVars
  /\ UNCHANGED <<structured, headingVars, fragmentVars>>

-----------------------------------------------------------------------------

Next ==
  \/ \E l \in Levels, t \in Titles : Heading(l, t)
  \/ \E n \in Sizes : Fragment(n)
  \/ Finish

Spec == Init /\ [][Next]_vars
-----------------------------------------------------------------------------
(* Properties. *)

\* A heading is in the stack exactly as long as it encloses what follows: no
\* heading since was of its level or above.
StackEncloses ==
  stack = {h \in 1..headings : \A g \in (h + 1)..headings : level[g] > level[h]}

Follows(prev, next) == next.from <= prev.to + 1 /\ prev.to <= next.to

\* No fragment is lost: the chunks go through the document without a gap, the
\* bucket begins where they end or before, and in the end they reach the last
\* fragment.
NothingLost ==
  LET last == Len(chunks) IN
  /\ last > 0 => chunks[1].from = 1
  /\ \A c \in 1..(last - 1) : Follows(chunks[c], chunks[c + 1])
  /\ first <= (IF last = 0 THEN 1 ELSE chunks[last].to + 1)
  /\ done /\ read > 0 => last > 0 /\ chunks[last].to = read

\* A chunk has more than max_tokens only if it is overlap and one fragment that
\* does not fit next to it, one that fits a chunk of its own perhaps.  (The
\* "512-token max" of README.md:17 is more than the code keeps.)
SizesBounded ==
  \A c \in 1..Len(chunks) :
    LET from == chunks[c].from  to == chunks[c].to IN
    Tokens(from, to) <= MaxTokens \/ Tokens(from, to - 1) <= Overlap

\* Chunks share no more than overlap_tokens with the one before.
OverlapBounded ==
  \A c \in 1..(Len(chunks) - 1) :
    Tokens(chunks[c + 1].from, chunks[c].to) <= Overlap

\* What a chunk holds of another section than that of its end is overlap: no
\* more than overlap_tokens, all of which the chunk before holds too.  A chunk
\* holds fragments that do not stand under its heading_path only if it begins
\* with such overlap, whose heading_path it has then.  (Overlap "never across"
\* a section, docs/architecture.md:169, is more than the code keeps.)
SectionsRespected ==
  structured =>
    \A c \in 1..Len(chunks) : \A i \in chunks[c].from..chunks[c].to :
      /\ path[i] # path[chunks[c].to] =>
           /\ Tokens(chunks[c].from, i) <= Overlap
           /\ c > 1 /\ i <= chunks[c - 1].to
      /\ path[i] # HeadingPathOf(chunks[c]) =>
           c > 1 /\ chunks[c].from <= chunks[c - 1].to

\* A chunk with nothing new in it is made only where a section ends, of no more
\* than the overlap, before a fragment that does not fit next to it.
RepeatsOnlyOverlap ==
  \A c \in 1..(Len(chunks) - 1) :
    LET from == chunks[c + 1].from  to == chunks[c + 1].to IN
    chunks[c].to = to =>
      /\ Tokens(from, to) <= Overlap
      /\ to < read /\ path[to + 1] # path[to] /\ Tokens(from, to + 1) > MaxTokens
=============================================================================
