--------------------------- MODULE ChunkerProofs ---------------------------
(***************************************************************************)
(* The chunker keeps its promises for documents of any length and any      *)
(* limits.  Each property of the chunks stored so far is carried by what   *)
(* the bucket is at any time: it begins within the overlap with the last   *)
(* chunk, has room for what it holds unless that is overlap and one        *)
(* fragment, and holds of other sections overlap with the last chunk only. *)
(***************************************************************************)
EXTENDS Chunker, TLAPS

\* The last fragment in a chunk.
LastTo == IF chunks = << >> THEN 0 ELSE chunks[Len(chunks)].to

Growing == \A i, j \in 0..read : i <= j => upto[i] <= upto[j]

\* What holds of a chunk, and of the bucket when it becomes one.
Sized(from, to) == Tokens(from, to) <= MaxTokens \/ Tokens(from, to - 1) <= Overlap

OneSection(from, to) ==
  structured => \A i \in from..to : path[i] # path[to] => Tokens(from, i) <= Overlap

\* What a chunk holds of another section than its end are fragments up to n.
Carried(ch, n) ==
  structured => \A i \in ch.from..ch.to : path[i] # path[ch.to] => i <= n

Good(ch) ==
  /\ ch \in Spans /\ ch.from <= ch.to /\ ch.to <= read
  /\ Sized(ch.from, ch.to) /\ OneSection(ch.from, ch.to)

\* What holds of a chunk and the next one.
Pair(a, b) ==
  /\ Follows(a, b)
  /\ Carried(b, a.to)
  /\ Tokens(b.from, a.to) <= Overlap
  /\ a.to = b.to =>
       /\ Tokens(b.from, b.to) <= Overlap
       /\ b.to < read /\ path[b.to + 1] # path[b.to] /\ Tokens(b.from, b.to + 1) > MaxTokens

Chain(s) ==
  /\ s \in Seq(Spans)
  /\ \A c \in 1..Len(s) : Good(s[c])
  /\ \A c \in 1..(Len(s) - 1) : Pair(s[c], s[c + 1])
  /\ Len(s) > 0 => s[1].from = 1 /\ Carried(s[1], 0)

BucketFollows ==
  /\ LastTo <= read /\ first <= LastTo + 1
  /\ Tokens(first, LastTo) <= Overlap
  /\ chunks = << >> => first = 1

BucketGood ==
  first <= read =>
    /\ Sized(first, read) /\ OneSection(first, read)
    /\ Carried(Bucket(first), LastTo)

\* Something is new in the bucket until the end, when nothing is.
BucketNew ==
  IF done THEN LastTo = read ELSE read > 0 => LastTo < read

ChunkInv ==
  /\ ChunkTypeOK /\ StackEncloses /\ Growing
  /\ Chain(chunks)
  /\ BucketFollows /\ BucketNew
  /\ ~done => BucketGood

-----------------------------------------------------------------------------

\* What a chunk of a chain holds of another section, the one before holds too.
LEMMA CarriedBack ==
  ASSUME Chain(chunks), structured,
         NEW c \in 1..Len(chunks), NEW i \in chunks[c].from..chunks[c].to,
         path[i] # path[chunks[c].to]
  PROVE  c > 1 /\ i <= chunks[c - 1].to
<1>1. Len(chunks) \in Nat /\ Len(chunks) > 0
  BY DEF Chain
<1>2. chunks[1].from \in Nat \ {0} /\ i \in Int
  BY <1>1 DEF Chain, Good, Spans
<1>3. c # 1
  <2>1. SUFFICES ASSUME c = 1 PROVE i <= 0
    BY <1>1, <1>2, <2>1
  <2> QED  BY <1>1, <2>1 DEF Chain, Carried
<1>4. c - 1 \in 1..(Len(chunks) - 1) /\ (c - 1) + 1 = c
  BY <1>1, <1>3
<1>5. Pair(chunks[c - 1], chunks[(c - 1) + 1])
  BY <1>4 DEF Chain
<1>6. Carried(chunks[c], chunks[c - 1].to)
  BY <1>4, <1>5 DEF Pair
<1>7. i <= chunks[c - 1].to
  BY <1>6 DEF Carried
<1> QED  BY <1>3, <1>7

\* A chunk of a chain that holds a fragment of another heading path than its own
\* begins with what the one before holds.
LEMMA LabelCarried ==
  ASSUME Chain(chunks), structured,
         NEW c \in 1..Len(chunks), NEW i \in chunks[c].from..chunks[c].to,
         path[i] # HeadingPathOf(chunks[c])
  PROVE  c > 1 /\ chunks[c].from <= chunks[c - 1].to
<1>1. \A k \in 1..Len(chunks) : chunks[k] \in Spans
  BY DEF Chain
<1>2. chunks[c].from \in Nat /\ chunks[c].to \in Nat /\ i \in Nat /\ chunks[c].from <= i
  BY <1>1 DEF Spans
<1>3. PICK k \in {chunks[c].from, i} : path[k] # path[chunks[c].to]
  BY DEF HeadingPathOf
<1>4. k \in chunks[c].from..chunks[c].to /\ chunks[c].from <= k
  BY <1>2
<1>5. c > 1 /\ k <= chunks[c - 1].to
  BY <1>3, <1>4, CarriedBack
<1>6. c - 1 \in 1..Len(chunks)
  BY <1>5
<1>7. chunks[c - 1].to \in Nat
  BY <1>1, <1>6 DEF Spans
<1> QED  BY <1>2, <1>4, <1>5, <1>7

\* The chunks and the bucket together are what the properties speak about.
LEMMA InvImplies ==
  ASSUME ChunkInv
  PROVE  /\ NothingLost /\ SizesBounded /\ OverlapBounded
         /\ SectionsRespected /\ RepeatsOnlyOverlap
<1>0. /\ chunks \in Seq(Spans) /\ Len(chunks) \in Nat /\ (Len(chunks) = 0 <=> chunks = << >>)
      /\ Len(chunks) > 0 => chunks[1].from = 1 /\ Carried(chunks[1], 0)
      /\ \A c \in 1..(Len(chunks) - 1) : Pair(chunks[c], chunks[c + 1])
  BY DEF ChunkInv, Chain
<1>1. NothingLost
  <2>1. \A c \in 1..(Len(chunks) - 1) : Follows(chunks[c], chunks[c + 1])
    BY <1>0 DEF Pair
  <2>2. first <= LastTo + 1 /\ (chunks = << >> => first = 1) /\ (done => LastTo = read)
    BY DEF ChunkInv, BucketFollows, BucketNew
  <2> QED  BY <1>0, <2>1, <2>2 DEF NothingLost, LastTo
<1> USE DEF ChunkInv, Chain, ChunkTypeOK, Spans
<1>2. SizesBounded
  BY DEF SizesBounded, Good, Sized
<1>3. OverlapBounded
  BY DEF OverlapBounded, Pair
<1>4. SectionsRespected
  <2> SUFFICES ASSUME structured, NEW c \in 1..Len(chunks),
                      NEW i \in chunks[c].from..chunks[c].to
               PROVE  /\ path[i] # path[chunks[c].to] =>
                           /\ Tokens(chunks[c].from, i) <= Overlap
                           /\ c > 1 /\ i <= chunks[c - 1].to
                      /\ path[i] # HeadingPathOf(chunks[c]) =>
                           c > 1 /\ chunks[c].from <= chunks[c - 1].to
    BY DEF SectionsRespected
  <2>1. path[i] # path[chunks[c].to] => Tokens(chunks[c].from, i) <= Overlap
    BY DEF Good, OneSection
  <2>2. path[i] # path[chunks[c].to] => c > 1 /\ i <= chunks[c - 1].to
    BY CarriedBack
  <2>3. path[i] # HeadingPathOf(chunks[c]) => c > 1 /\ chunks[c].from <= chunks[c - 1].to
    BY LabelCarried
  <2> QED  BY <2>1, <2>2, <2>3
<1>5. RepeatsOnlyOverlap
  BY DEF RepeatsOnlyOverlap, Pair
<1> QED  BY <1>1, <1>2, <1>3, <1>4, <1>5

LEMMA InitInv ==
  ASSUME Init
  PROVE  ChunkInv
<1> USE ChunkerAssumption DEF Init
<1>1. ChunkTypeOK
  BY DEF ChunkTypeOK, Spans
<1>2. StackEncloses /\ Growing /\ Chain(chunks)
  BY DEF StackEncloses, Growing, Chain
<1>3. BucketFollows /\ BucketNew /\ BucketGood
  BY DEF BucketFollows, BucketNew, BucketGood, LastTo, Tokens
<1> QED  BY <1>1, <1>2, <1>3 DEF ChunkInv

-----------------------------------------------------------------------------
(* Headings: the chunks stay as they are. *)

LEMMA HeadingEffect ==
  ASSUME ChunkTypeOK, NEW l \in Levels, NEW t \in Titles, Heading(l, t)
  PROVE  /\ headings' = headings + 1
         /\ stack' = {h \in stack : level[h] < l} \cup {headings + 1}
         /\ stack' \subseteq 1..(headings + 1)
         /\ level' \in [1..(headings + 1) -> Nat]
         /\ level'[headings + 1] = l
         /\ \A h \in 1..headings : level'[h] = level[h]
         /\ DOMAIN title' = 1..(headings + 1)
<1> DEFINE n == headings + 1
<1>1. level \in [1..headings -> Nat] /\ l \in Nat /\ headings \in Nat
  BY ChunkerAssumption DEF ChunkTypeOK
<1>2. /\ headings' = n
      /\ stack' = {h \in stack : level[h] < l} \cup {n}
      /\ level' = [i \in 1..n |-> IF i = n THEN l ELSE level[i]]
      /\ title' = [i \in 1..n |-> IF i = n THEN t ELSE title[i]]
  BY DEF Heading, Kept, With
<1>3. \A i \in 1..n : i = n \/ i \in 1..headings
  BY <1>1
<1>4. n \in 1..n /\ \A i \in 1..headings : i \in 1..n
  BY <1>1
<1>5. stack \subseteq 1..headings
  BY DEF ChunkTypeOK
<1>6. stack' \subseteq 1..n
  <2>1. ASSUME NEW h \in stack'
        PROVE  h \in 1..n
    <3>1. h \in stack \/ h = n
      BY <1>2
    <3> QED  BY <3>1, <1>4, <1>5
  <2> QED  BY <2>1
<1>7. level' \in [1..n -> Nat]
  BY <1>1, <1>2, <1>3
<1>8. level'[n] = l /\ \A h \in 1..headings : level'[h] = level[h]
  BY <1>1, <1>2, <1>4
<1> QED  BY <1>2, <1>6, <1>7, <1>8

LEMMA StackStep ==
  ASSUME ChunkTypeOK, StackEncloses, NEW l \in Levels, NEW t \in Titles, Heading(l, t)
  PROVE  StackEncloses'
<1> DEFINE n == headings + 1
           Open(h) == \A g \in (h + 1)..headings : level[g] > level[h]
           Open1(h) == \A g \in (h + 1)..n : level'[g] > level'[h]
<1>1. level \in [1..headings -> Nat] /\ l \in Nat /\ headings \in Nat /\ stack \subseteq 1..headings
  BY ChunkerAssumption DEF ChunkTypeOK
<1>2. \A h \in 1..headings : level'[h] = level[h]
  BY HeadingEffect
<1>3. level'[n] = l /\ headings' = n
  BY HeadingEffect
<1>4. ASSUME NEW h \in 1..headings
      PROVE  Open1(h) <=> Open(h) /\ level[h] < l
  <2>1. \A g : g \in (h + 1)..n <=> g \in (h + 1)..headings \/ g = n
    BY <1>1
  <2>2. \A g \in (h + 1)..headings : g \in 1..headings
    BY <1>1
  <2>3. level'[h] = level[h] /\ level[h] \in Nat
    BY <1>1, <1>2
  <2>4. Open1(h) <=> (\A g \in (h + 1)..headings : level'[g] > level[h]) /\ l > level[h]
    BY <2>1, <2>3, <1>3
  <2> QED  BY <2>2, <2>3, <2>4, <1>1, <1>2
<1>5. Open1(n)
  BY <1>1
<1>6. \A h \in 1..headings : h \in stack <=> Open(h)
  BY DEF StackEncloses
<1>7. stack' = {h \in stack : level[h] < l} \cup {n}
  BY HeadingEffect
<1>8. \A h \in 1..n : h = n \/ h \in 1..headings
  BY <1>1
<1>9. n \notin 1..headings /\ n \in 1..n /\ stack' \subseteq 1..n
  BY <1>1, HeadingEffect
<1> HIDE DEF Open, Open1
<1>10. \A h \in 1..n : h \in stack' <=> Open1(h)
  BY <1>1, <1>4, <1>5, <1>6, <1>7, <1>8, <1>9
<1> QED  BY <1>3, <1>9, <1>10 DEF StackEncloses, Open1

\* What the chunks are made of does not change.
LEMMA SameChunks ==
  ASSUME ChunkInv, UNCHANGED <<structured, fragmentVars, chunkVars, done>>
  PROVE  /\ Growing' /\ Chain(chunks)' /\ BucketFollows' /\ BucketNew'
         /\ (~done => BucketGood)'
BY DEF ChunkInv, Growing, Chain, BucketFollows, BucketNew, BucketGood, Good, Pair, Follows,
       Sized, OneSection, Carried, Bucket, LastTo, Tokens, fragmentVars, chunkVars

LEMMA HeadingStep ==
  ASSUME ChunkInv, NEW l \in Levels, NEW t \in Titles, Heading(l, t)
  PROVE  ChunkInv'
<1>1. StackEncloses'
  BY StackStep DEF ChunkInv
<1>2. UNCHANGED <<structured, fragmentVars, chunkVars, done>>
  BY DEF Heading
<1>3. ChunkTypeOK'
  <2>1. stack \subseteq 1..headings /\ headings \in Nat
    BY DEF ChunkInv, ChunkTypeOK
  <2>2. /\ headings' \in Nat /\ DOMAIN title' = 1..headings'
        /\ level' \in [1..headings' -> Nat] /\ stack' \subseteq 1..headings'
    <3>1. ChunkTypeOK
      BY DEF ChunkInv
    <3> HIDE DEF ChunkTypeOK
    <3>2. headings' = headings + 1
      BY <3>1, HeadingEffect
    <3> QED  BY <2>1, <3>1, <3>2, HeadingEffect
  <2> QED  BY <1>2, <2>2 DEF fragmentVars, chunkVars, ChunkInv, ChunkTypeOK
<1> QED  BY <1>1, <1>2, <1>3, SameChunks DEF ChunkInv

-----------------------------------------------------------------------------
(* Flushes. *)

\* A chunk more, in the next state.
LEMMA ChainAppend ==
  ASSUME NEW s, Chain(s)', NEW ch, Good(ch)',
         s = << >> => ch.from = 1 /\ Carried(ch, 0)',
         s # << >> => Pair(s[Len(s)], ch)'
  PROVE  Chain(Append(s, ch))'
<1> DEFINE t == Append(s, ch)
<1>1. s \in Seq(Spans) /\ ch \in Spans
  BY DEF Chain, Good
<1>2. /\ t \in Seq(Spans) /\ Len(t) = Len(s) + 1 /\ Len(s) \in Nat
      /\ t[Len(s) + 1] = ch
      /\ \A c \in 1..Len(s) : t[c] = s[c]
      /\ Len(s) = 0 <=> s = << >>
  BY <1>1
<1> HIDE DEF t
<1>3. \A c \in 1..Len(t) : Good(t[c])'
  BY <1>2 DEF Chain
<1>4. \A c \in 1..(Len(t) - 1) : Pair(t[c], t[c + 1])'
  <2> TAKE c \in 1..(Len(t) - 1)
  <2>1. CASE c = Len(s)
    BY <1>2, <2>1
  <2>2. CASE c \in 1..(Len(s) - 1)
    BY <1>2, <2>2 DEF Chain
  <2> QED  BY <1>2, <2>1, <2>2
<1>5. t[1].from = 1 /\ Carried(t[1], 0)'
  BY <1>2 DEF Chain
<1> QED  BY <1>2, <1>3, <1>4, <1>5 DEF Chain, t

\* The bucket makes a good chunk, and so does what a flush carries over.
LEMMA GoodBucket ==
  ASSUME ChunkInv, ~done, first <= read
  PROVE  Good([from |-> first, to |-> read])
BY DEF ChunkInv, ChunkTypeOK, BucketGood, Good, Spans

LEMMA GoodCarried ==
  ASSUME ChunkInv, NEW k \in 1..read, Tokens(k, read) <= Overlap
  PROVE  Good([from |-> k, to |-> read])
<1>1. read \in Nat /\ upto \in [0..read -> Nat] /\ Overlap \in Nat /\ MaxTokens \in Nat
  BY ChunkerAssumption DEF ChunkInv, ChunkTypeOK
<1>2. \A i \in 0..read : upto[i] <= upto[read]
  BY <1>1 DEF ChunkInv, Growing
<1>3. \A i \in 0..read : Tokens(k, i) <= Overlap
  BY <1>1, <1>2 DEF Tokens
<1> QED  BY <1>1, <1>3 DEF Good, Spans, Sized, OneSection

\* The chunk a flush of the bucket makes follows the last one.
LEMMA PairBucket ==
  ASSUME ChunkInv, ~done, first <= read, chunks # << >>
  PROVE  /\ Pair(chunks[Len(chunks)], [from |-> first, to |-> read])
         /\ chunks[Len(chunks)].to < read
         /\ Good(chunks[Len(chunks)])
<1>1. /\ chunks \in Seq(Spans) /\ Len(chunks) \in 1..Len(chunks)
      /\ first \in Nat \ {0} /\ read \in Nat /\ read > 0
  BY DEF ChunkInv, ChunkTypeOK
<1>2. Good(chunks[Len(chunks)]) /\ chunks[Len(chunks)].to \in Nat
  BY <1>1 DEF ChunkInv, Chain, Good, Spans
<1>3. chunks[Len(chunks)].to < read
  BY <1>1, <1>2 DEF ChunkInv, BucketNew, LastTo
<1>4. Carried([from |-> first, to |-> read], chunks[Len(chunks)].to)
  BY <1>1 DEF ChunkInv, BucketGood, Bucket, LastTo
<1> QED  BY <1>1, <1>2, <1>3, <1>4 DEF ChunkInv, BucketFollows, Pair, Follows, LastTo

-----------------------------------------------------------------------------
(* Fragments. *)

\* A fragment more: what was known of the others stays.
LEMMA StreamGrows ==
  ASSUME ChunkInv, NEW n \in Sizes, Fragment(n)
  PROVE  /\ read \in Nat /\ n \in Nat /\ read' = read + 1 /\ structured' = structured
         /\ upto \in [0..read -> Nat] /\ upto' \in [0..(read + 1) -> Nat]
         /\ \A i \in 0..read : upto'[i] = upto[i]
         /\ upto'[read + 1] = upto[read] + n
         /\ DOMAIN path' = 1..(read + 1)
         /\ \A i \in 1..read : path'[i] = path[i]
         /\ path'[read + 1] = HeadingPath
<1>1. read \in Nat /\ upto \in [0..read -> Nat] /\ n \in Nat
  BY ChunkerAssumption DEF ChunkInv, ChunkTypeOK
<1>2. /\ read' = read + 1 /\ structured' = structured
      /\ upto' = [i \in 0..(read + 1) |-> IF i = read + 1 THEN upto[read] + n ELSE upto[i]]
      /\ path' = [i \in 1..(read + 1) |-> IF i = read + 1 THEN HeadingPath ELSE path[i]]
  BY DEF Fragment, With
<1>3. \A i \in 0..(read + 1) : i = read + 1 \/ i \in 0..read
  BY <1>1
<1>4. upto' \in [0..(read + 1) -> Nat]
  BY <1>1, <1>2, <1>3
<1>5. \A i \in 0..read : upto'[i] = upto[i]
  BY <1>1, <1>2
<1>6. \A i \in 1..read : path'[i] = path[i]
  BY <1>1, <1>2
<1>7. upto'[read + 1] = upto[read] + n /\ path'[read + 1] = HeadingPath
  BY <1>1, <1>2
<1> QED  BY <1>1, <1>2, <1>4, <1>5, <1>6, <1>7

LEMMA GrowingStep ==
  ASSUME ChunkInv, NEW n \in Sizes, Fragment(n)
  PROVE  Growing'
<1>1. read \in Nat /\ n \in Nat /\ upto \in [0..read -> Nat]
  BY StreamGrows
<1>2. \A i \in 0..read : i <= read /\ read \in 0..read
  BY <1>1
<1>3. \A i \in 0..read : upto[i] <= upto[read]
  BY <1>2 DEF ChunkInv, Growing
<1>4. \A i \in 0..read : upto'[i] = upto[i]
  BY StreamGrows
<1>5. upto'[read + 1] = upto[read] + n
  BY StreamGrows
<1>6. ASSUME NEW i \in 0..(read + 1), NEW j \in 0..(read + 1), i <= j
      PROVE  upto'[i] <= upto'[j]
  <2>1. CASE j = read + 1 /\ i \in 0..read
    <3>1. upto[i] <= upto[read] /\ upto[i] \in Nat /\ upto[read] \in Nat
      BY <1>1, <1>2, <1>3, <2>1
    <3> QED  BY <1>1, <1>4, <1>5, <2>1, <3>1
  <2>2. CASE j = read + 1 /\ i = read + 1
    BY <1>1, <1>2, <1>5, <2>2
  <2>3. CASE j \in 0..read /\ i \in 0..read
    BY <1>4, <1>6, <2>3 DEF ChunkInv, Growing
  <2> QED  BY <1>1, <1>6, <2>1, <2>2, <2>3
<1> QED  BY <1>6, StreamGrows DEF Growing

LEMMA GoodStays ==
  ASSUME ChunkInv, NEW n \in Sizes, Fragment(n), NEW ch, Good(ch)
  PROVE  Good(ch)'
<1>1. ch \in Spans /\ ch.from <= ch.to /\ ch.to <= read /\ ch.from \in Nat \ {0} /\ ch.to \in Nat \ {0}
  BY DEF Good, Spans
<1>2. /\ ch.from - 1 \in 0..read /\ ch.to \in 0..read /\ ch.to - 1 \in 0..read /\ ch.to \in 1..read
      /\ \A i \in ch.from..ch.to : i \in 1..read /\ i \in 0..read
  BY <1>1, StreamGrows
<1>3. Sized(ch.from, ch.to)'
  <2>1. upto'[ch.to] = upto[ch.to] /\ upto'[ch.to - 1] = upto[ch.to - 1]
        /\ upto'[ch.from - 1] = upto[ch.from - 1]
    BY <1>2, StreamGrows
  <2> QED  BY <2>1 DEF Good, Sized, Tokens
<1>4. OneSection(ch.from, ch.to)'
  <2>1. \A i \in ch.from..ch.to : path'[i] = path[i] /\ upto'[i] = upto[i]
    BY <1>2, StreamGrows
  <2>2. upto'[ch.from - 1] = upto[ch.from - 1] /\ path'[ch.to] = path[ch.to]
        /\ structured' = structured
    BY <1>2, StreamGrows
  <2> QED  BY <2>1, <2>2 DEF Good, OneSection, Tokens
<1>5. ch.to <= read'
  BY <1>1, StreamGrows
<1> QED  BY <1>1, <1>3, <1>4, <1>5 DEF Good

LEMMA CarriedStays ==
  ASSUME ChunkInv, NEW n \in Sizes, Fragment(n), NEW ch, Good(ch), NEW l, Carried(ch, l)
  PROVE  Carried(ch, l)'
<1>1. ch.from \in 1..read /\ ch.to \in 1..read /\ read \in Nat
  BY StreamGrows DEF Good, Spans
<1>2. \A i \in ch.from..ch.to : i \in 1..read /\ path'[i] = path[i]
  BY <1>1, StreamGrows
<1>3. path'[ch.to] = path[ch.to] /\ structured' = structured
  BY <1>1, StreamGrows
<1> QED  BY <1>2, <1>3 DEF Carried

LEMMA PairStays ==
  ASSUME ChunkInv, NEW n \in Sizes, Fragment(n),
         NEW a, NEW b, Good(a), Good(b), Pair(a, b)
  PROVE  Pair(a, b)'
<1>1. /\ a.to \in 1..read /\ b.from - 1 \in 0..read /\ b.to \in 1..read /\ a.to \in 0..read
      /\ b.to \in 0..read /\ read \in Nat
  BY StreamGrows DEF Good, Spans
<1>2. Tokens(b.from, a.to)' <= Overlap
  BY <1>1, StreamGrows DEF Pair, Tokens
<1>3. ASSUME a.to = b.to
      PROVE  /\ Tokens(b.from, b.to)' <= Overlap
             /\ b.to < read' /\ path'[b.to + 1] # path'[b.to]
             /\ Tokens(b.from, b.to + 1)' > MaxTokens
  <2>1. b.to < read /\ b.to + 1 \in 1..read /\ b.to + 1 \in 0..read
    BY <1>1, <1>3 DEF Pair
  <2>2. /\ upto'[b.to] = upto[b.to] /\ upto'[b.to + 1] = upto[b.to + 1]
        /\ upto'[b.from - 1] = upto[b.from - 1]
        /\ path'[b.to] = path[b.to] /\ path'[b.to + 1] = path[b.to + 1]
        /\ read' = read + 1
    BY <1>1, <2>1, StreamGrows
  <2>3. b.to + 1 - 1 = b.to /\ b.to < read + 1
    BY <1>1, <2>1
  <2> QED  BY <1>3, <2>1, <2>2, <2>3 DEF Pair, Tokens
<1>4. Carried(b, a.to)'
  BY CarriedStays DEF Pair
<1> QED  BY <1>2, <1>3, <1>4 DEF Pair, Follows

LEMMA ChainStays ==
  ASSUME ChunkInv, NEW n \in Sizes, Fragment(n), NEW s, s = chunks
  PROVE  Chain(s)'
<1>1. /\ s \in Seq(Spans)
      /\ \A c \in 1..Len(s) : Good(s[c])
      /\ \A c \in 1..(Len(s) - 1) : Pair(s[c], s[c + 1])
      /\ Len(s) > 0 => s[1].from = 1 /\ Carried(s[1], 0)
  BY DEF ChunkInv, Chain
<1>2. \A c \in 1..Len(s) : Good(s[c])'
  BY <1>1, GoodStays
<1>3. \A c \in 1..(Len(s) - 1) : Pair(s[c], s[c + 1])'
  <2> TAKE c \in 1..(Len(s) - 1)
  <2>1. Good(s[c]) /\ Good(s[c + 1]) /\ Pair(s[c], s[c + 1])
    BY <1>1
  <2> QED  BY <2>1, PairStays
<1>4. Len(s) > 0 => s[1].from = 1 /\ Carried(s[1], 0)'
  BY <1>1, CarriedStays
<1> QED  BY <1>1, <1>2, <1>3, <1>4 DEF Chain

\* What the flushes of a step leave, and what they store.
LEMMA FragmentStep ==
  ASSUME ChunkInv, NEW n \in Sizes, Fragment(n)
  PROVE  ChunkInv'
<1>1. PICK k \in first..(read + 1), m \in first..(read + 1) :
        /\ IF NewSection(HeadingPath) THEN Carries(first, k) ELSE k = first
        /\ IF Full(k, n) THEN Carries(k, m) ELSE m = k
        /\ chunks' = Stored(first, k, HeadingPath, n)
        /\ first' = m
  BY DEF Fragment
<1>2. /\ ~done /\ ~done' /\ first \in Nat \ {0} /\ first <= read + 1
      /\ Overlap \in Nat /\ MaxTokens \in Nat
  BY ChunkerAssumption DEF Fragment, ChunkInv, ChunkTypeOK
<1>3. /\ k \in Nat \ {0} /\ first <= k /\ k <= read + 1
      /\ m \in Nat \ {0} /\ k <= m /\ m <= read + 1 /\ read \in Nat
  BY <1>1, <1>2, StreamGrows DEF Carries
<1> DEFINE old == [from |-> first, to |-> read]
           kept == [from |-> k, to |-> read]
<1>4. PICK s : s = chunks
  OBVIOUS
<1>5. PICK b : b = old
  OBVIOUS
<1>6. PICK c : c = kept
  OBVIOUS
<1>7. s \in Seq(Spans) /\ Chain(s)'
  BY <1>4, ChainStays DEF ChunkInv, ChunkTypeOK
<1>8. ASSUME first <= read
      PROVE  /\ Good(b)' /\ b \in Spans /\ b.from = first /\ b.to = read
             /\ s = << >> => b.from = 1 /\ Carried(b, 0)'
             /\ s # << >> => Pair(s[Len(s)], b)'
  <2>1. Good(b)
    BY <1>2, <1>5, <1>8, GoodBucket
  <2>2. s # << >> => Good(s[Len(s)]) /\ Pair(s[Len(s)], b)
    BY <1>2, <1>4, <1>5, <1>8, PairBucket
  <2>3. s # << >> => Pair(s[Len(s)], b)'
    BY <2>1, <2>2, PairStays
  <2>4. s = << >> => b.from = 1 /\ Carried(b, 0)'
    <3>1. s = << >> => b.from = 1 /\ Carried(b, 0)
      BY <1>2, <1>4, <1>5, <1>8 DEF ChunkInv, BucketFollows, BucketGood, Bucket, LastTo
    <3> QED  BY <2>1, <3>1, CarriedStays
  <2> QED  BY <1>5, <2>1, <2>3, <2>4, GoodStays DEF Good
<1>9. NewSection(HeadingPath) => first <= read /\ Tokens(k, read) <= Overlap
  BY <1>1 DEF NewSection, Carries
<1>10. Full(k, n) => k <= read /\ first <= read /\ Tokens(m, read) <= Overlap
  <2> SUFFICES ASSUME Full(k, n)
               PROVE  k <= read /\ first <= read /\ Tokens(m, read) <= Overlap
    OBVIOUS
  <2>1. k <= read
    BY DEF Full
  <2>2. Carries(k, m)
    BY <1>1
  <2> QED  BY <1>2, <1>3, <2>1, <2>2 DEF Carries
<1>11. ~Full(k, n) => m = k
  BY <1>1
<1>12. ~NewSection(HeadingPath) => k = first
  BY <1>1
<1>13. chunks' = IF Full(k, n)
                 THEN Append(IF NewSection(HeadingPath) THEN Append(s, b) ELSE s, c)
                 ELSE IF NewSection(HeadingPath) THEN Append(s, b) ELSE s
  BY <1>1, <1>4, <1>5, <1>6 DEF Stored, Bucket
<1>14. ASSUME NewSection(HeadingPath), Full(k, n)
       PROVE  Good(c)' /\ Pair(b, c)'
  <2>1. k \in 1..read /\ Tokens(k, read) <= Overlap
    BY <1>3, <1>9, <1>10, <1>14
  <2>2. Good(c)
    BY <1>6, <2>1, GoodCarried
  <2>3. /\ b.from = first /\ b.to = read /\ c.from = k /\ c.to = read
        /\ read \in 1..read /\ read \in 0..read /\ k - 1 \in 0..read
    BY <1>3, <1>5, <1>6, <2>1
  <2>4. /\ upto'[read] = upto[read] /\ upto'[k - 1] = upto[k - 1]
        /\ path'[read] = path[read] /\ path'[read + 1] = HeadingPath
        /\ upto'[read + 1] = upto[read] + n /\ read' = read + 1
    BY <2>3, StreamGrows
  <2>5. upto[read] - upto[k - 1] <= Overlap /\ upto[read] - upto[k - 1] + n > MaxTokens
    BY <1>14, <2>1 DEF Tokens, Full
  <2>6. upto[read] \in Nat /\ upto[k - 1] \in Nat /\ n \in Nat /\ read + 1 - 1 = read
    <3>1. upto \in [0..read -> Nat] /\ n \in Nat
      BY StreamGrows
    <3>2. read + 1 - 1 = read
      BY <1>3
    <3> QED  BY <2>3, <3>1, <3>2
  <2>7. Tokens(c.from, b.to)' <= Overlap /\ Tokens(c.from, c.to)' <= Overlap
    BY <2>3, <2>4, <2>5 DEF Tokens
  <2>8. Tokens(c.from, c.to + 1)' > MaxTokens
    BY <1>2, <2>3, <2>4, <2>5, <2>6 DEF Tokens
  <2>9. c.to < read' /\ path'[c.to + 1] # path'[c.to]
    BY <1>3, <1>14, <2>3, <2>4 DEF NewSection
  <2>10. Follows(b, c)
    BY <1>3, <2>3 DEF Follows
  <2>11. Carried(c, b.to)'
    BY <1>3, <2>3 DEF Carried
  <2> QED  BY <2>2, <2>7, <2>8, <2>9, <2>10, <2>11, GoodStays DEF Pair
<1>15. Chain(chunks)'
  <2>1. CASE NewSection(HeadingPath)
    <3>1. PICK t : t = Append(s, b)
      OBVIOUS
    <3>2. Chain(t)'
      BY <1>7, <1>8, <1>9, <2>1, <3>1, ChainAppend
    <3>3. t # << >> /\ t[Len(t)] = b
      BY <1>7, <1>8, <1>9, <2>1, <3>1
    <3>4. Full(k, n) => Chain(Append(t, c))'
      BY <1>14, <2>1, <3>2, <3>3, ChainAppend
    <3>5. chunks' = IF Full(k, n) THEN Append(t, c) ELSE t
      BY <1>13, <2>1, <3>1
    <3> QED  BY <3>2, <3>4, <3>5 DEF Chain
  <2>2. CASE ~NewSection(HeadingPath)
    <3>1. c = b
      BY <1>5, <1>6, <1>12, <2>2
    <3>2. Full(k, n) => Chain(Append(s, c))'
      BY <1>7, <1>8, <1>10, <3>1, ChainAppend
    <3>3. chunks' = IF Full(k, n) THEN Append(s, c) ELSE s
      BY <1>13, <2>2
    <3> QED  BY <1>7, <3>2, <3>3 DEF Chain
  <2> QED  BY <2>1, <2>2
<1>16. NewSection(HeadingPath) \/ Full(k, n) => Tokens(m, read) <= Overlap
  BY <1>9, <1>10, <1>11
<1>17. PICK last \in 0..read :
         /\ last = (IF NewSection(HeadingPath) \/ Full(k, n) THEN read ELSE LastTo)
         /\ LastTo' = last /\ m <= last + 1 /\ upto[last] - upto[m - 1] <= Overlap
         /\ chunks' = << >> => m = 1
  <2>1. CASE NewSection(HeadingPath) \/ Full(k, n)
    <3>1. \E t \in Seq(Spans), d \in {b, c} : chunks' = Append(t, d)
      <4>1. CASE Full(k, n)
        <5>1. (IF NewSection(HeadingPath) THEN Append(s, b) ELSE s) \in Seq(Spans)
          BY <1>7, <1>8, <1>9
        <5>2. chunks' = Append(IF NewSection(HeadingPath) THEN Append(s, b) ELSE s, c)
          BY <1>13, <4>1
        <5> QED  BY <5>1, <5>2
      <4>2. CASE ~Full(k, n)
        BY <1>7, <1>13, <2>1, <4>2
      <4> QED  BY <4>1, <4>2
    <3>2. PICK t \in Seq(Spans), d \in {b, c} : chunks' = Append(t, d)
      BY <3>1
    <3>3. d.to = read /\ chunks' # << >> /\ chunks'[Len(chunks')] = d
      BY <1>5, <1>6, <3>2
    <3>4. LastTo' = read /\ read \in 0..read
      BY <1>3, <3>3 DEF LastTo
    <3> QED  BY <1>3, <1>16, <2>1, <3>3, <3>4 DEF Tokens
  <2>2. CASE ~(NewSection(HeadingPath) \/ Full(k, n))
    <3>1. chunks' = chunks /\ m = first
      BY <1>4, <1>11, <1>12, <1>13, <2>2
    <3>2. LastTo' = LastTo /\ LastTo \in 0..read
      <4>1. chunks # << >> => chunks[Len(chunks)].to \in Nat
        <5>1. chunks # << >> => Len(chunks) \in 1..Len(chunks) /\ chunks[Len(chunks)] \in Spans
          BY DEF ChunkInv, ChunkTypeOK
        <5> QED  BY <5>1 DEF Spans
      <4> QED  BY <1>3, <3>1, <4>1 DEF ChunkInv, BucketFollows, LastTo
    <3> QED  BY <2>2, <3>1, <3>2 DEF ChunkInv, BucketFollows, Tokens
  <2> QED  BY <2>1, <2>2
<1>18. BucketFollows' /\ BucketNew'
  <2>1. m - 1 \in 0..read
    BY <1>3
  <2>2. upto'[last] = upto[last] /\ upto'[m - 1] = upto[m - 1] /\ read' = read + 1
    BY <2>1, StreamGrows
  <2>3. first' = m /\ last <= read + 1 /\ last < read + 1
    BY <1>1, <1>3
  <2>4. Tokens(first, LastTo)' <= Overlap
    BY <1>17, <2>2, <2>3 DEF Tokens
  <2> QED  BY <1>2, <1>17, <2>2, <2>3, <2>4 DEF BucketFollows, BucketNew
<1>19. BucketGood'
  <2>1. PICK e : e = read + 1
    OBVIOUS
  <2>2. m - 1 \in 0..read /\ read \in 0..read /\ e - 1 = read
    BY <1>3, <2>1
  <2>3. /\ upto'[e] = upto[read] + n /\ upto'[m - 1] = upto[m - 1]
        /\ upto'[read] = upto[read] /\ read' = e /\ first' = m
        /\ upto[read] \in Nat /\ upto[m - 1] \in Nat /\ n \in Nat
        /\ path'[e] = HeadingPath
    BY <1>1, <2>1, <2>2, StreamGrows
  <2>4. Sized(m, e)'
    <3>1. CASE upto[read] - upto[m - 1] <= Overlap
      BY <2>2, <2>3, <3>1 DEF Sized, Tokens
    <3>2. CASE ~Full(k, n) /\ m <= read
      BY <1>2, <1>11, <2>2, <2>3, <3>2 DEF Full, Sized, Tokens
    <3>3. m = read + 1 => upto[read] - upto[m - 1] = 0
      BY <2>2, <2>3
    <3>4. Full(k, n) => upto[read] - upto[m - 1] <= Overlap
      BY <1>10 DEF Tokens
    <3>5. 0 <= Overlap
      BY <1>2
    <3> QED  BY <1>3, <3>1, <3>2, <3>3, <3>4, <3>5
  <2>5. OneSection(m, e)'
    <3>1. ASSUME structured, NEW i \in m..read, path[i] # HeadingPath
          PROVE  upto[i] - upto[m - 1] <= Overlap
      <4>1. i \in 0..read /\ read \in 0..read /\ i <= read /\ m <= read
        BY <1>3
      <4>2. upto[i] <= upto[read] /\ upto[i] \in Nat
        BY <4>1, StreamGrows DEF ChunkInv, Growing
      <4>3. CASE NewSection(HeadingPath) \/ Full(k, n)
        BY <1>2, <1>16, <2>3, <4>2, <4>3 DEF Tokens
      <4>4. CASE ~(NewSection(HeadingPath) \/ Full(k, n))
        <5>1. m = first /\ path[read] = HeadingPath
          BY <1>11, <1>12, <3>1, <4>1, <4>4 DEF NewSection
        <5> QED  BY <1>2, <3>1, <4>1, <5>1 DEF ChunkInv, BucketGood, OneSection, Tokens
      <4> QED  BY <4>3, <4>4
    <3>2. \A i \in m..e : i = e \/ i \in m..read
      BY <1>3, <2>1
    <3>3. \A i \in m..read : i \in 1..read /\ i \in 0..read
      BY <1>3
    <3>4. \A i \in m..read : path'[i] = path[i] /\ upto'[i] = upto[i]
      BY <3>3, StreamGrows
    <3>5. structured' = structured
      BY StreamGrows
    <3>6. ASSUME structured, NEW i \in m..e, path'[i] # path'[e]
          PROVE  upto'[i] - upto'[m - 1] <= Overlap
      <4>1. i \in m..read
        BY <3>2, <3>6
      <4> QED  BY <2>3, <3>1, <3>4, <3>6, <4>1
    <3> QED  BY <3>5, <3>6 DEF OneSection, Tokens
  <2>6. Carried([from |-> m, to |-> e], last)'
    <3> SUFFICES ASSUME structured', NEW i \in m..e, path'[i] # path'[e]
                 PROVE  i <= last
      BY DEF Carried
    <3>0. i # e /\ structured
      BY StreamGrows
    <3>1. i \in m..read /\ i \in 1..read /\ structured
      BY <1>3, <2>1, <3>0
    <3>2. path[i] # HeadingPath
      BY <2>3, <3>1, StreamGrows
    <3>3. CASE NewSection(HeadingPath) \/ Full(k, n)
      BY <1>17, <3>1, <3>3
    <3>4. CASE ~(NewSection(HeadingPath) \/ Full(k, n))
      <4>1. m = first /\ first <= read
        BY <1>3, <1>11, <1>12, <3>1, <3>4
      <4>2. path[read] = HeadingPath
        BY <3>1, <3>4, <4>1 DEF NewSection
      <4>3. Carried([from |-> first, to |-> read], LastTo)
        BY <1>2, <4>1 DEF ChunkInv, BucketGood, Bucket
      <4> QED  BY <1>17, <3>1, <3>2, <3>4, <4>1, <4>2, <4>3 DEF Carried
    <3> QED  BY <3>3, <3>4
  <2> QED  BY <1>17, <2>3, <2>4, <2>5, <2>6 DEF BucketGood, Bucket
<1>20. ChunkTypeOK' /\ StackEncloses'
  <2>1. UNCHANGED headingVars
    BY DEF Fragment
  <2>2. StackEncloses'
    BY <2>1 DEF ChunkInv, StackEncloses, headingVars
  <2>3. /\ chunks' \in Seq(Spans)
        /\ \A j \in 1..Len(chunks') : chunks'[j].from <= chunks'[j].to /\ chunks'[j].to <= read'
    BY <1>15 DEF Chain, Good
  <2>4. first' \in 1..(read' + 1)
    BY <1>1, <1>3, StreamGrows
  <2>5. read' \in Nat /\ upto' \in [0..read' -> Nat] /\ DOMAIN path' = 1..read'
    BY <1>3, StreamGrows
  <2>6. structured' \in BOOLEAN /\ done' \in BOOLEAN
    BY DEF Fragment, ChunkInv, ChunkTypeOK
  <2> QED  BY <2>1, <2>2, <2>3, <2>4, <2>5, <2>6 DEF ChunkInv, ChunkTypeOK, headingVars
<1> QED
  BY <1>2, <1>15, <1>18, <1>19, <1>20, GrowingStep DEF ChunkInv

-----------------------------------------------------------------------------
(* The end. *)

\* The last flush leaves no fragment behind.
LEMMA FinishStep ==
  ASSUME ChunkInv, Finish
  PROVE  ChunkInv'
<1>1. /\ UNCHANGED <<structured, headingVars, fragmentVars>> /\ done' = TRUE /\ ~done
      /\ first \in Nat \ {0} /\ first <= read + 1 /\ read \in Nat
  BY DEF Finish, ChunkInv, ChunkTypeOK
<1>2. StackEncloses' /\ Growing'
  BY <1>1 DEF ChunkInv, StackEncloses, Growing, headingVars, fragmentVars
<1>3. PICK s : s = chunks
  OBVIOUS
<1>4. PICK b : b = [from |-> first, to |-> read]
  OBVIOUS
<1>5. Chain(s)'
  BY <1>1, <1>3
     DEF ChunkInv, Chain, Good, Pair, Follows, Sized, OneSection, Carried, Tokens, fragmentVars
<1>6. CASE first <= read
  <2>1. Good(b)' /\ b.from = first /\ b.to = read
    BY <1>1, <1>4, <1>6, GoodBucket DEF Good, Sized, OneSection, Tokens, fragmentVars
  <2>2. s # << >> => Pair(s[Len(s)], b)'
    BY <1>1, <1>3, <1>4, <1>6, PairBucket DEF Pair, Follows, Carried, Tokens, fragmentVars
  <2>3. s = << >> => b.from = 1 /\ Carried(b, 0)'
    BY <1>1, <1>3, <1>4, <1>6
       DEF ChunkInv, BucketFollows, BucketGood, Bucket, LastTo, Carried, fragmentVars
  <2>4. chunks' = Append(s, b) /\ Carries(first, first')
    BY <1>3, <1>4, <1>6 DEF Finish, Bucket
  <2>5. Chain(chunks)'
    BY <1>5, <2>1, <2>2, <2>3, <2>4, ChainAppend DEF Chain
  <2>6. chunks' # << >> /\ chunks'[Len(chunks')] = b
    <3>1. s \in Seq(Spans) /\ b \in Spans
      BY <1>3, <2>1 DEF ChunkInv, ChunkTypeOK, Good
    <3> QED  BY <2>4, <3>1
  <2>7. LastTo' = read
    BY <2>1, <2>6 DEF LastTo
  <2>8. BucketFollows' /\ BucketNew'
    BY <1>1, <2>4, <2>6, <2>7
       DEF Carries, BucketFollows, BucketNew, Tokens, fragmentVars
  <2>9. ChunkTypeOK'
    <3>1. chunks' \in Seq(Spans) /\ \A j \in 1..Len(chunks') :
            chunks'[j].from <= chunks'[j].to /\ chunks'[j].to <= read'
      BY <2>5 DEF Chain, Good
    <3>2. first' \in 1..(read' + 1)
      BY <1>1, <2>4 DEF Carries, fragmentVars
    <3> QED  BY <1>1, <3>1, <3>2 DEF ChunkInv, ChunkTypeOK, headingVars, fragmentVars
  <2> QED  BY <1>1, <1>2, <2>5, <2>8, <2>9 DEF ChunkInv
<1>7. CASE ~(first <= read)
  <2>1. UNCHANGED chunkVars
    BY <1>7 DEF Finish
  <2>2. LastTo = read
    <3>1. LastTo \in Nat
      <4>1. chunks # << >> => Len(chunks) \in 1..Len(chunks) /\ chunks[Len(chunks)] \in Spans
        BY DEF ChunkInv, ChunkTypeOK
      <4> QED  BY <4>1 DEF LastTo, Spans
    <3> QED  BY <1>1, <1>7, <3>1 DEF ChunkInv, BucketFollows
  <2>3. Chain(chunks)' /\ LastTo' = LastTo
    BY <1>3, <1>5, <2>1 DEF chunkVars, LastTo, Chain
  <2>4. BucketFollows' /\ BucketNew'
    BY <1>1, <2>1, <2>2, <2>3
       DEF ChunkInv, BucketFollows, BucketNew, Tokens, chunkVars, fragmentVars
  <2>5. ChunkTypeOK'
    BY <1>1, <2>1 DEF ChunkInv, ChunkTypeOK, headingVars, fragmentVars, chunkVars
  <2> QED  BY <1>1, <1>2, <2>3, <2>4, <2>5 DEF ChunkInv
<1> QED  BY <1>6, <1>7

-----------------------------------------------------------------------------

LEMMA StepInv ==
  ASSUME ChunkInv, [Next]_vars
  PROVE  ChunkInv'
<1>1. CASE \E l \in Levels, t \in Titles : Heading(l, t)
  BY <1>1, HeadingStep
<1>2. CASE \E n \in Sizes : Fragment(n)
  BY <1>2, FragmentStep
<1>3. CASE Finish
  BY <1>3, FinishStep
<1>4. CASE UNCHANGED vars
  <2>1. ChunkTypeOK' /\ StackEncloses'
    BY <1>4 DEF vars, ChunkInv, ChunkTypeOK, StackEncloses, headingVars, fragmentVars, chunkVars
  <2> QED  BY <1>4, <2>1, SameChunks DEF vars, ChunkInv
<1> QED  BY <1>1, <1>2, <1>3, <1>4 DEF Next

\* The invariant holds in every state, for any limits and any document.
THEOREM ChunkInvHolds == Spec => []ChunkInv
<1>1. Init => ChunkInv
  BY InitInv
<1>2. ChunkInv /\ [Next]_vars => ChunkInv'
  BY StepInv
<1> QED  BY <1>1, <1>2, PTL DEF Spec

\* Types: _chunk_structured and _chunk_flat store chunks of fragments they read.
THEOREM ChunkTypeCorrect == Spec => []ChunkTypeOK
<1>1. ChunkInv => ChunkTypeOK
  BY DEF ChunkInv
<1> QED  BY <1>1, ChunkInvHolds, PTL

\* heading_stack holds the enclosing headings, whatever their levels.
THEOREM StackCorrect == Spec => []StackEncloses
<1>1. ChunkInv => StackEncloses
  BY DEF ChunkInv
<1> QED  BY <1>1, ChunkInvHolds, PTL

\* Every fragment reaches a chunk, in order.
THEOREM NothingLostCorrect == Spec => []NothingLost
<1>1. ChunkInv => NothingLost
  BY InvImplies
<1> QED  BY <1>1, ChunkInvHolds, PTL

\* max_tokens is exceeded by overlap and one fragment only.
THEOREM SizesCorrect == Spec => []SizesBounded
<1>1. ChunkInv => SizesBounded
  BY InvImplies
<1> QED  BY <1>1, ChunkInvHolds, PTL

\* overlap_tokens bounds what consecutive chunks share, whatever is flushed and
\* carried over (_overlap_segments).
THEOREM OverlapCorrect == Spec => []OverlapBounded
<1>1. ChunkInv => OverlapBounded
  BY InvImplies
<1> QED  BY <1>1, ChunkInvHolds, PTL

\* What a chunk of a structured document holds of other sections than its last
\* one is overlap with the chunk before: a change of heading path flushes the
\* bucket; and it has a heading_path that is not that of all it holds only then.
THEOREM SectionsCorrect == Spec => []SectionsRespected
<1>1. ChunkInv => SectionsRespected
  BY InvImplies
<1> QED  BY <1>1, ChunkInvHolds, PTL

\* A chunk without anything new is overlap before a fragment that is too large.
THEOREM RepeatsCorrect == Spec => []RepeatsOnlyOverlap
<1>1. ChunkInv => RepeatsOnlyOverlap
  BY InvImplies
<1> QED  BY <1>1, ChunkInvHolds, PTL

=============================================================================
