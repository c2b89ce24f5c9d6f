---------------------------- MODULE SearchProofs ----------------------------
(***************************************************************************)
(* Embeddings, the chunks that are published and what searches answer, for *)
(* every number of runs, documents, policies and queries.  A vector is     *)
(* that of its text because what embed_texts has looked up so far is, at   *)
(* every place, the text wanted there or a miss noted as one (Sound).      *)
(* That an answer is complete rests on how the limits nest: a leg of the   *)
(* hybrid mode may yield top_k rows at least, and the index is asked for   *)
(* no fewer vectors than in the mode vector.                               *)
(***************************************************************************)
EXTENDS Search, FiniteSetTheorems, SequenceTheorems, WellFoundedInduction, TLAPS

RoutedAll(r) == [i \in DOMAIN job[r].chunks |-> Routed(PolicyOf(r), job[r].chunks[i])]

PipelineTypes ==
  /\ job \in Mixes
  /\ pc \in [Runs -> Active \cup {"search", "raised", "failed", "dead", "done"}]
  /\ sinks \in [Runs -> Seq(SUBSET Members)]
  /\ looked \in [Runs -> Seq(Texts \cup {None})] /\ missed \in [Runs -> SUBSET Nat]
  /\ entities \in [Runs -> SUBSET Names] /\ summary \in [Runs -> BOOLEAN]
  /\ cache \in [Texts -> Texts \cup {None}] /\ \A t \in Texts : cache[t] \in {t, None}
  /\ DOMAIN published = Runs

\* Where a run is, and what it has found by then.
Sound(r) ==
  /\ pc[r] \in {"start", "enrich", "commit"} => IsDocument(r)
  /\ pc[r] = "search" => ~IsDocument(r)
  /\ IsDocument(r) /\ pc[r] \in Active \ {"start"} => sinks[r] = RoutedAll(r)
  /\ pc[r] \in {"start", "enrich"} => looked[r] = << >>
  /\ missed[r] \subseteq DOMAIN looked[r]
  /\ pc[r] = "look" =>
       /\ Len(looked[r]) <= Len(Wanted(r))
       /\ \A k \in DOMAIN looked[r] : looked[r][k] = IF k \in missed[r] THEN None ELSE Wanted(r)[k]
  /\ pc[r] = "write" => looked[r] = Wanted(r)
  /\ pc[r] = "commit" => looked[r] \in {Wanted(r), << >>}

\* What is published of a document: its chunks as they were routed, and vectors
\* of their texts for all that are to have one, or for none.
Shown(r) ==
  published[r] # None =>
    /\ IsDocument(r)
    /\ DOMAIN published[r].chunks = DOMAIN job[r].chunks
    /\ \A i \in DOMAIN job[r].chunks :
         LET row == published[r].chunks[i] IN
         /\ row.text = job[r].chunks[i].text
         /\ row.sinks = Routed(PolicyOf(r), job[r].chunks[i])
         /\ row.vector \in {row.text, None}
         /\ "vector" \notin row.sinks => row.vector = None
    /\ \A i, j \in DOMAIN job[r].chunks :
         LET rows == published[r].chunks IN
         "vector" \in rows[i].sinks \cap rows[j].sinks /\ rows[i].vector = None => rows[j].vector = None

PipelineInv == PipelineTypes /\ \A r \in Runs : Sound(r) /\ Shown(r)

\* A list of chunks without repetition.
IsList(s) ==
  /\ s \in Seq(Runs \X Nat)
  /\ \A i, j \in DOMAIN s : s[i] = s[j] => i = j

\* An answer: one ranking as it is, or both by falling score.
Ranked(q, a) ==
  /\ IsList(a.bm25) /\ IsList(a.vec) /\ IsList(a.rows) /\ Len(a.rows) <= job[q].top_k
  /\ \A i \in DOMAIN a.rows : Listed(a.bm25, a.rows[i]) \/ Listed(a.vec, a.rows[i])
  /\ \/ a.rows = a.bm25 /\ a.vec = << >>
     \/ a.rows = a.vec /\ a.bm25 = << >>
     \/ \A i, j \in DOMAIN a.rows :
          i < j => ~Higher(Score(a.bm25, a.vec, a.rows[j]), Score(a.bm25, a.vec, a.rows[i]))

Answering == DOMAIN answer = Runs /\ \A q \in Runs : answer[q] # None => Ranked(q, answer[q])

SearchInv == PipelineInv /\ Answering

-----------------------------------------------------------------------------
(* Finite sets in order. *)

\* A set of numbers has a least one.
LEMMA LeastNat ==
  ASSUME NEW S, S \subseteq Nat, S # {}
  PROVE  \E x \in S : \A y \in S : x <= y
<1> DEFINE R == OpToRel(<, Nat)
<1>1. IsWellFoundedOn(R, Nat)
  BY NatLessThanWellFounded
<1>2. \A x, y \in Nat : <<y, x>> \in R <=> y < x
  BY DEF OpToRel
<1> HIDE DEF R
<1>3. PICK x \in S : \A y \in S : ~(<<y, x>> \in R)
  BY <1>1, WFMin
<1>4. \A y \in S : ~(y < x)
  BY <1>2, <1>3
<1> QED
  BY <1>3, <1>4

\* What SetToSeqs says of a finite set.
LEMMA Enumerations ==
  ASSUME NEW S, IsFiniteSet(S), NEW s \in SetToSeqs(S)
  PROVE  /\ s \in Seq(S) /\ Len(s) = Cardinality(S) /\ Len(s) \in Nat /\ DOMAIN s = 1 .. Len(s)
         /\ \A i, j \in DOMAIN s : s[i] = s[j] => i = j
         /\ \A x \in S : \E i \in DOMAIN s : s[i] = x
<1> DEFINE n == Cardinality(S)
<1>1. n \in Nat
  BY FS_CardinalityType
<1>2. s \in [1 .. n -> S] /\ \A i, j \in 1 .. n : i # j => s[i] # s[j]
  BY DEF SetToSeqs
<1>3. s \in Injection(1 .. n, S)
  BY <1>2 DEF Injection, IsInjective
<1>4. Cardinality(1 .. n) = n
  BY <1>1, FS_Interval
<1>5. s \in Surjection(1 .. n, S)
  BY <1>3, <1>4, FS_Injection
<1>6. s \in Seq(S) /\ Len(s) = n /\ DOMAIN s = 1 .. n
  BY <1>1, <1>2
<1> QED
  BY <1>1, <1>2, <1>5, <1>6 DEF Surjection

\* A finite set can be listed along a strict total order.
LEMMA SortedExists ==
  ASSUME NEW S, IsFiniteSet(S), NEW R,
         \A x \in S : <<x, x>> \notin R,
         \A x, y, z \in S : <<x, y>> \in R /\ <<y, z>> \in R => <<x, z>> \in R,
         \A x, y \in S : x = y \/ <<x, y>> \in R \/ <<y, x>> \in R
  PROVE  \E s \in SetToSeqs(S) : \A i, j \in DOMAIN s : i < j => <<s[i], s[j]>> \in R
<1> DEFINE Along(s) == \A i, j \in DOMAIN s : i < j => <<s[i], s[j]>> \in R
           Bad == {n \in Nat : \E T \in SUBSET S : Cardinality(T) = n /\ ~\E s \in SetToSeqs(T) : Along(s)}
<1> HIDE DEF Along
<1>1. ASSUME Bad # {} PROVE FALSE
  <2>1. PICK n \in Bad : \A k \in Bad : n <= k
    BY <1>1, LeastNat
  <2>2. PICK T \in SUBSET S : Cardinality(T) = n /\ ~\E s \in SetToSeqs(T) : Along(s)
    BY <2>1
  <2>3. IsFiniteSet(T) /\ n \in Nat
    BY <2>1, FS_Subset
  <2>4. CASE T = {}
    <3>1. << >> \in SetToSeqs(T)
      BY <2>4, FS_EmptySet DEF SetToSeqs
    <3>2. Along(<< >>)
      BY DEF Along
    <3> QED
      BY <2>2, <3>1, <3>2
  <2>5. CASE T # {}
    <3> DEFINE Below(m) == {x \in T : <<x, m>> \in R}
               Sizes == {Cardinality(Below(m)) : m \in T}
    <3>0. \A m \in T : /\ Below(m) \in SUBSET T
                       /\ \A x \in T : x \in Below(m) <=> <<x, m>> \in R
      OBVIOUS
    <3> HIDE DEF Below
    <3>1. \A m \in T : IsFiniteSet(Below(m)) /\ Cardinality(Below(m)) \in Nat
      BY <2>3, <3>0, FS_Subset, FS_CardinalityType
    <3>2. PICK m \in T : \A x \in T : Cardinality(Below(m)) <= Cardinality(Below(x))
      <4>1. Sizes \subseteq Nat /\ Sizes # {}
        BY <2>5, <3>1
      <4>2. PICK k \in Sizes : \A y \in Sizes : k <= y
        BY <4>1, LeastNat
      <4>3. PICK m \in T : k = Cardinality(Below(m))
        BY <4>2
      <4>4. \A x \in T : Cardinality(Below(x)) \in Sizes
        OBVIOUS
      <4> QED
        BY <4>2, <4>3, <4>4
    <3>3. ASSUME NEW x \in T, x # m PROVE <<m, x>> \in R
      <4>1. SUFFICES ASSUME <<x, m>> \in R PROVE FALSE
        BY <3>3
      <4>2. \A y \in Below(x) : y \in T /\ <<y, m>> \in R
        BY <3>0, <4>1
      <4>3. Below(x) \in SUBSET Below(m) /\ Below(x) # Below(m)
        BY <3>0, <4>1, <4>2
      <4>4. Cardinality(Below(x)) <= Cardinality(Below(m)) /\ Cardinality(Below(x)) # Cardinality(Below(m))
        BY <3>1, <4>3, FS_Subset
      <4> QED
        BY <3>1, <3>2, <4>4
    <3>4. Cardinality(T \ {m}) = n - 1 /\ IsFiniteSet(T \ {m})
      BY <2>2, <2>3, FS_RemoveElement
    <3>5. n - 1 \in Nat
      BY <3>4, FS_CardinalityType
    <3>6. PICK s \in SetToSeqs(T \ {m}) : Along(s)
      <4>1. n - 1 \notin Bad
        BY <2>1, <2>3
      <4> QED
        BY <3>4, <3>5, <4>1
    <3>7. s \in [1 .. n - 1 -> T \ {m}] /\ \A i, j \in 1 .. n - 1 : i # j => s[i] # s[j]
      BY <3>4 DEF SetToSeqs
    <3> DEFINE t == [i \in 1 .. n |-> IF i = 1 THEN m ELSE s[i - 1]]
    <3>8. \A i \in 1 .. n : i = 1 \/ i - 1 \in 1 .. n - 1
      BY <2>3
    <3>9. t \in SetToSeqs(T)
      <4>1. t \in [1 .. n -> T]
        BY <3>7, <3>8
      <4>2. \A i, j \in 1 .. n : i # j => t[i] # t[j]
        BY <2>3, <3>7, <3>8
      <4> QED
        BY <2>2, <4>1, <4>2 DEF SetToSeqs
    <3>10. Along(t)
      <4>1. ASSUME NEW i \in 1 .. n, NEW j \in 1 .. n, i < j PROVE <<t[i], t[j]>> \in R
        <5>1. j # 1 /\ j - 1 \in 1 .. n - 1 /\ t[j] = s[j - 1] /\ s[j - 1] \in T \ {m}
          BY <2>3, <3>7, <3>8, <4>1
        <5>2. CASE i = 1
          BY <3>3, <5>1, <5>2
        <5>3. CASE i # 1
          <6>1. i - 1 \in 1 .. n - 1 /\ t[i] = s[i - 1] /\ i - 1 < j - 1
            BY <2>3, <3>8, <4>1, <5>3
          <6> QED
            BY <3>6, <3>7, <5>1, <6>1 DEF Along
        <5> QED
          BY <5>2, <5>3
      <4> QED
        BY <4>1 DEF Along
    <3> QED
      BY <2>2, <3>9, <3>10
  <2> QED
    BY <2>4, <2>5
<1>2. Cardinality(S) \in Nat
  BY FS_CardinalityType
<1> QED
  BY <1>1, <1>2 DEF Along

-----------------------------------------------------------------------------
(* Policies, and the chunks that are to have a vector. *)

LEMMA DefaultFacts ==
  /\ DEFAULT_POLICY \in Policies
  /\ Len(DEFAULT_POLICY.rules) = 3 /\ DOMAIN DEFAULT_POLICY.rules = 1 .. 3
  /\ \A k \in 1 .. 3 : /\ Len(DEFAULT_POLICY.rules[k].match) = 1
                       /\ DOMAIN DEFAULT_POLICY.rules[k].match = 1 .. 1
                       /\ DEFAULT_POLICY.rules[k].match[1].key = "kind"
  /\ DEFAULT_POLICY.rules[1].match[1].value = "table_row"
  /\ DEFAULT_POLICY.rules[2].match[1].value = "text" /\ DEFAULT_POLICY.rules[2].sinks = Sinks
<1> DEFINE rule(kind, s) == [match |-> <<[key |-> "kind", value |-> kind]>>, sinks |-> s]
<1>1. /\ DEFAULT_POLICY.default = Sinks
      /\ DEFAULT_POLICY.rules = <<rule("table_row", {"relational"}), rule("text", Sinks), rule("transcript", Sinks)>>
      /\ DEFAULT_POLICY = [default |-> DEFAULT_POLICY.default, rules |-> DEFAULT_POLICY.rules]
  BY DEF DEFAULT_POLICY
<1>2. ASSUME NEW kind \in Kinds, NEW s \in SUBSET Sinks
      PROVE  /\ rule(kind, s) \in Rules
             /\ rule(kind, s).match[1].key = "kind" /\ rule(kind, s).match[1].value = kind
             /\ Len(rule(kind, s).match) = 1 /\ DOMAIN rule(kind, s).match = 1 .. 1
             /\ rule(kind, s).sinks = s
  <2>1. [key |-> "kind", value |-> kind] \in Conditions
    BY DEF Conditions
  <2>2. <<[key |-> "kind", value |-> kind]>> \in Seq(Conditions)
    BY <2>1
  <2> QED
    BY <2>2 DEF Rules, Members
<1>3. {"table_row", "text", "transcript"} = Kinds /\ {"relational"} \in SUBSET Sinks /\ Sinks \in SUBSET Sinks
  BY DEF Kinds, Sinks
<1> HIDE DEF rule
<1>4. /\ rule("table_row", {"relational"}) \in Rules /\ rule("text", Sinks) \in Rules
      /\ rule("transcript", Sinks) \in Rules
  BY <1>2, <1>3
<1>5. DEFAULT_POLICY.rules \in Seq(Rules) /\ Len(DEFAULT_POLICY.rules) = 3 /\ DOMAIN DEFAULT_POLICY.rules = 1 .. 3
  BY <1>1, <1>4
<1>6. /\ DEFAULT_POLICY.rules[1] = rule("table_row", {"relational"})
      /\ DEFAULT_POLICY.rules[2] = rule("text", Sinks)
      /\ DEFAULT_POLICY.rules[3] = rule("transcript", Sinks)
  BY <1>1
<1>7. DEFAULT_POLICY \in Policies
  BY <1>1, <1>3, <1>5 DEF Policies
<1>8. \A k \in 1 .. 3 : \E kind \in Kinds, s \in SUBSET Sinks : DEFAULT_POLICY.rules[k] = rule(kind, s)
  BY <1>3, <1>6
<1>9. \A k \in 1 .. 3 : /\ Len(DEFAULT_POLICY.rules[k].match) = 1
                        /\ DOMAIN DEFAULT_POLICY.rules[k].match = 1 .. 1
                        /\ DEFAULT_POLICY.rules[k].match[1].key = "kind"
  BY <1>2, <1>8
<1>10. DEFAULT_POLICY.rules[1].match[1].value = "table_row"
  BY <1>2, <1>3, <1>6
<1>11. DEFAULT_POLICY.rules[2].match[1].value = "text" /\ DEFAULT_POLICY.rules[2].sinks = Sinks
  BY <1>2, <1>3, <1>6
<1> QED
  BY <1>5, <1>7, <1>9, <1>10, <1>11

LEMMA RunFacts ==
  ASSUME job \in Mixes, NEW r \in Runs
  PROVE  /\ IsDocument(r) =>
              /\ job[r] \in Documents /\ job[r].chunks \in Seq(Chunks)
              /\ DOMAIN job[r].chunks = 1 .. Len(job[r].chunks) /\ Len(job[r].chunks) \in Nat
              /\ IsFiniteSet(DOMAIN job[r].chunks)
              /\ \A i \in DOMAIN job[r].chunks : job[r].chunks[i] \in Chunks
              /\ PolicyOf(r) \in Policies
         /\ ~IsDocument(r) => job[r] \in Queries
<1>1. job[r] \in Documents \cup Queries
  BY PipelineAssumption
<1>2. CASE IsDocument(r)
  <2>1. job[r] \in Documents
    BY <1>1, <1>2 DEF IsDocument, Queries
  <2>2. job[r].chunks \in Seq(Chunks) /\ job[r].policy \in Policies \cup {None}
    BY <2>1 DEF Documents
  <2>3. /\ DOMAIN job[r].chunks = 1 .. Len(job[r].chunks) /\ Len(job[r].chunks) \in Nat
        /\ \A i \in DOMAIN job[r].chunks : job[r].chunks[i] \in Chunks
    BY <2>2, LenProperties, ElementOfSeq
  <2>4. IsFiniteSet(DOMAIN job[r].chunks)
    BY <2>3, FS_Interval
  <2>5. PolicyOf(r) \in Policies
    BY <2>2, DefaultFacts DEF PolicyOf
  <2> QED
    BY <1>2, <2>1, <2>2, <2>3, <2>4, <2>5
<1>3. CASE ~IsDocument(r)
  BY <1>1, <1>3 DEF IsDocument, Documents
<1> QED
  BY <1>2, <1>3

\* What a policy decides of a chunk: a set of sinks, unless its evaluation raises.
LEMMA RoutedType ==
  ASSUME NEW p \in Policies, NEW c
  PROVE  Routed(p, c) \in (SUBSET Members) \cup {None}
<1> DEFINE says(k) == Matches(p.rules[k], c)
           Deciding == {k \in DOMAIN p.rules : says(k) # "no"}
           first == CHOOSE k \in DOMAIN p.rules : says(k) # "no" /\ \A j \in 1 .. k - 1 : says(j) = "no"
<1>1. p.rules \in Seq(Rules) /\ p.default \in SUBSET Members
  BY DEF Policies, Members
<1>2. DOMAIN p.rules = 1 .. Len(p.rules) /\ \A k \in DOMAIN p.rules : p.rules[k] \in Rules
  BY <1>1, LenProperties, ElementOfSeq
<1>3. \A k \in DOMAIN p.rules : p.rules[k].sinks \in SUBSET Members
  BY <1>2 DEF Rules
<1>4. Routed(p, c) = IF Deciding = {} THEN p.default
                     ELSE IF says(first) = "raises" \/ "list" \in p.rules[first].sinks THEN None
                     ELSE p.rules[first].sinks
  BY DEF Routed
<1> HIDE DEF says
<1>5. CASE Deciding = {}
  BY <1>1, <1>4, <1>5
<1>6. CASE Deciding # {}
  <2>0. Deciding \subseteq Nat
    BY <1>2
  <2>1. PICK k \in Deciding : \A j \in Deciding : k <= j
    BY <1>6, <2>0, LeastNat
  <2>2. k \in DOMAIN p.rules /\ says(k) # "no" /\ \A j \in 1 .. k - 1 : says(j) = "no"
    BY <1>2, <2>1
  <2>3. first \in DOMAIN p.rules
    BY <2>2
  <2> HIDE DEF first, Deciding
  <2>4. p.rules[first].sinks \in SUBSET Members
    BY <1>3, <2>3
  <2> QED
    BY <1>4, <1>6, <2>4
<1> QED
  BY <1>5, <1>6

\* DEFAULT_POLICY routes prose to both sinks.
LEMMA RoutedProse ==
  ASSUME NEW c, c.kind = "text"
  PROVE  Routed(DEFAULT_POLICY, c) = Sinks
<1> DEFINE P == DEFAULT_POLICY
           says(k) == Matches(P.rules[k], c)
           first == CHOOSE k \in DOMAIN P.rules : says(k) # "no" /\ \A j \in 1 .. k - 1 : says(j) = "no"
<1>1. \A k \in 1 .. 3 : Verdict(P.rules[k].match[1], c) =
                          IF P.rules[k].match[1].value = "text" THEN "yes" ELSE "no"
  <2>1. ASSUME NEW cond, cond.key = "kind"
        PROVE  Verdict(cond, c) = IF cond.value = "text" THEN "yes" ELSE "no"
    BY <2>1 DEF Verdict
  <2>2. \A k \in 1 .. 3 : P.rules[k].match[1].key = "kind"
    BY DefaultFacts
  <2> QED
    BY <2>1, <2>2, Zenon
<1>2. \A k \in 1 .. 3 : says(k) = IF P.rules[k].match[1].value = "text" THEN "yes" ELSE "no"
  <2> SUFFICES ASSUME NEW k \in 1 .. 3
               PROVE  says(k) = IF P.rules[k].match[1].value = "text" THEN "yes" ELSE "no"
    OBVIOUS
  <2>1. DOMAIN P.rules[k].match = {1}
    BY DefaultFacts
  <2>2. CASE P.rules[k].match[1].value = "text"
    BY <1>1, <2>1, <2>2 DEF Matches
  <2>3. CASE P.rules[k].match[1].value # "text"
    BY <1>1, <2>1, <2>3 DEF Matches
  <2> QED
    BY <2>2, <2>3
<1>3. says(1) = "no" /\ says(2) = "yes" /\ DOMAIN P.rules = 1 .. 3 /\ P.rules[2].sinks = Sinks
  BY <1>2, DefaultFacts
<1> HIDE DEF P, says
<1>4. first = 2
  <2>1. 2 \in DOMAIN P.rules /\ says(2) # "no" /\ \A j \in 1 .. 2 - 1 : says(j) = "no"
    BY <1>3
  <2>2. \A k \in DOMAIN P.rules : says(k) # "no" /\ (\A j \in 1 .. k - 1 : says(j) = "no") => k = 2
    BY <1>3
  <2> QED
    BY <2>1, <2>2
<1>5. Routed(P, c) = IF \A k \in DOMAIN P.rules : says(k) = "no" THEN P.default
                     ELSE IF says(first) = "raises" \/ "list" \in P.rules[first].sinks THEN None
                     ELSE P.rules[first].sinks
  BY DEF Routed, says
<1>6. Routed(P, c) = Sinks
  BY <1>3, <1>4, <1>5 DEF Sinks
<1> QED
  BY <1>6 DEF P

LEMMA EmbedFacts ==
  ASSUME job \in Mixes, NEW r \in Runs, IsDocument(r)
  PROVE  /\ ToEmbed(r) \in Seq(DOMAIN job[r].chunks)
         /\ DOMAIN ToEmbed(r) = 1 .. Len(ToEmbed(r)) /\ Len(ToEmbed(r)) \in Nat
         /\ \A k \in DOMAIN ToEmbed(r) :
              ToEmbed(r)[k] \in DOMAIN job[r].chunks /\ "vector" \in sinks[r][ToEmbed(r)[k]]
         /\ \A i \in DOMAIN job[r].chunks :
              "vector" \in sinks[r][i] => \E k \in DOMAIN ToEmbed(r) : ToEmbed(r)[k] = i
<1> DEFINE S == ToVector(r)
           R == {p \in S \X S : p[1] < p[2]}
<1>1. S \subseteq DOMAIN job[r].chunks /\ S \subseteq Nat /\ IsFiniteSet(S)
  BY RunFacts, FS_Subset DEF ToVector
<1>2. \A x, y \in S : <<x, y>> \in R <=> x < y
  OBVIOUS
<1> HIDE DEF S, R
<1>3. PICK s \in SetToSeqs(S) : \A i, j \in DOMAIN s : i < j => <<s[i], s[j]>> \in R
  <2>1. \A x \in S : <<x, x>> \notin R
    BY <1>1, <1>2
  <2>2. \A x, y, z \in S : x < y /\ y < z => x < z
    BY <1>1
  <2>3. \A x, y, z \in S : <<x, y>> \in R /\ <<y, z>> \in R => <<x, z>> \in R
    BY <1>2, <2>2
  <2>4. \A x, y \in S : x = y \/ x < y \/ y < x
    BY <1>1
  <2>5. \A x, y \in S : x = y \/ <<x, y>> \in R \/ <<y, x>> \in R
    BY <1>2, <2>4
  <2> QED
    BY <1>1, <2>1, <2>3, <2>5, SortedExists
<1>4. \A i \in DOMAIN s : s[i] \in S
  BY <1>1, <1>3, Enumerations, ElementOfSeq
<1>5. Increasing(s)
  BY <1>2, <1>3, <1>4 DEF Increasing
<1>6. ToEmbed(r) \in SetToSeqs(S)
  BY <1>3, <1>5 DEF ToEmbed, S
<1>7. PICK e \in SetToSeqs(S) : e = ToEmbed(r)
  BY <1>6
<1>8. /\ e \in Seq(S) /\ DOMAIN e = 1 .. Len(e) /\ Len(e) \in Nat
      /\ \A x \in S : \E k \in DOMAIN e : e[k] = x
  BY <1>1, <1>7, Enumerations
<1>9. \A k \in DOMAIN e : e[k] \in S
  BY <1>8, ElementOfSeq
<1>10. e \in Seq(DOMAIN job[r].chunks)
  BY <1>1, <1>8
<1>11. \A x : x \in S <=> x \in DOMAIN job[r].chunks /\ "vector" \in sinks[r][x]
  BY DEF S, ToVector
<1> QED
  BY <1>7, <1>8, <1>9, <1>10, <1>11

LEMMA WantedFacts ==
  ASSUME job \in Mixes, NEW r \in Runs
  PROVE  /\ Wanted(r) \in Seq(Texts) /\ Len(Wanted(r)) \in Nat /\ DOMAIN Wanted(r) = 1 .. Len(Wanted(r))
         /\ \A k \in DOMAIN Wanted(r) : Wanted(r)[k] \in Texts
         /\ IsDocument(r) => /\ DOMAIN Wanted(r) = DOMAIN ToEmbed(r)
                             /\ \A k \in DOMAIN Wanted(r) : Wanted(r)[k] = job[r].chunks[ToEmbed(r)[k]].text
<1>1. CASE IsDocument(r)
  <2>1. Wanted(r) = [k \in DOMAIN ToEmbed(r) |-> job[r].chunks[ToEmbed(r)[k]].text]
    BY <1>1 DEF Wanted
  <2>2. \A k \in DOMAIN ToEmbed(r) : job[r].chunks[ToEmbed(r)[k]].text \in Texts
    BY <1>1, RunFacts, EmbedFacts DEF Chunks
  <2>3. PICK n \in Nat : DOMAIN ToEmbed(r) = 1 .. n
    BY <1>1, EmbedFacts
  <2>4. Wanted(r) \in [1 .. n -> Texts]
    BY <2>1, <2>2, <2>3
  <2> QED
    BY <1>1, <2>1, <2>3, <2>4
<1>2. CASE ~IsDocument(r)
  <2>1. job[r].text \in Texts
    BY <1>2, RunFacts DEF Queries
  <2> QED
    BY <1>2, <2>1 DEF Wanted
<1> QED
  BY <1>1, <1>2

-----------------------------------------------------------------------------
(* The steps of a run keep what its vectors rest on. *)

\* What a run wants, and its policy, change with its job and its routing only.
LEMMA WantedStill ==
  ASSUME NEW r \in Runs, job' = job, sinks'[r] = sinks[r]
  PROVE  Wanted(r)' = Wanted(r)
<1>1. IsDocument(r)' = IsDocument(r) /\ ToVector(r)' = ToVector(r)
  BY DEF IsDocument, ToVector
<1>2. ToEmbed(r)' = ToEmbed(r)
  BY <1>1 DEF ToEmbed
<1> QED
  BY <1>1, <1>2 DEF Wanted

LEMMA SoundStill ==
  ASSUME NEW r \in Runs, Sound(r), job' = job, pc'[r] = pc[r], sinks'[r] = sinks[r],
         looked'[r] = looked[r], missed'[r] = missed[r]
  PROVE  Sound(r)'
<1>1. IsDocument(r)' = IsDocument(r) /\ RoutedAll(r)' = RoutedAll(r) /\ Wanted(r)' = Wanted(r)
  BY WantedStill DEF IsDocument, RoutedAll, PolicyOf
<1> QED
  BY <1>1 DEF Sound

LEMMA ShownStill ==
  ASSUME NEW r \in Runs, Shown(r), job' = job, published'[r] = published[r]
  PROVE  Shown(r)'
<1>1. IsDocument(r)' = IsDocument(r) /\ PolicyOf(r)' = PolicyOf(r)
  BY DEF IsDocument, PolicyOf
<1> QED
  BY <1>1 DEF Shown

\* A run that goes to another place without touching its embeddings, its routing
\* or what is published.
LEMMA RunGoes ==
  ASSUME PipelineInv, NEW r \in Runs, NEW p \in {"look", "raised", "failed", "commit", "search", "dead", "done"},
         job' = job, pc' = [pc EXCEPT ![r] = p], UNCHANGED <<sinks, looked, missed, published>>,
         PipelineTypes', Sound(r)'
  PROVE  PipelineInv'
<1>1. \A s \in Runs : s # r => pc'[s] = pc[s]
  BY DEF PipelineInv, PipelineTypes
<1>2. \A s \in Runs : Sound(s)'
  BY <1>1, SoundStill DEF PipelineInv
<1>3. \A s \in Runs : Shown(s)'
  BY ShownStill DEF PipelineInv
<1> QED
  BY <1>2, <1>3 DEF PipelineInv

LEMMA RouteStep ==
  ASSUME PipelineInv, NEW r \in Runs, Route(r)
  PROVE  PipelineInv'
<1>1. pc[r] = "start" /\ IsDocument(r) /\ looked[r] = << >> /\ missed[r] \subseteq DOMAIN looked[r]
  BY DEF Route, PipelineInv, Sound
<1>2. job' = job /\ UNCHANGED <<entities, summary, looked, missed, cache, published>>
  BY DEF Route, Goes, embedVars
<1>3. job \in Mixes
  BY DEF PipelineInv, PipelineTypes
<1> DEFINE routed == RoutedAll(r)
<1>4. \/ pc' = [pc EXCEPT ![r] = "raised"] /\ sinks' = sinks
      \/ /\ ~\E i \in DOMAIN routed : routed[i] = None
         /\ pc' = [pc EXCEPT ![r] = "enrich"] /\ sinks' = [sinks EXCEPT ![r] = routed]
  BY DEF Route, Goes, RoutedAll
<1>5. CASE pc' = [pc EXCEPT ![r] = "raised"] /\ sinks' = sinks
  <2>1. PipelineTypes'
    BY <1>2, <1>5 DEF PipelineInv, PipelineTypes
  <2>2. pc'[r] = "raised"
    BY <1>5 DEF PipelineInv, PipelineTypes
  <2>3. Sound(r)'
    BY <1>1, <1>2, <2>2 DEF Sound, Active
  <2> QED
    BY <1>2, <1>5, <2>1, <2>3, RunGoes
<1>6. CASE /\ ~\E i \in DOMAIN routed : routed[i] = None
           /\ pc' = [pc EXCEPT ![r] = "enrich"] /\ sinks' = [sinks EXCEPT ![r] = routed]
  <2>1. \A i \in DOMAIN job[r].chunks : Routed(PolicyOf(r), job[r].chunks[i]) \in (SUBSET Members) \cup {None}
    BY <1>1, <1>3, RunFacts, RoutedType
  <2>2. routed \in Seq(SUBSET Members)
    <3>1. \A i \in DOMAIN job[r].chunks : routed[i] \in SUBSET Members
      BY <1>6, <2>1 DEF RoutedAll
    <3>2. PICK n \in Nat : DOMAIN job[r].chunks = 1 .. n
      BY <1>1, <1>3, RunFacts
    <3>3. routed \in [1 .. n -> SUBSET Members]
      BY <3>1, <3>2 DEF RoutedAll
    <3> QED
      BY <3>2, <3>3
  <2>3. PipelineTypes'
    <3>1. pc' \in [Runs -> Active \cup {"search", "raised", "failed", "dead", "done"}]
      BY <1>6 DEF PipelineInv, PipelineTypes, Active
    <3>2. sinks' \in [Runs -> Seq(SUBSET Members)]
      BY <1>6, <2>2 DEF PipelineInv, PipelineTypes
    <3> QED
      BY <1>2, <3>1, <3>2 DEF PipelineInv, PipelineTypes
  <2>4. \A s \in Runs : s # r => pc'[s] = pc[s] /\ sinks'[s] = sinks[s]
    BY <1>6 DEF PipelineInv, PipelineTypes
  <2>5. pc'[r] = "enrich" /\ sinks'[r] = routed
    BY <1>6 DEF PipelineInv, PipelineTypes
  <2>6. IsDocument(r)' /\ routed' = routed
    BY <1>1, <1>2 DEF IsDocument, RoutedAll, PolicyOf
  <2>7. Sound(r)'
    BY <1>1, <1>2, <2>5, <2>6 DEF Sound
  <2>8. \A s \in Runs : Sound(s)'
    BY <1>2, <2>4, <2>7, SoundStill DEF PipelineInv
  <2>9. \A s \in Runs : Shown(s)'
    BY <1>2, ShownStill DEF PipelineInv
  <2> QED
    BY <2>3, <2>8, <2>9 DEF PipelineInv
<1> QED
  BY <1>4, <1>5, <1>6

LEMMA EnrichStep ==
  ASSUME PipelineInv, NEW r \in Runs, Enrich(r)
  PROVE  PipelineInv'
<1>1. pc[r] = "enrich" /\ IsDocument(r) /\ looked[r] = << >> /\ missed[r] \subseteq DOMAIN looked[r]
      /\ sinks[r] = RoutedAll(r)
  BY DEF Enrich, PipelineInv, Sound, Active
<1>2. job' = job /\ UNCHANGED <<sinks, looked, missed, cache, published>>
  BY DEF Enrich, Goes, embedVars
<1>3. PICK p \in {"raised", "look"} : pc' = [pc EXCEPT ![r] = p]
  BY DEF Enrich, Goes
<1>4. entities' \in [Runs -> SUBSET Names]
  <2>1. PICK failed \in SUBSET DOMAIN job[r].chunks : entities' = [entities EXCEPT ![r] = Recognised(r, failed)]
    BY DEF Enrich
  <2>2. \A i \in DOMAIN job[r].chunks : job[r].chunks[i].names \in SUBSET Names
    <3>1. \A i \in DOMAIN job[r].chunks : job[r].chunks[i] \in Chunks
      BY <1>1, RunFacts DEF PipelineInv, PipelineTypes
    <3> QED
      BY <3>1 DEF Chunks
  <2>3. Recognised(r, failed) \in SUBSET Names
    BY <2>2 DEF Recognised
  <2> QED
    BY <2>1, <2>3 DEF PipelineInv, PipelineTypes
<1>5. summary' \in [Runs -> BOOLEAN]
  <2>1. PICK said \in Asked(r) : \E s \in Summarised(said) : summary' = [summary EXCEPT ![r] = s]
    BY DEF Enrich
  <2>2. Summarised(said) \subseteq BOOLEAN
    BY DEF Summarised
  <2> QED
    BY <2>1, <2>2 DEF PipelineInv, PipelineTypes
<1>6. PipelineTypes'
  <2>1. pc' \in [Runs -> Active \cup {"search", "raised", "failed", "dead", "done"}]
    BY <1>3 DEF PipelineInv, PipelineTypes, Active
  <2> QED
    BY <1>2, <1>4, <1>5, <2>1 DEF PipelineInv, PipelineTypes
<1>7. Sound(r)'
  <2>1. pc'[r] = p /\ p \in {"raised", "look"}
    BY <1>3 DEF PipelineInv, PipelineTypes
  <2>2. IsDocument(r)' /\ RoutedAll(r)' = RoutedAll(r) /\ Wanted(r)' = Wanted(r)
    BY <1>1, <1>2, WantedStill DEF IsDocument, RoutedAll, PolicyOf
  <2>3. looked'[r] = << >> /\ Len(looked'[r]) = 0 /\ DOMAIN looked'[r] = {} /\ Len(Wanted(r)) \in Nat
    BY <1>1, <1>2, WantedFacts DEF PipelineInv, PipelineTypes
  <2> QED
    BY <1>1, <1>2, <2>1, <2>2, <2>3 DEF Sound, Active
<1> QED
  BY <1>2, <1>3, <1>6, <1>7, RunGoes

LEMMA LookStep ==
  ASSUME PipelineInv, NEW r \in Runs, Look(r)
  PROVE  PipelineInv'
<1> DEFINE k == Len(looked[r]) + 1
           found == cache[Wanted(r)[k]]
<1>1. /\ pc[r] = "look" /\ Len(looked[r]) < Len(Wanted(r))
      /\ looked' = [looked EXCEPT ![r] = Append(@, found)]
      /\ missed' = IF found = None THEN [missed EXCEPT ![r] = @ \cup {k}] ELSE missed
      /\ job' = job /\ pc' = [pc EXCEPT ![r] = "look"]
      /\ UNCHANGED <<sinks, entities, summary, cache, published>>
  BY DEF Look, Goes, routeVars
<1>2. /\ Wanted(r) \in Seq(Texts) /\ Len(Wanted(r)) \in Nat /\ DOMAIN Wanted(r) = 1 .. Len(Wanted(r))
      /\ \A i \in DOMAIN Wanted(r) : Wanted(r)[i] \in Texts
  BY WantedFacts DEF PipelineInv, PipelineTypes
<1>3. /\ looked[r] \in Seq(Texts \cup {None}) /\ Len(looked[r]) \in Nat
      /\ DOMAIN looked[r] = 1 .. Len(looked[r]) /\ missed[r] \subseteq DOMAIN looked[r]
  BY LenProperties DEF PipelineInv, PipelineTypes, Sound
<1>4. k \in DOMAIN Wanted(r) /\ k \notin DOMAIN looked[r] /\ k \notin missed[r]
  BY <1>1, <1>2, <1>3
<1>5. Wanted(r)[k] \in Texts /\ found \in {Wanted(r)[k], None} /\ Wanted(r)[k] # None
  BY <1>2, <1>4, PipelineAssumption DEF PipelineInv, PipelineTypes
<1>6. /\ looked'[r] = Append(looked[r], found)
      /\ \A s \in Runs : s # r => looked'[s] = looked[s] /\ missed'[s] = missed[s] /\ pc'[s] = pc[s]
      /\ pc'[r] = "look"
      /\ missed'[r] = IF found = None THEN missed[r] \cup {k} ELSE missed[r]
  BY <1>1 DEF PipelineInv, PipelineTypes
<1>7. /\ looked'[r] \in Seq(Texts \cup {None}) /\ Len(looked'[r]) = k /\ DOMAIN looked'[r] = 1 .. k
      /\ looked'[r][k] = found
      /\ \A i \in DOMAIN looked[r] : looked'[r][i] = looked[r][i]
  BY <1>3, <1>5, <1>6, AppendProperties
<1>8. PipelineTypes'
  <2>1. looked' \in [Runs -> Seq(Texts \cup {None})]
    BY <1>1, <1>7, <1>6 DEF PipelineInv, PipelineTypes
  <2>2. missed' \in [Runs -> SUBSET Nat]
    BY <1>1, <1>3 DEF PipelineInv, PipelineTypes
  <2>3. pc' \in [Runs -> Active \cup {"search", "raised", "failed", "dead", "done"}]
    BY <1>1 DEF PipelineInv, PipelineTypes, Active
  <2> QED
    BY <1>1, <2>1, <2>2, <2>3 DEF PipelineInv, PipelineTypes
<1>9. Sound(r)'
  <2>1. IsDocument(r)' = IsDocument(r) /\ RoutedAll(r)' = RoutedAll(r) /\ Wanted(r)' = Wanted(r)
    BY <1>1, WantedStill DEF IsDocument, RoutedAll, PolicyOf
  <2>2. IsDocument(r) => sinks'[r] = RoutedAll(r)
    BY <1>1 DEF PipelineInv, Sound, Active
  <2>3. missed'[r] \subseteq DOMAIN looked'[r]
    BY <1>3, <1>6, <1>7
  <2>4. Len(looked'[r]) <= Len(Wanted(r))
    BY <1>1, <1>2, <1>3, <1>7
  <2>5. ASSUME NEW i \in DOMAIN looked'[r]
        PROVE  looked'[r][i] = IF i \in missed'[r] THEN None ELSE Wanted(r)[i]
    <3>1. CASE i = k
      BY <1>4, <1>5, <1>6, <1>7, <3>1
    <3>2. CASE i # k
      <4>1. i \in DOMAIN looked[r]
        BY <1>3, <1>7, <3>2
      <4>2. looked[r][i] = IF i \in missed[r] THEN None ELSE Wanted(r)[i]
        BY <1>1, <4>1 DEF PipelineInv, Sound
      <4>3. i \in missed'[r] <=> i \in missed[r]
        BY <1>6, <3>2
      <4> QED
        BY <1>7, <4>1, <4>2, <4>3
    <3> QED
      BY <3>1, <3>2
  <2> QED
    BY <1>6, <2>1, <2>2, <2>3, <2>4, <2>5 DEF Sound
<1>10. \A s \in Runs : Sound(s)' /\ Shown(s)'
  BY <1>1, <1>6, <1>9, SoundStill, ShownStill DEF PipelineInv
<1> QED
  BY <1>8, <1>10 DEF PipelineInv

\* All places are found or filled in: then these are the vectors of the texts.
LEMMA AllFound ==
  ASSUME PipelineInv, NEW r \in Runs, pc[r] = "look", Len(looked[r]) = Len(Wanted(r)),
         NEW s, DOMAIN s = DOMAIN looked[r],
         \A k \in DOMAIN looked[r] : s[k] = IF k \in missed[r] THEN Wanted(r)[k] ELSE looked[r][k],
         s \in Seq(Texts \cup {None})
  PROVE  s = Wanted(r)
<1>1. Wanted(r) \in Seq(Texts) /\ DOMAIN Wanted(r) = 1 .. Len(Wanted(r)) /\ Len(Wanted(r)) \in Nat
  BY WantedFacts DEF PipelineInv, PipelineTypes
<1>2. DOMAIN looked[r] = 1 .. Len(looked[r])
  BY LenProperties DEF PipelineInv, PipelineTypes
<1>3. \A k \in DOMAIN looked[r] : looked[r][k] = IF k \in missed[r] THEN None ELSE Wanted(r)[k]
  BY DEF PipelineInv, Sound
<1>4. \A k \in DOMAIN looked[r] : s[k] = Wanted(r)[k]
  BY <1>3
<1>5. DOMAIN s = 1 .. Len(s) /\ Len(s) \in Nat
  BY LenProperties
<1>6. Len(s) = Len(Wanted(r))
  BY <1>1, <1>2, <1>5
<1> QED
  BY <1>1, <1>2, <1>4, <1>5, <1>6, SeqEqual

\* Where a run goes once it has all vectors.
LEMMA EmbeddedFacts ==
  ASSUME NEW r \in Runs
  PROVE  /\ Embedded(r) \in {"commit", "search"}
         /\ Embedded(r) = "commit" <=> IsDocument(r)
  BY DEF Embedded

LEMMA HitStep ==
  ASSUME PipelineInv, NEW r \in Runs, Hit(r)
  PROVE  PipelineInv'
<1>1. /\ pc[r] = "look" /\ Len(looked[r]) = Len(Wanted(r)) /\ missed[r] = {}
      /\ job' = job /\ pc' = [pc EXCEPT ![r] = Embedded(r)]
      /\ UNCHANGED <<sinks, entities, summary, looked, missed, cache, published>>
  BY DEF Hit, Goes, routeVars, embedVars
<1>2. looked[r] = Wanted(r)
  <2>1. looked[r] \in Seq(Texts \cup {None})
    BY DEF PipelineInv, PipelineTypes
  <2> QED
    BY <1>1, <2>1, AllFound
<1>3. PipelineTypes'
  <2>1. pc' \in [Runs -> Active \cup {"search", "raised", "failed", "dead", "done"}]
    BY <1>1, EmbeddedFacts DEF PipelineInv, PipelineTypes, Active
  <2> QED
    BY <1>1, <2>1 DEF PipelineInv, PipelineTypes
<1>4. Sound(r)'
  <2>1. pc'[r] = Embedded(r)
    BY <1>1 DEF PipelineInv, PipelineTypes
  <2>2. IsDocument(r)' = IsDocument(r) /\ RoutedAll(r)' = RoutedAll(r) /\ Wanted(r)' = Wanted(r)
    BY <1>1, WantedStill DEF IsDocument, RoutedAll, PolicyOf
  <2>3. missed[r] \subseteq DOMAIN looked[r] /\ (IsDocument(r) => sinks[r] = RoutedAll(r))
    BY <1>1 DEF PipelineInv, Sound, Active
  <2> QED
    BY <1>1, <1>2, <2>1, <2>2, <2>3, EmbeddedFacts DEF Sound
<1> QED
  BY <1>1, <1>3, <1>4, EmbeddedFacts, RunGoes

LEMMA EncodeStep ==
  ASSUME PipelineInv, NEW r \in Runs, Encode(r)
  PROVE  PipelineInv'
<1>1. /\ pc[r] = "look" /\ Len(looked[r]) = Len(Wanted(r))
      /\ job' = job /\ pc' = [pc EXCEPT ![r] = "write"] /\ looked' = [looked EXCEPT ![r] = Filled(r)]
      /\ UNCHANGED <<sinks, entities, summary, missed, cache, published>>
  BY DEF Encode, Goes, routeVars
<1>2. /\ looked[r] \in Seq(Texts \cup {None}) /\ Len(looked[r]) \in Nat
      /\ DOMAIN looked[r] = 1 .. Len(looked[r]) /\ missed[r] \subseteq DOMAIN looked[r]
      /\ \A k \in DOMAIN looked[r] : looked[r][k] \in Texts \cup {None}
  BY LenProperties, ElementOfSeq DEF PipelineInv, PipelineTypes, Sound
<1>3. \A k \in DOMAIN looked[r] : Wanted(r)[k] \in Texts
  BY <1>1, <1>2, WantedFacts DEF PipelineInv, PipelineTypes
<1>4. Filled(r) \in Seq(Texts \cup {None}) /\ DOMAIN Filled(r) = DOMAIN looked[r]
  <2>1. Filled(r) \in [1 .. Len(looked[r]) -> Texts \cup {None}]
    BY <1>2, <1>3 DEF Filled
  <2> QED
    BY <1>2, <2>1
<1>5. Filled(r) = Wanted(r)
  <2>1. \A k \in DOMAIN looked[r] : Filled(r)[k] = IF k \in missed[r] THEN Wanted(r)[k] ELSE looked[r][k]
    BY DEF Filled
  <2> QED
    BY <1>1, <1>4, <2>1, AllFound
<1>6. /\ looked'[r] = Wanted(r) /\ pc'[r] = "write"
      /\ \A s \in Runs : s # r => looked'[s] = looked[s] /\ pc'[s] = pc[s]
  BY <1>1, <1>5 DEF PipelineInv, PipelineTypes
<1>7. PipelineTypes'
  <2>1. looked' \in [Runs -> Seq(Texts \cup {None})]
    BY <1>1, <1>4 DEF PipelineInv, PipelineTypes
  <2>2. pc' \in [Runs -> Active \cup {"search", "raised", "failed", "dead", "done"}]
    BY <1>1 DEF PipelineInv, PipelineTypes, Active
  <2> QED
    BY <1>1, <2>1, <2>2 DEF PipelineInv, PipelineTypes
<1>8. Sound(r)'
  <2>1. IsDocument(r)' = IsDocument(r) /\ RoutedAll(r)' = RoutedAll(r) /\ Wanted(r)' = Wanted(r)
    BY <1>1, WantedStill DEF IsDocument, RoutedAll, PolicyOf
  <2>2. missed[r] \subseteq DOMAIN looked'[r]
    BY <1>2, <1>4, <1>5, <1>6
  <2>3. IsDocument(r) => sinks[r] = RoutedAll(r)
    BY <1>1 DEF PipelineInv, Sound, Active
  <2> QED
    BY <1>1, <1>6, <2>1, <2>2, <2>3 DEF Sound
<1>9. \A s \in Runs : Sound(s)' /\ Shown(s)'
  BY <1>1, <1>6, <1>8, SoundStill, ShownStill DEF PipelineInv
<1> QED
  BY <1>7, <1>9 DEF PipelineInv

\* What the SETs leave in the cache: vectors of their keys' texts.
LEMMA WrittenFacts ==
  ASSUME PipelineInv, NEW r \in Runs, pc[r] = "write", NEW places \in SUBSET missed[r]
  PROVE  /\ Written(r, places) \in [Texts -> Texts \cup {None}]
         /\ \A t \in Texts : Written(r, places)[t] \in {t, None}
<1>1. looked[r] = Wanted(r) /\ \A t \in Texts : cache[t] \in {t, None}
  BY DEF PipelineInv, PipelineTypes, Sound
<1>2. ASSUME NEW t \in Texts, \E k \in places : Wanted(r)[k] = t
      PROVE  looked[r][CHOOSE k \in places : Wanted(r)[k] = t] = t
  BY <1>1, <1>2
<1>3. \A t \in Texts : Written(r, places)[t] \in {t, None}
  BY <1>1, <1>2 DEF Written
<1>4. DOMAIN Written(r, places) = Texts
  BY DEF Written
<1>5. Written(r, places) = [t \in Texts |-> Written(r, places)[t]]
  BY DEF Written
<1> QED
  BY <1>3, <1>5

LEMMA WriteStep ==
  ASSUME PipelineInv, NEW r \in Runs, Write(r)
  PROVE  PipelineInv'
<1>1. /\ pc[r] = "write" /\ job' = job /\ pc' = [pc EXCEPT ![r] = Embedded(r)]
      /\ cache' = Written(r, missed[r])
      /\ UNCHANGED <<sinks, entities, summary, looked, missed, published>>
  BY DEF Write, Goes, routeVars, embedVars
<1>2. looked[r] = Wanted(r) /\ missed[r] \subseteq DOMAIN looked[r] /\ (IsDocument(r) => sinks[r] = RoutedAll(r))
  BY <1>1 DEF PipelineInv, Sound, Active
<1>3. PipelineTypes'
  <2>1. pc' \in [Runs -> Active \cup {"search", "raised", "failed", "dead", "done"}]
    BY <1>1, EmbeddedFacts DEF PipelineInv, PipelineTypes, Active
  <2>2. cache' \in [Texts -> Texts \cup {None}] /\ \A t \in Texts : cache'[t] \in {t, None}
    BY <1>1, WrittenFacts
  <2> QED
    BY <1>1, <2>1, <2>2 DEF PipelineInv, PipelineTypes
<1>4. Sound(r)'
  <2>1. pc'[r] = Embedded(r)
    BY <1>1 DEF PipelineInv, PipelineTypes
  <2>2. IsDocument(r)' = IsDocument(r) /\ RoutedAll(r)' = RoutedAll(r) /\ Wanted(r)' = Wanted(r)
    BY <1>1, WantedStill DEF IsDocument, RoutedAll, PolicyOf
  <2> QED
    BY <1>1, <1>2, <2>1, <2>2, EmbeddedFacts DEF Sound
<1> QED
  BY <1>1, <1>3, <1>4, EmbeddedFacts, RunGoes

\* A run that fails or dies, or whose vectors are given up.
LEMMA EmbedFailsStep ==
  ASSUME PipelineInv, NEW r \in Runs, EmbedFails(r)
  PROVE  PipelineInv'
<1>1. /\ pc[r] \in {"look", "write"} /\ job' = job
      /\ looked' = [looked EXCEPT ![r] = << >>] /\ missed' = [missed EXCEPT ![r] = {}]
      /\ pc' = [pc EXCEPT ![r] = IF IsDocument(r) THEN "commit" ELSE "failed"]
      /\ UNCHANGED <<sinks, entities, summary, published>>
  BY DEF EmbedFails, Goes, routeVars
<1>2. cache' \in [Texts -> Texts \cup {None}] /\ \A t \in Texts : cache'[t] \in {t, None}
  <2>1. PICK places \in SUBSET missed[r] : cache' = IF pc[r] = "write" THEN Written(r, places) ELSE cache
    BY DEF EmbedFails
  <2>2. CASE pc[r] = "write"
    BY <2>1, <2>2, WrittenFacts
  <2>3. CASE pc[r] # "write"
    BY <2>1, <2>3 DEF PipelineInv, PipelineTypes
  <2> QED
    BY <2>2, <2>3
<1>3. /\ looked'[r] = << >> /\ missed'[r] = {}
      /\ pc'[r] = IF IsDocument(r) THEN "commit" ELSE "failed"
      /\ \A s \in Runs : s # r => looked'[s] = looked[s] /\ missed'[s] = missed[s] /\ pc'[s] = pc[s]
  BY <1>1 DEF PipelineInv, PipelineTypes
<1>4. PipelineTypes'
  <2>1. looked' \in [Runs -> Seq(Texts \cup {None})] /\ missed' \in [Runs -> SUBSET Nat]
    BY <1>1 DEF PipelineInv, PipelineTypes
  <2>2. pc' \in [Runs -> Active \cup {"search", "raised", "failed", "dead", "done"}]
    BY <1>1 DEF PipelineInv, PipelineTypes, Active
  <2> QED
    BY <1>1, <1>2, <2>1, <2>2 DEF PipelineInv, PipelineTypes
<1>5. Sound(r)'
  <2>1. IsDocument(r)' = IsDocument(r) /\ RoutedAll(r)' = RoutedAll(r)
    BY <1>1 DEF IsDocument, RoutedAll, PolicyOf
  <2>2. IsDocument(r) => sinks'[r] = RoutedAll(r)
    BY <1>1 DEF PipelineInv, Sound, Active
  <2> QED
    BY <1>3, <2>1, <2>2 DEF Sound, Active
<1>6. \A s \in Runs : Sound(s)' /\ Shown(s)'
  BY <1>1, <1>3, <1>5, SoundStill, ShownStill DEF PipelineInv
<1> QED
  BY <1>4, <1>6 DEF PipelineInv

LEMMA ExpireStep ==
  ASSUME PipelineInv, NEW t \in Texts, Expire(t)
  PROVE  PipelineInv'
<1>1. /\ cache' = [cache EXCEPT ![t] = None]
      /\ UNCHANGED <<job, pc, sinks, entities, summary, looked, missed, published>>
  BY DEF Expire, routeVars, embedVars
<1>2. cache' \in [Texts -> Texts \cup {None}] /\ \A u \in Texts : cache'[u] \in {u, None}
  BY <1>1 DEF PipelineInv, PipelineTypes
<1>3. PipelineTypes'
  BY <1>1, <1>2 DEF PipelineInv, PipelineTypes
<1>4. \A s \in Runs : Sound(s)' /\ Shown(s)'
  BY <1>1, SoundStill, ShownStill DEF PipelineInv
<1> QED
  BY <1>3, <1>4 DEF PipelineInv

LEMMA CommitRaisesStep ==
  ASSUME PipelineInv, NEW r \in Runs, CommitRaises(r)
  PROVE  PipelineInv'
<1>1. /\ job' = job /\ pc' = [pc EXCEPT ![r] = "raised"]
      /\ UNCHANGED <<sinks, entities, summary, looked, missed, cache, published>>
  BY DEF CommitRaises, Goes, routeVars, embedVars
<1>2. PipelineTypes'
  BY <1>1 DEF PipelineInv, PipelineTypes
<1>3. pc'[r] = "raised" /\ missed[r] \subseteq DOMAIN looked[r]
  BY <1>1 DEF PipelineInv, PipelineTypes, Sound
<1>4. Sound(r)'
  BY <1>1, <1>3 DEF Sound, Active
<1> QED
  BY <1>1, <1>2, <1>4, RunGoes

LEMMA DieStep ==
  ASSUME PipelineInv, NEW r \in Runs, Die(r)
  PROVE  PipelineInv'
<1>1. /\ job' = job /\ pc' = [pc EXCEPT ![r] = "dead"]
      /\ UNCHANGED <<sinks, entities, summary, looked, missed, cache, published>>
  BY DEF Die, Goes, routeVars, embedVars
<1>2. PipelineTypes'
  BY <1>1 DEF PipelineInv, PipelineTypes
<1>3. pc'[r] = "dead" /\ missed[r] \subseteq DOMAIN looked[r]
  BY <1>1 DEF PipelineInv, PipelineTypes, Sound
<1>4. Sound(r)'
  BY <1>1, <1>3 DEF Sound, Active
<1> QED
  BY <1>1, <1>2, <1>4, RunGoes

\* The row of a chunk that is published.
LEMMA RowFacts ==
  ASSUME PipelineInv, NEW r \in Runs, pc[r] = "commit"
  PROVE  /\ IsDocument(r) /\ DOMAIN Row(r).chunks = DOMAIN job[r].chunks
         /\ \A i \in DOMAIN job[r].chunks :
              LET row == Row(r).chunks[i] IN
              /\ row.text = job[r].chunks[i].text
              /\ row.sinks = Routed(PolicyOf(r), job[r].chunks[i])
              /\ row.vector = IF "vector" \in row.sinks /\ looked[r] # << >> THEN row.text ELSE None
<1>1. /\ IsDocument(r) /\ sinks[r] = RoutedAll(r) /\ looked[r] \in {Wanted(r), << >>}
  BY DEF PipelineInv, Sound, Active
<1>2. job \in Mixes
  BY DEF PipelineInv, PipelineTypes
<1>3. DOMAIN Row(r).chunks = DOMAIN job[r].chunks
  BY DEF Row
<1>4. ASSUME NEW i \in DOMAIN job[r].chunks
      PROVE  LET row == Row(r).chunks[i] IN
             /\ row.text = job[r].chunks[i].text
             /\ row.sinks = Routed(PolicyOf(r), job[r].chunks[i])
             /\ row.vector = IF "vector" \in row.sinks /\ looked[r] # << >> THEN row.text ELSE None
  <2> DEFINE row == Row(r).chunks[i]
             here == {k \in DOMAIN looked[r] : ToEmbed(r)[k] = i}
  <2>1. /\ row.text = job[r].chunks[i].text /\ row.sinks = sinks[r][i]
        /\ row.vector = IF here # {} THEN looked[r][CHOOSE k \in DOMAIN looked[r] : ToEmbed(r)[k] = i] ELSE None
    BY DEF Row
  <2>2. sinks[r][i] = Routed(PolicyOf(r), job[r].chunks[i])
    BY <1>1 DEF RoutedAll
  <2>3. CASE looked[r] = << >>
    <3>1. here = {}
      BY <2>3
    <3> QED
      BY <2>1, <2>2, <2>3, <3>1
  <2>4. CASE looked[r] # << >>
    <3>1. looked[r] = Wanted(r)
      BY <1>1, <2>4
    <3>2. /\ DOMAIN looked[r] = DOMAIN ToEmbed(r)
          /\ \A k \in DOMAIN looked[r] : looked[r][k] = job[r].chunks[ToEmbed(r)[k]].text
      BY <1>1, <1>2, <3>1, WantedFacts
    <3>3. CASE "vector" \in sinks[r][i]
      <4>1. here # {}
        BY <1>1, <1>2, <3>2, <3>3, EmbedFacts
      <4>2. PICK k \in DOMAIN looked[r] :
              ToEmbed(r)[k] = i /\ k = CHOOSE j \in DOMAIN looked[r] : ToEmbed(r)[j] = i
        BY <4>1
      <4>3. row.vector = looked[r][k]
        BY <2>1, <4>1, <4>2
      <4>4. row.vector = row.text
        BY <2>1, <3>2, <4>2, <4>3
      <4> QED
        BY <2>1, <2>2, <2>4, <3>3, <4>4
    <3>4. CASE "vector" \notin sinks[r][i]
      <4>1. here = {}
        BY <1>1, <1>2, <3>2, <3>4, EmbedFacts
      <4> QED
        BY <2>1, <2>2, <3>4, <4>1
    <3> QED
      BY <3>3, <3>4
  <2> QED
    BY <2>3, <2>4
<1> QED
  BY <1>1, <1>3, <1>4

LEMMA CommitStep ==
  ASSUME PipelineInv, NEW r \in Runs, Commit(r)
  PROVE  PipelineInv'
<1>1. /\ pc[r] = "commit" /\ job' = job /\ pc' = [pc EXCEPT ![r] = "done"]
      /\ published' = [published EXCEPT ![r] = Row(r)]
      /\ UNCHANGED <<sinks, entities, summary, looked, missed, cache>>
  BY DEF Commit, Goes, routeVars, embedVars
<1>2. /\ pc'[r] = "done" /\ published'[r] = Row(r)
      /\ \A s \in Runs : s # r => pc'[s] = pc[s] /\ published'[s] = published[s]
  BY <1>1 DEF PipelineInv, PipelineTypes
<1>3. PipelineTypes'
  BY <1>1 DEF PipelineInv, PipelineTypes
<1>4. missed[r] \subseteq DOMAIN looked[r]
  BY DEF PipelineInv, Sound
<1>5. Sound(r)'
  BY <1>1, <1>2, <1>4 DEF Sound, Active
<1>6. IsDocument(r)' = IsDocument(r) /\ PolicyOf(r)' = PolicyOf(r)
  BY <1>1 DEF IsDocument, PolicyOf
<1>7. Shown(r)'
  <2> DEFINE rows == Row(r).chunks
  <2>1. /\ IsDocument(r) /\ DOMAIN rows = DOMAIN job[r].chunks
        /\ \A i \in DOMAIN job[r].chunks :
             /\ rows[i].text = job[r].chunks[i].text
             /\ rows[i].sinks = Routed(PolicyOf(r), job[r].chunks[i])
             /\ rows[i].vector = IF "vector" \in rows[i].sinks /\ looked[r] # << >> THEN rows[i].text ELSE None
    BY <1>1, RowFacts
  <2> HIDE DEF rows
  <2>2. \A i \in DOMAIN job[r].chunks :
          rows[i].vector \in {rows[i].text, None} /\ ("vector" \notin rows[i].sinks => rows[i].vector = None)
    BY <2>1
  <2>3. ASSUME NEW i \in DOMAIN job[r].chunks, NEW j \in DOMAIN job[r].chunks,
               "vector" \in rows[i].sinks \cap rows[j].sinks, rows[i].vector = None
        PROVE  rows[j].vector = None
    <3>1. rows[i].text \in Texts
      BY <2>1, RunFacts DEF PipelineInv, PipelineTypes, Chunks
    <3>2. looked[r] = << >>
      BY <2>1, <2>3, <3>1, PipelineAssumption
    <3> QED
      BY <2>1, <3>2
  <2>4. published'[r].chunks = rows
    BY <1>2 DEF rows
  <2> QED
    BY <1>1, <1>6, <2>1, <2>2, <2>3, <2>4 DEF Shown
<1>8. \A s \in Runs : Sound(s)' /\ Shown(s)'
  BY <1>1, <1>2, <1>5, <1>7, SoundStill, ShownStill DEF PipelineInv
<1> QED
  BY <1>3, <1>8 DEF PipelineInv

LEMMA PipelineStarts ==
  ASSUME Init
  PROVE  PipelineInv
<1>1. PipelineTypes
  BY DEF Init, PipelineTypes, Active
<1>2. ASSUME NEW r \in Runs
      PROVE  Sound(r) /\ Shown(r)
  <2>1. /\ pc[r] = IF IsDocument(r) THEN "start" ELSE IF job[r].mode = "bm25" THEN "search" ELSE "look"
        /\ looked[r] = << >> /\ missed[r] = {} /\ published[r] = None
    BY DEF Init
  <2>2. Len(Wanted(r)) \in Nat /\ Len(looked[r]) = 0 /\ DOMAIN looked[r] = {}
    BY <2>1, WantedFacts DEF Init
  <2> QED
    BY <2>1, <2>2 DEF Sound, Shown, Active
<1> QED
  BY <1>1, <1>2 DEF PipelineInv

LEMMA PipelineStep ==
  ASSUME PipelineInv,
         \/ \E r \in Runs : Step(r) \/ Die(r) \/ Ask(r)
         \/ \E t \in Texts : Expire(t)
         \/ UNCHANGED vars
  PROVE  PipelineInv'
<1>1. ASSUME NEW r \in Runs, Step(r) PROVE PipelineInv'
  BY <1>1, RouteStep, EnrichStep, LookStep, HitStep, EncodeStep, WriteStep, EmbedFailsStep, CommitStep, CommitRaisesStep
     DEF Step
<1>2. ASSUME NEW r \in Runs, Ask(r) PROVE PipelineInv'
  <2>1. /\ job' = job /\ pc' = [pc EXCEPT ![r] = "done"]
        /\ UNCHANGED <<sinks, entities, summary, looked, missed, cache, published>>
    BY <1>2 DEF Ask, Goes, routeVars, embedVars
  <2>2. PipelineTypes'
    BY <2>1 DEF PipelineInv, PipelineTypes
  <2>3. pc'[r] = "done" /\ missed[r] \subseteq DOMAIN looked[r]
    BY <2>1 DEF PipelineInv, PipelineTypes, Sound
  <2>4. Sound(r)'
    BY <2>1, <2>3 DEF Sound, Active
  <2> QED
    BY <2>1, <2>2, <2>4, RunGoes
<1>3. CASE UNCHANGED vars
  <2>1. UNCHANGED <<job, pc, sinks, entities, summary, looked, missed, cache, published>>
    BY <1>3 DEF vars, routeVars, embedVars
  <2>2. PipelineTypes'
    BY <2>1 DEF PipelineInv, PipelineTypes
  <2>3. \A s \in Runs : Sound(s)' /\ Shown(s)'
    BY <2>1, SoundStill, ShownStill DEF PipelineInv
  <2> QED
    BY <2>2, <2>3 DEF PipelineInv
<1> QED
  BY <1>1, <1>2, <1>3, DieStep, ExpireStep

-----------------------------------------------------------------------------
(* The lists of the two legs, and what becomes of them. *)

\* A list of at most n members of a set, each once.
ListIn(s, S, n) ==
  /\ s \in Seq(S) /\ Len(s) <= n
  /\ \A i, j \in DOMAIN s : s[i] = s[j] => i = j

ListsAll(s, S) == \A x \in S : Listed(s, x)

LEMMA ListInFacts ==
  ASSUME NEW S, NEW T, S \subseteq T, NEW n, NEW s, ListIn(s, S, n)
  PROVE  /\ s \in Seq(T) /\ ListIn(s, T, n)
         /\ DOMAIN s = 1 .. Len(s) /\ Len(s) \in Nat
         /\ \A i \in DOMAIN s : s[i] \in S
<1>1. s \in Seq(S) /\ Len(s) <= n /\ \A i, j \in DOMAIN s : s[i] = s[j] => i = j
  BY DEF ListIn
<1>2. DOMAIN s = 1 .. Len(s) /\ Len(s) \in Nat /\ \A i \in DOMAIN s : s[i] \in S
  BY <1>1, LenProperties, ElementOfSeq
<1>3. s \in Seq(T)
  <2>1. s \in [1 .. Len(s) -> T]
    BY <1>1, <1>2
  <2> QED
    BY <1>2, <2>1
<1> QED
  BY <1>1, <1>2, <1>3 DEF ListIn

\* What LIMIT n leaves of a list of all members: all, if there are no more than n.
LEMMA CutFacts ==
  ASSUME NEW S, IsFiniteSet(S), NEW s \in SetToSeqs(S), NEW n \in Nat
  PROVE  /\ ListIn(Cut(s, n), S, n)
         /\ Cardinality(S) <= n => ListsAll(Cut(s, n), S)
         /\ \A i \in DOMAIN Cut(s, n) : i \in DOMAIN s /\ Cut(s, n)[i] = s[i]
<1>1. /\ s \in Seq(S) /\ Len(s) = Cardinality(S) /\ Len(s) \in Nat /\ DOMAIN s = 1 .. Len(s)
      /\ \A i, j \in DOMAIN s : s[i] = s[j] => i = j
      /\ \A x \in S : \E i \in DOMAIN s : s[i] = x
  BY Enumerations
<1> DEFINE m == Least(n, Len(s))
<1>2. m \in Nat /\ m <= n /\ m <= Len(s) /\ (Len(s) <= n => m = Len(s))
  BY <1>1 DEF Least
<1> HIDE DEF m
<1>3. \A i \in 1 .. m : i \in DOMAIN s /\ s[i] \in S
  BY <1>1, <1>2, ElementOfSeq
<1>4. /\ SubSeq(s, 1, m) \in Seq(S) /\ Len(SubSeq(s, 1, m)) = m
      /\ \A i \in 1 .. m : SubSeq(s, 1, m)[i] = s[i]
  <2>1. /\ SubSeq(s, 1, m) \in Seq(S)
        /\ Len(SubSeq(s, 1, m)) = IF 1 <= m THEN m - 1 + 1 ELSE 0
        /\ \A i \in 1 .. m - 1 + 1 : SubSeq(s, 1, m)[i] = s[1 + i - 1]
    BY <1>2, <1>3, SubSeqProperties
  <2>2. 1 .. m - 1 + 1 = 1 .. m /\ \A i \in 1 .. m : 1 + i - 1 = i
    BY <1>2
  <2>3. Len(SubSeq(s, 1, m)) = m
    BY <1>2, <2>1
  <2> QED
    BY <2>1, <2>2, <2>3
<1>5. PICK c : c = SubSeq(s, 1, m) /\ c = Cut(s, n)
  BY DEF Cut, m
<1>6. c \in Seq(S) /\ Len(c) = m /\ DOMAIN c = 1 .. m /\ \A i \in 1 .. m : c[i] = s[i]
  BY <1>4, <1>5, LenProperties
<1>7. ListIn(c, S, n)
  BY <1>1, <1>2, <1>3, <1>6 DEF ListIn
<1>8. ASSUME Cardinality(S) <= n
      PROVE  ListsAll(c, S)
  BY <1>1, <1>2, <1>6, <1>8 DEF ListsAll, Listed
<1> QED
  BY <1>3, <1>5, <1>6, <1>7, <1>8

\* The chunks that are published are finitely many.
LEMMA IdsFacts ==
  ASSUME PipelineInv
  PROVE  /\ IsFiniteSet(Ids) /\ Ids \subseteq Runs \X Nat
         /\ \A r \in Runs : published[r] # None => \A i \in DOMAIN job[r].chunks : <<r, i>> \in Ids
<1> DEFINE Done == {d \in Runs : published[d] # None}
           ids == [r \in Done |-> {r} \X DOMAIN published[r].chunks]
           All == {ids[r] : r \in Done}
<1>1. IsFiniteSet(Done)
  BY FS_Subset, PipelineAssumption
<1>2. \A r \in Done : DOMAIN published[r].chunks = DOMAIN job[r].chunks /\ IsDocument(r)
  BY DEF PipelineInv, Shown
<1>3. ASSUME NEW r \in Done
      PROVE  IsFiniteSet(DOMAIN published[r].chunks) /\ DOMAIN published[r].chunks \subseteq Nat
  <2>1. job \in Mixes /\ r \in Runs
    BY DEF PipelineInv, PipelineTypes
  <2>2. IsFiniteSet(DOMAIN job[r].chunks) /\ DOMAIN job[r].chunks = 1 .. Len(job[r].chunks)
    BY <1>2, <2>1, RunFacts
  <2> QED
    BY <1>2, <2>2
<1>4. \A r \in Done : IsFiniteSet(ids[r]) /\ ids[r] \subseteq Runs \X Nat
  BY <1>3, FS_Singleton, FS_Product
<1>5. ids \in Surjection(Done, All)
  BY DEF Surjection
<1> HIDE DEF ids
<1>6. IsFiniteSet(All) /\ \A T \in All : IsFiniteSet(T) /\ T \subseteq Runs \X Nat
  BY <1>1, <1>4, <1>5, FS_Surjection
<1>7. Ids = UNION All
  BY DEF Ids, ids
<1>8. IsFiniteSet(Ids) /\ Ids \subseteq Runs \X Nat
  BY <1>6, <1>7, FS_UNION
<1>9. ASSUME NEW r \in Runs, published[r] # None, NEW i \in DOMAIN job[r].chunks
      PROVE  <<r, i>> \in Ids
  BY <1>2, <1>9 DEF Ids
<1> QED
  BY <1>8, <1>9

\* The limits, each as wide as the one before it.
LEMMA LimitFacts ==
  ASSUME NEW k \in 1 .. MaxTopK
  PROVE  /\ PreK(k) \in Nat /\ k <= PreK(k)
         /\ EfSearchFor(k) \in Nat /\ EfSearchFor(k) <= EfSearchFor(PreK(k)) /\ EfSearchFor(PreK(k)) \in Nat
<1>1. k \in Nat \ {0} /\ k <= PreMax /\ {PreFactor, PreMax, EfFactor, EfMin, EfMax} \subseteq Nat \ {0}
  BY PipelineAssumption, SearchAssumption
<1>2. k * PreFactor \in Nat /\ k <= k * PreFactor
  <2>1. PICK f \in Nat : PreFactor = f + 1
    BY <1>1
  <2>2. k * PreFactor = k * f + k /\ k * f \in Nat
    BY <1>1, <2>1
  <2> QED
    BY <1>1, <2>2
<1>3. PreK(k) \in Nat /\ k <= PreK(k)
  BY <1>1, <1>2 DEF PreK, Least
<1>4. PICK p \in Nat : p = PreK(k)
  BY <1>3
<1>5. k * EfFactor \in Nat /\ p * EfFactor \in Nat /\ k * EfFactor <= p * EfFactor
  <2>1. PICK d \in Nat : p = k + d
    BY <1>1, <1>3, <1>4
  <2>2. p * EfFactor = k * EfFactor + d * EfFactor /\ d * EfFactor \in Nat /\ k * EfFactor \in Nat
    BY <1>1, <2>1
  <2> QED
    BY <2>2
<1>6. EfSearchFor(k) \in Nat /\ EfSearchFor(p) \in Nat /\ EfSearchFor(k) <= EfSearchFor(p)
  BY <1>1, <1>5 DEF EfSearchFor, Least, Most
<1> QED
  BY <1>3, <1>4, <1>6

Bm25All(q) == {id \in Ids : InBm25(q, id)}
VecAll(q) == {id \in Ids : InVec(q, id)}

LEMMA Bm25Facts ==
  ASSUME PipelineInv, NEW q \in Runs, NEW n \in Nat, NEW b \in Bm25Lists(q, n)
  PROVE  /\ ListIn(b, Bm25All(q), n)
         /\ Cardinality(Bm25All(q)) <= n => ListsAll(b, Bm25All(q))
<1>1. IsFiniteSet(Bm25All(q))
  BY IdsFacts, FS_Subset DEF Bm25All
<1>2. PICK s \in SetToSeqs(Bm25All(q)) : b = Cut(s, n)
  BY DEF Bm25Lists, Bm25All
<1> QED
  BY <1>1, <1>2, CutFacts

\* If the index yields every vector there is, nothing is missed by filtering after.
LEMMA VecFacts ==
  ASSUME PipelineInv, NEW q \in Runs, NEW n \in Nat, EfSearchFor(n) \in Nat, NEW v \in VecLists(q, n)
  PROVE  /\ ListIn(v, VecAll(q), n)
         /\ Cardinality(Embeddings) <= EfSearchFor(n) /\ Cardinality(VecAll(q)) <= n => ListsAll(v, VecAll(q))
<1>1. IsFiniteSet(Embeddings) /\ Embeddings \subseteq Ids
  BY IdsFacts, FS_Subset DEF Embeddings
<1>2. PICK s \in Nearest(q, EfSearchFor(n)) : v = Cut(s, n)
  BY DEF VecLists
<1>3. PICK near \in kSubset(Least(EfSearchFor(n), Cardinality(Embeddings)), Embeddings) :
        s \in SetToSeqs({id \in near : InVec(q, id)})
  BY <1>2 DEF Nearest
<1>4. near \in SUBSET Embeddings /\ Cardinality(near) = Least(EfSearchFor(n), Cardinality(Embeddings))
  BY <1>3 DEF kSubset
<1> DEFINE left == {id \in near : InVec(q, id)}
<1>5. left \subseteq VecAll(q) /\ IsFiniteSet(left)
  BY <1>1, <1>4, FS_Subset DEF VecAll
<1>6. ListIn(v, left, n) /\ (Cardinality(left) <= n => ListsAll(v, left))
  BY <1>2, <1>3, <1>5, CutFacts
<1>7. ListIn(v, VecAll(q), n)
  BY <1>5, <1>6, ListInFacts
<1>8. ASSUME Cardinality(Embeddings) <= EfSearchFor(n), Cardinality(VecAll(q)) <= n
      PROVE  ListsAll(v, VecAll(q))
  <2>1. Cardinality(near) = Cardinality(Embeddings)
    BY <1>1, <1>4, <1>8, FS_CardinalityType DEF Least
  <2>2. near = Embeddings
    BY <1>1, <1>4, <2>1, FS_Subset
  <2>3. left = VecAll(q)
    BY <1>1, <2>2 DEF VecAll, Embeddings, InVec
  <2> QED
    BY <1>6, <1>8, <2>3
<1> QED
  BY <1>7, <1>8

Either(b, v) == {b[i] : i \in DOMAIN b} \cup {v[i] : i \in DOMAIN v}

\* Fusion: every chunk of the two lists, once, and by falling score.
LEMMA FusedFacts ==
  ASSUME NEW B, NEW V, IsFiniteSet(B), IsFiniteSet(V), NEW b, NEW v, NEW m, ListIn(b, B, m), ListIn(v, V, m),
         NEW s \in Fused(b, v), NEW k \in Nat
  PROVE  /\ ListIn(Cut(s, k), B \cup V, k)
         /\ \A i \in DOMAIN Cut(s, k) : Listed(b, Cut(s, k)[i]) \/ Listed(v, Cut(s, k)[i])
         /\ \A i, j \in DOMAIN Cut(s, k) :
              i < j => ~Higher(Score(b, v, Cut(s, k)[j]), Score(b, v, Cut(s, k)[i]))
         /\ Cardinality(B \cup V) <= k =>
              \A x : Listed(b, x) \/ Listed(v, x) => Listed(Cut(s, k), x)
<1> DEFINE S == Either(b, v)
<1>1. S \subseteq B \cup V /\ IsFiniteSet(B \cup V)
  <2>1. (\A i \in DOMAIN b : b[i] \in B) /\ (\A i \in DOMAIN v : v[i] \in V)
    BY ListInFacts
  <2>2. IsFiniteSet(B \cup V)
    BY FS_Union
  <2> QED
    BY <2>1, <2>2 DEF Either
<1>2. \A x : x \in S <=> Listed(b, x) \/ Listed(v, x)
  BY DEF Either, Listed
<1>3. s \in SetToSeqs(S) /\ \A i, j \in DOMAIN s : i < j => ~Higher(Score(b, v, s[j]), Score(b, v, s[i]))
  BY DEF Fused, Either
<1> HIDE DEF S
<1>4. IsFiniteSet(S) /\ Cardinality(S) <= Cardinality(B \cup V)
  BY <1>1, FS_Subset
<1>5. /\ ListIn(Cut(s, k), S, k)
      /\ Cardinality(S) <= k => ListsAll(Cut(s, k), S)
      /\ \A i \in DOMAIN Cut(s, k) : i \in DOMAIN s /\ Cut(s, k)[i] = s[i]
  BY <1>3, <1>4, CutFacts
<1>6. PICK c : c = Cut(s, k)
  OBVIOUS
<1>7. ListIn(c, B \cup V, k) /\ \A i \in DOMAIN c : c[i] \in S
  BY <1>1, <1>5, <1>6, ListInFacts
<1>8. \A i, j \in DOMAIN c : i < j => ~Higher(Score(b, v, c[j]), Score(b, v, c[i]))
  BY <1>3, <1>5, <1>6
<1>9. ASSUME Cardinality(B \cup V) <= k
      PROVE  \A x \in S : Listed(c, x)
  <2>1. Cardinality(S) <= k
    BY <1>1, <1>4, <1>9, FS_CardinalityType
  <2> QED
    BY <1>5, <1>6, <2>1 DEF ListsAll
<1> QED
  BY <1>2, <1>6, <1>7, <1>8, <1>9

-----------------------------------------------------------------------------
(* What is answered. *)

Found(q) ==
  CASE job[q].mode = "bm25" -> {id \in Ids : InBm25(q, id)}
    [] job[q].mode = "vector" -> {id \in Ids : InVec(q, id)}
    [] OTHER -> {id \in Ids : InBm25(q, id) \/ InVec(q, id)}

\* An answer, and what it is sure to hold.
Fine(q, a) ==
  /\ Ranked(q, a)
  /\ \A i \in DOMAIN a.rows : a.rows[i] \in Found(q)
  /\ Cardinality(Found(q)) <= job[q].top_k /\ Cardinality(Embeddings) <= EfSearchFor(job[q].top_k)
       => ListsAll(a.rows, Found(q))
  /\ Cardinality(Ids) <= job[q].top_k /\ job[q].mode \in {"bm25", "hybrid"} => ListsAll(a.rows, Bm25All(q))

LEMMA QueryFacts ==
  ASSUME PipelineInv, NEW q \in Runs, ~IsDocument(q)
  PROVE  job[q].top_k \in 1 .. MaxTopK /\ job[q].top_k \in Nat /\ job[q].mode \in {"bm25", "vector", "hybrid"}
<1>1. job[q] \in Queries
  BY RunFacts DEF PipelineInv, PipelineTypes
<1> QED
  BY <1>1, PipelineAssumption DEF Queries

LEMMA AllFacts ==
  ASSUME PipelineInv, NEW q \in Runs
  PROVE  /\ IsFiniteSet(Bm25All(q)) /\ IsFiniteSet(VecAll(q)) /\ IsFiniteSet(Ids)
         /\ Bm25All(q) \subseteq Runs \X Nat /\ VecAll(q) \subseteq Runs \X Nat
         /\ Cardinality(Bm25All(q)) \in Nat /\ Cardinality(VecAll(q)) \in Nat /\ Cardinality(Embeddings) \in Nat
         /\ Cardinality(Bm25All(q)) <= Cardinality(Ids) /\ Cardinality(Ids) \in Nat
<1>1. IsFiniteSet(Ids) /\ Ids \subseteq Runs \X Nat
  BY IdsFacts
<1>2. Bm25All(q) \in SUBSET Ids /\ VecAll(q) \in SUBSET Ids /\ Embeddings \in SUBSET Ids
  BY DEF Bm25All, VecAll, Embeddings
<1> QED
  BY <1>1, <1>2, FS_Subset, FS_CardinalityType

LEMMA ListInIsList ==
  ASSUME NEW S, S \subseteq Runs \X Nat, NEW n, NEW s, ListIn(s, S, n)
  PROVE  IsList(s) /\ Len(s) <= n
  BY ListInFacts DEF ListIn, IsList

LEMMA EmptyList ==
  IsList(<< >>)
  BY DEF IsList

LEMMA Bm25Answer ==
  ASSUME PipelineInv, NEW q \in Runs, ~IsDocument(q), job[q].mode = "bm25", NEW a \in Answers(q)
  PROVE  Fine(q, a)
<1> DEFINE k == job[q].top_k
<1>1. k \in Nat
  BY QueryFacts
<1>2. PICK b \in Bm25Lists(q, k) : a = [bm25 |-> b, vec |-> << >>, rows |-> b]
  BY DEF Answers
<1>3. a.bm25 = b /\ a.vec = << >> /\ a.rows = b
  BY <1>2
<1>4. ListIn(b, Bm25All(q), k) /\ (Cardinality(Bm25All(q)) <= k => ListsAll(b, Bm25All(q)))
  BY <1>1, Bm25Facts
<1>5. Found(q) = Bm25All(q)
  BY DEF Found, Bm25All
<1>6. IsList(b) /\ Len(b) <= k
  BY <1>4, AllFacts, ListInIsList
<1>7. \A i \in DOMAIN b : Listed(b, b[i]) /\ b[i] \in Found(q)
  BY <1>4, <1>5, ListInFacts DEF Listed
<1>8. Ranked(q, a)
  BY <1>3, <1>6, <1>7, EmptyList DEF Ranked
<1>9. Cardinality(Ids) <= k => Cardinality(Bm25All(q)) <= k
  BY <1>1, AllFacts
<1> QED
  BY <1>3, <1>4, <1>5, <1>7, <1>8, <1>9 DEF Fine

LEMMA VectorAnswer ==
  ASSUME PipelineInv, NEW q \in Runs, ~IsDocument(q), job[q].mode = "vector", NEW a \in Answers(q)
  PROVE  Fine(q, a)
<1> DEFINE k == job[q].top_k
<1>1. k \in Nat /\ EfSearchFor(k) \in Nat
  BY QueryFacts, LimitFacts
<1>2. PICK v \in VecLists(q, k) : a = [bm25 |-> << >>, vec |-> v, rows |-> v]
  BY DEF Answers
<1>3. a.bm25 = << >> /\ a.vec = v /\ a.rows = v
  BY <1>2
<1>4. /\ ListIn(v, VecAll(q), k)
      /\ Cardinality(Embeddings) <= EfSearchFor(k) /\ Cardinality(VecAll(q)) <= k => ListsAll(v, VecAll(q))
  BY <1>1, VecFacts
<1>5. Found(q) = VecAll(q)
  BY DEF Found, VecAll
<1>6. IsList(v) /\ Len(v) <= k
  BY <1>4, AllFacts, ListInIsList
<1>7. \A i \in DOMAIN v : Listed(v, v[i]) /\ v[i] \in Found(q)
  BY <1>4, <1>5, ListInFacts DEF Listed
<1>8. Ranked(q, a)
  BY <1>3, <1>6, <1>7, EmptyList DEF Ranked
<1> QED
  BY <1>3, <1>4, <1>5, <1>7, <1>8 DEF Fine

LEMMA HybridAnswer ==
  ASSUME PipelineInv, NEW q \in Runs, ~IsDocument(q), job[q].mode = "hybrid", NEW a \in Answers(q)
  PROVE  Fine(q, a)
<1> DEFINE k == job[q].top_k
           B == Bm25All(q)
           V == VecAll(q)
<1>1. k \in Nat /\ PreK(k) \in Nat /\ k <= PreK(k)
  BY QueryFacts, LimitFacts
<1>2. EfSearchFor(k) \in Nat /\ EfSearchFor(PreK(k)) \in Nat /\ EfSearchFor(k) <= EfSearchFor(PreK(k))
  BY QueryFacts, LimitFacts
<1>3. PICK p \in Bm25Lists(q, PreK(k)) \X VecLists(q, PreK(k)) :
        \E s \in Fused(p[1], p[2]) : a = [bm25 |-> p[1], vec |-> p[2], rows |-> Cut(s, k)]
  BY DEF Answers
<1>4. PICK b \in Bm25Lists(q, PreK(k)) : b = p[1]
  BY <1>3
<1>5. PICK v \in VecLists(q, PreK(k)) : v = p[2]
  BY <1>3
<1>6. PICK s \in Fused(b, v) : a = [bm25 |-> b, vec |-> v, rows |-> Cut(s, k)]
  BY <1>3, <1>4, <1>5
<1>7. PICK rows : rows = Cut(s, k)
  OBVIOUS
<1>8. a.bm25 = b /\ a.vec = v /\ a.rows = rows
  BY <1>6, <1>7
<1>9. ListIn(b, B, PreK(k)) /\ (Cardinality(B) <= PreK(k) => ListsAll(b, B))
  BY <1>1, Bm25Facts
<1>10. /\ ListIn(v, V, PreK(k))
       /\ Cardinality(Embeddings) <= EfSearchFor(PreK(k)) /\ Cardinality(V) <= PreK(k) => ListsAll(v, V)
  BY <1>1, <1>2, VecFacts
<1>11. IsFiniteSet(B) /\ IsFiniteSet(V) /\ B \cup V \subseteq Runs \X Nat /\ B \cup V \in SUBSET Ids
  BY AllFacts DEF Bm25All, VecAll
<1>12. /\ ListIn(rows, B \cup V, k)
       /\ \A i \in DOMAIN rows : Listed(b, rows[i]) \/ Listed(v, rows[i])
       /\ \A i, j \in DOMAIN rows : i < j => ~Higher(Score(b, v, rows[j]), Score(b, v, rows[i]))
       /\ Cardinality(B \cup V) <= k => \A x : Listed(b, x) \/ Listed(v, x) => Listed(rows, x)
  <2>1. PICK n \in Nat : n = k
    BY <1>1
  <2>2. PICK S : S = Bm25All(q)
    OBVIOUS
  <2>3. PICK T : T = VecAll(q)
    OBVIOUS
  <2>4. PICK m : ListIn(b, S, m) /\ ListIn(v, T, m)
    BY <1>9, <1>10, <2>2, <2>3
  <2>5. IsFiniteSet(S) /\ IsFiniteSet(T) /\ rows = Cut(s, n)
    BY <1>7, <1>11, <2>1, <2>2, <2>3
  <2>6. /\ ListIn(Cut(s, n), S \cup T, n)
        /\ \A i \in DOMAIN Cut(s, n) : Listed(b, Cut(s, n)[i]) \/ Listed(v, Cut(s, n)[i])
        /\ \A i, j \in DOMAIN Cut(s, n) :
             i < j => ~Higher(Score(b, v, Cut(s, n)[j]), Score(b, v, Cut(s, n)[i]))
        /\ Cardinality(S \cup T) <= n =>
             \A x : Listed(b, x) \/ Listed(v, x) => Listed(Cut(s, n), x)
    BY <2>4, <2>5, FusedFacts
  <2> QED
    BY <2>1, <2>2, <2>3, <2>5, <2>6
<1>13. Found(q) = B \cup V
  BY DEF Found, Bm25All, VecAll
<1>14. IsList(b) /\ IsList(v) /\ IsList(rows) /\ Len(rows) <= k
  BY <1>9, <1>10, <1>11, <1>12, ListInIsList
<1>15. Ranked(q, a)
  BY <1>8, <1>12, <1>14 DEF Ranked
<1>16. \A i \in DOMAIN rows : rows[i] \in Found(q)
  BY <1>12, <1>13, ListInFacts
<1>17. ASSUME Cardinality(Found(q)) <= k, Cardinality(Embeddings) <= EfSearchFor(k)
       PROVE  ListsAll(rows, Found(q))
  <2>1. IsFiniteSet(Found(q)) /\ Cardinality(Found(q)) \in Nat
    BY <1>11, <1>13, FS_Union, FS_CardinalityType
  <2>2. Cardinality(B) <= Cardinality(Found(q)) /\ Cardinality(V) <= Cardinality(Found(q))
    BY <1>13, <2>1, FS_Subset
  <2>3. Cardinality(B) \in Nat /\ Cardinality(V) \in Nat /\ Cardinality(Embeddings) \in Nat
    BY AllFacts
  <2>4. ListsAll(b, B) /\ ListsAll(v, V)
    BY <1>1, <1>2, <1>9, <1>10, <1>17, <2>1, <2>2, <2>3
  <2> QED
    BY <1>12, <1>13, <1>17, <2>4 DEF ListsAll
<1>18. ASSUME Cardinality(Ids) <= k
       PROVE  ListsAll(rows, B)
  <2>1. IsFiniteSet(Ids) /\ Cardinality(Ids) \in Nat /\ Cardinality(B) \in Nat /\ Cardinality(B) <= Cardinality(Ids)
    BY AllFacts
  <2>2. Cardinality(B \cup V) <= Cardinality(Ids) /\ Cardinality(B \cup V) \in Nat
    BY <1>11, <2>1, FS_Subset, FS_CardinalityType
  <2>3. ListsAll(b, B) /\ Cardinality(B \cup V) <= k
    BY <1>1, <1>9, <1>18, <2>1, <2>2
  <2> QED
    BY <1>12, <2>3 DEF ListsAll
<1> QED
  BY <1>8, <1>15, <1>16, <1>17, <1>18 DEF Fine

LEMMA AnswerFacts ==
  ASSUME PipelineInv, NEW q \in Runs, Ask(q)
  PROVE  \E a : answer' = [answer EXCEPT ![q] = a] /\ Fine(q, a)
<1>1. pc[q] = "search" /\ \E a \in Answers(q) : answer' = [answer EXCEPT ![q] = a]
  BY DEF Ask
<1>2. ~IsDocument(q)
  BY <1>1 DEF PipelineInv, Sound
<1>3. \A a \in Answers(q) : Fine(q, a)
  BY <1>2, QueryFacts, Bm25Answer, VectorAnswer, HybridAnswer
<1> QED
  BY <1>1, <1>3

-----------------------------------------------------------------------------
(* The invariant of the whole. *)

LEMMA SearchStarts ==
  SearchInit => SearchInv
  BY PipelineStarts DEF SearchInit, SearchInv, Answering

\* What a step does to the answers.
LEMMA AnswerStep ==
  ASSUME SearchInv, [SearchNext]_searchVars
  PROVE  \/ answer' = answer /\ job' = job
         \/ \E q \in Runs : \E a : answer' = [answer EXCEPT ![q] = a] /\ Fine(q, a) /\ job' = job
<1>1. ASSUME NEW r \in Runs, Run(r) \/ Fault(r)
      PROVE  answer' = answer /\ job' = job
  BY <1>1 DEF Run, Fault, Step, Die, Route, Enrich, Look, Hit, Encode, Write, EmbedFails, Commit,
               CommitRaises, Goes
<1>2. ASSUME NEW q \in Runs, Ask(q)
      PROVE  \E a : answer' = [answer EXCEPT ![q] = a] /\ Fine(q, a) /\ job' = job
  BY <1>2, AnswerFacts DEF SearchInv, Ask, Goes
<1>3. ASSUME NEW t \in Texts, Evict(t)
      PROVE  answer' = answer /\ job' = job
  BY <1>3 DEF Evict, Expire
<1>4. CASE UNCHANGED searchVars
  BY <1>4 DEF searchVars, vars
<1> QED
  BY <1>1, <1>2, <1>3, <1>4 DEF SearchNext

LEMMA SearchStep ==
  SearchInv /\ [SearchNext]_searchVars => SearchInv'
<1> SUFFICES ASSUME SearchInv, [SearchNext]_searchVars
             PROVE  SearchInv'
  OBVIOUS
<1>1. PipelineInv'
  BY PipelineStep DEF SearchInv, SearchNext, Run, Fault, Evict, searchVars
<1>2. Answering'
  <2>1. ASSUME NEW q \in Runs, NEW a, Ranked(q, a), job' = job
        PROVE  Ranked(q, a)'
    BY <2>1 DEF Ranked
  <2>2. CASE answer' = answer /\ job' = job
    BY <2>2 DEF SearchInv, Answering, Ranked
  <2>3. ASSUME NEW q \in Runs, NEW a, answer' = [answer EXCEPT ![q] = a], Fine(q, a), job' = job
        PROVE  Answering'
    <3>1. DOMAIN answer' = Runs /\ answer'[q] = a /\ \A r \in Runs : r # q => answer'[r] = answer[r]
      BY <2>3 DEF SearchInv, Answering
    <3>2. \A r \in Runs : answer'[r] # None => Ranked(r, answer'[r])
      BY <2>3, <3>1 DEF SearchInv, Answering, Fine
    <3> QED
      BY <2>3, <3>1, <3>2 DEF Answering, Ranked
  <2> QED
    BY <2>2, <2>3, AnswerStep
<1> QED
  BY <1>1, <1>2 DEF SearchInv

LEMMA SearchInvariant ==
  SearchSpec => []SearchInv
  BY SearchStarts, SearchStep, PTL DEF SearchSpec

-----------------------------------------------------------------------------
(* Ranks and scores. *)

LEMMA RankFacts ==
  ASSUME NEW S, NEW s \in Seq(S), NEW x, Listed(s, x)
  PROVE  Rank(s, x) \in DOMAIN s /\ Rank(s, x) \in Nat \ {0} /\ s[Rank(s, x)] = x
<1>1. \E i \in DOMAIN s : s[i] = x
  BY DEF Listed
<1>2. Rank(s, x) \in DOMAIN s /\ s[Rank(s, x)] = x
  BY <1>1 DEF Rank
<1>3. DOMAIN s = 1 .. Len(s)
  BY LenProperties
<1> QED
  BY <1>2, <1>3

LEMMA RankOf ==
  ASSUME NEW s, IsList(s), NEW i \in DOMAIN s
  PROVE  Listed(s, s[i]) /\ Rank(s, s[i]) = i
<1>1. Listed(s, s[i])
  BY DEF Listed
<1>2. Rank(s, s[i]) \in DOMAIN s /\ s[Rank(s, s[i])] = s[i]
  BY <1>1, RankFacts DEF IsList
<1> QED
  BY <1>1, <1>2 DEF IsList

\* Two reciprocals of smaller numbers, one of them smaller, have the larger sum.
LEMMA SumOfReciprocals ==
  ASSUME NEW p \in Nat \ {0}, NEW q \in Nat \ {0}, NEW c \in Nat, NEW d \in Nat, c > 0 \/ d > 0
  PROVE  (p + q) * ((p + c) * (q + d)) > ((p + c) + (q + d)) * (p * q)
<1> DEFINE P == p + c
           Q == q + d
<1>1. P \in Nat \ {0} /\ Q \in Nat \ {0} /\ p * P \in Nat \ {0} /\ q * Q \in Nat \ {0}
  BY Z3
<1>2. (p + q) * (P * Q) = (p * P) * Q + (q * Q) * P
  BY <1>1, Z3
<1>3. (P + Q) * (p * q) = (p * P) * q + (q * Q) * p
  BY <1>1, Z3
<1>4. (p * P) * Q = (p * P) * q + (p * P) * d
  BY <1>1, Z3
<1>5. (q * Q) * P = (q * Q) * p + (q * Q) * c
  BY <1>1, Z3
<1> HIDE DEF P, Q
<1>6. PICK x \in Nat \ {0} : x = p * P
  BY <1>1
<1>7. PICK y \in Nat \ {0} : y = q * Q
  BY <1>1
<1>8. x * d + y * c > 0 /\ x * d \in Nat /\ y * c \in Nat /\ x * q \in Nat /\ y * p \in Nat
  <2>1. x * d \in Nat /\ y * c \in Nat /\ x * q \in Nat /\ y * p \in Nat
    OBVIOUS
  <2>2. (d > 0 => x * d > 0) /\ (c > 0 => y * c > 0)
    BY Z3
  <2> QED
    BY <2>1, <2>2
<1>9. (p + q) * (P * Q) = (x * q + x * d) + (y * p + y * c) /\ (P + Q) * (p * q) = x * q + y * p
  BY <1>2, <1>3, <1>4, <1>5, <1>6, <1>7
<1>10. (p + q) * (P * Q) > (P + Q) * (p * q)
  BY <1>8, <1>9
<1> QED
  BY <1>10 DEF P, Q

\* The chunk that no leg ranks lower, and one leg higher, has the higher score.
LEMMA HigherScore ==
  ASSUME NEW b, NEW v, IsList(b), IsList(v), NEW x, NEW y, Listed(b, y) \/ Listed(v, y),
         NoWorse(b, x, y), NoWorse(v, x, y), ~(NoWorse(b, y, x) /\ NoWorse(v, y, x))
  PROVE  Higher(Score(b, v, x), Score(b, v, y))
<1>1. RrfK \in Nat \ {0}
  BY SearchAssumption
<1>2. \A s, z : IsList(s) /\ Listed(s, z) => Rank(s, z) \in Nat \ {0}
  BY RankFacts DEF IsList
<1>3. CASE Listed(b, y) /\ Listed(v, y)
  <2>1. Listed(b, x) /\ Listed(v, x) /\ Rank(b, x) <= Rank(b, y) /\ Rank(v, x) <= Rank(v, y)
    BY <1>3 DEF NoWorse
  <2>2. Rank(b, x) < Rank(b, y) \/ Rank(v, x) < Rank(v, y)
    BY <1>2, <1>3, <2>1 DEF NoWorse
  <2>3. PICK p \in Nat \ {0} : p = RrfK + Rank(b, x)
    BY <1>1, <1>2, <2>1
  <2>4. PICK q \in Nat \ {0} : q = RrfK + Rank(v, x)
    BY <1>1, <1>2, <2>1
  <2>5. PICK c \in Nat : RrfK + Rank(b, y) = p + c /\ (Rank(b, x) < Rank(b, y) => c > 0)
    <3>1. Rank(b, y) - Rank(b, x) \in Nat /\ RrfK + Rank(b, y) = p + (Rank(b, y) - Rank(b, x))
      BY <1>1, <1>2, <1>3, <2>1, <2>3
    <3>2. Rank(b, x) < Rank(b, y) => Rank(b, y) - Rank(b, x) > 0
      BY <1>2, <1>3, <2>1
    <3> QED
      BY <3>1, <3>2
  <2>6. PICK d \in Nat : RrfK + Rank(v, y) = q + d /\ (Rank(v, x) < Rank(v, y) => d > 0)
    <3>1. Rank(v, y) - Rank(v, x) \in Nat /\ RrfK + Rank(v, y) = q + (Rank(v, y) - Rank(v, x))
      BY <1>1, <1>2, <1>3, <2>1, <2>4
    <3>2. Rank(v, x) < Rank(v, y) => Rank(v, y) - Rank(v, x) > 0
      BY <1>2, <1>3, <2>1
    <3> QED
      BY <3>1, <3>2
  <2>7. /\ Score(b, v, x) = [num |-> p + q, den |-> p * q]
        /\ Score(b, v, y) = [num |-> (p + c) + (q + d), den |-> (p + c) * (q + d)]
    BY <1>3, <2>1, <2>3, <2>4, <2>5, <2>6 DEF Score
  <2>8. (p + q) * ((p + c) * (q + d)) > ((p + c) + (q + d)) * (p * q)
    BY <2>2, <2>5, <2>6, SumOfReciprocals
  <2> QED
    BY <2>7, <2>8 DEF Higher
\* Only one leg has y, at rank RrfK + ... : a second one makes x higher already.
<1>4. ASSUME NEW p \in Nat \ {0}, NEW q \in Nat \ {0}, NEW P \in Nat \ {0}, p <= P
      PROVE  (p + q) * P > 1 * (p * q) /\ (p < P => 1 * P > 1 * p)
  <2>1. PICK c \in Nat : P = p + c
    BY <1>4
  <2>2. (p + q) * P = p * P + (q * p + q * c) /\ p * q = q * p
    BY <2>1, Z3
  <2>3. p * P \in Nat \ {0} /\ q * p \in Nat /\ q * c \in Nat
    BY Z3
  <2>4. PICK x1 \in Nat \ {0} : x1 = p * P
    BY <2>3
  <2>5. PICK x2 \in Nat : x2 = q * p
    BY <2>3
  <2>6. PICK x3 \in Nat : x3 = q * c
    BY <2>3
  <2>7. (p + q) * P = x1 + (x2 + x3) /\ p * q = x2 /\ 1 * (p * q) = p * q
    BY <2>2, <2>3, <2>4, <2>5, <2>6
  <2> QED
    BY <2>7, <1>4
<1>5. CASE Listed(b, y) /\ ~Listed(v, y)
  <2>1. Listed(b, x) /\ Rank(b, x) <= Rank(b, y)
    BY <1>5 DEF NoWorse
  <2>2. PICK p \in Nat \ {0} : p = RrfK + Rank(b, x)
    BY <1>1, <1>2, <2>1
  <2>3. PICK P \in Nat \ {0} : P = RrfK + Rank(b, y) /\ p <= P /\ (Rank(b, x) < Rank(b, y) => p < P)
    BY <1>1, <1>2, <1>5, <2>1, <2>2
  <2>4. Score(b, v, y) = [num |-> 1, den |-> P]
    BY <1>5, <2>3 DEF Score
  <2>5. CASE Listed(v, x)
    <3>1. PICK q \in Nat \ {0} : q = RrfK + Rank(v, x)
      BY <1>1, <1>2, <2>5
    <3>2. Score(b, v, x) = [num |-> p + q, den |-> p * q]
      BY <2>1, <2>2, <2>5, <3>1 DEF Score
    <3>3. (p + q) * P > 1 * (p * q)
      BY <1>4, <2>3
    <3> QED
      BY <2>4, <3>2, <3>3 DEF Higher
  <2>6. CASE ~Listed(v, x)
    <3>1. Score(b, v, x) = [num |-> 1, den |-> p]
      BY <2>1, <2>2, <2>6 DEF Score
    <3>2. Rank(b, x) < Rank(b, y)
      BY <1>2, <1>5, <2>1, <2>6 DEF NoWorse
    <3>3. 1 * P > 1 * p
      BY <2>3, <3>2
    <3> QED
      BY <2>4, <3>1, <3>3 DEF Higher
  <2> QED
    BY <2>5, <2>6
<1>6. CASE ~Listed(b, y) /\ Listed(v, y)
  <2>1. Listed(v, x) /\ Rank(v, x) <= Rank(v, y)
    BY <1>6 DEF NoWorse
  <2>2. PICK p \in Nat \ {0} : p = RrfK + Rank(v, x)
    BY <1>1, <1>2, <2>1
  <2>3. PICK P \in Nat \ {0} : P = RrfK + Rank(v, y) /\ p <= P /\ (Rank(v, x) < Rank(v, y) => p < P)
    BY <1>1, <1>2, <1>6, <2>1, <2>2
  <2>4. Score(b, v, y) = [num |-> 1, den |-> P]
    BY <1>6, <2>3 DEF Score
  <2>5. CASE Listed(b, x)
    <3>1. PICK q \in Nat \ {0} : q = RrfK + Rank(b, x)
      BY <1>1, <1>2, <2>5
    <3>2. Score(b, v, x) = [num |-> q + p, den |-> q * p]
      BY <2>1, <2>2, <2>5, <3>1 DEF Score
    <3>3. (p + q) * P > 1 * (p * q)
      BY <1>4, <2>3
    <3>4. p + q = q + p /\ p * q = q * p
      BY Z3
    <3> QED
      BY <2>4, <3>2, <3>3, <3>4 DEF Higher
  <2>6. CASE ~Listed(b, x)
    <3>1. Score(b, v, x) = [num |-> 1, den |-> p]
      BY <2>1, <2>2, <2>6 DEF Score
    <3>2. Rank(v, x) < Rank(v, y)
      BY <1>2, <1>6, <2>1, <2>6 DEF NoWorse
    <3>3. 1 * P > 1 * p
      BY <2>3, <3>2
    <3> QED
      BY <2>4, <3>1, <3>3 DEF Higher
  <2> QED
    BY <2>5, <2>6
<1> QED
  BY <1>3, <1>5, <1>6

-----------------------------------------------------------------------------
(* The theorems. *)

\* Every variable of the enrichment and of the search keeps its type, the places
\* of misses among those looked up; an answer has at most top_k rows, each once.
THEOREM SearchTypeCorrect == SearchSpec => []SearchTypeOK
<1>1. SearchInv => SearchTypeOK
  <2> SUFFICES ASSUME SearchInv
               PROVE  SearchTypeOK
    OBVIOUS
  <2>1. \A r \in Runs : \A i \in DOMAIN sinks[r] : sinks[r][i] \subseteq Members
    <3>1. \A r \in Runs : sinks[r] \in Seq(SUBSET Members)
      BY DEF SearchInv, PipelineInv, PipelineTypes
    <3>2. \A r \in Runs : \A i \in DOMAIN sinks[r] : sinks[r][i] \in SUBSET Members
      BY <3>1, LenProperties, ElementOfSeq
    <3> QED
      BY <3>2
  <2>2. \A r \in Runs : \A k \in DOMAIN looked[r] : looked[r][k] \in Texts \cup {None}
    <3>1. \A r \in Runs : looked[r] \in Seq(Texts \cup {None})
      BY DEF SearchInv, PipelineInv, PipelineTypes
    <3> QED
      BY <3>1, LenProperties, ElementOfSeq
  <2>3. TypeOK
    BY <2>1, <2>2 DEF TypeOK, SearchInv, PipelineInv, PipelineTypes, Sound
  <2> QED
    BY <2>3 DEF SearchTypeOK, SearchInv, Answering, Ranked, IsList
<1> QED
  BY <1>1, SearchInvariant, PTL

\* embed_texts and the commit: for every mixture of hits, misses, expired and
\* failed entries, a vector in Redis or of a published chunk is that of its own
\* text, and the chunks of a document that are to have one all have it or none.
THEOREM VectorsCorrect == SearchSpec => []VectorsMatch
<1>1. SearchInv => VectorsMatch
  <2> SUFFICES ASSUME SearchInv
               PROVE  VectorsMatch
    OBVIOUS
  <2>1. \A t \in Texts : cache[t] \in {t, None}
    BY DEF SearchInv, PipelineInv, PipelineTypes
  <2>2. \A r \in Runs : Shown(r)
    BY DEF SearchInv, PipelineInv
  <2> QED
    BY <2>1, <2>2 DEF VectorsMatch, Shown
<1> QED
  BY <1>1, SearchInvariant, PTL

\* Reciprocal rank fusion, for every RRF_K and lists of every length: no row comes
\* before one that both legs rank at least as high and one of them higher.
THEOREM FusionCorrect == SearchSpec => []FusionMonotone
<1>1. SearchInv => FusionMonotone
  <2> SUFFICES ASSUME SearchInv, NEW q \in Runs, answer[q] # None,
                      NEW i \in DOMAIN answer[q].rows, NEW j \in DOMAIN answer[q].rows, i < j,
                      NoWorse(answer[q].bm25, answer[q].rows[j], answer[q].rows[i]),
                      NoWorse(answer[q].vec, answer[q].rows[j], answer[q].rows[i]),
                      ~(/\ NoWorse(answer[q].bm25, answer[q].rows[i], answer[q].rows[j])
                        /\ NoWorse(answer[q].vec, answer[q].rows[i], answer[q].rows[j]))
               PROVE  FALSE
    BY DEF FusionMonotone
  <2>1. PICK a : a = answer[q]
    OBVIOUS
  <2>2. Ranked(q, a)
    BY <2>1 DEF SearchInv, Answering
  <2>3. i \in Nat /\ j \in Nat
    <3>1. DOMAIN a.rows = 1 .. Len(a.rows)
      BY <2>2, LenProperties DEF Ranked, IsList
    <3> QED
      BY <2>1, <3>1
  <2>4. CASE a.rows = a.bm25 \/ a.rows = a.vec
    <3>1. \A s : IsList(s) /\ i \in DOMAIN s /\ j \in DOMAIN s => ~NoWorse(s, s[j], s[i])
      BY <2>3, RankOf DEF NoWorse
    <3> QED
      BY <2>1, <2>2, <2>4, <3>1 DEF Ranked
  <2>5. CASE ~Higher(Score(a.bm25, a.vec, a.rows[j]), Score(a.bm25, a.vec, a.rows[i]))
    BY <2>1, <2>2, <2>5, HigherScore DEF Ranked
  <2> QED
    BY <2>1, <2>2, <2>4, <2>5 DEF Ranked
<1> QED
  BY <1>1, SearchInvariant, PTL

\* A changed answer is the one the query just got.
LEMMA NewAnswer ==
  ASSUME SearchInv, [SearchNext]_searchVars, NEW q \in Runs, answer'[q] # answer[q]
  PROVE  Fine(q, answer'[q])
<1>1. PICK r \in Runs : \E a : answer' = [answer EXCEPT ![r] = a] /\ Fine(r, a)
  BY AnswerStep
<1>2. PICK a : answer' = [answer EXCEPT ![r] = a] /\ Fine(r, a)
  BY <1>1
<1>3. r = q /\ answer'[q] = a
  BY <1>2 DEF SearchInv, Answering
<1> QED
  BY <1>2, <1>3

\* All three modes, for every EF_FACTOR, EF_MIN, EF_MAX and PRE_K that nest as
\* those of the code do: what is found is answered, if top_k and the index allow.
THEOREM AnswersCorrect == SearchSpec => AnswersComplete
<1> DEFINE A == \A q \in Runs : answer'[q] # answer[q] =>
                  (Cardinality(Found(q)) <= job[q].top_k /\ Cardinality(Embeddings) <= EfSearchFor(job[q].top_k)
                   => {id \in Ids : Answered(q, id)'} = Found(q))
<1>1. SearchInv /\ [SearchNext]_searchVars => A
  <2> SUFFICES ASSUME SearchInv, [SearchNext]_searchVars, NEW q \in Runs, answer'[q] # answer[q],
                      Cardinality(Found(q)) <= job[q].top_k,
                      Cardinality(Embeddings) <= EfSearchFor(job[q].top_k)
               PROVE  {id \in Ids : Answered(q, id)'} = Found(q)
    OBVIOUS
  <2>1. Fine(q, answer'[q])
    BY NewAnswer
  <2>2. \A id : Answered(q, id)' <=> Listed(answer'[q].rows, id)
    BY DEF Answered, Listed
  <2>3. Found(q) \subseteq Ids
    BY DEF Found
  <2>4. \A id : Listed(answer'[q].rows, id) <=> id \in Found(q)
    BY <2>1 DEF Fine, ListsAll, Listed
  <2> QED
    BY <2>2, <2>3, <2>4
<1>2. A => [A]_searchVars
  OBVIOUS
<1>3. SearchInv /\ [SearchNext]_searchVars =>
        [\A q \in Runs : answer'[q] # answer[q] =>
           LET found == CASE job[q].mode = "bm25" -> {id \in Ids : InBm25(q, id)}
                          [] job[q].mode = "vector" -> {id \in Ids : InVec(q, id)}
                          [] OTHER -> {id \in Ids : InBm25(q, id) \/ InVec(q, id)}
           IN Cardinality(found) <= job[q].top_k /\ Cardinality(Embeddings) <= EfSearchFor(job[q].top_k)
              => {id \in Ids : Answered(q, id)'} = found]_searchVars
  BY <1>1 DEF Found
<1> QED
  BY <1>3, SearchInvariant, PTL DEF SearchSpec, AnswersComplete

\* DEFAULT_POLICY and the modes bm25 and hybrid: prose of a document without a
\* policy of its own is found by its words, whatever became of its embeddings.
THEOREM ProseCorrect == SearchSpec => ProseFound
<1>1. ASSUME SearchInv, [SearchNext]_searchVars, NEW q \in Runs, NEW r \in Runs, answer'[q] # answer[q],
             job[q].mode \in {"bm25", "hybrid"}, Cardinality(Ids) <= job[q].top_k,
             IsDocument(r), published[r] # None, Owns(q, <<r, 1>>), job[r].policy = None,
             NEW i \in DOMAIN job[r].chunks,
             job[r].chunks[i].kind = "text", job[r].chunks[i].text \in job[q].matching
      PROVE  Answered(q, <<r, i>>)'
  <2>1. Fine(q, answer'[q])
    BY <1>1, NewAnswer
  <2>2. <<r, i>> \in Ids
    BY <1>1, IdsFacts DEF SearchInv
  <2>3. Owns(q, <<r, i>>) /\ ChunkOf(<<r, i>>) = published[r].chunks[i]
    BY <1>1 DEF Owns, ChunkOf
  <2>4. /\ published[r].chunks[i].text = job[r].chunks[i].text
        /\ published[r].chunks[i].sinks = Routed(PolicyOf(r), job[r].chunks[i])
    BY <1>1 DEF SearchInv, PipelineInv, Shown
  <2>5. Routed(PolicyOf(r), job[r].chunks[i]) = Sinks
    BY <1>1, RoutedProse DEF PolicyOf
  <2>6. "relational" \in Sinks
    BY DEF Sinks
  <2>7. <<r, i>> \in Bm25All(q)
    BY <1>1, <2>2, <2>3, <2>4, <2>5, <2>6 DEF Bm25All, InBm25
  <2>8. Listed(answer'[q].rows, <<r, i>>)
    BY <1>1, <2>1, <2>7 DEF Fine, ListsAll
  <2> QED
    BY <2>8 DEF Answered, Listed
<1>2. SearchInv /\ [SearchNext]_searchVars =>
        [\A q, r \in Runs :
           /\ answer'[q] # answer[q] /\ job[q].mode \in {"bm25", "hybrid"}
           /\ Cardinality(Ids) <= job[q].top_k
           /\ IsDocument(r) /\ published[r] # None /\ Owns(q, <<r, 1>>) /\ job[r].policy = None
           => \A i \in DOMAIN job[r].chunks :
                job[r].chunks[i].kind = "text" /\ job[r].chunks[i].text \in job[q].matching
                => Answered(q, <<r, i>>)']_searchVars
  BY <1>1
<1> QED
  BY <1>2, SearchInvariant, PTL DEF SearchSpec, ProseFound
=============================================================================
