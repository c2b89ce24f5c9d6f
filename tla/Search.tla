------------------------------- MODULE Search -------------------------------
(***************************************************************************)
(* The search endpoint over the chunks that documents have published: the  *)
(* three modes, and the fusion of two rankings by reciprocal ranks.  What  *)
(* ts_rank and the distance of vectors order is any order; the index of    *)
(* the vectors yields its ef_search nearest before the filters apply.      *)
(***************************************************************************)
EXTENDS Pipeline

CONSTANTS
  RrfK,                  \* 60
  PreFactor, PreMax,     \* 4 and 200
  EfFactor, EfMin, EfMax \* 8, 40 and 1000

ASSUME SearchAssumption ==
  /\ {RrfK, PreFactor, PreMax, EfFactor, EfMin, EfMax} \subseteq Nat \ {0}
  /\ MaxTopK <= PreMax

VARIABLE answer      \* of each query: the rankings it fused and the rows it returned

searchVars == <<vars, answer>>

Least(a, b) == IF a <= b THEN a ELSE b
Most(a, b) == IF a <= b THEN b ELSE a

EfSearchFor(k) == Least(EfMax, Most(EfMin, k * EfFactor))
PreK(k) == Least(k * PreFactor, PreMax)

Ids == UNION {{r} \X DOMAIN published[r].chunks : r \in {d \in Runs : published[d] # None}}
ChunkOf(id) == published[id[1]].chunks[id[2]]
Owns(q, id) == job[id[1]].tenant = job[q].tenant

Cut(s, n) == SubSeq(s, 1, Least(n, Len(s)))

InBm25(q, id) ==
  Owns(q, id) /\ ChunkOf(id).text \in job[q].matching /\ "relational" \in ChunkOf(id).sinks

InVec(q, id) ==
  Owns(q, id) /\ ChunkOf(id).vector # None /\ "vector" \in ChunkOf(id).sinks

Embeddings == {id \in Ids : ChunkOf(id).vector # None}

\* The lists the two legs may yield, at most n long.
Bm25Lists(q, n) == {Cut(s, n) : s \in SetToSeqs({id \in Ids : InBm25(q, id)})}

\* What is left of the n nearest to some query, in the order of their distances.
Nearest(q, n) ==
  UNION {SetToSeqs({id \in near : InVec(q, id)}) :
           near \in kSubset(Least(n, Cardinality(Embeddings)), Embeddings)}

\* Mutant: the index is asked for no more than it yields by default.
VecListsDefault(q, n) == {Cut(s, n) : s \in Nearest(q, EfMin)}

VecLists(q, n) == {Cut(s, n) : s \in Nearest(q, EfSearchFor(n))}

Rank(s, id) == CHOOSE i \in DOMAIN s : s[i] = id
Listed(s, id) == \E i \in DOMAIN s : s[i] = id

\* Mutant: an absent rank counts as rank 0.
ScoreOfAbsent(b, v, id) ==
  LET x == RrfK + (IF Listed(b, id) THEN Rank(b, id) ELSE 0)
      y == RrfK + (IF Listed(v, id) THEN Rank(v, id) ELSE 0)
  IN [num |-> x + y, den |-> x * y]

\* 1 / (k + rank) of each list the chunk is in, as a fraction.
Score(b, v, id) ==
  LET x == RrfK + Rank(b, id)
      y == RrfK + Rank(v, id)
  IN CASE Listed(b, id) /\ Listed(v, id) -> [num |-> x + y, den |-> x * y]
       [] Listed(b, id) /\ ~Listed(v, id) -> [num |-> 1, den |-> x]
       [] ~Listed(b, id) -> [num |-> 1, den |-> y]

Higher(s, t) == s.num * t.den > t.num * s.den

\* Mutant: a chunk of both lists is returned twice.
FusedTwice(b, v) == {b \o v}

\* The rows by falling score; rows of one score are in the order of their ids.
Fused(b, v) ==
  {s \in SetToSeqs({b[i] : i \in DOMAIN b} \cup {v[i] : i \in DOMAIN v}) :
     \A i, j \in DOMAIN s : i < j => ~Higher(Score(b, v, s[j]), Score(b, v, s[i]))}

\* The statement of a mode, on what is committed then.
Answers(q) ==
  LET k == job[q].top_k IN
  CASE job[q].mode = "bm25" -> {[bm25 |-> b, vec |-> << >>, rows |-> b] : b \in Bm25Lists(q, k)}
    [] job[q].mode = "vector" -> {[bm25 |-> << >>, vec |-> v, rows |-> v] : v \in VecLists(q, k)}
    [] OTHER -> UNION {{[bm25 |-> p[1], vec |-> p[2], rows |-> Cut(s, k)] : s \in Fused(p[1], p[2])} :
                         p \in Bm25Lists(q, PreK(k)) \X VecLists(q, PreK(k))}

SearchTypeOK ==
  /\ TypeOK
  /\ \A q \in Runs : answer[q] # None =>
       /\ Len(answer[q].rows) <= job[q].top_k
       /\ \A i, j \in DOMAIN answer[q].rows : answer[q].rows[i] = answer[q].rows[j] => i = j

Ask(q) ==
  /\ pc[q] = "search"
  /\ \E a \in Answers(q) : answer' = [answer EXCEPT ![q] = a]
  /\ Goes(q, "done")
  /\ UNCHANGED <<routeVars, embedVars, cache, published>>

SearchInit == Init /\ answer = [r \in Runs |-> None]

Run(r) == Step(r) /\ UNCHANGED answer
Fault(r) == Die(r) /\ UNCHANGED answer
Evict(t) == Expire(t) /\ UNCHANGED answer

SearchNext ==
  \/ \E r \in Runs : Run(r) \/ Fault(r) \/ Ask(r)
  \/ \E t \in Texts : Evict(t)

SearchSpec == SearchInit /\ [][SearchNext]_searchVars

\* A worker or a handler that can go on does.
FairSearchSpec == SearchSpec /\ \A r \in Runs : WF_searchVars(Run(r)) /\ WF_searchVars(Ask(r))
-----------------------------------------------------------------------------
Answered(q, id) == \E i \in DOMAIN answer[q].rows : answer[q].rows[i] = id

\* Safety of the search: when top_k is enough for the chunks that match and the
\* index yields all vectors there are, a query is answered every matching chunk
\* published by then and no chunk of another tenant; in particular a chunk found
\* by one leg only is there, and a chunk that was routed nowhere is not.
AnswersComplete ==
  [][\A q \in Runs : answer'[q] # answer[q] =>
       LET found == CASE job[q].mode = "bm25" -> {id \in Ids : InBm25(q, id)}
                      [] job[q].mode = "vector" -> {id \in Ids : InVec(q, id)}
                      [] OTHER -> {id \in Ids : InBm25(q, id) \/ InVec(q, id)}
       IN Cardinality(found) <= job[q].top_k /\ Cardinality(Embeddings) <= EfSearchFor(job[q].top_k)
          => {id \in Ids : Answered(q, id)'} = found]_searchVars

\* What DEFAULT_POLICY is for: prose of a document without a policy of its own
\* is found by its words in the modes bm25 and hybrid, also when the embeddings
\* of the document failed.
ProseFound ==
  [][\A q, r \in Runs :
       /\ answer'[q] # answer[q] /\ job[q].mode \in {"bm25", "hybrid"}
       /\ Cardinality(Ids) <= job[q].top_k
       /\ IsDocument(r) /\ published[r] # None /\ Owns(q, <<r, 1>>) /\ job[r].policy = None
       => \A i \in DOMAIN job[r].chunks :
            job[r].chunks[i].kind = "text" /\ job[r].chunks[i].text \in job[q].matching
            => Answered(q, <<r, i>>)']_searchVars

NoWorse(s, x, y) == Listed(s, y) => Listed(s, x) /\ Rank(s, x) <= Rank(s, y)

\* Safety of the fusion: a row never comes before one that both legs rank at
\* least as high and one of them higher.
FusionMonotone ==
  \A q \in Runs : answer[q] # None =>
    LET rows == answer[q].rows  b == answer[q].bm25  v == answer[q].vec IN
    \A i, j \in DOMAIN rows : i < j =>
      ~(/\ NoWorse(b, rows[j], rows[i]) /\ NoWorse(v, rows[j], rows[i])
        /\ ~(NoWorse(b, rows[i], rows[j]) /\ NoWorse(v, rows[i], rows[j])))
=============================================================================
