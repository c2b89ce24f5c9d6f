------------------------------ MODULE Pipeline ------------------------------
(***************************************************************************)
(* A document after its extraction (worker/tasks.py from line 244):        *)
(* routing of its chunks by the tenant's policy, entities, summary and     *)
(* embeddings, and the one commit that shows them; and the embeddings of   *)
(* search queries, which share the cache in Redis.  A run is one document  *)
(* in a worker or one query in the API.  A vector stands for the text it   *)
(* is computed of; a query is embedded with its prefix, one text of Texts. *)
(***************************************************************************)
EXTENDS Integers, FiniteSets, Sequences, SequencesExt, Llm

CONSTANTS
  Runs,
  Mixes,      \* what the runs process: the jobs of each behaviour
  Texts,      \* effective texts: what is embedded, and hashed to the key
  Names,      \* entities, as (label, normalized)
  Tenants,
  MaxTopK,    \* 200
  None

VARIABLES
  job,
  pc,
  sinks,      \* of each chunk of a document
  looked,     \* results of embed_texts, None where the cache had none
  missed,     \* and the places of these
  entities, summary,
  cache,      \* Redis: the vector under the key of a text
  published   \* what the commit of a document shows

routeVars == <<sinks, entities, summary>>
embedVars == <<looked, missed>>
vars == <<job, pc, routeVars, embedVars, cache, published>>

Sinks == {"relational", "vector"}

\* What a rule may list: sinks, an unknown one, something that is no text, and
\* something that is in no set.
Members == Sinks \cup {"other", "number", "list"}

Kinds == {"text", "table_row", "transcript"}
Chunks == [kind : Kinds, conf : Int \cup {None}, text : Texts, names : SUBSET Names]

\* A condition of a rule: its key and what is expected, a threshold that is no
\* number included.
Conditions == [key : {"kind"}, value : Kinds]
              \cup [key : {"confidence_lt", "confidence_gte"}, value : Int \cup {None}]
              \cup [key : {"mime"}, value : STRING]

\* A match without items(); validate_policy asks only that there is one.
NoObject == [key |-> "no object", value |-> None]

Rules == [match : Seq(Conditions) \cup {<<NoObject>>}, sinks : SUBSET Members]
Policies == [rules : Seq(Rules), default : SUBSET Sinks]

\* Mutant: prose goes to vector only, as it did once.
PolicyOfVectors ==
  [default |-> Sinks,
   rules |-> <<[match |-> <<[key |-> "kind", value |-> "table_row"]>>, sinks |-> {"relational"}],
               [match |-> <<[key |-> "kind", value |-> "text"]>>, sinks |-> {"vector"}]>>]

DEFAULT_POLICY ==
  [default |-> Sinks,
   rules |-> <<[match |-> <<[key |-> "kind", value |-> "table_row"]>>, sinks |-> {"relational"}],
               [match |-> <<[key |-> "kind", value |-> "text"]>>, sinks |-> Sinks],
               [match |-> <<[key |-> "kind", value |-> "transcript"]>>, sinks |-> Sinks]>>]

Documents == [kind : {"document"}, tenant : Tenants, chunks : Seq(Chunks),
              policy : Policies \cup {None}, llm : BOOLEAN]
Queries == [kind : {"query"}, tenant : Tenants, text : Texts, matching : SUBSET Texts,
            mode : {"bm25", "vector", "hybrid"}, top_k : 1 .. MaxTopK]

ASSUME PipelineAssumption ==
  /\ IsFiniteSet(Runs) /\ MaxTopK \in Nat
  /\ Mixes \subseteq [Runs -> Documents \cup Queries]
  /\ None \notin Texts
-----------------------------------------------------------------------------
(* Routing. *)

\* Whether a condition holds of a chunk.  The metadata of a document that is
\* being ingested has no mime_type yet.
Verdict(cond, chunk) ==
  LET truth(b) == IF b THEN "yes" ELSE "no" IN
  IF cond.key = "no object" THEN "raises"
  ELSE IF cond.key = "kind" THEN truth(chunk.kind = cond.value)
  ELSE IF cond.key = "mime" \/ chunk.conf = None THEN "no"
  ELSE IF cond.value = None THEN "raises"
  ELSE truth(IF cond.key = "confidence_lt" THEN chunk.conf < cond.value ELSE chunk.conf >= cond.value)

\* A rule decides by its first condition that does not hold.
Matches(rule, chunk) ==
  LET says(k) == Verdict(rule.match[k], chunk) IN
  CASE \A k \in DOMAIN rule.match : says(k) = "yes" -> "yes"
    [] \E k \in DOMAIN rule.match : says(k) = "raises" /\ \A j \in 1 .. k - 1 : says(j) = "yes" -> "raises"
    [] OTHER -> "no"

\* evaluate_policy: the sinks of the first rule that matches, None if the
\* evaluation raises.
Routed(policy, chunk) ==
  LET says(k) == Matches(policy.rules[k], chunk)
      first == CHOOSE k \in DOMAIN policy.rules : says(k) # "no" /\ \A j \in 1 .. k - 1 : says(j) = "no"
  IN IF \A k \in DOMAIN policy.rules : says(k) = "no" THEN policy.default
     ELSE IF says(first) = "raises" \/ "list" \in policy.rules[first].sinks THEN None
     ELSE policy.rules[first].sinks

PolicyOf(r) == IF job[r].policy = None THEN DEFAULT_POLICY ELSE job[r].policy
-----------------------------------------------------------------------------
IsDocument(r) == job[r].kind = "document"

Increasing(s) == \A i, j \in DOMAIN s : i < j => s[i] < s[j]

\* The places of the chunks that are to have a vector, in their order.
ToVector(r) == {i \in DOMAIN job[r].chunks : "vector" \in sinks[r][i]}
ToEmbed(r) == CHOOSE s \in SetToSeqs(ToVector(r)) : Increasing(s)

\* The texts embed_texts is given.
Wanted(r) ==
  IF IsDocument(r) THEN [k \in DOMAIN ToEmbed(r) |-> job[r].chunks[ToEmbed(r)[k]].text]
  ELSE <<job[r].text>>

\* The routing decision stored with the document.
SinkCounts(r) ==
  [s \in Members |-> Cardinality({i \in DOMAIN sinks[r] : s \in sinks[r][i]})]

\* What is stored of a document.
Row(r) ==
  [chunks |-> [i \in DOMAIN job[r].chunks |->
                 [text |-> job[r].chunks[i].text, sinks |-> sinks[r][i],
                  vector |-> IF \E k \in DOMAIN looked[r] : ToEmbed(r)[k] = i
                             THEN looked[r][CHOOSE k \in DOMAIN looked[r] : ToEmbed(r)[k] = i]
                             ELSE None]],
   entities |-> entities[r],
   summary |-> summary[r],
   sink_counts |-> SinkCounts(r)]

Active == {"start", "enrich", "look", "write", "commit"}

TypeOK ==
  /\ job \in Mixes
  /\ pc \in [Runs -> Active \cup {"search", "raised", "failed", "dead", "done"}]
  /\ \A r \in Runs : \A i \in DOMAIN sinks[r] : sinks[r][i] \subseteq Members
  /\ \A r \in Runs : missed[r] \subseteq DOMAIN looked[r]
  /\ \A r \in Runs : \A k \in DOMAIN looked[r] : looked[r][k] \in Texts \cup {None}
  /\ entities \in [Runs -> SUBSET Names] /\ summary \in [Runs -> BOOLEAN]
  /\ cache \in [Texts -> Texts \cup {None}]
  /\ DOMAIN published = Runs

Init ==
  /\ job \in Mixes
  /\ pc = [r \in Runs |-> IF IsDocument(r) THEN "start"
                          ELSE IF job[r].mode = "bm25" THEN "search" ELSE "look"]
  /\ sinks = [r \in Runs |-> << >>]
  /\ looked = [r \in Runs |-> << >>] /\ missed = [r \in Runs |-> {}]
  /\ entities = [r \in Runs |-> {}] /\ summary = [r \in Runs |-> FALSE]
  /\ cache = [t \in Texts |-> None]
  /\ published = [r \in Runs |-> None]

Goes(r, place) == pc' = [pc EXCEPT ![r] = place] /\ UNCHANGED job

\* Every chunk is routed; the tenant's policy may raise, outside of any handler
\* of errors: the document stays enriching.
Route(r) ==
  /\ pc[r] = "start"
  /\ LET routed == [i \in DOMAIN job[r].chunks |-> Routed(PolicyOf(r), job[r].chunks[i])] IN
     IF \E i \in DOMAIN routed : routed[i] = None
     THEN Goes(r, "raised") /\ UNCHANGED sinks
     ELSE Goes(r, "enrich") /\ sinks' = [sinks EXCEPT ![r] = routed]
  /\ UNCHANGED <<entities, summary, embedVars, cache, published>>

\* The entities of the chunks the recogniser did not fail on.
Recognised(r, failed) ==
  UNION {job[r].chunks[i].names : i \in DOMAIN job[r].chunks \ failed}

\* Whether an answer makes a summary; a text may not parse.
Summarised(answer) == IF answer = "text" THEN BOOLEAN ELSE {FALSE}

\* What the model answers about the content of a document; it is not asked about
\* none.
Asked(r) == IF job[r].llm /\ job[r].chunks # << >> THEN Completion ELSE {"none"}

\* Entities and summary.  Errors of the recogniser are caught here, those of the
\* language model are not.
Enrich(r) ==
  /\ pc[r] = "enrich"
  /\ \E failed \in SUBSET DOMAIN job[r].chunks :
       entities' = [entities EXCEPT ![r] = Recognised(r, failed)]
  /\ \E answer \in Asked(r) :
       /\ \E s \in Summarised(answer) : summary' = [summary EXCEPT ![r] = s]
       /\ Goes(r, IF answer = "raises" THEN "raised" ELSE "look")
  /\ UNCHANGED <<sinks, embedVars, cache, published>>
-----------------------------------------------------------------------------
(* Embeddings. *)

Embedded(r) == IF IsDocument(r) THEN "commit" ELSE "search"

\* GET of the next text's key.
Look(r) ==
  /\ pc[r] = "look" /\ Len(looked[r]) < Len(Wanted(r))
  /\ LET k == Len(looked[r]) + 1
         cached == cache[Wanted(r)[k]] IN
     /\ looked' = [looked EXCEPT ![r] = Append(@, cached)]
     /\ missed' = IF cached = None THEN [missed EXCEPT ![r] = @ \cup {k}] ELSE missed
  /\ Goes(r, "look")
  /\ UNCHANGED <<routeVars, cache, published>>

Hit(r) ==
  /\ pc[r] = "look" /\ Len(looked[r]) = Len(Wanted(r)) /\ missed[r] = {}
  /\ Goes(r, Embedded(r))
  /\ UNCHANGED <<routeVars, embedVars, cache, published>>

\* Mutant: the vectors of the misses are filled in from the start.
FilledFromStart(r) ==
  LET places == SetToSortSeq(missed[r], <) IN
  [k \in DOMAIN looked[r] |-> IF k <= Len(places) THEN Wanted(r)[places[k]] ELSE looked[r][k]]

\* The results with the vectors of the misses in their places.
Filled(r) ==
  [k \in DOMAIN looked[r] |-> IF k \in missed[r] THEN Wanted(r)[k] ELSE looked[r][k]]

\* All misses are encoded in one batch, in a thread.
Encode(r) ==
  /\ pc[r] = "look" /\ Len(looked[r]) = Len(Wanted(r)) /\ missed[r] # {}
  /\ looked' = [looked EXCEPT ![r] = Filled(r)]
  /\ Goes(r, "write")
  /\ UNCHANGED <<routeVars, missed, cache, published>>

Written(r, places) ==
  [t \in Texts |-> IF \E k \in places : Wanted(r)[k] = t
                   THEN looked[r][CHOOSE k \in places : Wanted(r)[k] = t] ELSE cache[t]]

\* The SETs of the misses, and the end of embed_texts.
Write(r) ==
  /\ pc[r] = "write"
  /\ cache' = Written(r, missed[r])
  /\ Goes(r, Embedded(r))
  /\ UNCHANGED <<routeVars, embedVars, published>>


\* Redis or the model fails; of a pipeline that is no transaction some SETs may
\* be done.  The document goes on without any vector, a query fails.
EmbedFails(r) ==
  /\ pc[r] \in {"look", "write"}
  /\ \E places \in SUBSET missed[r] :
       cache' = IF pc[r] = "write" THEN Written(r, places) ELSE cache
  /\ looked' = [looked EXCEPT ![r] = << >>] /\ missed' = [missed EXCEPT ![r] = {}]
  /\ Goes(r, IF IsDocument(r) THEN "commit" ELSE "failed")
  /\ UNCHANGED <<routeVars, published>>

\* Seven days are over, or Redis evicts.
Expire(t) ==
  /\ cache[t] # None
  /\ cache' = [cache EXCEPT ![t] = None]
  /\ UNCHANGED <<job, pc, routeVars, embedVars, published>>
-----------------------------------------------------------------------------
Refused(r) == \E i \in DOMAIN sinks[r] : "number" \in sinks[r][i]

\* Chunks, entities, vectors, metadata and status in one commit.
Commit(r) ==
  /\ pc[r] = "commit" /\ ~Refused(r)
  /\ published' = [published EXCEPT ![r] = Row(r)]
  /\ Goes(r, "done")
  /\ UNCHANGED <<routeVars, embedVars, cache>>

\* The database refuses sinks that are no text, here or where tables are flushed
\* before.
CommitRaises(r) ==
  /\ pc[r] = "commit" /\ Refused(r)
  /\ Goes(r, "raised")
  /\ UNCHANGED <<routeVars, embedVars, cache, published>>

\* The worker is killed, or the job times out.
Die(r) ==
  /\ IsDocument(r) /\ pc[r] \in Active
  /\ Goes(r, "dead")
  /\ UNCHANGED <<routeVars, embedVars, cache, published>>

Step(r) ==
  Route(r) \/ Enrich(r) \/ Look(r) \/ Hit(r) \/ Encode(r) \/ Write(r) \/ EmbedFails(r)
  \/ Commit(r) \/ CommitRaises(r)
-----------------------------------------------------------------------------
\* Safety of embed_texts and of what is done with its vectors: a vector of the
\* cache or of a published chunk is that of its own text, whatever mixture of
\* hits, misses and failed or expired entries it comes from; of a published
\* document all the chunks routed to vector have one or none has.
VectorsMatch ==
  /\ \A t \in Texts : cache[t] \in {t, None}
  /\ \A r \in Runs : published[r] # None =>
       LET rows == published[r].chunks
           routed == {i \in DOMAIN rows : "vector" \in rows[i].sinks} IN
       /\ \A i \in DOMAIN rows : rows[i].vector \in {rows[i].text, None}
       /\ \A i, j \in routed : rows[i].vector = None => rows[j].vector = None
       /\ \A i \in DOMAIN rows \ routed : rows[i].vector = None

\* A policy that validate_policy lets pass and evaluate_policy or the database
\* does not: a match that is no object, a threshold that is no number, a sink
\* that is no text.
Faulty(policy) ==
  \E i \in DOMAIN policy.rules :
    \/ policy.rules[i].sinks \cap {"number", "list"} # {}
    \/ \E k \in DOMAIN policy.rules[i].match :
         policy.rules[i].match[k].key # "kind" /\ policy.rules[i].match[k].value = None

=============================================================================
