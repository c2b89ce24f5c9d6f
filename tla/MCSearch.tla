------------------------------ MODULE MCSearch ------------------------------
(***************************************************************************)
(* Instances of Search for TLC: documents, policies and queries.           *)
(***************************************************************************)
EXTENDS Search

CONSTANTS r1, r2, r3, t1, t2, ada, hello, world, asked

Chunk(kind, conf, text, names) == [kind |-> kind, conf |-> conf, text |-> text, names |-> names]
Document(tenant, chunks, policy, llm) ==
  [kind |-> "document", tenant |-> tenant, chunks |-> chunks, policy |-> policy, llm |-> llm]
Query(tenant, mode, top_k) ==
  [kind |-> "query", tenant |-> tenant, text |-> asked, matching |-> {hello, world}, mode |-> mode, top_k |-> top_k]

Cond(key, value) == [key |-> key, value |-> value]
Drop(threshold) ==
  [default |-> Sinks,
   rules |-> <<[match |-> <<Cond("kind", "transcript"), Cond("confidence_lt", threshold)>>, sinks |-> {}],
               [match |-> <<Cond("confidence_gte", 9)>>, sinks |-> {"vector"}],
               [match |-> <<Cond("mime", "text/plain")>>, sinks |-> {}]>>]

\* Rules that are not reached by prose, and then by a table.
Tables(match, members) ==
  [default |-> Sinks,
   rules |-> <<[match |-> <<Cond("kind", "text")>>, sinks |-> Sinks \cup {"other"}],
               [match |-> match, sinks |-> members]>>]

Prose == <<Chunk("text", None, hello, {ada}), Chunk("table_row", None, world, {ada}), Chunk("text", None, world, {})>>
Short == <<Chunk("text", None, hello, {ada})>>
Talk == <<Chunk("transcript", 5, hello, {}), Chunk("transcript", 9, hello, {ada}), Chunk("transcript", 7, world, {})>>

Mix(a, b, c) == (r1 :> a) @@ (r2 :> b) @@ (r3 :> c)
Modes == {"bm25", "vector", "hybrid"}

Faults == {Tables(<<NoObject>>, {"vector"}), Tables(<< >>, {"vector", "list"}), Tables(<< >>, {"number"})}

\* A document of three chunks, under the default policy or one that drops, queried
\* in each mode; beside a document of the same words, of another tenant or under a
\* faulty policy, whose fault is reached by one of the two.
MCMixes ==
  {Mix(Document(t1, Prose, None, FALSE), Query(t1, m, 3), Query(t2, "bm25", 3)) : m \in Modes}
  \cup {Mix(Document(t1, Talk, Drop(6), FALSE), Query(t1, m, 3), Query(t2, "bm25", 3)) : m \in Modes}
  \cup {Mix(Document(t1, Prose, None, FALSE), Document(t2, Short, None, TRUE), Query(t1, "bm25", 3)),
        Mix(Document(t1, Short, None, FALSE), Document(t2, Short, None, FALSE), Query(t1, "hybrid", 3)),
        Mix(Document(t1, Short, None, TRUE), Document(t1, Talk, Drop(None), FALSE), Query(t1, "hybrid", 1))}
  \cup {Mix(Document(t1, Short, f, FALSE), Document(t2, Prose, f, FALSE), Query(t1, "bm25", 3)) : f \in Faults}
=============================================================================
