-------------------------------- MODULE Llm --------------------------------
(***************************************************************************)
(* The client of language models (pipeline/enrichers/llm_client.py) as its *)
(* callers see it: what a request may come back with.  The caller of       *)
(* complete_text does not catch errors, so that it must not raise.         *)
(***************************************************************************)

CONSTANTS
  LLM_PROVIDER,
  Keyed         \* providers a key is set for

\* llm_configured: ollama needs no key.
Configured == LLM_PROVIDER \in (Keyed \cap {"anthropic", "openai", "google"}) \cup {"ollama"}

\* The client of the provider, made at the first request: there is none without a
\* key, or of a provider that is not known.
Client == IF Configured THEN "client" ELSE "raises"

\* One request for a text or a description: what the model says, which may be
\* empty, or an error.
Backend == IF Client = "client" THEN {"text", "empty", "raises"} ELSE {"raises"}

\* complete_text and complete_vision: an error is no answer.
Completion == {IF answer = "raises" THEN "none" ELSE answer : answer \in Backend}
=============================================================================
