--------------------------- MODULE ProviderErrors ---------------------------
(***************************************************************************)
(* What becomes of a call that a provider does not serve: each adapter     *)
(* translates what its client library reports into an exception of the     *)
(* gateway (providers/*_provider.py, providers/exceptions.py), which       *)
(* decides whether the call is tried again (reliability/errors.py) and     *)
(* which status the client gets.                                           *)
(***************************************************************************)
EXTENDS Integers

Adapter == {"openai", "groq", "gemini", "ollama"}

\* A provider answers with an HTTP status, or something else happens.
TimedOut == -1
Unreachable == -2
Malformed == -3         \* an answer that the adapter cannot read
Odd == -4               \* any other exception of the client library

Happening == {TimedOut, Unreachable, Malformed, Odd} \cup 400 .. 599

\* ProviderException's subclasses, and what is none of them, like ValueError.
Exception == {"InvalidProvider", "InvalidModel", "Timeout", "RateLimit",
              "Unavailable", "Auth", "Error", "Value"}

-----------------------------------------------------------------------------
(* The adapters.  The words of a message may decide: then there are two    *)
(* possible exceptions.                                                    *)

\* _raise_from_status, the same for OpenAI and Groq.
RaiseFromStatus(status) ==
    CASE status \in {401, 403} -> "Auth"
      [] status = 429 -> "RateLimit"
      [] status = 404 -> "InvalidModel"
      [] status >= 500 -> "Unavailable"
      [] OTHER -> "Error"

\* An answer may look well and still not be one when its parts are used,
\* outside the try.
OpenAIChat(what) ==
    CASE what = TimedOut -> {"Timeout"}
      [] what = Unreachable -> {"Unavailable"}
      [] what = Malformed -> {"Error", "Value"}
      [] what = Odd -> {"Error"}
      [] OTHER -> {RaiseFromStatus(what)}

GroqChat(what) == OpenAIChat(what)

\* The library reports named errors; any other is told by its message.
GeminiChat(what) ==
    CASE what \in {TimedOut, 504} -> {"Timeout"}
      [] what \in {401, 403} -> {"Auth"}
      [] what = 429 -> {"RateLimit"}
      [] what \in {Unreachable, 503} -> {"Unavailable"}
      [] what = Malformed -> {"Error"}
      [] OTHER -> {"InvalidModel", "Error"}

\* _handle_http_error
OllamaStatus(status) ==
    CASE status = 404 -> {"InvalidModel", "Unavailable"}
      [] status >= 500 -> {"Unavailable"}
      [] OTHER -> {"Error"}

\* The body of an answer is read outside the try.
OllamaChat(what) ==
    CASE what = TimedOut -> {"Timeout"}
      [] what = Unreachable -> {"Unavailable"}
      [] what = Malformed -> {"Value"}
      [] what = Odd -> {"Error"}
      [] OTHER -> OllamaStatus(what)

Raised(adapter, what) ==
    CASE adapter = "openai" -> OpenAIChat(what)
      [] adapter = "groq" -> GroqChat(what)
      [] adapter = "gemini" -> GeminiChat(what)
      [] adapter = "ollama" -> OllamaChat(what)

-----------------------------------------------------------------------------
(* Classification.                                                         *)

\* status_code; the last resort of exceptions.py for what is no
\* ProviderException.
StatusOf(e) ==
    CASE e = "InvalidProvider" -> 404
      [] e = "InvalidModel" -> 400
      [] e = "Timeout" -> 504
      [] e = "RateLimit" -> 429
      [] e = "Unavailable" -> 503
      [] e \in {"Auth", "Error"} -> 502
      [] e = "Value" -> 500

\* Mutant: by status alone.
IsTransientByStatus(e) == e # "Value" /\ StatusOf(e) \in {429, 500, 502, 503, 504}

\* is_transient_error: what is wrong for good is told by its class, before the
\* status is looked at.
IsTransientError(e) ==
    /\ e \notin {"InvalidModel", "InvalidProvider", "Auth", "Value"}
    /\ StatusOf(e) \in {429, 500, 502, 503, 504}
=============================================================================
