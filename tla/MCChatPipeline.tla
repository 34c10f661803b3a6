--------------------------- MODULE MCChatPipeline ---------------------------
(* Providers, questions and policies for the runs of ChatPipeline.         *)
EXTENDS ChatPipeline, TLC

CONSTANT r1

\* Ollama has "small" installed under a tag; Groq lists a model that the
\* catalog does not know, beside one that it does.
MCModel == {"small", "small:q4", "big", "new"}
MCBare == [m \in MCModel |-> IF m = "small:q4" THEN "small" ELSE m]
MCServes == [ollama |-> {"small:q4"}, groq |-> {"big", "new"},
             gemini |-> {"new"}, openai |-> {}]
MCMeta ==
    <<"ollama", "small">> :> [caps |-> {"text"}, cost |-> 0, latency |-> 400]
      @@ <<"groq", "big">> :> [caps |-> {"text", "json"}, cost |-> 4, latency |-> 200]
MCDefaultMeta ==
    [ollama |-> [caps |-> {"text", "json"}, cost |-> 0, latency |-> 300],
     groq |-> [caps |-> {"text", "json"}, cost |-> 1, latency |-> 500],
     gemini |-> [caps |-> {"text", "json"}, cost |-> 1, latency |-> 500],
     openai |-> [caps |-> {"text", "json"}, cost |-> 1, latency |-> 500]]
MCBefore ==
    LET byName == <<"big", "new", "small", "small:q4">>
        place(m) == CHOOSE n \in 1 .. 4 : byName[n] = m
        at == [gemini |-> 0, groq |-> 4, ollama |-> 8, openai |-> 12]
    IN  [t \in (DOMAIN at) \X MCModel |-> at[t[1]] + place(t[2])]

\* OpenAI has no key configured, so it is not registered.
MCFailing == {TimedOut, Malformed, 401, 404, 429}

MCCached == {<<"ollama", "small">>}

Plain == [text |-> "hello", size |-> 1, finds |-> {}, mode |-> "none",
          provider |-> "none", model |-> "auto", caps |-> {}, failover |-> TRUE]

MCQuestion ==
    {Plain,
     [Plain EXCEPT !.mode = "lowest_cost", !.finds = {"pii", "injection"},
                   !.failover = FALSE],
     [Plain EXCEPT !.provider = "groq", !.model = "big", !.size = 9],
     [Plain EXCEPT !.provider = "openai", !.model = "big"],
     [Plain EXCEPT !.caps = {"json"}],
     [Plain EXCEPT !.mode = "manual"]}

Arms(w1, w2) ==
    << [name |-> "a", target |-> <<"ollama", "small">>, weight |-> w1],
       [name |-> "b", target |-> <<"groq", "big">>, weight |-> w2] >>

MCPolicies ==
    {"cache" :> TRUE @@ "budget" :> "DOWNGRADE"
       @@ "guardrails" :> [max |-> 5, pii |-> "block", injection |-> "warn"],
     "fallback" :> FALSE @@ "budget" :> "DOWNGRADE"
       @@ "experiment" :> [on |-> TRUE, arms |-> Arms(70, 30)],
     "experiment" :> [on |-> TRUE, arms |-> Arms(70, 70)]}

=============================================================================
