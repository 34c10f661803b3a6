-------------------------- MODULE ChatPipelineProofs --------------------------
(***************************************************************************)
(* Theorems about ChatPipeline for any number of requests, any questions,  *)
(* policies, providers and catalog, and any interleaving with the other    *)
(* requests, the administrator and restarts.                               *)
(*                                                                         *)
(* What a request knows is in its record, so that one predicate on records *)
(* (Sound) is the inductive invariant: it says what a record at each point *)
(* of the pipeline may look like, and each step is a lemma from a sound    *)
(* record to a sound one.                                                  *)
(*                                                                         *)
(* What the routing engine and the experiments choose is a second          *)
(* invariant, TypeInv, with its own predicate on records (Proper).  It     *)
(* gives the types, and with the lemmas on catalog entries, scores and     *)
(* weights the theorems on capabilities, routes and arms.                  *)
(***************************************************************************)
EXTENDS ChatPipeline, FiniteSums, FiniteSetTheorems, TLAPS

-----------------------------------------------------------------------------
(* The record of a request.  Only its fields are fixed here, not the types *)
(* of their values: Sound and its theorems rest on nothing that the        *)
(* routing engine and the experiments choose.                              *)

Fields == {"pc", "q", "policy", "read", "stored", "target", "tried", "last", "arm",
           "counted", "called", "held", "hit", "status"}

Shaped(x) == x = [f \in Fields |-> x[f]]

\* y is x but for some fields.
Same(y, x, changed) == Shaped(y) /\ \A f \in Fields \ changed : y[f] = x[f]

\* The changes that the actions make to a record.
Counted(x) == [x EXCEPT !.counted = TRUE]
At(x, pc) == [x EXCEPT !.pc = pc]
Routed(x, t) == [x EXCEPT !.pc = "lookup", !.target = t]
Hit(x) == [x EXCEPT !.hit = TRUE]
Answered(x, served) == [x EXCEPT !.pc = "answered", !.status = 200, !.target = served]
InArm(x, n, t) == [x EXCEPT !.pc = "price", !.arm = n, !.target = t]
Downgraded(x, t) == [x EXCEPT !.pc = "reserve", !.target = t]
Reserved(x, h) == [x EXCEPT !.pc = "call", !.held = h]
Moved(x, t) == [x EXCEPT !.target = t]
Keeping(x, h) == [x EXCEPT !.held = h]
Served(x) == [x EXCEPT !.pc = "settle", !.called = TRUE, !.last = NoAnswer]
Missed(x, p, l) == [x EXCEPT !.called = TRUE, !.tried = @ \cup {p}, !.last = l]
Tried(x, p) == [x EXCEPT !.tried = @ \cup {p}]

LEMMA RefusalIs ==
  ASSUME NEW x, Shaped(x), NEW s
  PROVE  /\ Same(Refusal(x, s), x, {"pc", "status"})
         /\ Refusal(x, s).pc = "failed" /\ Refusal(x, s).status = s
<1>1. Shaped(Refusal(x, s))
  BY DEF Refusal, Shaped, Fields
<1>2. \A f \in Fields \ {"pc", "status"} : Refusal(x, s)[f] = x[f]
  BY DEF Refusal, Shaped, Fields
<1>3. Refusal(x, s).pc = "failed" /\ Refusal(x, s).status = s
  BY DEF Refusal, Shaped, Fields
<1>4. QED
  BY <1>1, <1>2, <1>3 DEF Same

LEMMA CountedIs ==
  ASSUME NEW x, Shaped(x)
  PROVE  /\ Same(Counted(x), x, {"counted"})
         /\ Counted(x).counted = TRUE
<1>1. Shaped(Counted(x))
  BY DEF Counted, Shaped, Fields
<1>2. \A f \in Fields \ {"counted"} : Counted(x)[f] = x[f]
  BY DEF Counted, Shaped, Fields
<1>3. Counted(x).counted = TRUE
  BY DEF Counted, Shaped, Fields
<1>4. QED
  BY <1>1, <1>2, <1>3 DEF Same

LEMMA AtIs ==
  ASSUME NEW x, Shaped(x), NEW n
  PROVE  /\ Same(At(x, n), x, {"pc"})
         /\ At(x, n).pc = n
<1>1. Shaped(At(x, n))
  BY DEF At, Shaped, Fields
<1>2. \A f \in Fields \ {"pc"} : At(x, n)[f] = x[f]
  BY DEF At, Shaped, Fields
<1>3. At(x, n).pc = n
  BY DEF At, Shaped, Fields
<1>4. QED
  BY <1>1, <1>2, <1>3 DEF Same

LEMMA RoutedIs ==
  ASSUME NEW x, Shaped(x), NEW t
  PROVE  /\ Same(Routed(x, t), x, {"pc", "target"})
         /\ Routed(x, t).pc = "lookup" /\ Routed(x, t).target = t
<1>1. Shaped(Routed(x, t))
  BY DEF Routed, Shaped, Fields
<1>2. \A f \in Fields \ {"pc", "target"} : Routed(x, t)[f] = x[f]
  BY DEF Routed, Shaped, Fields
<1>3. Routed(x, t).pc = "lookup" /\ Routed(x, t).target = t
  BY DEF Routed, Shaped, Fields
<1>4. QED
  BY <1>1, <1>2, <1>3 DEF Same

LEMMA HitIs ==
  ASSUME NEW x, Shaped(x)
  PROVE  /\ Same(Hit(x), x, {"hit"})
         /\ Hit(x).hit = TRUE
<1>1. Shaped(Hit(x))
  BY DEF Hit, Shaped, Fields
<1>2. \A f \in Fields \ {"hit"} : Hit(x)[f] = x[f]
  BY DEF Hit, Shaped, Fields
<1>3. Hit(x).hit = TRUE
  BY DEF Hit, Shaped, Fields
<1>4. QED
  BY <1>1, <1>2, <1>3 DEF Same

LEMMA AnsweredIs ==
  ASSUME NEW x, Shaped(x), NEW t
  PROVE  /\ Same(Answered(x, t), x, {"pc", "status", "target"})
         /\ Answered(x, t).pc = "answered" /\ Answered(x, t).status = 200
         /\ Answered(x, t).target = t
<1>1. Shaped(Answered(x, t))
  BY DEF Answered, Shaped, Fields
<1>2. \A f \in Fields \ {"pc", "status", "target"} : Answered(x, t)[f] = x[f]
  BY DEF Answered, Shaped, Fields
<1>3. /\ Answered(x, t).pc = "answered" /\ Answered(x, t).status = 200
      /\ Answered(x, t).target = t
  BY DEF Answered, Shaped, Fields
<1>4. QED
  BY <1>1, <1>2, <1>3 DEF Same

LEMMA InArmIs ==
  ASSUME NEW x, Shaped(x), NEW n, NEW t
  PROVE  /\ Same(InArm(x, n, t), x, {"pc", "arm", "target"})
         /\ InArm(x, n, t).pc = "price" /\ InArm(x, n, t).arm = n
         /\ InArm(x, n, t).target = t
<1>1. Shaped(InArm(x, n, t))
  BY DEF InArm, Shaped, Fields
<1>2. \A f \in Fields \ {"pc", "arm", "target"} : InArm(x, n, t)[f] = x[f]
  BY DEF InArm, Shaped, Fields
<1>3. /\ InArm(x, n, t).pc = "price" /\ InArm(x, n, t).arm = n
      /\ InArm(x, n, t).target = t
  BY DEF InArm, Shaped, Fields
<1>4. QED
  BY <1>1, <1>2, <1>3 DEF Same

LEMMA DowngradedIs ==
  ASSUME NEW x, Shaped(x), NEW t
  PROVE  /\ Same(Downgraded(x, t), x, {"pc", "target"})
         /\ Downgraded(x, t).pc = "reserve" /\ Downgraded(x, t).target = t
<1>1. Shaped(Downgraded(x, t))
  BY DEF Downgraded, Shaped, Fields
<1>2. \A f \in Fields \ {"pc", "target"} : Downgraded(x, t)[f] = x[f]
  BY DEF Downgraded, Shaped, Fields
<1>3. Downgraded(x, t).pc = "reserve" /\ Downgraded(x, t).target = t
  BY DEF Downgraded, Shaped, Fields
<1>4. QED
  BY <1>1, <1>2, <1>3 DEF Same

LEMMA ReservedIs ==
  ASSUME NEW x, Shaped(x), NEW h
  PROVE  /\ Same(Reserved(x, h), x, {"pc", "held"})
         /\ Reserved(x, h).pc = "call" /\ Reserved(x, h).held = h
<1>1. Shaped(Reserved(x, h))
  BY DEF Reserved, Shaped, Fields
<1>2. \A f \in Fields \ {"pc", "held"} : Reserved(x, h)[f] = x[f]
  BY DEF Reserved, Shaped, Fields
<1>3. Reserved(x, h).pc = "call" /\ Reserved(x, h).held = h
  BY DEF Reserved, Shaped, Fields
<1>4. QED
  BY <1>1, <1>2, <1>3 DEF Same

LEMMA MovedIs ==
  ASSUME NEW x, Shaped(x), NEW t
  PROVE  /\ Same(Moved(x, t), x, {"target"})
         /\ Moved(x, t).target = t
<1>1. Shaped(Moved(x, t))
  BY DEF Moved, Shaped, Fields
<1>2. \A f \in Fields \ {"target"} : Moved(x, t)[f] = x[f]
  BY DEF Moved, Shaped, Fields
<1>3. Moved(x, t).target = t
  BY DEF Moved, Shaped, Fields
<1>4. QED
  BY <1>1, <1>2, <1>3 DEF Same

LEMMA KeepingIs ==
  ASSUME NEW x, Shaped(x), NEW h
  PROVE  /\ Same(Keeping(x, h), x, {"held"})
         /\ Keeping(x, h).held = h
<1>1. Shaped(Keeping(x, h))
  BY DEF Keeping, Shaped, Fields
<1>2. \A f \in Fields \ {"held"} : Keeping(x, h)[f] = x[f]
  BY DEF Keeping, Shaped, Fields
<1>3. Keeping(x, h).held = h
  BY DEF Keeping, Shaped, Fields
<1>4. QED
  BY <1>1, <1>2, <1>3 DEF Same

LEMMA ServedIs ==
  ASSUME NEW x, Shaped(x)
  PROVE  /\ Same(Served(x), x, {"pc", "called", "last"})
         /\ Served(x).pc = "settle" /\ Served(x).called = TRUE
         /\ Served(x).last = NoAnswer
<1>1. Shaped(Served(x))
  BY DEF Served, Shaped, Fields
<1>2. \A f \in Fields \ {"pc", "called", "last"} : Served(x)[f] = x[f]
  BY DEF Served, Shaped, Fields
<1>3. /\ Served(x).pc = "settle" /\ Served(x).called = TRUE
      /\ Served(x).last = NoAnswer
  BY DEF Served, Shaped, Fields
<1>4. QED
  BY <1>1, <1>2, <1>3 DEF Same

LEMMA MissedIs ==
  ASSUME NEW x, Shaped(x), NEW p, NEW l
  PROVE  /\ Same(Missed(x, p, l), x, {"called", "tried", "last"})
         /\ Missed(x, p, l).called = TRUE
         /\ Missed(x, p, l).tried = x.tried \cup {p}
         /\ Missed(x, p, l).last = l
<1>1. Shaped(Missed(x, p, l))
  BY DEF Missed, Shaped, Fields
<1>2. \A f \in Fields \ {"called", "tried", "last"} : Missed(x, p, l)[f] = x[f]
  BY DEF Missed, Shaped, Fields
<1>3. /\ Missed(x, p, l).called = TRUE
      /\ Missed(x, p, l).tried = x.tried \cup {p}
      /\ Missed(x, p, l).last = l
  BY DEF Missed, Shaped, Fields
<1>4. QED
  BY <1>1, <1>2, <1>3 DEF Same

LEMMA TriedIs ==
  ASSUME NEW x, Shaped(x), NEW p
  PROVE  /\ Same(Tried(x, p), x, {"tried"})
         /\ Tried(x, p).tried = x.tried \cup {p}
<1>1. Shaped(Tried(x, p))
  BY DEF Tried, Shaped, Fields
<1>2. \A f \in Fields \ {"tried"} : Tried(x, p)[f] = x[f]
  BY DEF Tried, Shaped, Fields
<1>3. Tried(x, p).tried = x.tried \cup {p}
  BY DEF Tried, Shaped, Fields
<1>4. QED
  BY <1>1, <1>2, <1>3 DEF Same

-----------------------------------------------------------------------------
(* The inductive invariant.                                                *)

Early == {"limit", "route", "lookup", "price", "reserve"}

\* How far a request has come, and what it has used by then.
Staged(x) ==
    /\ Shaped(x) /\ x.pc \in Early \cup {"call", "settle"} \cup Over
    /\ x.pc \in {"limit", "route"} => x.target = NoTarget
    /\ x.pc \in {"limit", "route", "lookup"} => x.arm = 0
    /\ x.pc \in Early => x.tried = {} /\ x.last = NoAnswer /\ ~x.called /\ x.held = 0
    /\ x.pc \notin Over => ~x.hit /\ x.status = 0
    /\ x.pc \notin {"limit", "failed"} => x.counted
    /\ x.pc = "settle" => x.called /\ x.last = NoAnswer
    /\ x.pc = "answered" => x.status = 200 /\ (x.hit \/ x.called)

Blocked(x) == GuardrailAction(x.policy["guardrails"], x.q.size, x.q.finds) = "block"

\* What RefusedIsFree says of a request, and that one without a target has
\* used nothing of a provider or the budget.
Free(x) ==
    /\ Blocked(x) => /\ x.pc = "failed" /\ x.target = NoTarget
                     /\ ~x.counted /\ ~x.called /\ x.held = 0
    /\ x.target = NoTarget => ~x.called /\ x.held = 0
    /\ x.hit => x.counted /\ ~x.called /\ x.held = 0 /\ x.arm = 0
    /\ x.called => x.counted
    /\ x.pc = "failed" /\ x.tried = {} /\ ~x.called => x.held = 0

\* What PolicyPinned says, of the policy the request carries, which is the
\* one that was stored.
Pinned(x) ==
    /\ x.policy = IF x.read /\ x.stored # {} THEN Merge(CHOOSE raw \in x.stored : TRUE)
                                             ELSE GlobalDefault
    /\ x.hit => x.policy["cache"]
    /\ x.arm # 0 => x.policy["experiment"].on
    /\ x.tried \subseteq {x.target[1]} \/ (x.policy["fallback"] /\ x.q.failover)

\* What FailureExplained says.
Explained(x) ==
    /\ x.last[2] \in {401, 403} /\ x.last[1] # Local => x.pc = "failed" /\ x.status = 502
    /\ x.last[2] = 404 /\ x.last[1] \in {"openai", "groq"} =>
         x.pc = "failed" /\ x.status = 400
    /\ x.status = 429 => x.target = NoTarget \/ x.last = <<x.target[1], 429>>
    /\ x.status = 402 => ~x.called
    /\ x.status = 404 => x.target[1] \notin Registered

Sound(x) == Staged(x) /\ Free(x) /\ Pinned(x) /\ Explained(x)

PipelineInv ==
    /\ policy = {} \/ \E raw : policy = {raw}
    /\ req = [r \in Request |-> req[r]]
    /\ \A r \in Request : req[r] \in {New, Lost} \/ Sound(req[r])

-----------------------------------------------------------------------------
(* What providers raise.                                                   *)

LEMMA Providers ==
  /\ Registered \subseteq Provider /\ Provider \subseteq Adapter /\ Local = "ollama"
  /\ "none" \notin Registered /\ "none" \notin Provider
  BY PipelineAssumption DEF PipelineAssumption, Adapter

LEMMA StatusIs ==
  ASSUME NEW e \in Exception
  PROVE  /\ StatusOf(e) = 429 => e = "RateLimit"
         /\ StatusOf(e) # 402
         /\ StatusOf(e) = 404 => e = "InvalidProvider"
  BY DEF StatusOf, Exception

\* A wrong key or model is for good, and the status says so; RateLimit means
\* that the provider said 429.
LEMMA RaisedIs ==
  ASSUME NEW p \in Adapter, NEW what \in Happening, NEW e \in Raised(p, what)
  PROVE  /\ e \in Exception /\ e # "InvalidProvider"
         /\ what \in {401, 403} /\ p # "ollama" => e = "Auth"
         /\ what = 404 /\ p \in {"openai", "groq"} => e = "InvalidModel"
         /\ e = "RateLimit" => what = 429
<1>0. /\ what \in Int
      /\ TimedOut = -1 /\ Unreachable = -2 /\ Malformed = -3 /\ Odd = -4
  BY DEF Happening, TimedOut, Unreachable, Malformed, Odd
<1>1. CASE p \in {"openai", "groq"}
  <2>1. e \in OpenAIChat(what)
    BY <1>1 DEF Raised, GroqChat
  <2>2. CASE what \in {TimedOut, Unreachable, Malformed, Odd}
    BY <1>0, <1>1, <2>1, <2>2 DEF OpenAIChat, Exception
  <2>3. CASE what \notin {TimedOut, Unreachable, Malformed, Odd}
    <3>1. e = RaiseFromStatus(what)
      BY <1>0, <2>1, <2>3 DEF OpenAIChat
    <3>2. QED
      BY <1>0, <1>1, <3>1 DEF RaiseFromStatus, Exception
  <2>4. QED
    BY <2>2, <2>3
<1>2. CASE p = "gemini"
  <2>1. e \in GeminiChat(what)
    BY <1>2 DEF Raised
  <2>2. QED
    BY <1>0, <1>2, <2>1 DEF GeminiChat, Exception
<1>3. CASE p = "ollama"
  <2>1. e \in OllamaChat(what)
    BY <1>3 DEF Raised
  <2>2. QED
    BY <1>0, <1>3, <2>1 DEF OllamaChat, OllamaStatus, Exception
<1>4. QED
  BY <1>1, <1>2, <1>3 DEF Adapter

-----------------------------------------------------------------------------
(* Steps from sound records to sound records.                              *)

\* A request that neither the guardrails nor anything after them has stopped.
LEMMA Unblocked ==
  ASSUME NEW x, Sound(x), x.pc # "failed" PROVE ~Blocked(x)
  BY DEF Sound, Free

\* What a change that leaves the question and the policy alone keeps.
Carries(y, x) ==
    y.q = x.q /\ y.policy = x.policy /\ y.read = x.read /\ y.stored = x.stored

LEMMA SamePolicy ==
  ASSUME NEW x, NEW y, Pinned(x), Carries(y, x)
  PROVE  /\ Blocked(y) <=> Blocked(x)
         /\ y.policy = IF y.read /\ y.stored # {} THEN Merge(CHOOSE raw \in y.stored : TRUE)
                                                  ELSE GlobalDefault
  BY DEF Blocked, Pinned, Carries

\* An exception, with a status that explains it.
LEMMA RefusedSound ==
  ASSUME NEW x, Sound(x), x.pc \notin Over, NEW s,
         x.pc \in Early \cup {"settle"} \/ x.tried # {},
         s = 429 => x.target = NoTarget, s = 402 => ~x.called,
         s = 404 => x.target[1] \notin Registered
  PROVE  Sound(Refusal(x, s))
<1> DEFINE y == Refusal(x, s)
<1>1. Shaped(x) /\ Staged(x) /\ Free(x) /\ Pinned(x) /\ Explained(x)
  BY DEF Sound, Staged
<1>2. Same(y, x, {"pc", "status"}) /\ y.pc = "failed" /\ y.status = s
  BY <1>1, RefusalIs
<1> HIDE DEF y
<1>3. Shaped(y) /\ Carries(y, x)
  BY <1>2 DEF Same, Fields, Carries
<1>4. Staged(y)
  BY <1>1, <1>2 DEF Same, Fields, Staged, Early, Over
<1>5. Free(y)
  BY <1>1, <1>2, <1>3, SamePolicy DEF Same, Fields, Staged, Early, Over, Free
<1>6. Pinned(y)
  <2>1. /\ y.hit = x.hit /\ y.arm = x.arm /\ y.target = x.target
        /\ y.q = x.q /\ y.policy = x.policy /\ y.tried = x.tried
    BY <1>2 DEF Same, Fields
  <2>2. QED
    BY <1>1, <1>3, <2>1, SamePolicy DEF Pinned
<1>7. Explained(y)
  BY <1>1, <1>2 DEF Same, Fields, Staged, Early, Over, Explained, NoAnswer
<1>8. QED
  BY <1>4, <1>5, <1>6, <1>7 DEF Sound, y

LEMMA CountedSound ==
  ASSUME NEW x, Sound(x), x.pc = "limit"
  PROVE  Sound(Counted(x))
<1> DEFINE y == Counted(x)
<1>1. Shaped(x) /\ Staged(x) /\ Free(x) /\ Pinned(x) /\ Explained(x)
  BY DEF Sound, Staged
<1>2. Same(y, x, {"counted"}) /\ y.counted = TRUE
  BY <1>1, CountedIs
<1> HIDE DEF y
<1>3. Shaped(y) /\ Carries(y, x)
  BY <1>2 DEF Same, Fields, Carries
<1>4. Staged(y)
  BY <1>1, <1>2 DEF Same, Fields, Staged, Early, Over
<1>5. Free(y)
  BY <1>1, <1>2, <1>3, SamePolicy DEF Same, Fields, Staged, Early, Over, Free
<1>6. Pinned(y)
  BY <1>1, <1>2, <1>3, SamePolicy DEF Same, Fields, Staged, Early, Pinned
<1>7. Explained(y)
  BY <1>1, <1>2 DEF Same, Fields, Staged, Early, Over, Explained, NoAnswer
<1>8. QED
  BY <1>4, <1>5, <1>6, <1>7 DEF Sound, y

LEMMA LimitedSound ==
  ASSUME NEW x, Sound(x), x.pc = "limit", x.counted
  PROVE  Sound(At(x, "route"))
<1> DEFINE y == At(x, "route")
<1>1. Shaped(x) /\ Staged(x) /\ Free(x) /\ Pinned(x) /\ Explained(x)
  BY DEF Sound, Staged
<1>2. Same(y, x, {"pc"}) /\ y.pc = "route"
  BY <1>1, AtIs
<1> HIDE DEF y
<1>3. Shaped(y) /\ Carries(y, x)
  BY <1>2 DEF Same, Fields, Carries
<1>4. Staged(y)
  BY <1>1, <1>2 DEF Same, Fields, Staged, Early, Over
<1>5. Free(y)
  BY <1>1, <1>2, <1>3, SamePolicy DEF Same, Fields, Staged, Early, Over, Free
<1>6. Pinned(y)
  BY <1>1, <1>2, <1>3, SamePolicy DEF Same, Fields, Staged, Early, Pinned
<1>7. Explained(y)
  BY <1>1, <1>2 DEF Same, Fields, Staged, Early, Over, Explained, NoAnswer
<1>8. QED
  BY <1>4, <1>5, <1>6, <1>7 DEF Sound, y

LEMMA RoutedSound ==
  ASSUME NEW x, Sound(x), x.pc = "route", NEW t
  PROVE  Sound(Routed(x, t))
<1> DEFINE y == Routed(x, t)
<1>1. Shaped(x) /\ Staged(x) /\ Free(x) /\ Pinned(x) /\ Explained(x)
  BY DEF Sound, Staged
<1>2. Same(y, x, {"pc", "target"}) /\ y.pc = "lookup" /\ y.target = t
  BY <1>1, RoutedIs
<1> HIDE DEF y
<1>3. Shaped(y) /\ Carries(y, x)
  BY <1>2 DEF Same, Fields, Carries
<1>4. Staged(y)
  BY <1>1, <1>2 DEF Same, Fields, Staged, Early, Over
<1>5. Free(y)
  BY <1>1, <1>2, <1>3, SamePolicy DEF Same, Fields, Staged, Early, Over, Free
<1>6. Pinned(y)
  BY <1>1, <1>2, <1>3, SamePolicy DEF Same, Fields, Staged, Early, Pinned
<1>7. Explained(y)
  BY <1>1, <1>2 DEF Same, Fields, Staged, Early, Over, Explained, NoAnswer
<1>8. QED
  BY <1>4, <1>5, <1>6, <1>7 DEF Sound, y

LEMMA InArmSound ==
  ASSUME NEW x, Sound(x), x.pc = "lookup", NEW n, NEW t,
         n # 0 => x.policy["experiment"].on
  PROVE  Sound(InArm(x, n, t))
<1> DEFINE y == InArm(x, n, t)
<1>1. Shaped(x) /\ Staged(x) /\ Free(x) /\ Pinned(x) /\ Explained(x)
  BY DEF Sound, Staged
<1>2. Same(y, x, {"pc", "arm", "target"}) /\ y.pc = "price" /\ y.arm = n /\ y.target = t
  BY <1>1, InArmIs
<1> HIDE DEF y
<1>3. Shaped(y) /\ Carries(y, x)
  BY <1>2 DEF Same, Fields, Carries
<1>4. Staged(y)
  BY <1>1, <1>2 DEF Same, Fields, Staged, Early, Over
<1>5. Free(y)
  BY <1>1, <1>2, <1>3, SamePolicy DEF Same, Fields, Staged, Early, Over, Free
<1>6. Pinned(y)
  BY <1>1, <1>2, <1>3, SamePolicy DEF Same, Fields, Staged, Early, Pinned
<1>7. Explained(y)
  BY <1>1, <1>2 DEF Same, Fields, Staged, Early, Over, Explained, NoAnswer
<1>8. QED
  BY <1>4, <1>5, <1>6, <1>7 DEF Sound, y

LEMMA PricedSound ==
  ASSUME NEW x, Sound(x), x.pc = "price"
  PROVE  Sound(At(x, "reserve"))
<1> DEFINE y == At(x, "reserve")
<1>1. Shaped(x) /\ Staged(x) /\ Free(x) /\ Pinned(x) /\ Explained(x)
  BY DEF Sound, Staged
<1>2. Same(y, x, {"pc"}) /\ y.pc = "reserve"
  BY <1>1, AtIs
<1> HIDE DEF y
<1>3. Shaped(y) /\ Carries(y, x)
  BY <1>2 DEF Same, Fields, Carries
<1>4. Staged(y)
  BY <1>1, <1>2 DEF Same, Fields, Staged, Early, Over
<1>5. Free(y)
  BY <1>1, <1>2, <1>3, SamePolicy DEF Same, Fields, Staged, Early, Over, Free
<1>6. Pinned(y)
  BY <1>1, <1>2, <1>3, SamePolicy DEF Same, Fields, Staged, Early, Pinned
<1>7. Explained(y)
  BY <1>1, <1>2 DEF Same, Fields, Staged, Early, Over, Explained, NoAnswer
<1>8. QED
  BY <1>4, <1>5, <1>6, <1>7 DEF Sound, y

LEMMA DowngradedSound ==
  ASSUME NEW x, Sound(x), x.pc = "price", NEW t
  PROVE  Sound(Downgraded(x, t))
<1> DEFINE y == Downgraded(x, t)
<1>1. Shaped(x) /\ Staged(x) /\ Free(x) /\ Pinned(x) /\ Explained(x)
  BY DEF Sound, Staged
<1>2. Same(y, x, {"pc", "target"}) /\ y.pc = "reserve" /\ y.target = t
  BY <1>1, DowngradedIs
<1> HIDE DEF y
<1>3. Shaped(y) /\ Carries(y, x)
  BY <1>2 DEF Same, Fields, Carries
<1>4. Staged(y)
  BY <1>1, <1>2 DEF Same, Fields, Staged, Early, Over
<1>5. Free(y)
  BY <1>1, <1>2, <1>3, SamePolicy DEF Same, Fields, Staged, Early, Over, Free
<1>6. Pinned(y)
  BY <1>1, <1>2, <1>3, SamePolicy DEF Same, Fields, Staged, Early, Pinned
<1>7. Explained(y)
  BY <1>1, <1>2 DEF Same, Fields, Staged, Early, Over, Explained, NoAnswer
<1>8. QED
  BY <1>4, <1>5, <1>6, <1>7 DEF Sound, y

LEMMA ReservedSound ==
  ASSUME NEW x, Sound(x), x.pc = "reserve", NEW h, x.target = NoTarget => h = 0
  PROVE  Sound(Reserved(x, h))
<1> DEFINE y == Reserved(x, h)
<1>1. Shaped(x) /\ Staged(x) /\ Free(x) /\ Pinned(x) /\ Explained(x)
  BY DEF Sound, Staged
<1>2. Same(y, x, {"pc", "held"}) /\ y.pc = "call" /\ y.held = h
  BY <1>1, ReservedIs
<1> HIDE DEF y
<1>3. Shaped(y) /\ Carries(y, x)
  BY <1>2 DEF Same, Fields, Carries
<1>4. Staged(y)
  BY <1>1, <1>2 DEF Same, Fields, Staged, Early, Over
<1>5. Free(y)
  BY <1>1, <1>2, <1>3, SamePolicy DEF Same, Fields, Staged, Early, Over, Free
<1>6. Pinned(y)
  BY <1>1, <1>2, <1>3, SamePolicy DEF Same, Fields, Staged, Early, Pinned
<1>7. Explained(y)
  BY <1>1, <1>2 DEF Same, Fields, Staged, Early, Over, Explained, NoAnswer
<1>8. QED
  BY <1>4, <1>5, <1>6, <1>7 DEF Sound, y

LEMMA ServedSound ==
  ASSUME NEW x, Sound(x), x.pc = "call", x.target # NoTarget
  PROVE  Sound(Served(x))
<1> DEFINE y == Served(x)
<1>1. Shaped(x) /\ Staged(x) /\ Free(x) /\ Pinned(x) /\ Explained(x)
  BY DEF Sound, Staged
<1>2. Same(y, x, {"pc", "called", "last"}) /\ y.pc = "settle" /\ y.called = TRUE /\ y.last = NoAnswer
  BY <1>1, ServedIs
<1> HIDE DEF y
<1>3. Shaped(y) /\ Carries(y, x)
  BY <1>2 DEF Same, Fields, Carries
<1>4. Staged(y)
  BY <1>1, <1>2 DEF Same, Fields, Staged, Early, Over
<1>5. Free(y)
  BY <1>1, <1>2, <1>3, SamePolicy DEF Same, Fields, Staged, Early, Over, Free
<1>6. Pinned(y)
  <2>1. /\ y.hit = x.hit /\ y.arm = x.arm /\ y.target = x.target
        /\ y.q = x.q /\ y.policy = x.policy /\ y.tried = x.tried
    BY <1>2 DEF Same, Fields
  <2>2. QED
    BY <1>1, <1>3, <2>1, SamePolicy DEF Pinned
<1>7. Explained(y)
  BY <1>1, <1>2 DEF Same, Fields, Staged, Early, Over, Explained, NoAnswer
<1>8. QED
  BY <1>4, <1>5, <1>6, <1>7 DEF Sound, y

LEMMA TriedSound ==
  ASSUME NEW x, Sound(x), x.pc = "call"
  PROVE  Sound(Tried(x, x.target[1]))
<1> DEFINE y == Tried(x, x.target[1])
<1>1. Shaped(x) /\ Staged(x) /\ Free(x) /\ Pinned(x) /\ Explained(x)
  BY DEF Sound, Staged
<1>2. Same(y, x, {"tried"}) /\ y.tried = x.tried \cup {x.target[1]}
  BY <1>1, TriedIs
<1> HIDE DEF y
<1>3. Shaped(y) /\ Carries(y, x)
  BY <1>2 DEF Same, Fields, Carries
<1>4. Staged(y)
  BY <1>1, <1>2 DEF Same, Fields, Staged, Early, Over
<1>5. Free(y)
  BY <1>1, <1>2, <1>3, SamePolicy DEF Same, Fields, Staged, Early, Over, Free
<1>6. Pinned(y)
  BY <1>1, <1>2, <1>3, SamePolicy DEF Same, Fields, Staged, Early, Pinned
<1>7. Explained(y)
  BY <1>1, <1>2 DEF Same, Fields, Staged, Early, Over, Explained, NoAnswer
<1>8. QED
  BY <1>4, <1>5, <1>6, <1>7 DEF Sound, y

LEMMA KeepingSound ==
  ASSUME NEW x, Sound(x), x.pc \in {"call", "settle"}, NEW h, h \in {0, x.held}
  PROVE  Sound(Keeping(x, h))
<1> DEFINE y == Keeping(x, h)
<1>1. Shaped(x) /\ Staged(x) /\ Free(x) /\ Pinned(x) /\ Explained(x)
  BY DEF Sound, Staged
<1>2. Same(y, x, {"held"}) /\ y.held = h
  BY <1>1, KeepingIs
<1> HIDE DEF y
<1>3. Shaped(y) /\ Carries(y, x)
  BY <1>2 DEF Same, Fields, Carries
<1>4. Staged(y)
  BY <1>1, <1>2 DEF Same, Fields, Staged, Early, Over
<1>5. Free(y)
  BY <1>1, <1>2, <1>3, SamePolicy DEF Same, Fields, Staged, Early, Over, Free
<1>6. Pinned(y)
  <2>1. /\ y.hit = x.hit /\ y.arm = x.arm /\ y.target = x.target
        /\ y.q = x.q /\ y.policy = x.policy /\ y.tried = x.tried
    BY <1>2 DEF Same, Fields
  <2>2. QED
    BY <1>1, <1>3, <2>1, SamePolicy DEF Pinned
<1>7. Explained(y)
  BY <1>1, <1>2 DEF Same, Fields, Staged, Early, Over, Explained, NoAnswer
<1>8. QED
  BY <1>4, <1>5, <1>6, <1>7 DEF Sound, y

LEMMA MovedSound ==
  ASSUME NEW x, Sound(x), x.pc = "call", NEW t, t # NoTarget,
         MayFailOver(x)
  PROVE  Sound(Moved(x, t))
<1> DEFINE y == Moved(x, t)
<1>1. Shaped(x) /\ Staged(x) /\ Free(x) /\ Pinned(x) /\ Explained(x)
  BY DEF Sound, Staged
<1>2. Same(y, x, {"target"}) /\ y.target = t
  BY <1>1, MovedIs
<1> HIDE DEF y
<1>3. Shaped(y) /\ Carries(y, x)
  BY <1>2 DEF Same, Fields, Carries
<1>4. Staged(y)
  BY <1>1, <1>2 DEF Same, Fields, Staged, Early, Over
<1>5. Free(y)
  BY <1>1, <1>2, <1>3, SamePolicy DEF Same, Fields, Staged, Early, Over, Free
<1>6. Pinned(y)
  BY <1>1, <1>2, <1>3, SamePolicy DEF Same, Fields, Staged, Early, Pinned, MayFailOver
<1>7. Explained(y)
  BY <1>1, <1>2 DEF Same, Fields, Staged, Early, Over, Explained, NoAnswer
<1>8. QED
  BY <1>4, <1>5, <1>6, <1>7 DEF Sound, y

LEMMA SettledSound ==
  ASSUME NEW x, Sound(x), x.pc = "settle"
  PROVE  Sound(Answered(x, x.target))
<1> DEFINE y == Answered(x, x.target)
<1>1. Shaped(x) /\ Staged(x) /\ Free(x) /\ Pinned(x) /\ Explained(x)
  BY DEF Sound, Staged
<1>2. Same(y, x, {"pc", "status", "target"}) /\ y.pc = "answered" /\ y.status = 200 /\ y.target = x.target
  BY <1>1, AnsweredIs
<1> HIDE DEF y
<1>3. Shaped(y) /\ Carries(y, x)
  BY <1>2 DEF Same, Fields, Carries
<1>4. Staged(y)
  BY <1>1, <1>2 DEF Same, Fields, Staged, Early, Over
<1>5. Free(y)
  BY <1>1, <1>2, <1>3, SamePolicy DEF Same, Fields, Staged, Early, Over, Free
<1>6. Pinned(y)
  <2>1. /\ y.hit = x.hit /\ y.arm = x.arm /\ y.tried = x.tried
        /\ y.q = x.q /\ y.policy = x.policy
    BY <1>2 DEF Same, Fields
  <2>2. QED
    BY <1>1, <1>2, <1>3, <2>1, SamePolicy DEF Pinned
<1>7. Explained(y)
  BY <1>1, <1>2 DEF Same, Fields, Staged, Early, Over, Explained, NoAnswer
<1>8. QED
  BY <1>4, <1>5, <1>6, <1>7 DEF Sound, y

\* An answer from the cache.
LEMMA CachedSound ==
  ASSUME NEW x, Sound(x), x.pc = "lookup", UsesCache(x), NEW t
  PROVE  Sound(Answered(Hit(x), t))
<1> DEFINE h == Hit(x)
           y == Answered(h, t)
<1>1. Shaped(x) /\ Staged(x) /\ Free(x) /\ Pinned(x) /\ Explained(x)
  BY DEF Sound, Staged
<1>2. Same(h, x, {"hit"}) /\ h.hit = TRUE /\ Shaped(h)
  BY <1>1, HitIs DEF Same
<1>3. Same(y, h, {"pc", "status", "target"})
      /\ y.pc = "answered" /\ y.status = 200 /\ y.target = t
  BY <1>2, AnsweredIs
<1> HIDE DEF h, y
<1>4. Same(y, x, {"hit", "pc", "status", "target"}) /\ y.hit = TRUE
  BY <1>2, <1>3 DEF Same, Fields
<1>5. Shaped(y) /\ Carries(y, x)
  BY <1>4 DEF Same, Fields, Carries
<1>6. Staged(y)
  BY <1>1, <1>3, <1>4 DEF Same, Fields, Staged, Early, Over
<1>7. Free(y)
  BY <1>1, <1>3, <1>4, <1>5, SamePolicy DEF Same, Fields, Staged, Early, Over, Free
<1>8. Pinned(y)
  <2>1. y.arm = x.arm /\ y.q = x.q /\ y.policy = x.policy /\ y.tried = {} /\ x.policy["cache"]
    BY <1>1, <1>4 DEF Same, Fields, Staged, Early, UsesCache
  <2>2. QED
    BY <1>1, <1>5, <2>1, SamePolicy DEF Pinned
<1>9. Explained(y)
  BY <1>1, <1>3, <1>4 DEF Same, Fields, Staged, Early, Over, Explained, NoAnswer
<1>10. QED
  BY <1>6, <1>7, <1>8, <1>9 DEF Sound, h, y

\* A call that fails: what the record says before the request goes elsewhere,
\* and when it is given up.
LEMMA MissedFields ==
  ASSUME NEW x, Shaped(x), NEW p, NEW l, NEW y, y = Missed(x, p, l)
  PROVE  /\ Same(y, x, {"called", "tried", "last"})
         /\ y.called = TRUE /\ y.tried = x.tried \cup {p} /\ y.last = l
         /\ y.held = x.held /\ y.pc = x.pc /\ y.target = x.target /\ Carries(y, x)
<1>1. Same(y, x, {"called", "tried", "last"})
  BY MissedIs
<1>2. y.called = TRUE
  BY MissedIs
<1>3. y.tried = x.tried \cup {p}
  BY DEF Missed, Shaped, Fields
<1>4. y.last = l
  BY DEF Missed, Shaped, Fields
<1>5. Carries(y, x) /\ y.pc = x.pc /\ y.target = x.target /\ y.held = x.held
  BY <1>1 DEF Same, Fields, Carries
<1>6. QED
  BY <1>1, <1>2, <1>3, <1>4, <1>5

\* What a call to the request's target has come to.
Outcome(x, p, what, l) == p = x.target[1] /\ l = <<p, what>>

LEMMA MissedSound ==
  ASSUME NEW x, Sound(x), x.pc = "call", NEW p \in Registered,
         NEW what \in Failing, NEW e \in Raised(p, what),
         NEW l, Outcome(x, p, what, l), IsTransientError(e)
  PROVE  Sound(Missed(x, p, l))
<1>0. PICK y : y = Missed(x, p, l)
  OBVIOUS
<1>1. Shaped(x) /\ Staged(x) /\ Free(x) /\ Pinned(x) /\ Explained(x)
  BY DEF Sound, Staged
<1>2. /\ Same(y, x, {"called", "tried", "last"})
      /\ y.called = TRUE /\ y.tried = x.tried \cup {p} /\ y.last = l
      /\ Carries(y, x)
  <2>1. Same(y, x, {"called", "tried", "last"}) /\ y.called = TRUE /\ Carries(y, x)
    BY <1>0, <1>1, MissedFields
  <2>2. y.tried = x.tried \cup {p} /\ y.last = l
    BY <1>0, <1>1 DEF Missed, Shaped, Fields
  <2>3. QED
    BY <2>1, <2>2
<1>3. Shaped(y) /\ x.target # NoTarget
  BY <1>2, Providers DEF Same, NoTarget, Outcome
<1>4. Staged(y)
  BY <1>1, <1>2 DEF Same, Fields, Staged, Early, Over
<1>5. Free(y)
  BY <1>1, <1>2, <1>3, SamePolicy DEF Same, Fields, Staged, Early, Over, Free
<1>6. Pinned(y)
  <2>1. /\ y.hit = x.hit /\ y.arm = x.arm /\ y.target = x.target
        /\ y.q = x.q /\ y.policy = x.policy
    BY <1>2 DEF Same, Fields
  <2>2. QED
    BY <1>1, <1>2, <2>1, SamePolicy DEF Pinned, Outcome
<1>7. Explained(y)
  <2>1. y.status = 0
    BY <1>1, <1>2 DEF Same, Fields, Staged, Over
  <2>2. p \in Adapter /\ what \in Happening /\ Local = "ollama"
    BY Providers, PipelineAssumption DEF PipelineAssumption
  <2>3. e # "Auth" /\ e # "InvalidModel"
    BY DEF IsTransientError
  <2>4. y.last[1] = p /\ y.last[2] = what
    BY <1>2 DEF Outcome
  <2>5. QED
    BY <2>1, <2>2, <2>3, <2>4, RaisedIs DEF Explained
<1>8. QED
  BY <1>0, <1>4, <1>5, <1>6, <1>7 DEF Sound

LEMMA GivenUpSound ==
  ASSUME NEW x, Sound(x), x.pc = "call", NEW p \in Registered,
         NEW what \in Failing, NEW e \in Raised(p, what),
         NEW l, Outcome(x, p, what, l), NEW h, h \in {0, x.held}
  PROVE  Sound(Refusal(Keeping(Missed(x, p, l), h), StatusOf(e)))
<1>0. PICK m : m = Missed(x, p, l)
  OBVIOUS
<1> DEFINE k == Keeping(m, h)
           y == Refusal(k, StatusOf(e))
<1>1. Shaped(x) /\ Staged(x) /\ Free(x) /\ Pinned(x) /\ Explained(x)
  BY DEF Sound, Staged
<1>2. /\ Same(m, x, {"called", "tried", "last"})
      /\ m.called = TRUE /\ m.tried = x.tried \cup {p} /\ m.last = l
  <2>1. Same(m, x, {"called", "tried", "last"}) /\ m.called = TRUE
    BY <1>0, <1>1, MissedFields
  <2>2. m.tried = x.tried \cup {p} /\ m.last = l
    BY <1>0, <1>1 DEF Missed, Shaped, Fields
  <2>3. QED
    BY <2>1, <2>2
<1>3. Shaped(m)
  BY <1>2 DEF Same
<1>4. Same(k, m, {"held"}) /\ k.held = h /\ Shaped(k)
  BY <1>3, KeepingIs DEF Same
<1> HIDE DEF k
<1>5. Same(y, k, {"pc", "status"}) /\ y.pc = "failed" /\ y.status = StatusOf(e) /\ Shaped(y)
  BY <1>4, RefusalIs DEF Same
<1> HIDE DEF y
<1>6. /\ y.called = TRUE /\ y.tried = x.tried \cup {p} /\ y.last = l /\ y.held = h
      /\ Carries(y, x) /\ y.target = x.target /\ y.hit = x.hit /\ y.arm = x.arm
      /\ y.counted = x.counted /\ y.policy = x.policy /\ y.q = x.q
  BY <1>2, <1>4, <1>5 DEF Same, Fields, Carries
<1>7. x.target # NoTarget
  BY Providers DEF NoTarget, Outcome
<1>8. Staged(y)
  BY <1>5 DEF Staged, Early, Over
<1>9. Free(y)
  BY <1>1, <1>5, <1>6, <1>7, SamePolicy DEF Staged, Over, Free
<1>10. Pinned(y)
  BY <1>1, <1>6, SamePolicy DEF Pinned, Outcome
<1>11. Explained(y)
  <2>1. p \in Adapter /\ what \in Happening /\ Local = "ollama"
    BY Providers, PipelineAssumption DEF PipelineAssumption
  <2>2. y.last[1] = p /\ y.last[2] = what
    BY <1>6 DEF Outcome
  <2>3. StatusOf("Auth") = 502 /\ StatusOf("InvalidModel") = 400
    BY DEF StatusOf
  <2>4. e \in Exception /\ e # "InvalidProvider"
    BY <2>1, RaisedIs
  <2>5. QED
    BY <1>5, <1>6, <2>1, <2>2, <2>3, <2>4, RaisedIs, StatusIs DEF Explained, Outcome
<1>12. QED
  BY <1>0, <1>8, <1>9, <1>10, <1>11 DEF Sound, k, y

\* The policy of a request: the stored one if it was read, else the default.
Resolved(p, read, stored) ==
    p = IF read /\ stored # {} THEN Merge(CHOOSE raw \in stored : TRUE) ELSE GlobalDefault

\* A request that has just arrived, before the guardrails have run.
Started(x) ==
    /\ Shaped(x) /\ x.pc = "limit" /\ x.target = NoTarget /\ x.tried = {}
    /\ x.last = NoAnswer /\ x.arm = 0 /\ x.held = 0 /\ x.status = 0
    /\ ~x.counted /\ ~x.called /\ ~x.hit
    /\ Resolved(x.policy, x.read, x.stored)

LEMMA FreshIs ==
  ASSUME NEW q, NEW p, NEW rd, NEW x, x = Fresh(q, p, rd)
  PROVE  /\ Shaped(x) /\ x.pc = "limit" /\ x.target = NoTarget /\ x.tried = {}
         /\ x.last = NoAnswer /\ x.arm = 0 /\ x.held = 0 /\ x.status = 0
         /\ ~x.counted /\ ~x.called /\ ~x.hit
         /\ x.policy = p /\ x.read = rd /\ x.stored = policy
<1>1. Shaped(x)
  BY DEF Fresh, Shaped, Fields
<1>2. /\ x.pc = "limit" /\ x.target = NoTarget /\ x.tried = {}
      /\ x.last = NoAnswer /\ x.arm = 0 /\ x.held = 0 /\ x.status = 0
  BY DEF Fresh
<1>3. ~x.counted /\ ~x.called /\ ~x.hit
  BY DEF Fresh
<1>4. x.policy = p /\ x.stored = policy
  BY DEF Fresh
<1>5. x.read = rd
  BY DEF Fresh
<1>6. QED
  BY <1>1, <1>2, <1>3, <1>4, <1>5

\* It carries the stored policy, or the default.
LEMMA FreshStarted ==
  ASSUME NEW q, NEW p, NEW rd, NEW x, x = Fresh(q, p, rd), Resolved(p, rd, policy)
  PROVE  Started(x)
<1>1. /\ Shaped(x) /\ x.pc = "limit" /\ x.target = NoTarget /\ x.tried = {}
      /\ x.last = NoAnswer /\ x.arm = 0 /\ x.held = 0 /\ x.status = 0
      /\ ~x.counted /\ ~x.called /\ ~x.hit
  BY FreshIs
<1>2. x.policy = p /\ x.read = rd /\ x.stored = policy
  BY FreshIs
<1>3. Resolved(x.policy, x.read, x.stored)
  BY <1>2
<1>4. QED
  BY <1>1, <1>3 DEF Started

\* The guardrails let a request through, or stop it for nothing.
LEMMA PassedSound ==
  ASSUME NEW x, Started(x), ~Blocked(x)
  PROVE  Sound(x)
<1>1. Staged(x)
  BY DEF Started, Staged, Early, Over
<1>2. Free(x)
  BY DEF Started, Free
<1>3. Pinned(x)
  BY DEF Started, Resolved, Pinned
<1>4. Explained(x)
  BY DEF Started, Explained, NoAnswer
<1>5. QED
  BY <1>1, <1>2, <1>3, <1>4 DEF Sound

LEMMA StoppedSound ==
  ASSUME NEW x, Started(x), Blocked(x)
  PROVE  Sound(Refusal(x, 400))
<1> DEFINE y == Refusal(x, 400)
<1>1. Same(y, x, {"pc", "status"}) /\ y.pc = "failed" /\ y.status = 400
  BY RefusalIs DEF Started
<1> HIDE DEF y
<1>2. /\ Shaped(y) /\ y.target = NoTarget /\ y.tried = {}
      /\ y.last = NoAnswer /\ y.arm = 0 /\ y.held = 0
      /\ ~y.counted /\ ~y.called /\ ~y.hit
      /\ y.policy = x.policy /\ y.read = x.read /\ y.stored = x.stored
  BY <1>1 DEF Started, Same, Fields
<1>3. Staged(y)
  BY <1>1, <1>2 DEF Staged, Early, Over
<1>4. Free(y)
  BY <1>1, <1>2 DEF Free
<1>5. Pinned(y)
  BY <1>2 DEF Started, Resolved, Pinned
<1>6. Explained(y)
  BY <1>1, <1>2 DEF Explained, NoAnswer
<1>7. QED
  BY <1>3, <1>4, <1>5, <1>6 DEF Sound, y

-----------------------------------------------------------------------------
(* One step of the pipeline.                                               *)

LEMMA KnownSound ==
  ASSUME PipelineInv, NEW r \in Known
  PROVE  Sound(req[r])
<1>1. r \in Request /\ req[r] \notin {New, Lost}
  BY DEF Known
<1>2. req[r] \in {New, Lost} \/ Sound(req[r])
  BY <1>1 DEF PipelineInv
<1>3. QED
  BY <1>1, <1>2

LEMMA UnderWay ==
  ASSUME PipelineInv, NEW r \in Request, req[r].pc \notin {"new", "lost"}
  PROVE  Sound(req[r])
<1>1. New.pc = "new" /\ Lost.pc = "lost"
  BY DEF New, Lost
<1>2. QED
  BY <1>1 DEF PipelineInv

\* The request moves on to a sound record.
LEMMA StepKeeps ==
  ASSUME PipelineInv, NEW r \in Request, NEW y, Become(r, y), Sound(y), UNCHANGED policy
  PROVE  PipelineInv'
<1>1. /\ req' = [q \in Request |-> IF q = r THEN y ELSE req[q]]
  BY DEF PipelineInv, Become
<1>2. req' = [q \in Request |-> req'[q]]
  BY <1>1
<1>3. \A q \in Request : req'[q] \in {New, Lost} \/ Sound(req'[q])
  BY <1>1 DEF PipelineInv
<1>4. policy' = {} \/ \E raw : policy' = {raw}
  BY DEF PipelineInv
<1>5. QED
  BY <1>2, <1>3, <1>4 DEF PipelineInv

\* The same for a step that leaves the log alone,
LEMMA QuietStep ==
  ASSUME PipelineInv, NEW r \in Request, req[r] = New \/ req[r].pc \notin Over,
         NEW y, Become(r, y), Sound(y),
         UNCHANGED <<tasks, rows, policy>>
  PROVE  PipelineInv'
  BY StepKeeps

\* for an exception,
LEMMA RaiseStep ==
  ASSUME PipelineInv, NEW r \in Request, req[r] = New \/ req[r].pc \notin Over,
         NEW x, NEW s, Raise(r, x, s), Sound(Refusal(x, s)), UNCHANGED <<rows, policy>>
  PROVE  PipelineInv'
<1>1. PICK y : y = Refusal(x, s)
  OBVIOUS
<1>2. Become(r, y) /\ Sound(y) /\ UNCHANGED tasks
  BY <1>1 DEF Raise
<1>3. QED
  BY <1>2, QuietStep

\* and for an answer.
LEMMA AnswerStep ==
  ASSUME PipelineInv, NEW r \in Request, req[r].pc \notin Over,
         NEW x, NEW t, Shaped(x), Answer(r, x, t), Sound(Answered(x, t)),
         UNCHANGED <<rows, policy>>
  PROVE  PipelineInv'
<1>1. PICK y : y = Answered(x, t)
  OBVIOUS
<1>2. Become(r, y) /\ Sound(y)
  BY <1>1 DEF Answer, Answered
<1>3. QED
  BY <1>2, StepKeeps

-----------------------------------------------------------------------------
(* The endpoint and ChatService.complete up to the call.                   *)

LEMMA GuardedKeeps ==
  ASSUME PipelineInv, NEW r \in Request, req[r] = New,
         NEW x, Started(x), Guarded(r, x), UNCHANGED <<rows, policy>>
  PROVE  PipelineInv'
<1>1. CASE Blocked(x)
  <2>1. Raise(r, x, 400)
    BY <1>1 DEF Guarded, Blocked
  <2>2. Sound(Refusal(x, 400))
    BY <1>1, StoppedSound
  <2>3. QED
    BY <2>1, <2>2, RaiseStep
<1>2. CASE ~Blocked(x)
  <2>1. Become(r, x) /\ UNCHANGED tasks
    BY <1>2 DEF Guarded, Blocked
  <2>2. Sound(x)
    BY <1>2, PassedSound
  <2>3. QED
    BY <2>1, <2>2, QuietStep
<1>3. QED
  BY <1>1, <1>2

LEMMA ArriveKeeps ==
  ASSUME PipelineInv, NEW r \in Request, Arrive(r)
  PROVE  PipelineInv'
<1>1. req[r] = New /\ UNCHANGED <<rows, policy>>
  BY DEF Arrive
<1>2. PICK q \in Question :
        \/ Guarded(r, Fresh(q, GlobalDefault, policy = {}))
        \/ \E raw \in policy : Guarded(r, Fresh(q, Merge(raw), TRUE))
  BY DEF Arrive
<1>3. CASE Guarded(r, Fresh(q, GlobalDefault, policy = {}))
  <2>1. PICK rd \in BOOLEAN : rd = (policy = {})
    OBVIOUS
  <2>2. PICK p : p = GlobalDefault
    OBVIOUS
  <2>3. PICK x : x = Fresh(q, p, rd)
    OBVIOUS
  <2>4. Started(x)
    <3>1. Resolved(p, rd, policy)
      BY <2>1, <2>2 DEF Resolved
    <3>2. QED
      BY <2>3, <3>1, FreshStarted
  <2>5. Guarded(r, x)
    BY <1>3, <2>1, <2>2, <2>3
  <2>6. QED
    BY <1>1, <2>4, <2>5, GuardedKeeps
<1>4. CASE \E raw \in policy : Guarded(r, Fresh(q, Merge(raw), TRUE))
  <2>1. PICK raw \in policy : Guarded(r, Fresh(q, Merge(raw), TRUE))
    BY <1>4
  <2>2. (CHOOSE w \in policy : TRUE) = raw
    BY <2>1 DEF PipelineInv
  <2>3. PICK rd \in BOOLEAN : rd = TRUE
    OBVIOUS
  <2>4. PICK p : p = Merge(raw)
    OBVIOUS
  <2>5. PICK x : x = Fresh(q, p, rd)
    OBVIOUS
  <2>6. Started(x)
    <3>1. Resolved(p, rd, policy)
      <4>1. rd /\ policy # {}
        BY <2>1, <2>3
      <4>2. p = Merge(CHOOSE w \in policy : TRUE)
        BY <2>2, <2>4, Zenon
      <4>3. QED
        BY <4>1, <4>2 DEF Resolved
    <3>2. QED
      BY <2>5, <3>1, FreshStarted
  <2>7. Guarded(r, x)
    BY <2>1, <2>3, <2>4, <2>5
  <2>8. QED
    BY <1>1, <2>6, <2>7, GuardedKeeps
<1>5. QED
  BY <1>2, <1>3, <1>4

LEMMA RateLimitKeeps ==
  ASSUME PipelineInv, NEW r \in Request, RateLimit(r)
  PROVE  PipelineInv'
<1>1. PICK x : x = req[r]
  OBVIOUS
<1>2. x.pc = "limit" /\ UNCHANGED <<rows, policy>>
  BY <1>1 DEF RateLimit
<1>3. Sound(x)
  BY <1>1, <1>2, UnderWay
<1>4. PICK c : c = Counted(x)
  OBVIOUS
<1>5. /\ Sound(c) /\ c.pc = "limit" /\ c.counted /\ c.target = NoTarget /\ ~c.called
      /\ req[r].pc \notin Over
  <2>1. Sound(c)
    BY <1>2, <1>3, <1>4, CountedSound
  <2>2. c.pc = "limit" /\ c.counted
    BY <1>2, <1>3, <1>4, CountedIs DEF Same, Fields, Sound, Staged
  <2>3. QED
    BY <1>1, <1>2, <2>1, <2>2 DEF Sound, Staged, Early, Over
<1>6. \/ Become(r, At(c, "route")) /\ UNCHANGED tasks
      \/ Raise(r, c, 429)
  BY <1>1, <1>4 DEF RateLimit, Counted, At
<1>7. CASE Become(r, At(c, "route")) /\ UNCHANGED tasks
  <2>1. PICK y : y = At(c, "route")
    OBVIOUS
  <2>2. Sound(y)
    BY <1>5, <2>1, LimitedSound
  <2>3. Become(r, y) /\ UNCHANGED <<tasks, rows, policy>>
    BY <1>2, <1>7, <2>1
  <2>4. QED
    BY <1>5, <2>2, <2>3, QuietStep
<1>8. CASE Raise(r, c, 429)
  <2>1. Sound(Refusal(c, 429))
    BY <1>5, RefusedSound DEF Early, Over
  <2>2. QED
    BY <1>2, <1>5, <1>8, <2>1, RaiseStep
<1>9. QED
  BY <1>6, <1>7, <1>8

\* What the two routings have in common.
LEMMA RoutedKeeps ==
  ASSUME PipelineInv, NEW r \in Request, NEW x, x = req[r], x.pc = "route",
         UNCHANGED <<rows, policy>>,
         \/ \E t : Become(r, Routed(x, t)) /\ UNCHANGED tasks
         \/ \E s \in {400, 503} : Raise(r, x, s)
  PROVE  PipelineInv'
<1>1. Sound(x) /\ req[r].pc \notin Over
  BY UnderWay DEF Over
<1>2. CASE \E t : Become(r, Routed(x, t)) /\ UNCHANGED tasks
  <2>1. PICK t : Become(r, Routed(x, t)) /\ UNCHANGED tasks
    BY <1>2
  <2>2. PICK y : y = Routed(x, t)
    OBVIOUS
  <2>3. Sound(y)
    BY <1>1, <2>2, RoutedSound
  <2>4. Become(r, y) /\ UNCHANGED <<tasks, rows, policy>>
    BY <2>1, <2>2
  <2>5. QED
    BY <1>1, <2>3, <2>4, QuietStep
<1>3. CASE \E s \in {400, 503} : Raise(r, x, s)
  <2>1. PICK s \in {400, 503} : Raise(r, x, s)
    BY <1>3
  <2>2. s # 429 /\ s # 402 /\ s # 404
    OBVIOUS
  <2>3. Sound(Refusal(x, s))
    BY <1>1, <2>2, RefusedSound DEF Early
  <2>4. QED
    BY <1>1, <2>1, <2>3, RaiseStep
<1>4. QED
  BY <1>2, <1>3

LEMMA RouteManualKeeps ==
  ASSUME PipelineInv, NEW r \in Request, RouteManual(r)
  PROVE  PipelineInv'
<1>1. PICK x : x = req[r]
  OBVIOUS
<1>2. x.pc = "route" /\ UNCHANGED <<rows, policy>>
  BY <1>1 DEF RouteManual
<1>3. \/ Become(r, Routed(x, <<x.q.provider, x.q.model>>)) /\ UNCHANGED tasks
      \/ Raise(r, x, 503) \/ Raise(r, x, 400)
  BY <1>1 DEF RouteManual, Routed
<1>4. \/ \E t : Become(r, Routed(x, t)) /\ UNCHANGED tasks
      \/ \E s \in {400, 503} : Raise(r, x, s)
  BY <1>3
<1>5. QED
  BY <1>1, <1>2, <1>4, RoutedKeeps

LEMMA RouteKeeps ==
  ASSUME PipelineInv, NEW r \in Request, Route(r)
  PROVE  PipelineInv'
<1>1. PICK x : x = req[r]
  OBVIOUS
<1>2. x.pc = "route" /\ UNCHANGED <<rows, policy>>
  BY <1>1 DEF Route
<1>3. PICK env \in Environment :
        \/ Become(r, Routed(x, Decide(x.q, PoolOf(env)))) /\ UNCHANGED tasks
        \/ Raise(r, x, 503) \/ Raise(r, x, 400)
  BY <1>1 DEF Route, Routed
<1>4. \/ \E t : Become(r, Routed(x, t)) /\ UNCHANGED tasks
      \/ \E s \in {400, 503} : Raise(r, x, s)
  BY <1>3
<1>5. QED
  BY <1>1, <1>2, <1>4, RoutedKeeps

LEMMA CacheHitKeeps ==
  ASSUME PipelineInv, NEW r \in Request, CacheHit(r)
  PROVE  PipelineInv'
<1>1. PICK x : x = req[r]
  OBVIOUS
<1>2. x.pc = "lookup" /\ UsesCache(x) /\ UNCHANGED <<rows, policy>>
  BY <1>1 DEF CacheHit
<1>3. Sound(x) /\ req[r].pc \notin Over
  BY <1>1, <1>2, UnderWay DEF Over
<1>4. PICK e \in cache : Answer(r, Hit(x), e.target)
  BY <1>1 DEF CacheHit, Hit
<1>5. PICK h : h = Hit(x)
  OBVIOUS
<1>6. PICK t : t = e.target
  OBVIOUS
<1>7. Shaped(h)
  BY <1>3, <1>5, HitIs DEF Same, Sound, Staged
<1>8. Sound(Answered(h, t))
  BY <1>2, <1>3, <1>5, CachedSound
<1>9. Answer(r, h, t)
  BY <1>4, <1>5, <1>6
<1>10. QED
  BY <1>2, <1>3, <1>7, <1>8, <1>9, AnswerStep

LEMMA CacheMissKeeps ==
  ASSUME PipelineInv, NEW r \in Request, CacheMiss(r)
  PROVE  PipelineInv'
<1>1. PICK x : x = req[r]
  OBVIOUS
<1>2. x.pc = "lookup" /\ UNCHANGED <<tasks, rows, policy>>
  BY <1>1 DEF CacheMiss
<1>3. Sound(x) /\ req[r].pc \notin Over
  BY <1>1, <1>2, UnderWay DEF Over
<1>4. PICK bucket \in 0 .. BucketSize - 1 :
        LET n == Assign(x.policy["experiment"], bucket)
        IN  Become(r, InArm(x, n, IF n = 0 THEN x.target
                                           ELSE x.policy["experiment"].arms[n].target))
  BY <1>1 DEF CacheMiss, InArm
<1>5. PICK n : n = Assign(x.policy["experiment"], bucket)
  OBVIOUS
<1>6. n # 0 => x.policy["experiment"].on
  BY <1>5 DEF Assign
<1>7. PICK t : t = IF n = 0 THEN x.target ELSE x.policy["experiment"].arms[n].target
  OBVIOUS
<1>8. PICK y : y = InArm(x, n, t)
  OBVIOUS
<1>9. Sound(y)
  BY <1>2, <1>3, <1>6, <1>8, InArmSound
<1>10. Become(r, y)
  BY <1>4, <1>5, <1>7, <1>8
<1>11. QED
  BY <1>2, <1>3, <1>9, <1>10, QuietStep

LEMMA EstimateKeeps ==
  ASSUME PipelineInv, NEW r \in Request, Estimate(r)
  PROVE  PipelineInv'
<1>1. PICK x : x = req[r]
  OBVIOUS
<1>2. x.pc = "price" /\ UNCHANGED <<rows, policy>>
  BY <1>1 DEF Estimate
<1>3. Sound(x) /\ req[r].pc \notin Over
  BY <1>1, <1>2, UnderWay DEF Over
<1>4. \/ Become(r, At(x, "reserve")) /\ UNCHANGED tasks
      \/ Raise(r, x, 402)
      \/ \E t : Become(r, Downgraded(x, t)) /\ UNCHANGED tasks
  BY <1>1 DEF Estimate, At, Downgraded
<1>5. CASE Become(r, At(x, "reserve")) /\ UNCHANGED tasks
  <2>1. PICK y : y = At(x, "reserve")
    OBVIOUS
  <2>2. Sound(y)
    BY <1>2, <1>3, <2>1, PricedSound
  <2>3. Become(r, y)
    BY <1>5, <2>1
  <2>4. QED
    BY <1>2, <1>3, <1>5, <2>2, <2>3, QuietStep
<1>6. CASE Raise(r, x, 402)
  <2>1. ~x.called
    BY <1>2, <1>3 DEF Sound, Staged, Early
  <2>2. Sound(Refusal(x, 402))
    BY <1>1, <1>2, <1>3, <2>1, RefusedSound DEF Early
  <2>3. QED
    BY <1>2, <1>3, <1>6, <2>2, RaiseStep
<1>7. CASE \E t : Become(r, Downgraded(x, t)) /\ UNCHANGED tasks
  <2>1. PICK t : Become(r, Downgraded(x, t)) /\ UNCHANGED tasks
    BY <1>7
  <2>2. PICK y : y = Downgraded(x, t)
    OBVIOUS
  <2>3. Sound(y)
    BY <1>2, <1>3, <2>2, DowngradedSound
  <2>4. Become(r, y)
    BY <2>1, <2>2
  <2>5. QED
    BY <1>2, <1>3, <2>1, <2>3, <2>4, QuietStep
<1>8. QED
  BY <1>4, <1>5, <1>6, <1>7

\* Nothing is held for a request that has no target.
LEMMA NoTargetFree == Price(NoTarget) = 0
<1>1. NoTarget[1] = "none" /\ BareTarget(NoTarget)[1] = "none"
  BY DEF NoTarget, BareTarget
<1>2. \A t \in Target : t[1] # "none"
  BY Providers DEF Target
<1>3. DOMAIN Meta \subseteq Target
  BY RoutingAssumption DEF RoutingAssumption
<1>4. NoTarget \notin DOMAIN Meta /\ BareTarget(NoTarget) \notin DOMAIN Meta
  BY <1>1, <1>2, <1>3
<1>5. ~InCatalog(NoTarget)
  BY <1>4 DEF InCatalog
<1>6. QED
  BY <1>5 DEF Price

LEMMA ReserveKeeps ==
  ASSUME PipelineInv, NEW r \in Request, Reserve(r)
  PROVE  PipelineInv'
<1>1. PICK x : x = req[r]
  OBVIOUS
<1>2. x.pc = "reserve" /\ UNCHANGED <<rows, policy>>
  BY <1>1 DEF Reserve
<1>3. Sound(x) /\ req[r].pc \notin Over
  BY <1>1, <1>2, UnderWay DEF Over
<1>4. \/ Become(r, Reserved(x, Price(x.target))) /\ UNCHANGED tasks
      \/ Raise(r, x, 500)
  BY <1>1 DEF Reserve, Reserved
<1>5. CASE Become(r, Reserved(x, Price(x.target))) /\ UNCHANGED tasks
  <2>1. PICK h : h = Price(x.target)
    OBVIOUS
  <2>2. x.target = NoTarget => h = 0
    BY <2>1, NoTargetFree
  <2>3. PICK y : y = Reserved(x, h)
    OBVIOUS
  <2>4. Sound(y)
    BY <1>2, <1>3, <2>2, <2>3, ReservedSound
  <2>5. Become(r, y)
    BY <1>5, <2>1, <2>3
  <2>6. QED
    BY <1>2, <1>3, <1>5, <2>4, <2>5, QuietStep
<1>6. CASE Raise(r, x, 500)
  <2>1. Sound(Refusal(x, 500))
    BY <1>1, <1>2, <1>3, RefusedSound DEF Early
  <2>2. QED
    BY <1>2, <1>3, <1>6, <2>1, RaiseStep
<1>7. QED
  BY <1>4, <1>5, <1>6

-----------------------------------------------------------------------------
(* The call.                                                               *)

LEMMA FailOverKeeps ==
  ASSUME PipelineInv, NEW r \in Request, req[r].pc = "call",
         NEW x, Sound(x), x.pc = "call", FailOver(r, x), UNCHANGED <<rows, policy>>
  PROVE  PipelineInv'
<1>1. MayFailOver(x) /\ UNCHANGED tasks
  BY DEF FailOver
<1>2. PICK t \in Targets : Become(r, Moved(x, t))
  BY DEF FailOver, Moved
<1>3. t # NoTarget
  BY Providers DEF Targets, Target, NoTarget
<1>4. PICK y : y = Moved(x, t)
  OBVIOUS
<1>5. Sound(y)
  BY <1>1, <1>3, <1>4, MovedSound
<1>6. Become(r, y) /\ req[r].pc \notin Over
  BY <1>2, <1>4 DEF Over
<1>7. QED
  BY <1>1, <1>5, <1>6, QuietStep

LEMMA GiveUpKeeps ==
  ASSUME PipelineInv, NEW r \in Request, req[r].pc = "call",
         NEW x, Sound(x), x.pc = "call", x.tried # {},
         NEW s, s # 429, s # 402, s = 404 => x.target[1] \notin Registered,
         GiveUp(r, x, s), UNCHANGED <<rows, policy>>
  PROVE  PipelineInv'
<1>1. PICK left \in {0, x.held} : Raise(r, Keeping(x, left), s)
  BY DEF GiveUp, Keeping
<1>2. PICK k : k = Keeping(x, left)
  OBVIOUS
<1>3. Sound(k)
  BY <1>2, KeepingSound
<1>4. k.pc = "call" /\ k.tried = x.tried /\ k.target = x.target
  BY <1>2, KeepingIs DEF Same, Fields, Sound, Staged
<1>5. k.tried # {} /\ k.pc \notin Over /\ (s = 404 => k.target[1] \notin Registered)
  BY <1>4 DEF Over
<1>6. Sound(Refusal(k, s))
  BY <1>3, <1>5, RefusedSound
<1>7. Raise(r, k, s) /\ req[r].pc \notin Over
  BY <1>1, <1>2 DEF Over
<1>8. QED
  BY <1>6, <1>7, RaiseStep

LEMMA CallServedKeeps ==
  ASSUME PipelineInv, NEW r \in Request, CallServed(r)
  PROVE  PipelineInv'
<1>1. PICK x : x = req[r]
  OBVIOUS
<1>2. /\ x.pc = "call" /\ x.target[1] \in Registered /\ UNCHANGED <<tasks, rows, policy>>
      /\ Become(r, Served(x))
  BY <1>1 DEF CallServed, Served
<1>3. Sound(x) /\ req[r].pc \notin Over
  BY <1>1, <1>2, UnderWay DEF Over
<1>4. x.target # NoTarget
  BY <1>2, Providers DEF NoTarget
<1>5. PICK y : y = Served(x)
  OBVIOUS
<1>6. Sound(y)
  BY <1>2, <1>3, <1>4, <1>5, ServedSound
<1>7. Become(r, y)
  BY <1>2, <1>5
<1>8. QED
  BY <1>2, <1>3, <1>6, <1>7, QuietStep

LEMMA CallFailsKeeps ==
  ASSUME PipelineInv, NEW r \in Request, CallFails(r)
  PROVE  PipelineInv'
<1>1. PICK x : x = req[r]
  OBVIOUS
<1>2. PICK p : p = x.target[1]
  OBVIOUS
<1>3. x.pc = "call" /\ p \in Registered /\ UNCHANGED <<rows, policy>>
  BY <1>1, <1>2 DEF CallFails
<1>4. Sound(x) /\ req[r].pc = "call" /\ req[r].pc \notin Over
  BY <1>1, <1>3, UnderWay DEF Over
<1>5. PICK what \in Failing :
        \E e \in Raised(p, what) :
          \/ IsTransientError(e) /\ FailOver(r, Missed(x, p, <<p, what>>))
          \/ GiveUp(r, Missed(x, p, <<p, what>>), StatusOf(e))
  BY <1>1, <1>2 DEF CallFails, Missed
<1>6. PICK e \in Raised(p, what) :
         \/ IsTransientError(e) /\ FailOver(r, Missed(x, p, <<p, what>>))
         \/ GiveUp(r, Missed(x, p, <<p, what>>), StatusOf(e))
  BY <1>5
<1>7. PICK l : l = <<p, what>> /\ Outcome(x, p, what, l)
  BY <1>2 DEF Outcome
<1>8. PICK m : m = Missed(x, p, l)
  OBVIOUS
<1>9. m.pc = "call" /\ m.held = x.held
  BY <1>3, <1>4, <1>8 DEF Missed, Shaped, Fields, Sound, Staged
<1>10. CASE IsTransientError(e) /\ FailOver(r, Missed(x, p, <<p, what>>))
  <2>1. Sound(m)
    BY <1>3, <1>4, <1>7, <1>8, <1>10, MissedSound
  <2>2. FailOver(r, m)
    BY <1>7, <1>8, <1>10
  <2>3. QED
    BY <1>3, <1>4, <1>9, <2>1, <2>2, FailOverKeeps
<1>11. CASE GiveUp(r, Missed(x, p, <<p, what>>), StatusOf(e))
  <2>1. GiveUp(r, m, StatusOf(e))
    BY <1>7, <1>8, <1>11
  <2>2. PICK left \in {0, m.held} : Raise(r, Keeping(m, left), StatusOf(e))
    BY <2>1 DEF GiveUp, Keeping
  <2>3. left \in {0, x.held}
    BY <1>9
  <2>4. Sound(Refusal(Keeping(m, left), StatusOf(e)))
    BY <1>3, <1>4, <1>7, <1>8, <2>3, GivenUpSound
  <2>5. PICK k, s : k = Keeping(m, left) /\ s = StatusOf(e)
    OBVIOUS
  <2>6. Raise(r, k, s) /\ Sound(Refusal(k, s))
    BY <2>2, <2>4, <2>5
  <2>7. QED
    BY <1>3, <1>4, <2>6, RaiseStep
<1>12. QED
  BY <1>6, <1>10, <1>11

LEMMA CallUnknownKeeps ==
  ASSUME PipelineInv, NEW r \in Request, CallUnknown(r)
  PROVE  PipelineInv'
<1>1. PICK x : x = req[r]
  OBVIOUS
<1>2. /\ x.pc = "call" /\ x.target[1] \notin Registered /\ UNCHANGED <<rows, policy>>
      /\ GiveUp(r, Tried(x, x.target[1]), 404)
  BY <1>1 DEF CallUnknown, Tried, StatusOf
<1>3. Sound(x) /\ req[r].pc = "call"
  BY <1>1, <1>2, UnderWay
<1>4. PICK m : m = Tried(x, x.target[1])
  OBVIOUS
<1>5. Sound(m)
  BY <1>2, <1>3, <1>4, TriedSound
<1>6. m.pc = "call" /\ m.tried # {} /\ m.target = x.target
  BY <1>2, <1>3, <1>4, TriedIs DEF Same, Fields, Sound, Staged
<1>7. GiveUp(r, m, 404)
  BY <1>2, <1>4
<1>8. m.target[1] \notin Registered
  BY <1>2, <1>6
<1>9. QED
  BY <1>2, <1>3, <1>5, <1>6, <1>7, <1>8, GiveUpKeeps

LEMMA CallShortCircuitedKeeps ==
  ASSUME PipelineInv, NEW r \in Request, CallShortCircuited(r)
  PROVE  PipelineInv'
<1>1. PICK x : x = req[r]
  OBVIOUS
<1>2. PICK m : m = Tried(x, x.target[1])
  OBVIOUS
<1>3. /\ x.pc = "call" /\ UNCHANGED <<rows, policy>>
      /\ FailOver(r, m) \/ GiveUp(r, m, 503)
  BY <1>1, <1>2 DEF CallShortCircuited, Tried, StatusOf
<1>4. Sound(x) /\ req[r].pc = "call"
  BY <1>1, <1>3, UnderWay
<1>5. Sound(m)
  BY <1>2, <1>3, <1>4, TriedSound
<1>6. m.pc = "call" /\ m.tried # {}
  BY <1>2, <1>3, <1>4 DEF Tried, Shaped, Fields, Sound, Staged
<1>7. CASE FailOver(r, m)
  BY <1>3, <1>4, <1>5, <1>6, <1>7, FailOverKeeps
<1>8. CASE GiveUp(r, m, 503)
  BY <1>3, <1>4, <1>5, <1>6, <1>8, GiveUpKeeps
<1>9. QED
  BY <1>3, <1>7, <1>8

LEMMA OutOfTimeKeeps ==
  ASSUME PipelineInv, NEW r \in Request, OutOfTime(r)
  PROVE  PipelineInv'
<1>1. PICK x : x = req[r]
  OBVIOUS
<1>2. x.pc = "call" /\ x.tried # {} /\ GiveUp(r, x, 504) /\ UNCHANGED <<rows, policy>>
  BY <1>1 DEF OutOfTime, StatusOf
<1>3. Sound(x) /\ req[r].pc = "call"
  BY <1>1, <1>2, UnderWay
<1>4. QED
  BY <1>2, <1>3, GiveUpKeeps

LEMMA SettleKeeps ==
  ASSUME PipelineInv, NEW r \in Request, Settle(r)
  PROVE  PipelineInv'
<1>1. PICK x : x = req[r]
  OBVIOUS
<1>2. /\ x.pc = "settle" /\ UNCHANGED <<rows, policy>>
      /\ Answer(r, Keeping(x, 0), x.target) \/ Raise(r, x, 500)
  BY <1>1 DEF Settle, Keeping
<1>3. Sound(x) /\ req[r].pc \notin Over
  BY <1>1, <1>2, UnderWay DEF Over
<1>4. CASE Answer(r, Keeping(x, 0), x.target)
  <2>1. PICK k : k = Keeping(x, 0)
    OBVIOUS
  <2>2. Sound(k)
    BY <1>2, <1>3, <2>1, KeepingSound
  <2>3. Shaped(k) /\ k.pc = "settle" /\ k.target = x.target
    BY <1>2, <1>3, <2>1, KeepingIs DEF Same, Fields, Sound, Staged
  <2>4. Sound(Answered(k, k.target))
    BY <2>2, <2>3, SettledSound
  <2>5. PICK t : t = k.target
    OBVIOUS
  <2>6. Answer(r, k, t) /\ Sound(Answered(k, t))
    BY <1>4, <2>1, <2>3, <2>4, <2>5
  <2>7. QED
    BY <1>2, <1>3, <2>3, <2>6, AnswerStep
<1>5. CASE Raise(r, x, 500)
  <2>1. x.pc \notin Over
    BY <1>2 DEF Over
  <2>2. Sound(Refusal(x, 500))
    BY <1>2, <1>3, <2>1, RefusedSound
  <2>3. QED
    BY <1>2, <1>3, <1>5, <2>2, RaiseStep
<1>6. QED
  BY <1>2, <1>4, <1>5

-----------------------------------------------------------------------------
(* The log, the administrator and the process.                             *)

\* What leaves the requests alone.
LEMMA RequestsStay ==
  ASSUME PipelineInv, req' = req, policy' = {} \/ \E raw : policy' = {raw}
  PROVE  PipelineInv'
  BY DEF PipelineInv

\* What was in progress is lost.
LEMMA RestartKeeps ==
  ASSUME PipelineInv, Restart
  PROVE  PipelineInv'
<1>1. /\ req' = [r \in Request |->
                   IF req[r] = New \/ req[r].pc \in Over THEN req[r] ELSE Lost]
      /\ tasks' = {} /\ rows' = rows /\ policy' = policy
  BY DEF Restart
<1>2. req' = [r \in Request |-> req'[r]]
  BY <1>1
<1>3. \A r \in Request : req'[r] \in {New, Lost} \/ Sound(req'[r])
  BY <1>1 DEF PipelineInv
<1>4. policy' = {} \/ \E raw : policy' = {raw}
  BY <1>1 DEF PipelineInv
<1>5. QED
  BY <1>2, <1>3, <1>4 DEF PipelineInv

LEMMA PipelineInvInit ==
  ASSUME PipelineInit
  PROVE  PipelineInv
<1>1. policy = {} \/ \E raw : policy = {raw}
  BY DEF PipelineInit
<1>2. req = [r \in Request |-> req[r]] /\ \A r \in Request : req[r] = New
  BY DEF PipelineInit
<1>3. QED
  BY <1>1, <1>2 DEF PipelineInv

LEMMA PipelineInvNext ==
  ASSUME PipelineInv, [PipelineNext]_pipelineVars
  PROVE  PipelineInv'
<1>1. CASE UNCHANGED pipelineVars
  <2>1. /\ req' = req
        /\ policy' = {} \/ \E raw : policy' = {raw}
    BY <1>1 DEF pipelineVars, PipelineInv
  <2>2. QED
    BY <2>1, RequestsStay
<1>2. ASSUME NEW r \in Request,
             \/ Arrive(r) \/ RateLimit(r) \/ RouteManual(r) \/ Route(r)
             \/ CacheHit(r) \/ CacheMiss(r) \/ Estimate(r) \/ Reserve(r)
             \/ CallServed(r) \/ CallFails(r) \/ CallUnknown(r)
             \/ CallShortCircuited(r) \/ OutOfTime(r) \/ Settle(r)
      PROVE  PipelineInv'
  BY <1>2, ArriveKeeps, RateLimitKeeps, RouteManualKeeps, RouteKeeps, CacheHitKeeps,
     CacheMissKeeps, EstimateKeeps, ReserveKeeps, CallServedKeeps, CallFailsKeeps,
     CallUnknownKeeps, CallShortCircuitedKeeps, OutOfTimeKeeps, SettleKeeps
<1>3. ASSUME NEW row \in tasks, WriteLog(row) \/ LogFails(row)
      PROVE  PipelineInv'
  <2>1. req' = req /\ policy' = policy
    BY <1>3 DEF WriteLog, LogFails
  <2>2. policy' = {} \/ \E raw : policy' = {raw}
    BY <2>1 DEF PipelineInv
  <2>3. QED
    BY <2>1, <2>2, RequestsStay
<1>4. ASSUME NEW t \in Targets, OtherRequest(t)
      PROVE  PipelineInv'
  <2>1. req' = req /\ policy' = policy
    BY <1>4 DEF OtherRequest
  <2>2. policy' = {} \/ \E raw : policy' = {raw}
    BY <2>1 DEF PipelineInv
  <2>3. QED
    BY <2>1, <2>2, RequestsStay
<1>5. ASSUME NEW raw \in Policies, PutPolicy(raw)
      PROVE  PipelineInv'
  BY <1>5, RequestsStay DEF PutPolicy, UpsertPolicy
<1>6. CASE DeletePolicy
  BY <1>6, RequestsStay DEF DeletePolicy
<1>7. CASE Restart
  BY <1>7, RestartKeeps
<1>8. QED
  BY <1>1, <1>2, <1>3, <1>4, <1>5, <1>6, <1>7 DEF PipelineNext

\* The records stay sound under every interleaving of
\* requests, log writes, policy changes and restarts.
THEOREM PipelineSound == PipelineSpec => []PipelineInv
<1>1. PipelineInit => PipelineInv
  BY PipelineInvInit
<1>2. PipelineInv /\ [PipelineNext]_pipelineVars => PipelineInv'
  BY PipelineInvNext
<1>3. QED
  BY <1>1, <1>2, PTL DEF PipelineSpec

-----------------------------------------------------------------------------
(* The sort of the candidates.                                             *)

\* The keys are compared from left to right.
Keys == Int \X Int \X Int \X Int \X Int \X Int

LEMMA PrecedesIs ==
  ASSUME NEW k \in Keys, NEW l \in Keys
  PROVE  Precedes(k, l) <=>
           \/ k[1] < l[1]
           \/ k[1] = l[1] /\ k[2] < l[2]
           \/ k[1] = l[1] /\ k[2] = l[2] /\ k[3] < l[3]
           \/ k[1] = l[1] /\ k[2] = l[2] /\ k[3] = l[3] /\ k[4] < l[4]
           \/ k[1] = l[1] /\ k[2] = l[2] /\ k[3] = l[3] /\ k[4] = l[4] /\ k[5] < l[5]
           \/ k[1] = l[1] /\ k[2] = l[2] /\ k[3] = l[3] /\ k[4] = l[4] /\ k[5] = l[5]
                /\ k[6] < l[6]
<1>1. Len(k) = 6
  BY DEF Keys
<1>2. \A n : n \in 1 .. 6 <=> n \in {1, 2, 3, 4, 5, 6}
  OBVIOUS
<1>3. \A m : /\ m \in 1 .. 1 - 1 <=> m \in {}
             /\ m \in 1 .. 2 - 1 <=> m \in {1}
             /\ m \in 1 .. 3 - 1 <=> m \in {1, 2}
             /\ m \in 1 .. 4 - 1 <=> m \in {1, 2, 3}
             /\ m \in 1 .. 5 - 1 <=> m \in {1, 2, 3, 4}
             /\ m \in 1 .. 6 - 1 <=> m \in {1, 2, 3, 4, 5}
  OBVIOUS
<1>4. QED
  BY <1>1, <1>2, <1>3 DEF Precedes

LEMMA PrecedesChained ==
  ASSUME NEW k \in Keys, NEW l \in Keys, NEW m \in Keys, Precedes(k, l), Precedes(l, m)
  PROVE  Precedes(k, m)
<1>1. /\ k[1] \in Int /\ k[2] \in Int /\ k[3] \in Int /\ k[4] \in Int /\ k[5] \in Int
      /\ k[6] \in Int
      /\ l[1] \in Int /\ l[2] \in Int /\ l[3] \in Int /\ l[4] \in Int /\ l[5] \in Int
      /\ l[6] \in Int
      /\ m[1] \in Int /\ m[2] \in Int /\ m[3] \in Int /\ m[4] \in Int /\ m[5] \in Int
      /\ m[6] \in Int
  BY DEF Keys
<1>2. QED
  BY <1>1, PrecedesIs

LEMMA PrecedesTotal ==
  ASSUME NEW k \in Keys, NEW l \in Keys, k[6] # l[6]
  PROVE  Precedes(k, l) \/ Precedes(l, k)
<1>1. /\ k[1] \in Int /\ k[2] \in Int /\ k[3] \in Int /\ k[4] \in Int /\ k[5] \in Int
      /\ k[6] \in Int
      /\ l[1] \in Int /\ l[2] \in Int /\ l[3] \in Int /\ l[4] \in Int /\ l[5] \in Int
      /\ l[6] \in Int
  BY DEF Keys
<1>2. QED
  BY <1>1, PrecedesIs

\* A ratio is at most one when its denominator is no smaller.
LEMMA RatioIs ==
  ASSUME NEW a \in Nat, NEW b \in Nat \ {0}
  PROVE  /\ Ratio(a, b) \in Nat
         /\ a <= b => Ratio(a, b) <= 10000
<1>1. Ratio(a, b) \in Nat
  BY DivIs DEF Ratio
<1>2. ASSUME a <= b PROVE Ratio(a, b) <= 10000
  <2>1. PICK d \in Nat : d = (10000 * a) \div b /\ b * d <= 10000 * a
    BY DivIs
  <2>2. ASSUME d >= 10001 PROVE FALSE
    <3>1. b * 10001 <= b * d
      BY <2>1, <2>2
    <3>2. QED
      BY <1>2, <2>1, <3>1
  <2>3. QED
    BY <2>1, <2>2 DEF Ratio
<1>3. QED
  BY <1>1, <1>2

LEMMA RatioFalls ==
  ASSUME NEW a \in Nat, NEW b \in Nat \ {0}, NEW c \in Nat \ {0}, b <= c
  PROVE  Ratio(a, c) <= Ratio(a, b)
<1>1. PICK n \in Nat : n = 10000 * a
  OBVIOUS
<1>2. n \div c <= n \div b
  BY DivFalls
<1>3. QED
  BY <1>1, <1>2 DEF Ratio

-----------------------------------------------------------------------------
(* Candidates and their scores.                                            *)

\* What build_candidates says of a candidate.
CandidateOK(c) ==
    /\ c.target \in Target /\ c.caps = MetaOf(c.target).caps
    /\ c.cost \in Nat /\ c.healthy \in BOOLEAN
    /\ c.success \in Nat /\ c.latency \in Nat \ {0}

\* What it returns, and every part of it.
PoolOK(pool) ==
    /\ IsFiniteSet(pool) /\ \A c \in pool : CandidateOK(c)
    /\ \A c, d \in pool : c.target = d.target => c = d

LEMMA PoolPart ==
  ASSUME NEW pool, PoolOK(pool), NEW part, part \subseteq pool
  PROVE  PoolOK(part)
  BY FS_Subset DEF PoolOK

LEMMA LatencyScoreIs ==
  ASSUME NEW pool, PoolOK(pool), NEW c \in pool
  PROVE  LatencyScore(c, pool) \in Nat
<1> DEFINE T == {d.latency : d \in pool}
<1>1. T \in SUBSET Nat /\ T # {} /\ c.latency \in Nat \ {0}
  BY DEF PoolOK, CandidateOK
<1>2. Min(T) \in Nat
  BY <1>1, MinIs
<1>3. QED
  BY <1>1, <1>2, RatioIs DEF LatencyScore

\* A faster candidate scores no less,
LEMMA LatencyScoreFalls ==
  ASSUME NEW pool, PoolOK(pool), NEW c \in pool, NEW d \in pool, c.latency <= d.latency
  PROVE  LatencyScore(d, pool) <= LatencyScore(c, pool)
<1> DEFINE T == {e.latency : e \in pool}
<1>1. /\ T \in SUBSET Nat /\ T # {}
      /\ c.latency \in Nat \ {0} /\ d.latency \in Nat \ {0}
  BY DEF PoolOK, CandidateOK
<1>2. Min(T) \in Nat
  BY <1>1, MinIs
<1>3. QED
  BY <1>1, <1>2, RatioFalls DEF LatencyScore

\* and a cheaper one as well, whichever branch of the cost score they are in.
LEMMA MaxIs ==
  ASSUME NEW n \in Nat
  PROVE  Max({500, n}) = IF n <= 500 THEN 500 ELSE n
<1>1. \E x \in {500, n} : \A y \in {500, n} : x >= y
  OBVIOUS
<1>2. QED
  BY <1>1 DEF Max

\* The branches, for a candidate that is not free.
PaidScore(costs, cost) ==
    IF Cardinality(costs) = 1 THEN 10000
    ELSE IF Cardinality(costs) > 1 /\ 0 \in costs
           THEN Max({500, (3 * Ratio(Min(costs \ {0}), cost)) \div 4})
           ELSE Ratio(Min(costs), cost)

LEMMA CostScoreIs ==
  ASSUME NEW pool, NEW c \in pool, c.cost \in Nat
  PROVE  CostScore(c, pool) =
           IF c.cost = 0 THEN 10000 ELSE PaidScore({d.cost : d \in pool}, c.cost)
<1>1. CASE c.cost = 0
  BY <1>1 DEF CostScore
<1>2. CASE c.cost # 0
  <2>1. PICK costs : costs = {d.cost : d \in pool}
    OBVIOUS
  <2>2. c.cost > 0 /\ c.cost # 0
    BY <1>2
  <2>3. CASE Cardinality(costs) = 1
    BY <2>1, <2>2, <2>3 DEF CostScore, PaidScore
  <2>4. CASE Cardinality(costs) # 1 /\ Cardinality(costs) > 1 /\ 0 \in costs
    BY <2>1, <2>2, <2>4 DEF CostScore, PaidScore
  <2>5. CASE Cardinality(costs) # 1 /\ ~(Cardinality(costs) > 1 /\ 0 \in costs)
    BY <2>1, <2>2, <2>5 DEF CostScore, PaidScore
  <2>6. QED
    BY <2>3, <2>4, <2>5
<1>3. QED
  BY <1>1, <1>2

LEMMA PaidScoreIs ==
  ASSUME NEW costs \in SUBSET Nat, NEW a \in costs, a # 0
  PROVE  PaidScore(costs, a) \in Nat /\ PaidScore(costs, a) <= 10000
<1>1. CASE Cardinality(costs) = 1
  BY <1>1 DEF PaidScore
<1>2. CASE Cardinality(costs) # 1 /\ Cardinality(costs) > 1 /\ 0 \in costs
  <2>1. Min(costs \ {0}) \in Nat /\ Min(costs \ {0}) <= a
    BY MinIs
  <2>2. PICK n \in Nat : n = Ratio(Min(costs \ {0}), a) /\ n <= 10000
    BY <2>1, RatioIs
  <2>3. PICK m \in Nat : m = (3 * n) \div 4 /\ m <= 10000
    BY <2>2
  <2>4. Max({500, m}) \in Nat /\ Max({500, m}) <= 10000
    BY <2>3, MaxIs
  <2>5. QED
    BY <1>2, <2>2, <2>3, <2>4 DEF PaidScore
<1>3. CASE Cardinality(costs) # 1 /\ ~(Cardinality(costs) > 1 /\ 0 \in costs)
  <2>1. Min(costs) \in Nat /\ Min(costs) <= a
    BY MinIs
  <2>2. QED
    BY <1>3, <2>1, RatioIs DEF PaidScore
<1>4. QED
  BY <1>1, <1>2, <1>3

LEMMA PaidScoreFalls ==
  ASSUME NEW costs \in SUBSET Nat, NEW a \in costs, NEW b \in costs, a # 0, a <= b
  PROVE  PaidScore(costs, b) <= PaidScore(costs, a)
<1>0. a \in Nat \ {0} /\ b \in Nat \ {0}
  OBVIOUS
<1>1. CASE Cardinality(costs) = 1
  BY <1>1 DEF PaidScore
<1>2. CASE Cardinality(costs) # 1 /\ Cardinality(costs) > 1 /\ 0 \in costs
  <2>1. Min(costs \ {0}) \in Nat
    BY MinIs
  <2>2. PICK i \in Nat : i = Ratio(Min(costs \ {0}), a)
    BY <1>0, <2>1, RatioIs
  <2>3. PICK j \in Nat : j = Ratio(Min(costs \ {0}), b)
    BY <1>0, <2>1, RatioIs
  <2>4. j <= i
    BY <1>0, <2>1, <2>2, <2>3, RatioFalls
  <2>5. PICK m \in Nat : m = (3 * i) \div 4
    OBVIOUS
  <2>6. PICK n \in Nat : n = (3 * j) \div 4
    OBVIOUS
  <2>7. n <= m
    BY <2>4, <2>5, <2>6
  <2>8. Max({500, n}) <= Max({500, m})
    BY <2>7, MaxIs
  <2>9. PaidScore(costs, a) = Max({500, m}) /\ PaidScore(costs, b) = Max({500, n})
    BY <1>2, <2>2, <2>3, <2>5, <2>6 DEF PaidScore
  <2>10. QED
    BY <2>8, <2>9
<1>3. CASE Cardinality(costs) # 1 /\ ~(Cardinality(costs) > 1 /\ 0 \in costs)
  <2>1. Min(costs) \in Nat
    BY MinIs
  <2>2. QED
    BY <1>0, <1>3, <2>1, RatioFalls DEF PaidScore
<1>4. QED
  BY <1>1, <1>2, <1>3

LEMMA CostScoreFalls ==
  ASSUME NEW pool, PoolOK(pool), NEW c \in pool, NEW d \in pool, c.cost <= d.cost
  PROVE  /\ CostScore(c, pool) \in Nat /\ CostScore(d, pool) \in Nat
         /\ CostScore(d, pool) <= CostScore(c, pool)
<1>1. PICK costs : costs = {e.cost : e \in pool}
  OBVIOUS
<1>2. PICK a, b : a = c.cost /\ b = d.cost
  OBVIOUS
<1>3. costs \in SUBSET Nat /\ a \in costs /\ b \in costs /\ a \in Nat /\ b \in Nat /\ a <= b
  BY <1>1, <1>2 DEF PoolOK, CandidateOK
<1>4. /\ CostScore(c, pool) = IF a = 0 THEN 10000 ELSE PaidScore(costs, a)
      /\ CostScore(d, pool) = IF b = 0 THEN 10000 ELSE PaidScore(costs, b)
  <2>1. c.cost \in Nat /\ d.cost \in Nat
    BY <1>2, <1>3
  <2>2. CostScore(c, pool) =
          IF c.cost = 0 THEN 10000 ELSE PaidScore({e.cost : e \in pool}, c.cost)
    BY <2>1, CostScoreIs
  <2>3. CostScore(d, pool) =
          IF d.cost = 0 THEN 10000 ELSE PaidScore({e.cost : e \in pool}, d.cost)
    BY <2>1, CostScoreIs
  <2>4. QED
    BY <1>1, <1>2, <2>2, <2>3
<1>5. /\ a # 0 => PaidScore(costs, a) \in Nat /\ PaidScore(costs, a) <= 10000
      /\ b # 0 => PaidScore(costs, b) \in Nat /\ PaidScore(costs, b) <= 10000
  BY <1>3, PaidScoreIs
<1>6. a # 0 => PaidScore(costs, b) <= PaidScore(costs, a)
  BY <1>3, PaidScoreFalls
<1>7. QED
  BY <1>3, <1>4, <1>5, <1>6

LEMMA WeightsAre ==
  ASSUME NEW mode \in Mode
  PROVE  Weights(mode) \in {<<30, 30, 20, 20>>, <<15, 15, 10, 60>>, <<15, 15, 60, 10>>,
                            <<40, 40, 10, 10>>}
  BY DEF Mode, Weights

\* The weighted sum, of numbers.
Weighed(w, h, s, l, c) == (h * w[1] + s * w[2] + l * w[3] + c * w[4] + 50) \div 100

LEMMA WeighedRises ==
  ASSUME NEW mode \in Mode, NEW h \in Nat, NEW s \in Nat, NEW l \in Nat, NEW c \in Nat,
         NEW t \in Nat, NEW m \in Nat, NEW d \in Nat, s <= t, l <= m, c <= d
  PROVE  /\ Weighed(Weights(mode), h, s, l, c) \in Nat
         /\ Weighed(Weights(mode), h, s, l, c) <= Weighed(Weights(mode), h, t, m, d)
<1>1. CASE Weights(mode) = <<30, 30, 20, 20>>
  BY <1>1 DEF Weighed
<1>2. CASE Weights(mode) = <<15, 15, 10, 60>>
  BY <1>2 DEF Weighed
<1>3. CASE Weights(mode) = <<15, 15, 60, 10>>
  BY <1>3 DEF Weighed
<1>4. CASE Weights(mode) = <<40, 40, 10, 10>>
  BY <1>4 DEF Weighed
<1>5. QED
  BY <1>1, <1>2, <1>3, <1>4, WeightsAre

Health(c) == IF c.healthy THEN 10000 ELSE 0

\* A candidate that is at least as good in all respects scores no less.
LEMMA ScoreRises ==
  ASSUME NEW pool, PoolOK(pool), NEW mode \in Mode, NEW c \in pool, NEW d \in pool,
         c.healthy = d.healthy, c.success >= d.success, c.latency <= d.latency,
         c.cost <= d.cost
  PROVE  /\ Score(d, pool, Weights(mode)) \in Nat
         /\ Score(d, pool, Weights(mode)) <= Score(c, pool, Weights(mode))
<1>1. PICK i \in Nat : i = LatencyScore(c, pool)
  BY LatencyScoreIs
<1>2. PICK j \in Nat : j = LatencyScore(d, pool)
  BY LatencyScoreIs
<1>3. PICK a \in Nat : a = CostScore(c, pool)
  BY CostScoreFalls
<1>4. PICK b \in Nat : b = CostScore(d, pool)
  BY CostScoreFalls
<1>5. j <= i /\ b <= a
  BY <1>1, <1>2, <1>3, <1>4, LatencyScoreFalls, CostScoreFalls
<1>6. PICK s \in Nat : s = c.success
  BY DEF PoolOK, CandidateOK
<1>7. PICK t \in Nat : t = d.success
  BY DEF PoolOK, CandidateOK
<1>8. PICK h \in Nat : h = Health(c) /\ h = Health(d)
  BY DEF Health
<1>9. PICK w : w = Weights(mode)
  OBVIOUS
<1>10. /\ Score(c, pool, w) = Weighed(w, h, s, i, a)
       /\ Score(d, pool, w) = Weighed(w, h, t, j, b)
  <2>1. \A e : Score(e, pool, w) = Weighed(w, Health(e), e.success, LatencyScore(e, pool),
                                          CostScore(e, pool))
    BY DEF Score, Weighed, Health
  <2>2. QED
    BY <1>1, <1>2, <1>3, <1>4, <1>6, <1>7, <1>8, <2>1
<1>11. t <= s
  BY <1>6, <1>7
<1>12. /\ Weighed(Weights(mode), h, t, j, b) \in Nat
       /\ Weighed(Weights(mode), h, t, j, b) <= Weighed(Weights(mode), h, s, i, a)
  BY <1>5, <1>11, WeighedRises
<1>13. QED
  BY <1>9, <1>10, <1>12

LEMMA ScoreIs ==
  ASSUME NEW pool, PoolOK(pool), NEW mode \in Mode, NEW c \in pool
  PROVE  Score(c, pool, Weights(mode)) \in Nat
<1>1. c.success \in Nat /\ c.latency \in Nat /\ c.cost \in Nat
  BY DEF PoolOK, CandidateOK
<1>2. c.success >= c.success /\ c.latency <= c.latency /\ c.cost <= c.cost
  BY <1>1
<1>3. QED
  BY <1>2, ScoreRises

\* The parts of a sort key.
LEMMA SortKeyIs ==
  ASSUME NEW pool, PoolOK(pool), NEW mode \in Mode, NEW c \in pool
  PROVE  LET k == SortKey(c, pool, Weights(mode))
         IN  /\ k \in Keys
             /\ k[1] = -Score(c, pool, Weights(mode))
             /\ k[2] = IF c.healthy THEN 0 ELSE 1
             /\ k[3] = -c.success /\ k[4] = c.latency /\ k[5] = c.cost
             /\ k[6] = Before[c.target]
<1>1. PICK n \in Nat : n = Score(c, pool, Weights(mode))
  BY ScoreIs
<1>2. PICK h \in {0, 1} : h = IF c.healthy THEN 0 ELSE 1
  OBVIOUS
<1>3. PICK s \in Nat : s = c.success
  BY DEF PoolOK, CandidateOK
<1>4. PICK l \in Nat : l = c.latency
  BY DEF PoolOK, CandidateOK
<1>5. PICK p \in Nat : p = c.cost
  BY DEF PoolOK, CandidateOK
<1>6. PICK b \in Nat : b = Before[c.target]
  BY RoutingAssumption DEF PoolOK, CandidateOK, RoutingAssumption
<1>7. SortKey(c, pool, Weights(mode)) = <<-n, h, -s, l, p, b>>
  BY <1>1, <1>2, <1>3, <1>4, <1>5, <1>6 DEF SortKey
<1>8. <<-n, h, -s, l, p, b>> \in Keys
  BY DEF Keys
<1>9. QED
  BY <1>1, <1>2, <1>3, <1>4, <1>5, <1>6, <1>7, <1>8

\* The engine's choice: it is a candidate, and it precedes all the others.
LEMMA BestIs ==
  ASSUME NEW pool, PoolOK(pool), pool # {}, NEW mode \in Mode
  PROVE  LET w == Weights(mode)
             best == Best(pool, w)
         IN  /\ best \in pool
             /\ \A d \in pool \ {best} : Precedes(SortKey(best, pool, w), SortKey(d, pool, w))
<1>1. PICK w : w = Weights(mode)
  OBVIOUS
<1> DEFINE key(c) == SortKey(c, pool, w)
           R == {e \in pool \X pool : Precedes(key(e[1]), key(e[2]))}
<1>2. \A c \in pool : key(c) \in Keys /\ key(c)[6] = Before[c.target]
  BY <1>1, SortKeyIs
<1>3. \A c, d \in pool : c # d => key(c)[6] # key(d)[6]
  BY <1>2, RoutingAssumption DEF PoolOK, CandidateOK, RoutingAssumption
<1>4. \A c, d \in pool : <<c, d>> \in R <=> Precedes(key(c), key(d))
  OBVIOUS
<1> HIDE DEF R, key
<1>5. Total(R, pool)
  <2>1. ASSUME NEW c \in pool, NEW d \in pool, c # d
        PROVE  Precedes(key(c), key(d)) \/ Precedes(key(d), key(c))
    BY <1>2, <1>3, <2>1, PrecedesTotal
  <2>2. QED
    BY <1>4, <2>1 DEF Total
<1>6. Chained(R, pool)
  <2>1. ASSUME NEW a \in pool, NEW b \in pool, NEW c \in pool,
               Precedes(key(a), key(b)), Precedes(key(b), key(c))
        PROVE  Precedes(key(a), key(c))
    BY <1>2, <2>1, PrecedesChained
  <2>2. QED
    BY <1>4, <2>1 DEF Chained
<1>7. \E c \in pool : Leads(R, pool, c)
  BY <1>5, <1>6, FirstOf DEF PoolOK
<1>8. \E c \in pool : \A d \in pool \ {c} : Precedes(key(c), key(d))
  BY <1>4, <1>7 DEF Leads
<1>9. /\ Best(pool, w) \in pool
      /\ \A d \in pool \ {Best(pool, w)} : Precedes(key(Best(pool, w)), key(d))
  BY <1>8 DEF Best, key
<1>10. QED
  BY <1>1, <1>9 DEF key

\* The choice is not beaten: what is at least as good in success rate,
\* latency and cost, among candidates of one health, is equally good.
LEMMA BestUndominated ==
  ASSUME NEW pool, PoolOK(pool), NEW mode \in Mode, NEW c \in pool,
         \A d \in pool : d.healthy = c.healthy,
         NEW best, best = Best(pool, Weights(mode)),
         c.success >= best.success, c.latency <= best.latency, c.cost <= best.cost
  PROVE  c.success = best.success /\ c.latency = best.latency /\ c.cost = best.cost
<1>1. /\ best \in pool
      /\ \A d \in pool \ {best} :
           Precedes(SortKey(best, pool, Weights(mode)), SortKey(d, pool, Weights(mode)))
  BY BestIs
<1>2. CASE c = best
  BY <1>2
<1>3. CASE c # best
  <2>1. PICK k \in Keys : /\ k = SortKey(best, pool, Weights(mode))
                          /\ k[1] = -Score(best, pool, Weights(mode))
                          /\ k[2] = IF best.healthy THEN 0 ELSE 1
                          /\ k[3] = -best.success /\ k[4] = best.latency
                          /\ k[5] = best.cost
    BY <1>1, SortKeyIs
  <2>2. PICK l \in Keys : /\ l = SortKey(c, pool, Weights(mode))
                          /\ l[1] = -Score(c, pool, Weights(mode))
                          /\ l[2] = IF c.healthy THEN 0 ELSE 1
                          /\ l[3] = -c.success /\ l[4] = c.latency
                          /\ l[5] = c.cost
    BY SortKeyIs
  <2>3. Precedes(k, l)
    BY <1>1, <1>3, <2>1, <2>2
  <2>4. PICK i \in Nat : i = Score(best, pool, Weights(mode))
    BY <1>1, ScoreIs
  <2>5. PICK j \in Nat : j = Score(c, pool, Weights(mode))
    BY ScoreIs
  <2>6. i <= j
    BY <1>1, <2>4, <2>5, ScoreRises
  <2>7. k[2] = l[2] /\ l[1] <= k[1]
    BY <1>1, <2>1, <2>2, <2>4, <2>5, <2>6
  <2>8. /\ c.success \in Nat /\ c.latency \in Nat /\ c.cost \in Nat
        /\ best.success \in Nat /\ best.latency \in Nat /\ best.cost \in Nat
    BY <1>1 DEF PoolOK, CandidateOK
  <2>9. l[3] <= k[3] /\ l[4] <= k[4] /\ l[5] <= k[5]
    BY <2>1, <2>2, <2>8
  <2>10. /\ k[1] \in Int /\ l[1] \in Int /\ k[3] \in Int /\ l[3] \in Int
         /\ k[2] \in Int /\ l[2] \in Int
         /\ k[4] \in Int /\ l[4] \in Int /\ k[5] \in Int /\ l[5] \in Int
    BY DEF Keys
  <2>11. k[3] = l[3] /\ k[4] = l[4] /\ k[5] = l[5]
    BY <2>3, <2>7, <2>9, <2>10, PrecedesIs
  <2>12. QED
    BY <2>1, <2>2, <2>8, <2>11
<1>4. QED
  BY <1>2, <1>3

\* Statistics give a success rate and a latency.
StatsOK(s) ==
    \E measured \in SUBSET (Nat \ {0}) :
      s \in [outcomes : Seq(BOOLEAN), latencies : Seq(measured)]

LEMMA SuccessRateIs ==
  ASSUME NEW s, StatsOK(s)
  PROVE  SuccessRate(s) \in Nat
<1>1. CASE s.outcomes = << >>
  BY <1>1 DEF SuccessRate
<1>2. CASE s.outcomes # << >>
  <2>1. PICK n \in Nat \ {0} : n = Len(s.outcomes)
    BY <1>2 DEF StatsOK
  <2>2. IsFiniteSet(1 .. n)
    BY FS_Interval
  <2>3. PICK m \in Nat : m = Cardinality({i \in 1 .. n : s.outcomes[i]})
    <3>1. {i \in 1 .. n : s.outcomes[i]} \in SUBSET (1 .. n)
      OBVIOUS
    <3>2. IsFiniteSet({i \in 1 .. n : s.outcomes[i]})
      BY <2>2, <3>1, FS_Subset
    <3>3. QED
      BY <3>2, FS_CardinalityType
  <2>4. PICK k \in Nat : k = 10000 * m
    OBVIOUS
  <2>5. k \div n \in Nat
    BY DivIs
  <2>6. QED
    BY <1>2, <2>1, <2>3, <2>4, <2>5 DEF SuccessRate
<1>3. QED
  BY <1>1, <1>2

LEMMA LatencyIs ==
  ASSUME NEW s, StatsOK(s), NEW b \in Nat \ {0}
  PROVE  Latency(s, b) \in Nat \ {0}
<1>1. CASE s.latencies = << >>
  BY <1>1 DEF Latency
<1>2. CASE s.latencies # << >>
  <2>1. PICK F : F = s.latencies
    OBVIOUS
  <2>2. PICK n \in Nat \ {0} : n = Len(F)
    BY <1>2, <2>1 DEF StatsOK
  <2>3. \A i \in 1 .. n : F[i] \in Nat \ {0}
    <3>1. PICK measured \in SUBSET (Nat \ {0}) :
            s \in [outcomes : Seq(BOOLEAN), latencies : Seq(measured)]
      BY DEF StatsOK
    <3>2. F \in Seq(measured)
      BY <2>1, <3>1
    <3>3. \A i \in 1 .. Len(F) : F[i] \in measured
      BY <3>2
    <3>4. QED
      BY <2>2, <3>3
  <2>4. IsFiniteSet(1 .. n) /\ Cardinality(1 .. n) = n
    BY FS_Interval
  <2>5. PICK m \in Nat : m = SumOver(F, 1 .. n) /\ m >= n
    BY <2>3, <2>4, SumAtLeast
  <2>6. n * 1 <= m
    BY <2>5
  <2>7. m \div n \in Nat /\ m \div n >= 1
    BY <2>6, DivIs, DivMost
  <2>8. Latency(s, b) = m \div n
    BY <1>2, <2>1, <2>2, <2>5 DEF Latency, SumOver
  <2>9. QED
    BY <2>7, <2>8
<1>3. QED
  BY <1>1, <1>2

LEMMA MetaIs ==
  ASSUME NEW t \in Target
  PROVE  MetaOf(t) \in MetaRecord
<1>1. t[1] \in Provider
  BY DEF Target
<1>2. CASE t \in DOMAIN Meta
  BY <1>2, RoutingAssumption DEF MetaOf, RoutingAssumption
<1>3. CASE t \notin DOMAIN Meta /\ InCatalog(t)
  <2>1. BareTarget(t) \in DOMAIN Meta
    BY <1>3 DEF InCatalog
  <2>2. QED
    BY <1>3, <2>1, RoutingAssumption DEF MetaOf, RoutingAssumption
<1>4. CASE t \notin DOMAIN Meta /\ ~InCatalog(t)
  BY <1>1, <1>4, RoutingAssumption DEF MetaOf, RoutingAssumption
<1>5. QED
  BY <1>2, <1>3, <1>4

\* build_candidates makes a pool.
LEMMA CandidatesAre ==
  ASSUME NEW registered, NEW healthy, NEW listing, NEW st,
         \A t \in Target : StatsOK(st[t])
  PROVE  PoolOK(Candidates(registered, healthy, listing, st))
<1> DEFINE offered == Offered(registered, listing)
           pool == Candidates(registered, healthy, listing, st)
           f == [t \in offered |-> Candidate(t, healthy, st)]
<1>1. IsFiniteSet(Target)
  BY FS_Product, RoutingAssumption DEF Target, RoutingAssumption
<1>2. offered \in SUBSET Target
  BY DEF Offered
<1>3. IsFiniteSet(offered)
  BY <1>1, <1>2, FS_Subset
<1>4. f \in Surjection(offered, pool)
  BY DEF Surjection, Candidates
<1>5. IsFiniteSet(pool)
  BY <1>3, <1>4, FS_Surjection
<1>6. ASSUME NEW c \in pool PROVE CandidateOK(c) /\ c = Candidate(c.target, healthy, st)
  <2>1. PICK t \in Target : c = Candidate(t, healthy, st)
    BY <1>2 DEF Candidates
  <2>2. /\ c.target = t /\ c.caps = MetaOf(t).caps /\ c.cost = MetaOf(t).cost
        /\ c.healthy = (t[1] \in healthy) /\ c.success = SuccessRate(st[t])
        /\ c.latency = Latency(st[t], MetaOf(t).latency)
    BY <2>1 DEF Candidate
  <2>3. MetaOf(t).cost \in Nat /\ MetaOf(t).latency \in Nat \ {0}
    BY MetaIs DEF MetaRecord
  <2>4. c.success \in Nat /\ c.latency \in Nat \ {0}
    BY <2>2, <2>3, SuccessRateIs, LatencyIs
  <2>5. c.healthy \in BOOLEAN
    BY <2>2
  <2>6. QED
    BY <2>1, <2>2, <2>3, <2>4, <2>5 DEF CandidateOK
<1>7. \A c, d \in pool : c.target = d.target => c = d
  BY <1>6
<1>8. QED
  BY <1>5, <1>6, <1>7 DEF PoolOK

-----------------------------------------------------------------------------
(* Experiments.                                                            *)

ArmsOK(arms) == /\ Len(arms) \in Nat
                /\ \A i \in 1 .. Len(arms) : arms[i].weight \in Int

Share == BucketSize \div 100
WeightOf(arms) == [i \in 1 .. Len(arms) |-> arms[i].weight]
BucketsOf(arms) == [i \in 1 .. Len(arms) |-> arms[i].weight * Share]

LEMMA ShareIs == Share \in Nat \ {0} /\ 100 * Share = BucketSize
  BY BucketAssumption DEF Share, BucketAssumption

WeightStep(arms, g, s) ==
    IF s = {} THEN 0 ELSE arms[AnyOf(s)].weight + g[s \ {AnyOf(s)}]

LEMMA WeightSum ==
  ASSUME NEW arms, NEW S, IsFiniteSet(S), S \subseteq 1 .. Len(arms)
  PROVE  MapThenSumSet(LAMBDA i : arms[i].weight, S) = SumOver(WeightOf(arms), S)
<1>1. PICK F : F = WeightOf(arms)
  OBVIOUS
<1>2. PICK h : h = CHOOSE g : g = [s \in SUBSET S |-> WeightStep(arms, g, s)]
  OBVIOUS
<1>3. MapThenSumSet(LAMBDA i : arms[i].weight, S) = h[S]
  BY <1>2 DEF MapThenSumSet, MapThenFoldSet, WeightStep, AnyOf
<1>4. ASSUME NEW g, NEW s \in SUBSET S PROVE WeightStep(arms, g, s) = SumStep(F, g, s)
  <2>1. CASE s = {}
    BY <2>1 DEF WeightStep, SumStep
  <2>2. CASE s # {}
    <3>1. AnyOf(s) \in 1 .. Len(arms)
      BY <2>2 DEF AnyOf
    <3>2. F[AnyOf(s)] = arms[AnyOf(s)].weight
      BY <1>1, <3>1 DEF WeightOf
    <3>3. QED
      BY <2>2, <3>2 DEF WeightStep, SumStep
  <2>3. QED
    BY <2>1, <2>2
<1>5. \E g : g = [s \in SUBSET S |-> WeightStep(arms, g, s)]
  <2>1. PICK g : g = [s \in SUBSET S |-> SumStep(F, g, s)]
    BY SumsExist
  <2>2. g = [s \in SUBSET S |-> WeightStep(arms, g, s)]
    BY <1>4, <2>1
  <2>3. QED
    BY <2>2
<1>6. h = [s \in SUBSET S |-> WeightStep(arms, h, s)]
  BY <1>2, <1>5
<1>7. \A s \in SUBSET S : h[s] = WeightStep(arms, h, s)
  BY <1>6
<1>8. SumsBy(F, S, h)
  BY <1>4, <1>7 DEF SumsBy
<1>9. QED
  BY <1>1, <1>3, <1>8, SumOf

BucketStep(arms, g, s) ==
    IF s = {} THEN 0 ELSE arms[AnyOf(s)].weight * Share + g[s \ {AnyOf(s)}]

LEMMA BucketSum ==
  ASSUME NEW arms, NEW n, IsFiniteSet(1 .. n), 1 .. n \subseteq 1 .. Len(arms)
  PROVE  Cumulative(arms, n) = SumOver(BucketsOf(arms), 1 .. n)
<1>1. PICK F : F = BucketsOf(arms)
  OBVIOUS
<1>2. PICK S : S = 1 .. n
  OBVIOUS
<1>3. PICK h : h = CHOOSE g : g = [s \in SUBSET S |-> BucketStep(arms, g, s)]
  OBVIOUS
<1>4. Cumulative(arms, n) = h[S]
  BY <1>2, <1>3 DEF Cumulative, MapThenSumSet, MapThenFoldSet, BucketStep, AnyOf, Share
<1>5. ASSUME NEW g, NEW s \in SUBSET S PROVE BucketStep(arms, g, s) = SumStep(F, g, s)
  <2>1. CASE s = {}
    BY <2>1 DEF BucketStep, SumStep
  <2>2. CASE s # {}
    <3>1. AnyOf(s) \in 1 .. Len(arms)
      BY <1>2, <2>2 DEF AnyOf
    <3>2. F[AnyOf(s)] = arms[AnyOf(s)].weight * Share
      BY <1>1, <3>1 DEF BucketsOf
    <3>3. QED
      BY <2>2, <3>2 DEF BucketStep, SumStep
  <2>3. QED
    BY <2>1, <2>2
<1>6. \E g : g = [s \in SUBSET S |-> BucketStep(arms, g, s)]
  <2>0. IsFiniteSet(S)
    BY <1>2
  <2>1. PICK g : g = [s \in SUBSET S |-> SumStep(F, g, s)]
    BY <2>0, SumsExist
  <2>2. g = [s \in SUBSET S |-> BucketStep(arms, g, s)]
    BY <1>5, <2>1
  <2>3. QED
    BY <2>2
<1>7. h = [s \in SUBSET S |-> BucketStep(arms, h, s)]
  BY <1>3, <1>6
<1>8. \A s \in SUBSET S : h[s] = BucketStep(arms, h, s)
  BY <1>7
<1>9. SumsBy(F, S, h)
  BY <1>5, <1>8 DEF SumsBy
<1>10. QED
  BY <1>1, <1>2, <1>4, <1>9, SumOf

\* The thresholds rise from arm to arm.
LEMMA CumulativeIs ==
  ASSUME NEW arms, ArmsOK(arms), \A i \in 1 .. Len(arms) : arms[i].weight > 0
  PROVE  /\ Cumulative(arms, 0) = 0
         /\ \A n \in 0 .. Len(arms) : Cumulative(arms, n) \in Nat
         /\ \A n \in 1 .. Len(arms) :
              Cumulative(arms, n) = Cumulative(arms, n - 1) + arms[n].weight * Share
         /\ \A m, n \in 0 .. Len(arms) : m <= n => Cumulative(arms, m) <= Cumulative(arms, n)
<1>1. PICK F : F = BucketsOf(arms)
  OBVIOUS
<1>2. PICK len \in Nat : len = Len(arms)
  BY DEF ArmsOK
<1>3. \A i \in 1 .. len : F[i] \in Nat /\ F[i] = arms[i].weight * Share
  <2>1. ASSUME NEW i \in 1 .. len PROVE F[i] \in Nat /\ F[i] = arms[i].weight * Share
    <3>1. F[i] = arms[i].weight * Share
      BY <1>1, <1>2 DEF BucketsOf
    <3>2. PICK w \in Nat : w = arms[i].weight
      BY <1>2 DEF ArmsOK
    <3>3. PICK k \in Nat : k = Share
      BY ShareIs
    <3>4. w * k \in Nat
      OBVIOUS
    <3>5. QED
      BY <3>1, <3>2, <3>3, <3>4
  <2>2. QED
    BY <2>1
<1>4. \A n \in 0 .. len : /\ IsFiniteSet(1 .. n) /\ 1 .. n \subseteq 1 .. len
                          /\ Cumulative(arms, n) = SumOver(F, 1 .. n)
  <2>1. ASSUME NEW n \in 0 .. len
        PROVE  /\ IsFiniteSet(1 .. n) /\ 1 .. n \subseteq 1 .. len
               /\ Cumulative(arms, n) = SumOver(F, 1 .. n)
    <3>1. IsFiniteSet(1 .. n)
      <4>1. n \in Int /\ 1 \in Int
        OBVIOUS
      <4>2. QED
        BY <4>1, FS_Interval
    <3>2. 1 .. n \subseteq 1 .. len /\ 1 .. n \subseteq 1 .. Len(arms)
      BY <1>2
    <3>3. Cumulative(arms, n) = SumOver(BucketsOf(arms), 1 .. n)
      BY <3>1, <3>2, BucketSum
    <3>4. QED
      BY <1>1, <3>1, <3>2, <3>3
  <2>2. QED
    BY <2>1
<1>5. Cumulative(arms, 0) = 0
  <2>1. 1 .. 0 = {}
    OBVIOUS
  <2>2. Cumulative(arms, 0) = SumOver(F, 1 .. 0)
    BY <1>4
  <2>3. QED
    BY <2>1, <2>2, SumEmpty
<1>6. ASSUME NEW n \in 0 .. len PROVE Cumulative(arms, n) \in Nat
  <2>1. \A i \in 1 .. n : F[i] \in Nat
    BY <1>3
  <2>2. QED
    BY <1>4, <2>1, SumNat
<1>7. ASSUME NEW n \in 1 .. len
      PROVE  Cumulative(arms, n) = Cumulative(arms, n - 1) + arms[n].weight * Share
  <2>1. PICK S : S = 1 .. n
    OBVIOUS
  <2>2. IsFiniteSet(S) /\ n \in S /\ \A i \in S : F[i] \in Int
    BY <1>3, <1>4, <2>1
  <2>3. SumOver(F, S) = F[n] + SumOver(F, S \ {n})
    <3>1. IntsOn(F, S)
      BY <2>2 DEF IntsOn
    <3>2. QED
      BY <2>2, <3>1, SumTakeOne
  <2>4. S \ {n} = 1 .. n - 1
    BY <2>1
  <2>5. Cumulative(arms, n) = SumOver(F, S)
    BY <1>4, <2>1
  <2>6. Cumulative(arms, n - 1) = SumOver(F, S \ {n})
    <3>1. PICK m \in 0 .. len : m = n - 1
      OBVIOUS
    <3>2. Cumulative(arms, m) = SumOver(F, 1 .. m)
      BY <1>4
    <3>3. QED
      BY <2>4, <3>1, <3>2
  <2>7. F[n] \in Nat /\ F[n] = arms[n].weight * Share
    BY <1>3
  <2>8. Cumulative(arms, n - 1) \in Nat
    BY <1>6
  <2>9. QED
    BY <2>3, <2>5, <2>6, <2>7, <2>8
<1>8. ASSUME NEW m \in 0 .. len, NEW n \in 0 .. len, m <= n
      PROVE  Cumulative(arms, m) <= Cumulative(arms, n)
  <2>1. PICK P, S : P = 1 .. m /\ S = 1 .. n
    OBVIOUS
  <2>2. P \in SUBSET S /\ IsFiniteSet(S) /\ \A i \in S : F[i] \in Nat
    BY <1>3, <1>4, <1>8, <2>1
  <2>3. SumOver(F, P) <= SumOver(F, S)
    BY <2>2, SumPart
  <2>4. QED
    BY <1>4, <2>1, <2>3
<1>9. QED
  BY <1>2, <1>5, <1>6, <1>7, <1>8

\* The arms share out all the buckets.
LEMMA CumulativeAll ==
  ASSUME NEW arms, ArmsOK(arms), ValidArms(arms)
  PROVE  Cumulative(arms, Len(arms)) = BucketSize
<1>1. PICK F, H : F = WeightOf(arms) /\ H = BucketsOf(arms)
  OBVIOUS
<1>2. PICK S : S = 1 .. Len(arms)
  OBVIOUS
<1>3. IsFiniteSet(S) /\ S \subseteq 1 .. Len(arms)
  BY <1>2, FS_Interval DEF ArmsOK
<1>4. SumOver(F, S) = 100
  <2>1. MapThenSumSet(LAMBDA i : arms[i].weight, S) = 100
    BY <1>2 DEF ValidArms
  <2>2. MapThenSumSet(LAMBDA i : arms[i].weight, S) = SumOver(WeightOf(arms), S)
    BY <1>3, WeightSum
  <2>3. QED
    BY <1>1, <2>1, <2>2
<1>5. PICK k \in Nat : k = Share
  BY ShareIs
<1>6. \A i \in S : F[i] \in Int /\ H[i] = k * F[i]
  BY <1>1, <1>2, <1>5 DEF ArmsOK, WeightOf, BucketsOf
<1>7. SumOver(H, S) = k * SumOver(F, S)
  <2>1. TimesOn(k, F, H, S)
    BY <1>6 DEF TimesOn
  <2>2. QED
    BY <1>3, <2>1, SumTimesOn
<1>8. Cumulative(arms, Len(arms)) = SumOver(H, S)
  BY <1>1, <1>2, <1>3, BucketSum
<1>9. QED
  BY <1>4, <1>5, <1>7, <1>8, ShareIs

\* _select_arm gives an arm, the one whose stretch of buckets the bucket is in.
LEMMA SelectArmIs ==
  ASSUME NEW arms, ArmsOK(arms), ValidArms(arms), NEW b \in 0 .. BucketSize - 1
  PROVE  /\ SelectArm(arms, b) \in 1 .. Len(arms)
         /\ \A n \in 1 .. Len(arms) :
              SelectArm(arms, b) = n <=>
                Cumulative(arms, n - 1) <= b /\ b < Cumulative(arms, n)
<1>1. PICK len \in Nat : len = Len(arms) /\ len >= 2
  BY DEF ArmsOK, ValidArms
<1>2. /\ Cumulative(arms, 0) = 0
      /\ \A n \in 0 .. len : Cumulative(arms, n) \in Nat
      /\ \A m, n \in 0 .. len : m <= n => Cumulative(arms, m) <= Cumulative(arms, n)
  BY <1>1, CumulativeIs DEF ValidArms
<1>3. Cumulative(arms, len) = BucketSize
  BY <1>1, CumulativeAll
<1> DEFINE T == {n \in 1 .. len : b < Cumulative(arms, n)}
<1>4. b \in Nat /\ b < BucketSize
  BY BucketAssumption DEF BucketAssumption
<1>5. T \in SUBSET Nat /\ len \in T
  BY <1>1, <1>3, <1>4
<1>6. PICK n \in T : \A m \in T : n <= m
  BY <1>5, LeastOf
<1>7. n \in 1 .. len /\ b < Cumulative(arms, n) /\ \A m \in 1 .. n - 1 : b >= Cumulative(arms, m)
  <2>1. ASSUME NEW m \in 1 .. n - 1 PROVE b >= Cumulative(arms, m)
    <3>1. m \notin T /\ m \in 1 .. len /\ Cumulative(arms, m) \in Nat
      BY <1>2, <1>6
    <3>2. QED
      BY <1>4, <3>1
  <2>2. QED
    BY <1>6, <2>1
<1>8. PICK a : a = SelectArm(arms, b)
  OBVIOUS
<1>9. /\ a \in 1 .. len /\ b < Cumulative(arms, a)
      /\ \A m \in 1 .. a - 1 : b >= Cumulative(arms, m)
  BY <1>1, <1>7, <1>8 DEF SelectArm
<1>10. Cumulative(arms, a - 1) <= b
  <2>1. CASE a = 1
    BY <1>2, <1>4, <2>1
  <2>2. CASE a # 1
    <3>1. a - 1 \in 1 .. a - 1 /\ a - 1 \in 0 .. len
      BY <1>9, <2>2
    <3>2. b >= Cumulative(arms, a - 1) /\ Cumulative(arms, a - 1) \in Nat
      BY <1>2, <1>9, <3>1
    <3>3. QED
      BY <1>4, <3>2
  <2>3. QED
    BY <2>1, <2>2
<1>11. ASSUME NEW i \in 1 .. len, Cumulative(arms, i - 1) <= b, b < Cumulative(arms, i)
       PROVE  a = i
  <2>1. /\ Cumulative(arms, i) \in Nat /\ Cumulative(arms, i - 1) \in Nat
        /\ Cumulative(arms, a) \in Nat /\ Cumulative(arms, a - 1) \in Nat
    BY <1>2, <1>9
  <2>2. ASSUME a < i PROVE FALSE
    <3>1. Cumulative(arms, a) <= Cumulative(arms, i - 1)
      BY <1>2, <1>9, <2>2
    <3>2. QED
      BY <1>4, <1>9, <1>11, <2>1, <3>1
  <2>3. ASSUME i < a PROVE FALSE
    <3>1. Cumulative(arms, i) <= Cumulative(arms, a - 1)
      BY <1>2, <1>9, <2>3
    <3>2. QED
      BY <1>4, <1>10, <1>11, <2>1, <3>1
  <2>4. QED
    BY <1>9, <2>2, <2>3
<1>12. QED
  BY <1>1, <1>8, <1>9, <1>10, <1>11

\* An experiment as a policy carries it: its arms are typed, and valid where
\* they are looked at.
ExperimentOK(e) ==
    /\ e.on \in BOOLEAN /\ ArmsOK(e.arms)
    /\ e.on => ValidArms(e.arms)

LEMMA AssignIs ==
  ASSUME NEW e, ExperimentOK(e), NEW b \in 0 .. BucketSize - 1
  PROVE  Assign(e, b) \in 0 .. Len(e.arms)
<1>1. Len(e.arms) \in Nat
  BY DEF ExperimentOK, ArmsOK
<1>2. CASE ~e.on \/ e.arms = << >>
  BY <1>1, <1>2 DEF Assign
<1>3. CASE e.on /\ e.arms # << >>
  <2>1. SelectArm(e.arms, b) \in 1 .. Len(e.arms)
    BY <1>3, SelectArmIs DEF ExperimentOK
  <2>2. QED
    BY <1>1, <1>3, <2>1 DEF Assign
<1>4. QED
  BY <1>2, <1>3

\* Each arm has its share of the buckets.
LEMMA ShareOfArm ==
  ASSUME NEW e, ExperimentOK(e), e.on, NEW n \in 1 .. Len(e.arms)
  PROVE  100 * Cardinality({b \in 0 .. BucketSize - 1 : Assign(e, b) = n})
           = e.arms[n].weight * BucketSize
<1>1. PICK arms : arms = e.arms
  OBVIOUS
<1>2. ArmsOK(arms) /\ ValidArms(arms)
  BY <1>1 DEF ExperimentOK
<1>3. PICK len \in Nat : len = Len(arms)
  BY <1>2 DEF ArmsOK
<1>4. n \in 1 .. len /\ n - 1 \in 0 .. len /\ len \in 0 .. len /\ n \in 0 .. len
  BY <1>1, <1>3
<1>5. e.arms # << >>
  BY <1>1, <1>3, <1>4
<1>6. PICK lo \in Nat : lo = Cumulative(arms, n - 1)
  BY <1>2, <1>3, <1>4, CumulativeIs DEF ValidArms
<1>7. PICK hi \in Nat : hi = Cumulative(arms, n)
  BY <1>2, <1>3, <1>4, CumulativeIs DEF ValidArms
<1>8. PICK w \in Nat : w = arms[n].weight
  BY <1>2, <1>3, <1>4 DEF ArmsOK, ValidArms
<1>9. PICK k \in Nat : k = Share
  BY ShareIs
<1>10. hi = lo + w * k
  <2>1. Cumulative(arms, n) = Cumulative(arms, n - 1) + arms[n].weight * Share
    <3>1. \A i \in 1 .. Len(arms) : arms[i].weight > 0
      BY <1>2 DEF ValidArms
    <3>2. \A i \in 1 .. Len(arms) :
            Cumulative(arms, i) = Cumulative(arms, i - 1) + arms[i].weight * Share
      BY <1>2, <3>1, CumulativeIs
    <3>3. QED
      BY <1>3, <1>4, <3>2
  <2>2. QED
    BY <1>6, <1>7, <1>8, <1>9, <2>1
<1>11. hi <= BucketSize
  <2>1. Cumulative(arms, n) <= Cumulative(arms, len)
    BY <1>2, <1>3, <1>4, CumulativeIs DEF ValidArms
  <2>2. Cumulative(arms, len) = BucketSize
    BY <1>2, <1>3, CumulativeAll
  <2>3. QED
    BY <1>7, <2>1, <2>2
<1>12. {b \in 0 .. BucketSize - 1 : Assign(e, b) = n} = lo .. hi - 1
  <2>1. ASSUME NEW b \in 0 .. BucketSize - 1
        PROVE  Assign(e, b) = n <=> lo <= b /\ b < hi
    <3>1. Assign(e, b) = SelectArm(arms, b)
      BY <1>1, <1>5 DEF Assign
    <3>2. SelectArm(arms, b) = n <=> Cumulative(arms, n - 1) <= b /\ b < Cumulative(arms, n)
      BY <1>2, <1>3, <1>4, SelectArmIs
    <3>3. QED
      BY <1>6, <1>7, <3>1, <3>2
  <2>2. BucketSize \in Nat
    BY BucketAssumption DEF BucketAssumption
  <2>3. QED
    BY <1>11, <2>1, <2>2
<1>13. Cardinality(lo .. hi - 1) = w * k
  <2>1. w * k \in Nat
    OBVIOUS
  <2>2. Cardinality(lo .. hi - 1) = IF lo > hi - 1 THEN 0 ELSE (hi - 1) - lo + 1
    BY FS_Interval
  <2>3. QED
    BY <1>10, <2>1, <2>2
<1>14. 100 * (w * k) = w * BucketSize
  <2>1. 100 * k = BucketSize
    BY <1>9, ShareIs
  <2>2. 100 * (w * k) = w * (100 * k)
    OBVIOUS
  <2>3. QED
    BY <2>1, <2>2
<1>15. QED
  BY <1>1, <1>8, <1>12, <1>13, <1>14

-----------------------------------------------------------------------------
(* Types: proper records.                                                  *)

OnItsWay == {"lookup", "price", "reserve", "call", "settle"}

\* The fields of a request one by one.
Pc == {"limit", "route", "lookup", "price", "reserve", "call", "settle", "answered", "failed"}
Resolvable == {Merge(raw) : raw \in Policies} \cup {GlobalDefault}
Last == (Provider \X Failing) \cup {NoAnswer}
Status == {0, 200, 400, 402, 404, 429, 500, 502, 503, 504}

Typed(x) ==
    /\ Shaped(x)
    /\ x.pc \in Pc /\ x.q \in Question /\ x.policy \in Resolvable
    /\ x.read \in BOOLEAN /\ x.stored \in SUBSET Policies
    /\ x.target \in Target \cup {NoTarget} /\ x.tried \in SUBSET Provider
    /\ x.last \in Last /\ x.arm \in Nat
    /\ x.counted \in BOOLEAN /\ x.called \in BOOLEAN /\ x.held \in Nat
    /\ x.hit \in BOOLEAN /\ x.status \in Status

RecordOf(pc, question, policies, stored, target, tried, last, status) ==
    [pc : pc, q : question, policy : policies, read : BOOLEAN, stored : stored,
     target : target, tried : tried, last : last, arm : Nat, counted : BOOLEAN,
     called : BOOLEAN, held : Nat, hit : BOOLEAN, status : status]

LEMMA TypedIs == ASSUME NEW x PROVE x \in RequestRecord <=> Typed(x)
<1>1. PICK pcs, ps, ts, ls, ss : /\ pcs = Pc /\ ps = Resolvable /\ ss = Status
                                 /\ ts = Target \cup {NoTarget} /\ ls = Last
  OBVIOUS
<1>2. PICK st, tr : st = SUBSET Policies /\ tr = SUBSET Provider
  OBVIOUS
<1>3. RequestRecord = RecordOf(pcs, Question, ps, st, ts, tr, ls, ss)
  BY <1>1, <1>2 DEF RequestRecord, RecordOf, Pc, Resolvable, Status, Last
<1>4. ASSUME x \in RequestRecord PROVE Typed(x)
  <2>1. x \in RecordOf(pcs, Question, ps, st, ts, tr, ls, ss)
    BY <1>3, <1>4
  <2>2. Shaped(x)
    BY <2>1 DEF RecordOf, Shaped, Fields
  <2>3. /\ x.pc \in pcs /\ x.q \in Question /\ x.policy \in ps
        /\ x.read \in BOOLEAN /\ x.stored \in st /\ x.target \in ts /\ x.tried \in tr
        /\ x.last \in ls /\ x.arm \in Nat
        /\ x.counted \in BOOLEAN /\ x.called \in BOOLEAN /\ x.held \in Nat
        /\ x.hit \in BOOLEAN /\ x.status \in ss
    BY <2>1 DEF RecordOf
  <2>4. QED
    BY <1>1, <1>2, <2>2, <2>3 DEF Typed
<1>5. ASSUME Typed(x) PROVE x \in RequestRecord
  <2>1. /\ Shaped(x)
        /\ x.pc \in pcs /\ x.q \in Question /\ x.policy \in ps
        /\ x.read \in BOOLEAN /\ x.stored \in st /\ x.target \in ts /\ x.tried \in tr
        /\ x.last \in ls /\ x.arm \in Nat
        /\ x.counted \in BOOLEAN /\ x.called \in BOOLEAN /\ x.held \in Nat
        /\ x.hit \in BOOLEAN /\ x.status \in ss
    BY <1>1, <1>2, <1>5 DEF Typed
  <2>2. x \in RecordOf(pcs, Question, ps, st, ts, tr, ls, ss)
    BY <2>1 DEF RecordOf, Shaped, Fields
  <2>3. QED
    BY <1>3, <2>2
<1>6. QED
  BY <1>4, <1>5

\* The target has what the client requires, where the engine has chosen it.
Able(x, t) == ~IsManual(x.q) /\ x.arm = 0 => x.q.caps \subseteq MetaOf(t).caps

\* The experiment of a resolved policy, with typed arms that are valid where
\* they are looked at.
Runnable(e) == e \in Experiment /\ (e.on => ValidArms(e.arms))

Proper(x) ==
    /\ Typed(x) /\ Runnable(x.policy["experiment"])
    /\ x.pc \in OnItsWay \cup {"answered"} => x.target \in Target
    /\ x.pc \in OnItsWay => Able(x, x.target)

LEMMA RefusalProper ==
  ASSUME NEW x, Proper(x), NEW s \in Status
  PROVE  Proper(Refusal(x, s))
<1> DEFINE y == Refusal(x, s)
<1>1. Shaped(x) /\ Typed(x)
  BY DEF Proper, Typed
<1>2. Same(y, x, {"pc", "status"}) /\ y.pc = "failed" /\ y.status = s
  BY <1>1, RefusalIs
<1> HIDE DEF y
<1>3. /\ Shaped(y) /\ y.q = x.q /\ y.policy = x.policy /\ y.read = x.read
      /\ y.stored = x.stored /\ y.target = x.target /\ y.tried = x.tried
      /\ y.last = x.last /\ y.arm = x.arm /\ y.counted = x.counted
      /\ y.called = x.called /\ y.held = x.held /\ y.hit = x.hit
  BY <1>2 DEF Same, Fields
<1>4. Typed(y)
  <2>1. y.pc \in Pc /\ y.status \in Status
    BY <1>1, <1>2 DEF Typed, Pc, Last, Status
  <2>2. QED
    BY <1>1, <1>3, <2>1 DEF Typed
<1>5. Proper(y)
  BY <1>2, <1>3, <1>4 DEF Proper, OnItsWay, Able
<1>6. QED
  BY <1>5 DEF y

LEMMA CountedProper ==
  ASSUME NEW x, Proper(x), x.pc = "limit"
  PROVE  Proper(Counted(x))
<1> DEFINE y == Counted(x)
<1>1. Shaped(x) /\ Typed(x)
  BY DEF Proper, Typed
<1>2. Same(y, x, {"counted"}) /\ y.counted = TRUE
  BY <1>1, CountedIs
<1> HIDE DEF y
<1>3. /\ Shaped(y) /\ y.pc = x.pc /\ y.q = x.q /\ y.policy = x.policy
      /\ y.read = x.read /\ y.stored = x.stored /\ y.target = x.target
      /\ y.tried = x.tried /\ y.last = x.last /\ y.arm = x.arm
      /\ y.called = x.called /\ y.held = x.held /\ y.hit = x.hit
      /\ y.status = x.status
  BY <1>2 DEF Same, Fields
<1>4. Typed(y)
  <2>1. y.counted \in BOOLEAN
    BY <1>1, <1>2 DEF Typed, Pc, Last, Status
  <2>2. QED
    BY <1>1, <1>3, <2>1 DEF Typed
<1>5. Proper(y)
  BY <1>2, <1>3, <1>4 DEF Proper, OnItsWay, Able
<1>6. QED
  BY <1>5 DEF y

LEMMA LimitedProper ==
  ASSUME NEW x, Proper(x), x.pc = "limit"
  PROVE  Proper(At(x, "route"))
<1> DEFINE y == At(x, "route")
<1>1. Shaped(x) /\ Typed(x)
  BY DEF Proper, Typed
<1>2. Same(y, x, {"pc"}) /\ y.pc = "route"
  BY <1>1, AtIs
<1> HIDE DEF y
<1>3. /\ Shaped(y) /\ y.q = x.q /\ y.policy = x.policy /\ y.read = x.read
      /\ y.stored = x.stored /\ y.target = x.target /\ y.tried = x.tried
      /\ y.last = x.last /\ y.arm = x.arm /\ y.counted = x.counted
      /\ y.called = x.called /\ y.held = x.held /\ y.hit = x.hit
      /\ y.status = x.status
  BY <1>2 DEF Same, Fields
<1>4. Typed(y)
  <2>1. y.pc \in Pc
    BY <1>1, <1>2 DEF Typed, Pc, Last, Status
  <2>2. QED
    BY <1>1, <1>3, <2>1 DEF Typed
<1>5. Proper(y)
  BY <1>2, <1>3, <1>4 DEF Proper, OnItsWay, Able
<1>6. QED
  BY <1>5 DEF y

LEMMA RoutedProper ==
  ASSUME NEW x, Proper(x), x.pc = "route", NEW t \in Target, Able(x, t)
  PROVE  Proper(Routed(x, t))
<1> DEFINE y == Routed(x, t)
<1>1. Shaped(x) /\ Typed(x)
  BY DEF Proper, Typed
<1>2. Same(y, x, {"pc", "target"}) /\ y.pc = "lookup" /\ y.target = t
  BY <1>1, RoutedIs
<1> HIDE DEF y
<1>3. /\ Shaped(y) /\ y.q = x.q /\ y.policy = x.policy /\ y.read = x.read
      /\ y.stored = x.stored /\ y.tried = x.tried /\ y.last = x.last
      /\ y.arm = x.arm /\ y.counted = x.counted /\ y.called = x.called
      /\ y.held = x.held /\ y.hit = x.hit /\ y.status = x.status
  BY <1>2 DEF Same, Fields
<1>4. Typed(y)
  <2>1. y.pc \in Pc /\ y.target \in Target \cup {NoTarget}
    BY <1>1, <1>2 DEF Typed, Pc, Last, Status
  <2>2. QED
    BY <1>1, <1>3, <2>1 DEF Typed
<1>5. Proper(y)
  BY <1>2, <1>3, <1>4 DEF Proper, OnItsWay, Able
<1>6. QED
  BY <1>5 DEF y

LEMMA HitProper ==
  ASSUME NEW x, Proper(x)
  PROVE  Proper(Hit(x))
<1> DEFINE y == Hit(x)
<1>1. Shaped(x) /\ Typed(x)
  BY DEF Proper, Typed
<1>2. Same(y, x, {"hit"}) /\ y.hit = TRUE
  BY <1>1, HitIs
<1> HIDE DEF y
<1>3. /\ Shaped(y) /\ y.pc = x.pc /\ y.q = x.q /\ y.policy = x.policy
      /\ y.read = x.read /\ y.stored = x.stored /\ y.target = x.target
      /\ y.tried = x.tried /\ y.last = x.last /\ y.arm = x.arm
      /\ y.counted = x.counted /\ y.called = x.called /\ y.held = x.held
      /\ y.status = x.status
  BY <1>2 DEF Same, Fields
<1>4. Typed(y)
  <2>1. y.hit \in BOOLEAN
    BY <1>1, <1>2 DEF Typed, Pc, Last, Status
  <2>2. QED
    BY <1>1, <1>3, <2>1 DEF Typed
<1>5. Proper(y)
  BY <1>2, <1>3, <1>4 DEF Proper, OnItsWay, Able
<1>6. QED
  BY <1>5 DEF y

LEMMA AnsweredProper ==
  ASSUME NEW x, Proper(x), NEW t \in Target
  PROVE  Proper(Answered(x, t))
<1> DEFINE y == Answered(x, t)
<1>1. Shaped(x) /\ Typed(x)
  BY DEF Proper, Typed
<1>2. /\ Same(y, x, {"pc", "status", "target"})
      /\ y.pc = "answered" /\ y.status = 200 /\ y.target = t
  BY <1>1, AnsweredIs
<1> HIDE DEF y
<1>3. /\ Shaped(y) /\ y.q = x.q /\ y.policy = x.policy /\ y.read = x.read
      /\ y.stored = x.stored /\ y.tried = x.tried /\ y.last = x.last
      /\ y.arm = x.arm /\ y.counted = x.counted /\ y.called = x.called
      /\ y.held = x.held /\ y.hit = x.hit
  BY <1>2 DEF Same, Fields
<1>4. Typed(y)
  <2>1. y.pc \in Pc /\ y.status \in Status /\ y.target \in Target \cup {NoTarget}
    BY <1>1, <1>2 DEF Typed, Pc, Last, Status
  <2>2. QED
    BY <1>1, <1>3, <2>1 DEF Typed
<1>5. Proper(y)
  BY <1>2, <1>3, <1>4 DEF Proper, OnItsWay, Able
<1>6. QED
  BY <1>5 DEF y

LEMMA InArmProper ==
  ASSUME NEW x, Proper(x), x.pc = "lookup", x.arm = 0, NEW n \in Nat, NEW t \in Target, n = 0 => Able(x, t)
  PROVE  Proper(InArm(x, n, t))
<1> DEFINE y == InArm(x, n, t)
<1>1. Shaped(x) /\ Typed(x)
  BY DEF Proper, Typed
<1>2. Same(y, x, {"pc", "arm", "target"}) /\ y.pc = "price" /\ y.arm = n /\ y.target = t
  BY <1>1, InArmIs
<1> HIDE DEF y
<1>3. /\ Shaped(y) /\ y.q = x.q /\ y.policy = x.policy /\ y.read = x.read
      /\ y.stored = x.stored /\ y.tried = x.tried /\ y.last = x.last
      /\ y.counted = x.counted /\ y.called = x.called /\ y.held = x.held
      /\ y.hit = x.hit /\ y.status = x.status
  BY <1>2 DEF Same, Fields
<1>4. Typed(y)
  <2>1. y.pc \in Pc /\ y.arm \in Nat /\ y.target \in Target \cup {NoTarget}
    BY <1>1, <1>2 DEF Typed, Pc, Last, Status
  <2>2. QED
    BY <1>1, <1>3, <2>1 DEF Typed
<1>5. Proper(y)
  BY <1>2, <1>3, <1>4 DEF Proper, OnItsWay, Able
<1>6. QED
  BY <1>5 DEF y

LEMMA PricedProper ==
  ASSUME NEW x, Proper(x), x.pc = "price"
  PROVE  Proper(At(x, "reserve"))
<1> DEFINE y == At(x, "reserve")
<1>1. Shaped(x) /\ Typed(x)
  BY DEF Proper, Typed
<1>2. Same(y, x, {"pc"}) /\ y.pc = "reserve"
  BY <1>1, AtIs
<1> HIDE DEF y
<1>3. /\ Shaped(y) /\ y.q = x.q /\ y.policy = x.policy /\ y.read = x.read
      /\ y.stored = x.stored /\ y.target = x.target /\ y.tried = x.tried
      /\ y.last = x.last /\ y.arm = x.arm /\ y.counted = x.counted
      /\ y.called = x.called /\ y.held = x.held /\ y.hit = x.hit
      /\ y.status = x.status
  BY <1>2 DEF Same, Fields
<1>4. Typed(y)
  <2>1. y.pc \in Pc
    BY <1>1, <1>2 DEF Typed, Pc, Last, Status
  <2>2. QED
    BY <1>1, <1>3, <2>1 DEF Typed
<1>5. Proper(y)
  BY <1>2, <1>3, <1>4 DEF Proper, OnItsWay, Able
<1>6. QED
  BY <1>5 DEF y

LEMMA DowngradedProper ==
  ASSUME NEW x, Proper(x), NEW t \in Target, Able(x, t)
  PROVE  Proper(Downgraded(x, t))
<1> DEFINE y == Downgraded(x, t)
<1>1. Shaped(x) /\ Typed(x)
  BY DEF Proper, Typed
<1>2. Same(y, x, {"pc", "target"}) /\ y.pc = "reserve" /\ y.target = t
  BY <1>1, DowngradedIs
<1> HIDE DEF y
<1>3. /\ Shaped(y) /\ y.q = x.q /\ y.policy = x.policy /\ y.read = x.read
      /\ y.stored = x.stored /\ y.tried = x.tried /\ y.last = x.last
      /\ y.arm = x.arm /\ y.counted = x.counted /\ y.called = x.called
      /\ y.held = x.held /\ y.hit = x.hit /\ y.status = x.status
  BY <1>2 DEF Same, Fields
<1>4. Typed(y)
  <2>1. y.pc \in Pc /\ y.target \in Target \cup {NoTarget}
    BY <1>1, <1>2 DEF Typed, Pc, Last, Status
  <2>2. QED
    BY <1>1, <1>3, <2>1 DEF Typed
<1>5. Proper(y)
  BY <1>2, <1>3, <1>4 DEF Proper, OnItsWay, Able
<1>6. QED
  BY <1>5 DEF y

LEMMA ReservedProper ==
  ASSUME NEW x, Proper(x), x.pc = "reserve", NEW h \in Nat
  PROVE  Proper(Reserved(x, h))
<1> DEFINE y == Reserved(x, h)
<1>1. Shaped(x) /\ Typed(x)
  BY DEF Proper, Typed
<1>2. Same(y, x, {"pc", "held"}) /\ y.pc = "call" /\ y.held = h
  BY <1>1, ReservedIs
<1> HIDE DEF y
<1>3. /\ Shaped(y) /\ y.q = x.q /\ y.policy = x.policy /\ y.read = x.read
      /\ y.stored = x.stored /\ y.target = x.target /\ y.tried = x.tried
      /\ y.last = x.last /\ y.arm = x.arm /\ y.counted = x.counted
      /\ y.called = x.called /\ y.hit = x.hit /\ y.status = x.status
  BY <1>2 DEF Same, Fields
<1>4. Typed(y)
  <2>1. y.pc \in Pc /\ y.held \in Nat
    BY <1>1, <1>2 DEF Typed, Pc, Last, Status
  <2>2. QED
    BY <1>1, <1>3, <2>1 DEF Typed
<1>5. Proper(y)
  BY <1>2, <1>3, <1>4 DEF Proper, OnItsWay, Able
<1>6. QED
  BY <1>5 DEF y

LEMMA MovedProper ==
  ASSUME NEW x, Proper(x), NEW t \in Target, Able(x, t)
  PROVE  Proper(Moved(x, t))
<1> DEFINE y == Moved(x, t)
<1>1. Shaped(x) /\ Typed(x)
  BY DEF Proper, Typed
<1>2. Same(y, x, {"target"}) /\ y.target = t
  BY <1>1, MovedIs
<1> HIDE DEF y
<1>3. /\ Shaped(y) /\ y.pc = x.pc /\ y.q = x.q /\ y.policy = x.policy
      /\ y.read = x.read /\ y.stored = x.stored /\ y.tried = x.tried
      /\ y.last = x.last /\ y.arm = x.arm /\ y.counted = x.counted
      /\ y.called = x.called /\ y.held = x.held /\ y.hit = x.hit
      /\ y.status = x.status
  BY <1>2 DEF Same, Fields
<1>4. Typed(y)
  <2>1. y.target \in Target \cup {NoTarget}
    BY <1>1, <1>2 DEF Typed, Pc, Last, Status
  <2>2. QED
    BY <1>1, <1>3, <2>1 DEF Typed
<1>5. Proper(y)
  BY <1>2, <1>3, <1>4 DEF Proper, OnItsWay, Able
<1>6. QED
  BY <1>5 DEF y

LEMMA KeepingProper ==
  ASSUME NEW x, Proper(x), NEW h \in Nat
  PROVE  Proper(Keeping(x, h))
<1> DEFINE y == Keeping(x, h)
<1>1. Shaped(x) /\ Typed(x)
  BY DEF Proper, Typed
<1>2. Same(y, x, {"held"}) /\ y.held = h
  BY <1>1, KeepingIs
<1> HIDE DEF y
<1>3. /\ Shaped(y) /\ y.pc = x.pc /\ y.q = x.q /\ y.policy = x.policy
      /\ y.read = x.read /\ y.stored = x.stored /\ y.target = x.target
      /\ y.tried = x.tried /\ y.last = x.last /\ y.arm = x.arm
      /\ y.counted = x.counted /\ y.called = x.called /\ y.hit = x.hit
      /\ y.status = x.status
  BY <1>2 DEF Same, Fields
<1>4. Typed(y)
  <2>1. y.held \in Nat
    BY <1>1, <1>2 DEF Typed, Pc, Last, Status
  <2>2. QED
    BY <1>1, <1>3, <2>1 DEF Typed
<1>5. Proper(y)
  BY <1>2, <1>3, <1>4 DEF Proper, OnItsWay, Able
<1>6. QED
  BY <1>5 DEF y

LEMMA ServedProper ==
  ASSUME NEW x, Proper(x), x.pc = "call"
  PROVE  Proper(Served(x))
<1> DEFINE y == Served(x)
<1>1. Shaped(x) /\ Typed(x)
  BY DEF Proper, Typed
<1>2. /\ Same(y, x, {"pc", "called", "last"})
      /\ y.pc = "settle" /\ y.called = TRUE /\ y.last = NoAnswer
  BY <1>1, ServedIs
<1> HIDE DEF y
<1>3. /\ Shaped(y) /\ y.q = x.q /\ y.policy = x.policy /\ y.read = x.read
      /\ y.stored = x.stored /\ y.target = x.target /\ y.tried = x.tried
      /\ y.arm = x.arm /\ y.counted = x.counted /\ y.held = x.held
      /\ y.hit = x.hit /\ y.status = x.status
  BY <1>2 DEF Same, Fields
<1>4. Typed(y)
  <2>1. y.pc \in Pc /\ y.called \in BOOLEAN /\ y.last \in Last
    BY <1>1, <1>2 DEF Typed, Pc, Last, Status
  <2>2. QED
    BY <1>1, <1>3, <2>1 DEF Typed
<1>5. Proper(y)
  BY <1>2, <1>3, <1>4 DEF Proper, OnItsWay, Able
<1>6. QED
  BY <1>5 DEF y

LEMMA MissedProper ==
  ASSUME NEW x, Proper(x), NEW p \in Provider, NEW l \in Last
  PROVE  Proper(Missed(x, p, l))
<1> DEFINE y == Missed(x, p, l)
<1>1. Shaped(x) /\ Typed(x)
  BY DEF Proper, Typed
<1>2. /\ Same(y, x, {"called", "tried", "last"})
      /\ y.called = TRUE /\ y.tried = x.tried \cup {p} /\ y.last = l
  <2>1. Same(y, x, {"called", "tried", "last"})
    BY <1>1, MissedIs
  <2>2. y.called = TRUE /\ y.tried = x.tried \cup {p} /\ y.last = l
    BY <1>1 DEF Missed, Shaped, Fields
  <2>3. QED
    BY <2>1, <2>2
<1> HIDE DEF y
<1>3. /\ Shaped(y) /\ y.pc = x.pc /\ y.q = x.q /\ y.policy = x.policy
      /\ y.read = x.read /\ y.stored = x.stored /\ y.target = x.target
      /\ y.arm = x.arm /\ y.counted = x.counted /\ y.held = x.held
      /\ y.hit = x.hit /\ y.status = x.status
  BY <1>2 DEF Same, Fields
<1>4. Typed(y)
  <2>1. y.called \in BOOLEAN /\ y.last \in Last
    BY <1>2
  <2>2. y.tried \in SUBSET Provider
    BY <1>1, <1>2 DEF Typed
  <2>3. QED
    BY <1>1, <1>3, <2>1, <2>2 DEF Typed
<1>5. Proper(y)
  BY <1>2, <1>3, <1>4 DEF Proper, OnItsWay, Able
<1>6. QED
  BY <1>5 DEF y

LEMMA TriedProper ==
  ASSUME NEW x, Proper(x), NEW p \in Provider
  PROVE  Proper(Tried(x, p))
<1> DEFINE y == Tried(x, p)
<1>1. Shaped(x) /\ Typed(x)
  BY DEF Proper, Typed
<1>2. Same(y, x, {"tried"}) /\ y.tried = x.tried \cup {p}
  BY <1>1, TriedIs
<1> HIDE DEF y
<1>3. /\ Shaped(y) /\ y.pc = x.pc /\ y.q = x.q /\ y.policy = x.policy
      /\ y.read = x.read /\ y.stored = x.stored /\ y.target = x.target
      /\ y.last = x.last /\ y.arm = x.arm /\ y.counted = x.counted
      /\ y.called = x.called /\ y.held = x.held /\ y.hit = x.hit
      /\ y.status = x.status
  BY <1>2 DEF Same, Fields
<1>4. Typed(y)
  <2>1. y.tried \in SUBSET Provider
    BY <1>1, <1>2 DEF Typed, Pc, Last, Status
  <2>2. QED
    BY <1>1, <1>3, <2>1 DEF Typed
<1>5. Proper(y)
  BY <1>2, <1>3, <1>4 DEF Proper, OnItsWay, Able
<1>6. QED
  BY <1>5 DEF y

-----------------------------------------------------------------------------
(* The statistics.                                                         *)

History(s) ==
    /\ s \in [outcomes : Seq(BOOLEAN), latencies : Seq(Measured)]
    /\ Len(s.outcomes) <= Window /\ Len(s.latencies) <= Window

StatsTyped(st) == st = [t \in Target |-> st[t]] /\ \A t \in Target : History(st[t])

LEMMA PushIs ==
  ASSUME NEW B, NEW s \in Seq(B), NEW x \in B, Len(s) <= Window
  PROVE  Push(s, x) \in Seq(B) /\ Len(Push(s, x)) <= Window
<1>1. Window \in Nat \ {0} /\ Len(s) \in Nat
  BY RoutingAssumption DEF RoutingAssumption
<1>2. CASE Len(s) < Window
  BY <1>1, <1>2 DEF Push
<1>3. CASE ~(Len(s) < Window)
  <2>1. Len(s) = Window /\ s # << >>
    BY <1>1, <1>3
  <2>2. PICK v \in Seq(B) : v = Tail(s) /\ Len(v) = Window - 1
    <3>1. Tail(s) \in Seq(B)
      BY <2>1
    <3>2. Len(Tail(s)) = Len(s) - 1
      BY <2>1
    <3>3. QED
      BY <2>1, <3>1, <3>2
  <2>3. Append(v, x) \in Seq(B) /\ Len(Append(v, x)) = Window
    BY <1>1, <2>2
  <2>4. QED
    BY <1>1, <1>3, <2>2, <2>3 DEF Push
<1>4. QED
  BY <1>2, <1>3

LEMMA NoStatsIs == History(NoStats)
  BY RoutingAssumption DEF History, NoStats, RoutingAssumption

LEMMA AfterSuccessIs ==
  ASSUME NEW s, History(s), NEW ms \in Measured
  PROVE  History(AfterSuccess(s, ms))
<1>1. s.outcomes \in Seq(BOOLEAN) /\ s.latencies \in Seq(Measured)
  BY DEF History
<1>2. PICK o \in Seq(BOOLEAN) : o = Push(s.outcomes, TRUE) /\ Len(o) <= Window
  BY <1>1, PushIs DEF History
<1>3. PICK l \in Seq(Measured) : l = Push(s.latencies, ms) /\ Len(l) <= Window
  BY <1>1, PushIs DEF History
<1>4. AfterSuccess(s, ms) = [outcomes |-> o, latencies |-> l]
  BY <1>2, <1>3 DEF AfterSuccess
<1>5. PICK h : h = AfterSuccess(s, ms)
  OBVIOUS
<1>6. /\ h \in [outcomes : Seq(BOOLEAN), latencies : Seq(Measured)]
      /\ h.outcomes = o /\ h.latencies = l
  BY <1>4, <1>5
<1>7. QED
  BY <1>2, <1>3, <1>5, <1>6 DEF History

LEMMA AfterFailureIs ==
  ASSUME NEW s, History(s)
  PROVE  History(AfterFailure(s))
<1>1. s.outcomes \in Seq(BOOLEAN) /\ s.latencies \in Seq(Measured)
  BY DEF History
<1>2. PICK o \in Seq(BOOLEAN) : o = Push(s.outcomes, FALSE) /\ Len(o) <= Window
  BY <1>1, PushIs DEF History
<1>3. AfterFailure(s) = [s EXCEPT !.outcomes = o]
  BY <1>2 DEF AfterFailure
<1>4. QED
  BY <1>1, <1>2, <1>3 DEF History

LEMMA StatsStep ==
  ASSUME NEW st, StatsTyped(st), NEW t \in Target, NEW new,
         \/ \E ms \in Measured : new = [st EXCEPT ![t] = AfterSuccess(@, ms)]
         \/ new = [st EXCEPT ![t] = AfterFailure(@)]
  PROVE  StatsTyped(new)
<1>1. PICK h : History(h) /\ new = [st EXCEPT ![t] = h]
  BY AfterSuccessIs, AfterFailureIs DEF StatsTyped
<1>2. QED
  BY <1>1 DEF StatsTyped

\* The routing engine gets a pool of candidates from them, and what it
\* chooses has the capabilities.
LEMMA PoolOfIs ==
  ASSUME StatsTyped(stats), NEW env
  PROVE  PoolOK(PoolOf(env))
<1>1. Measured \subseteq Nat \ {0}
  BY PipelineAssumption DEF PipelineAssumption
<1>2. ASSUME NEW t \in Target PROVE StatsOK(stats[t])
  <2>1. PICK s : s = stats[t]
    OBVIOUS
  <2>2. s \in [outcomes : Seq(BOOLEAN), latencies : Seq(Measured)]
    BY <2>1 DEF StatsTyped, History
  <2>3. QED
    BY <1>1, <2>1, <2>2 DEF StatsOK
<1>3. QED
  BY <1>2, CandidatesAre DEF PoolOf

LEMMA ModeIs ==
  ASSUME NEW q \in Question, ~IsManual(q)
  PROVE  ResolveMode(q) \in Mode
<1>1. q.mode \in Mode \cup {"none", "manual"}
  BY PipelineAssumption DEF PipelineAssumption, QuestionRecord
<1>2. QED
  BY <1>1 DEF ResolveMode, IsManual, Mode

LEMMA EligibleIs ==
  ASSUME NEW q, NEW pool
  PROVE  /\ Eligible(q, pool) \subseteq pool
         /\ \A c \in Eligible(q, pool) : q.caps \subseteq c.caps
         /\ \A c, d \in Eligible(q, pool) : c.healthy => d.healthy
  BY DEF Eligible

LEMMA ChosenIs ==
  ASSUME NEW pool, PoolOK(pool), NEW part, part \subseteq pool, part # {},
         NEW mode \in Mode, NEW caps, \A c \in part : caps \subseteq c.caps
  PROVE  LET t == Best(part, Weights(mode)).target
         IN  t \in Target /\ caps \subseteq MetaOf(t).caps
<1>1. PoolOK(part)
  BY PoolPart
<1>2. Best(part, Weights(mode)) \in part
  BY <1>1, BestIs
<1>3. PICK c : c = Best(part, Weights(mode))
  OBVIOUS
<1>4. CandidateOK(c) /\ caps \subseteq c.caps
  BY <1>1, <1>2, <1>3 DEF PoolOK
<1>5. QED
  BY <1>3, <1>4 DEF CandidateOK

-----------------------------------------------------------------------------
(* The invariant.                                                          *)

TypeInv ==
    /\ policy = {} \/ \E raw \in Policies : ValidPolicy(raw, Registered) /\ policy = {raw}
    /\ StatsTyped(stats)
    /\ \A e \in cache : e.target \in Target
    /\ req = [r \in Request |-> req[r]]
    /\ \A r \in Request : req[r] \in {New, Lost} \/ Proper(req[r])
    /\ tasks \cup rows \subseteq Row
    /\ edits \in 0 .. MaxEdits /\ others \in 0 .. MaxOthers

LEMMA ProperUnderWay ==
  ASSUME TypeInv, NEW r \in Request, req[r].pc \notin {"new", "lost"}
  PROVE  Proper(req[r])
<1>1. New.pc = "new" /\ Lost.pc = "lost"
  BY DEF New, Lost
<1>2. QED
  BY <1>1 DEF TypeInv

\* A step of one request.
LEMMA TypedStep ==
  ASSUME TypeInv, NEW r \in Request, NEW y, Become(r, y), Proper(y),
         UNCHANGED <<policy, edits, others>>, StatsTyped(stats'),
         \A e \in cache' : e.target \in Target, tasks' \cup rows' \subseteq Row
  PROVE  TypeInv'
<1>1. req' = [q \in Request |-> IF q = r THEN y ELSE req[q]]
  BY DEF TypeInv, Become
<1>2. req' = [q \in Request |-> req'[q]]
  BY <1>1
<1>3. \A q \in Request : req'[q] \in {New, Lost} \/ Proper(req'[q])
  BY <1>1 DEF TypeInv
<1>4. QED
  BY <1>2, <1>3 DEF TypeInv

\* One that leaves all but the request alone,
LEMMA QuietTyped ==
  ASSUME TypeInv, NEW r \in Request, NEW y, Become(r, y), Proper(y),
         UNCHANGED <<policy, stats, cache, tasks, rows, edits, others>>
  PROVE  TypeInv'
<1>1. /\ StatsTyped(stats') /\ \A e \in cache' : e.target \in Target
      /\ tasks' \cup rows' \subseteq Row
  BY DEF TypeInv
<1>2. QED
  BY <1>1, TypedStep

\* an exception,
LEMMA RaiseTyped ==
  ASSUME TypeInv, NEW r \in Request, NEW x, Proper(x), NEW s \in Status, Raise(r, x, s),
         StatsTyped(stats'), UNCHANGED <<policy, cache, rows, edits, others>>
  PROVE  TypeInv'
<1>1. PICK y : y = Refusal(x, s)
  OBVIOUS
<1>2. Become(r, y) /\ UNCHANGED tasks
  BY <1>1 DEF Raise
<1>3. Proper(y)
  BY <1>1, RefusalProper
<1>4. (\A e \in cache' : e.target \in Target) /\ tasks' \cup rows' \subseteq Row
  BY <1>2 DEF TypeInv
<1>5. QED
  BY <1>2, <1>3, <1>4, TypedStep

\* and an answer.
LEMMA AnswerTyped ==
  ASSUME TypeInv, NEW r \in Request, NEW x, Proper(x), NEW t \in Target, Answer(r, x, t),
         \A e \in cache' : e.target \in Target,
         UNCHANGED <<policy, stats, rows, edits, others>>
  PROVE  TypeInv'
<1>1. PICK y : y = Answered(x, t)
  OBVIOUS
<1>2. Become(r, y) /\ tasks' = tasks \cup {SuccessRow(r, x, t)}
  BY <1>1 DEF Answer, Answered
<1>3. Proper(y)
  BY <1>1, AnsweredProper
<1>4. SuccessRow(r, x, t) \in Row
  <2>1. PICK h \in BOOLEAN : h = x.hit
    BY DEF Proper, Typed
  <2>2. PICK n \in Nat : n = x.arm
    BY DEF Proper, Typed
  <2>3. SuccessRow(r, x, t) = [id |-> r, target |-> t, hit |-> h, arm |-> n]
    BY <2>1, <2>2 DEF SuccessRow
  <2>4. QED
    BY <2>3 DEF Row
<1>5. StatsTyped(stats') /\ tasks' \cup rows' \subseteq Row
  BY <1>2, <1>4 DEF TypeInv
<1>6. QED
  BY <1>2, <1>3, <1>5, TypedStep

-----------------------------------------------------------------------------
(* The actions.                                                            *)

\* The experiment of a policy that PUT has accepted, and of the default.
LEMMA RunnableIs ==
  /\ GlobalDefault["experiment"] = NoExperiment /\ Runnable(NoExperiment)
  /\ \A raw \in Policies : ValidPolicy(raw, Registered) => Runnable(Merge(raw)["experiment"])
<1>1. GlobalDefault["experiment"] = NoExperiment
  BY DEF GlobalDefault
<1>2. Runnable(NoExperiment)
  BY DEF Runnable, NoExperiment, Experiment
<1>3. ASSUME NEW raw \in Policies, ValidPolicy(raw, Registered)
      PROVE  Runnable(Merge(raw)["experiment"])
  <2>1. Merge(raw)["experiment"] =
          IF "experiment" \in DOMAIN raw THEN raw["experiment"] ELSE NoExperiment
    BY <1>1 DEF Merge, Section
  <2>2. CASE "experiment" \in DOMAIN raw
    <3>1. raw["experiment"] \in Experiment
      <4>1. \A w \in Policies : "experiment" \in DOMAIN w => w["experiment"] \in Experiment
        BY PipelineAssumption DEF PipelineAssumption
      <4>2. QED
        BY <2>2, <4>1
    <3>2. ValidArms(raw["experiment"].arms)
      BY <1>3, <2>2 DEF ValidPolicy
    <3>3. QED
      BY <2>1, <2>2, <3>1, <3>2 DEF Runnable
  <2>3. CASE "experiment" \notin DOMAIN raw
    BY <1>2, <2>1, <2>3
  <2>4. QED
    BY <2>2, <2>3
<1>4. QED
  BY <1>1, <1>2, <1>3

LEMMA FreshProper ==
  ASSUME NEW q \in Question, NEW p \in Resolvable, NEW rd \in BOOLEAN,
         Runnable(p["experiment"]), policy \in SUBSET Policies,
         NEW x, x = Fresh(q, p, rd)
  PROVE  Proper(x)
<1>1. /\ Shaped(x) /\ x.pc = "limit" /\ x.target = NoTarget /\ x.tried = {}
      /\ x.last = NoAnswer /\ x.arm = 0 /\ x.held = 0 /\ x.status = 0
      /\ x.policy = p /\ x.stored = policy
  BY FreshIs
<1>2. x.q = q
  BY DEF Fresh
<1>3. x.read = rd /\ x.counted = FALSE /\ x.called = FALSE /\ x.hit = FALSE
  BY DEF Fresh
<1>4. Typed(x)
  <2>1. "limit" \in Pc /\ NoAnswer \in Last /\ 0 \in Status
    BY DEF Pc, Last, Status
  <2>2. /\ x.read \in BOOLEAN /\ x.counted \in BOOLEAN /\ x.called \in BOOLEAN
        /\ x.hit \in BOOLEAN
    BY <1>3
  <2>3. QED
    BY <1>1, <1>2, <2>1, <2>2 DEF Typed
<1>5. QED
  BY <1>1, <1>4 DEF Proper, OnItsWay

LEMMA GuardedTyped ==
  ASSUME TypeInv, NEW r \in Request, NEW x, Proper(x), Guarded(r, x),
         UNCHANGED <<policy, stats, cache, rows, edits, others>>
  PROVE  TypeInv'
<1>1. StatsTyped(stats')
  BY DEF TypeInv
<1>2. CASE Raise(r, x, 400)
  <2>1. 400 \in Status
    BY DEF Status
  <2>2. QED
    BY <1>1, <1>2, <2>1, RaiseTyped
<1>3. CASE Become(r, x) /\ UNCHANGED tasks
  BY <1>3, QuietTyped
<1>4. QED
  BY <1>2, <1>3 DEF Guarded

LEMMA ArriveTyped ==
  ASSUME TypeInv, NEW r \in Request, Arrive(r)
  PROVE  TypeInv'
<1>1. UNCHANGED <<policy, stats, cache, rows, edits, others>>
  BY DEF Arrive
<1>2. policy \in SUBSET Policies /\ \A raw \in policy : ValidPolicy(raw, Registered)
  BY DEF TypeInv
<1>3. PICK q \in Question :
        \/ Guarded(r, Fresh(q, GlobalDefault, policy = {}))
        \/ \E raw \in policy : Guarded(r, Fresh(q, Merge(raw), TRUE))
  BY DEF Arrive
<1>4. PICK p \in Resolvable, rd \in BOOLEAN :
        Runnable(p["experiment"]) /\ Guarded(r, Fresh(q, p, rd))
  <2>1. CASE Guarded(r, Fresh(q, GlobalDefault, policy = {}))
    <3>1. PICK rd \in BOOLEAN : rd = (policy = {})
      OBVIOUS
    <3>2. PICK p \in Resolvable : p = GlobalDefault
      BY DEF Resolvable
    <3>3. Runnable(p["experiment"])
      BY <3>2, RunnableIs
    <3>4. QED
      BY <2>1, <3>1, <3>2, <3>3
  <2>2. ASSUME NEW raw \in policy, Guarded(r, Fresh(q, Merge(raw), TRUE))
        PROVE  \E p \in Resolvable, rd \in BOOLEAN :
                 Runnable(p["experiment"]) /\ Guarded(r, Fresh(q, p, rd))
    <3>1. PICK p : p = Merge(raw)
      OBVIOUS
    <3>2. p \in Resolvable
      BY <1>2, <3>1 DEF Resolvable
    <3>3. Runnable(p["experiment"])
      BY <1>2, <3>1, RunnableIs
    <3>4. Guarded(r, Fresh(q, p, TRUE))
      BY <2>2, <3>1
    <3>5. QED
      BY <3>2, <3>3, <3>4
  <2>3. QED
    BY <1>3, <2>1, <2>2
<1>5. PICK x : x = Fresh(q, p, rd)
  OBVIOUS
<1>6. Proper(x)
  BY <1>2, <1>4, <1>5, FreshProper
<1>7. QED
  BY <1>1, <1>4, <1>5, <1>6, GuardedTyped

LEMMA RateLimitTyped ==
  ASSUME TypeInv, NEW r \in Request, RateLimit(r)
  PROVE  TypeInv'
<1>1. PICK x : x = req[r]
  OBVIOUS
<1>2. x.pc = "limit" /\ UNCHANGED <<policy, stats, cache, rows, edits, others>>
  BY <1>1 DEF RateLimit
<1>3. Proper(x)
  BY <1>1, <1>2, ProperUnderWay
<1>4. PICK c : c = Counted(x)
  OBVIOUS
<1>5. Proper(c)
  BY <1>2, <1>3, <1>4, CountedProper
<1>6. c.pc = "limit"
  BY <1>2, <1>3, <1>4 DEF Counted, Shaped, Fields, Proper, Typed
<1>7. \/ Become(r, At(c, "route")) /\ UNCHANGED tasks
      \/ Raise(r, c, 429)
  BY <1>1, <1>4 DEF RateLimit, Counted, At
<1>8. CASE Become(r, At(c, "route")) /\ UNCHANGED tasks
  <2>1. PICK y : y = At(c, "route")
    OBVIOUS
  <2>2. Proper(y)
    BY <1>5, <1>6, <2>1, LimitedProper
  <2>3. Become(r, y) /\ UNCHANGED tasks
    BY <1>8, <2>1
  <2>4. QED
    BY <1>2, <2>2, <2>3, QuietTyped
<1>9. CASE Raise(r, c, 429)
  <2>1. StatsTyped(stats') /\ 429 \in Status
    BY <1>2 DEF TypeInv, Status
  <2>2. QED
    BY <1>2, <1>5, <1>9, <2>1, RaiseTyped
<1>10. QED
  BY <1>7, <1>8, <1>9

\* What the two routings have in common.
LEMMA RoutedTyped ==
  ASSUME TypeInv, NEW r \in Request, NEW x, x = req[r], x.pc = "route",
         UNCHANGED <<policy, stats, cache, rows, edits, others>>,
         \/ \E t \in Target : Able(x, t) /\ Become(r, Routed(x, t)) /\ UNCHANGED tasks
         \/ \E s \in {400, 503} : Raise(r, x, s)
  PROVE  TypeInv'
<1>1. Proper(x)
  BY ProperUnderWay
<1>2. ASSUME NEW t \in Target, Able(x, t), Become(r, Routed(x, t)), UNCHANGED tasks
      PROVE  TypeInv'
  <2>1. PICK y : y = Routed(x, t)
    OBVIOUS
  <2>2. Proper(y)
    BY <1>1, <1>2, <2>1, RoutedProper
  <2>3. Become(r, y)
    BY <1>2, <2>1
  <2>4. QED
    BY <1>2, <2>2, <2>3, QuietTyped
<1>3. ASSUME NEW s \in {400, 503}, Raise(r, x, s) PROVE TypeInv'
  <2>1. StatsTyped(stats') /\ s \in Status
    BY DEF TypeInv, Status
  <2>2. QED
    BY <1>1, <1>3, <2>1, RaiseTyped
<1>4. QED
  BY <1>2, <1>3

LEMMA RouteManualTyped ==
  ASSUME TypeInv, NEW r \in Request, RouteManual(r)
  PROVE  TypeInv'
<1>1. PICK x : x = req[r]
  OBVIOUS
<1>2. x.pc = "route" /\ IsManual(x.q)
      /\ UNCHANGED <<policy, stats, cache, rows, edits, others>>
  BY <1>1 DEF RouteManual
<1>3. PICK t : t = <<x.q.provider, x.q.model>>
  OBVIOUS
<1>4. \/ /\ x.q.provider # "none" /\ x.q.model # "auto"
         /\ Become(r, Routed(x, t)) /\ UNCHANGED tasks
      \/ Raise(r, x, 503) \/ Raise(r, x, 400)
  BY <1>1, <1>3 DEF RouteManual, Routed
<1>5. x.q \in Question
  BY <1>1, <1>2, ProperUnderWay DEF Proper, Typed
<1>6. /\ x.q.provider \in Provider \cup {"none"} /\ x.q.model \in Model \cup {"auto"}
  BY <1>5, PipelineAssumption DEF PipelineAssumption, QuestionRecord
<1>7. Able(x, t)
  BY <1>2 DEF Able
<1>8. x.q.provider # "none" /\ x.q.model # "auto" => t \in Target
  BY <1>3, <1>6 DEF Target
<1>9. \/ \E u \in Target : Able(x, u) /\ Become(r, Routed(x, u)) /\ UNCHANGED tasks
      \/ \E s \in {400, 503} : Raise(r, x, s)
  BY <1>4, <1>7, <1>8
<1>10. QED
  BY <1>1, <1>2, <1>9, RoutedTyped

LEMMA RouteTyped ==
  ASSUME TypeInv, NEW r \in Request, Route(r)
  PROVE  TypeInv'
<1>1. PICK x : x = req[r]
  OBVIOUS
<1>2. x.pc = "route" /\ ~IsManual(x.q)
      /\ UNCHANGED <<policy, stats, cache, rows, edits, others>>
  BY <1>1 DEF Route
<1>3. x.q \in Question
  BY <1>1, <1>2, ProperUnderWay DEF Proper, Typed
<1>4. PICK env \in Environment :
        \/ /\ Eligible(x.q, PoolOf(env)) # {}
           /\ Become(r, Routed(x, Decide(x.q, PoolOf(env)))) /\ UNCHANGED tasks
        \/ Raise(r, x, 503) \/ Raise(r, x, 400)
  BY <1>1 DEF Route, Routed
<1>5. PICK pool : pool = PoolOf(env) /\ PoolOK(pool)
  BY PoolOfIs DEF TypeInv
<1>6. PICK t : t = Decide(x.q, pool)
  OBVIOUS
<1>7. ASSUME Eligible(x.q, pool) # {} PROVE t \in Target /\ x.q.caps \subseteq MetaOf(t).caps
  <2>1. PICK part : part = Eligible(x.q, pool)
    OBVIOUS
  <2>2. part \subseteq pool /\ part # {} /\ \A c \in part : x.q.caps \subseteq c.caps
    BY <1>7, <2>1, EligibleIs
  <2>3. PICK mode \in Mode : mode = ResolveMode(x.q)
    BY <1>2, <1>3, ModeIs
  <2>4. t = Best(part, Weights(mode)).target
    BY <1>6, <2>1, <2>3 DEF Decide
  <2>5. QED
    BY <1>5, <2>2, <2>4, ChosenIs
<1>8. \/ \E u \in Target : Able(x, u) /\ Become(r, Routed(x, u)) /\ UNCHANGED tasks
      \/ \E s \in {400, 503} : Raise(r, x, s)
  BY <1>4, <1>5, <1>6, <1>7 DEF Able
<1>9. QED
  BY <1>1, <1>2, <1>8, RoutedTyped

LEMMA CacheHitTyped ==
  ASSUME TypeInv, NEW r \in Request, CacheHit(r)
  PROVE  TypeInv'
<1>1. PICK x : x = req[r]
  OBVIOUS
<1>2. x.pc = "lookup" /\ UNCHANGED <<policy, stats, cache, rows, edits, others>>
  BY <1>1 DEF CacheHit
<1>3. Proper(x)
  BY <1>1, <1>2, ProperUnderWay
<1>4. PICK e \in cache : Answer(r, Hit(x), e.target)
  BY <1>1 DEF CacheHit, Hit
<1>5. PICK h : h = Hit(x)
  OBVIOUS
<1>6. PICK t : t = e.target
  OBVIOUS
<1>7. t \in Target /\ \A c \in cache' : c.target \in Target
  BY <1>2, <1>6 DEF TypeInv
<1>8. Proper(h)
  BY <1>3, <1>5, HitProper
<1>9. Answer(r, h, t)
  BY <1>4, <1>5, <1>6
<1>10. QED
  BY <1>2, <1>7, <1>8, <1>9, AnswerTyped

\* The arms of an experiment are what the assignment needs, and lead to targets.
LEMMA RunnableOK ==
  ASSUME NEW e, Runnable(e)
  PROVE  /\ ExperimentOK(e) /\ Len(e.arms) \in Nat
         /\ \A i \in 1 .. Len(e.arms) : e.arms[i].target \in Target
<1>1. e \in Experiment /\ (e.on => ValidArms(e.arms))
  BY DEF Runnable
<1>2. PICK arms \in Seq(Arm) : arms = e.arms
  BY <1>1 DEF Experiment
<1>3. /\ Len(arms) \in Nat
      /\ \A i \in 1 .. Len(arms) : arms[i].weight \in Int /\ arms[i].target \in Target
  <2>1. \A a \in Arm : a.weight \in Int /\ a.target \in Target
    BY DEF Arm
  <2>2. Len(arms) \in Nat /\ \A i \in 1 .. Len(arms) : arms[i] \in Arm
    OBVIOUS
  <2>3. QED
    BY <2>1, <2>2
<1>4. ExperimentOK(e)
  BY <1>1, <1>2, <1>3 DEF ExperimentOK, ArmsOK, Experiment
<1>5. QED
  BY <1>2, <1>3, <1>4

LEMMA CacheMissTyped ==
  ASSUME PipelineInv, TypeInv, NEW r \in Request, CacheMiss(r)
  PROVE  TypeInv'
<1>1. PICK x : x = req[r]
  OBVIOUS
<1>2. x.pc = "lookup" /\ UNCHANGED <<policy, stats, cache, tasks, rows, edits, others>>
  BY <1>1 DEF CacheMiss
<1>3. Proper(x) /\ Sound(x)
  BY <1>1, <1>2, ProperUnderWay, UnderWay
<1>4. x.arm = 0 /\ x.target \in Target /\ Able(x, x.target)
  BY <1>2, <1>3 DEF Sound, Staged, Proper, OnItsWay
<1>5. PICK e : e = x.policy["experiment"]
  OBVIOUS
<1>6. PICK bucket \in 0 .. BucketSize - 1 :
        LET n == Assign(e, bucket)
        IN  Become(r, InArm(x, n, IF n = 0 THEN x.target ELSE e.arms[n].target))
  BY <1>1, <1>5 DEF CacheMiss, InArm
<1>7. PICK n : n = Assign(e, bucket)
  OBVIOUS
<1>8. PICK t : t = IF n = 0 THEN x.target ELSE e.arms[n].target
  OBVIOUS
<1>9. /\ ExperimentOK(e) /\ Len(e.arms) \in Nat
      /\ \A i \in 1 .. Len(e.arms) : e.arms[i].target \in Target
  BY <1>3, <1>5, RunnableOK DEF Proper
<1>10. n \in 0 .. Len(e.arms)
  BY <1>7, <1>9, AssignIs
<1>11. n \in Nat /\ t \in Target /\ (n = 0 => Able(x, t))
  BY <1>4, <1>8, <1>9, <1>10
<1>12. PICK y : y = InArm(x, n, t)
  OBVIOUS
<1>13. Proper(y)
  BY <1>2, <1>3, <1>4, <1>11, <1>12, InArmProper
<1>14. Become(r, y)
  BY <1>6, <1>7, <1>8, <1>12
<1>15. QED
  BY <1>2, <1>13, <1>14, QuietTyped

LEMMA EstimateTyped ==
  ASSUME TypeInv, NEW r \in Request, Estimate(r)
  PROVE  TypeInv'
<1>1. PICK x : x = req[r]
  OBVIOUS
<1>2. x.pc = "price" /\ UNCHANGED <<policy, stats, cache, rows, edits, others>>
  BY <1>1 DEF Estimate
<1>3. Proper(x)
  BY <1>1, <1>2, ProperUnderWay
<1>4. \/ Become(r, At(x, "reserve")) /\ UNCHANGED tasks
      \/ Raise(r, x, 402)
      \/ \E env \in Environment, left \in 0 .. Price(x.target) - 1 :
           /\ Affordable(x, PoolOf(env), left) # {}
           /\ Become(r, Downgraded(x,
                Best(Affordable(x, PoolOf(env), left), Weights("auto")).target))
           /\ UNCHANGED tasks
  BY <1>1 DEF Estimate, At, Downgraded
<1>5. CASE Become(r, At(x, "reserve")) /\ UNCHANGED tasks
  <2>1. PICK y : y = At(x, "reserve")
    OBVIOUS
  <2>2. Proper(y)
    BY <1>2, <1>3, <2>1, PricedProper
  <2>3. Become(r, y)
    BY <1>5, <2>1
  <2>4. QED
    BY <1>2, <1>5, <2>2, <2>3, QuietTyped
<1>6. CASE Raise(r, x, 402)
  <2>1. StatsTyped(stats') /\ 402 \in Status
    BY <1>2 DEF TypeInv, Status
  <2>2. QED
    BY <1>2, <1>3, <1>6, <2>1, RaiseTyped
<1>7. ASSUME NEW env \in Environment, NEW left \in 0 .. Price(x.target) - 1,
             Affordable(x, PoolOf(env), left) # {},
             Become(r, Downgraded(x,
               Best(Affordable(x, PoolOf(env), left), Weights("auto")).target)),
             UNCHANGED tasks
      PROVE  TypeInv'
  <2>1. PICK pool : pool = PoolOf(env) /\ PoolOK(pool)
    BY PoolOfIs DEF TypeInv
  <2>2. PICK part : part = Affordable(x, pool, left)
    OBVIOUS
  <2>3. part \subseteq pool /\ part # {} /\ \A c \in part : x.q.caps \subseteq c.caps
    BY <1>7, <2>1, <2>2 DEF Affordable
  <2>4. PICK t : t = Best(part, Weights("auto")).target
    OBVIOUS
  <2>5. t \in Target /\ x.q.caps \subseteq MetaOf(t).caps
    <3>1. "auto" \in Mode
      BY DEF Mode
    <3>2. QED
      BY <2>1, <2>3, <2>4, <3>1, ChosenIs
  <2>6. PICK y : y = Downgraded(x, t)
    OBVIOUS
  <2>7. Proper(y)
    BY <1>3, <2>5, <2>6, DowngradedProper DEF Able
  <2>8. Become(r, y)
    BY <1>7, <2>1, <2>2, <2>4, <2>6
  <2>9. QED
    BY <1>2, <1>7, <2>7, <2>8, QuietTyped
<1>8. QED
  BY <1>4, <1>5, <1>6, <1>7

LEMMA PriceIs == ASSUME NEW t \in Target PROVE Price(t) \in Nat
  BY MetaIs DEF Price, MetaRecord

LEMMA ReserveTyped ==
  ASSUME TypeInv, NEW r \in Request, Reserve(r)
  PROVE  TypeInv'
<1>1. PICK x : x = req[r]
  OBVIOUS
<1>2. x.pc = "reserve" /\ UNCHANGED <<policy, stats, cache, rows, edits, others>>
  BY <1>1 DEF Reserve
<1>3. Proper(x)
  BY <1>1, <1>2, ProperUnderWay
<1>4. PICK h \in Nat : h = Price(x.target)
  BY <1>2, <1>3, PriceIs DEF Proper, OnItsWay
<1>5. \/ Become(r, Reserved(x, h)) /\ UNCHANGED tasks
      \/ Raise(r, x, 500)
  BY <1>1, <1>4 DEF Reserve, Reserved
<1>6. CASE Become(r, Reserved(x, h)) /\ UNCHANGED tasks
  <2>1. PICK y : y = Reserved(x, h)
    OBVIOUS
  <2>2. Proper(y)
    BY <1>2, <1>3, <2>1, ReservedProper
  <2>3. Become(r, y)
    BY <1>6, <2>1
  <2>4. QED
    BY <1>2, <1>6, <2>2, <2>3, QuietTyped
<1>7. CASE Raise(r, x, 500)
  <2>1. StatsTyped(stats') /\ 500 \in Status
    BY <1>2 DEF TypeInv, Status
  <2>2. QED
    BY <1>2, <1>3, <1>7, <2>1, RaiseTyped
<1>8. QED
  BY <1>5, <1>6, <1>7

LEMMA FailOverTyped ==
  ASSUME TypeInv, NEW r \in Request, NEW x, Proper(x), FailOver(r, x),
         StatsTyped(stats'), UNCHANGED <<policy, cache, rows, edits, others>>
  PROVE  TypeInv'
<1>1. UNCHANGED tasks
  BY DEF FailOver
<1>2. PICK t \in Targets : x.q.caps \subseteq MetaOf(t).caps /\ Become(r, Moved(x, t))
  BY DEF FailOver, Moved
<1>3. t \in Target /\ Able(x, t)
  BY <1>2 DEF Targets, Able
<1>4. PICK y : y = Moved(x, t)
  OBVIOUS
<1>5. Proper(y)
  BY <1>3, <1>4, MovedProper
<1>6. Become(r, y)
  BY <1>2, <1>4
<1>7. (\A e \in cache' : e.target \in Target) /\ tasks' \cup rows' \subseteq Row
  BY <1>1 DEF TypeInv
<1>8. QED
  BY <1>5, <1>6, <1>7, TypedStep

LEMMA GiveUpTyped ==
  ASSUME TypeInv, NEW r \in Request, NEW x, Proper(x), NEW s \in Status, GiveUp(r, x, s),
         StatsTyped(stats'), UNCHANGED <<policy, cache, rows, edits, others>>
  PROVE  TypeInv'
<1>1. x.held \in Nat
  BY DEF Proper, Typed
<1>2. PICK left \in {0, x.held} : Raise(r, Keeping(x, left), s)
  BY DEF GiveUp, Keeping
<1>3. left \in Nat
  BY <1>1
<1>4. PICK k : k = Keeping(x, left)
  OBVIOUS
<1>5. Proper(k)
  BY <1>3, <1>4, KeepingProper
<1>6. Raise(r, k, s)
  BY <1>2, <1>4
<1>7. QED
  BY <1>5, <1>6, RaiseTyped

LEMMA StatusTyped == ASSUME NEW e \in Exception PROVE StatusOf(e) \in Status
  BY DEF StatusOf, Exception, Status

LEMMA CallServedTyped ==
  ASSUME TypeInv, NEW r \in Request, CallServed(r)
  PROVE  TypeInv'
<1>1. PICK x : x = req[r]
  OBVIOUS
<1>2. /\ x.pc = "call" /\ UNCHANGED <<policy, cache, tasks, rows, edits, others>>
      /\ Become(r, Served(x))
  BY <1>1 DEF CallServed, Served
<1>3. Proper(x)
  BY <1>1, <1>2, ProperUnderWay
<1>4. PICK t \in Target : t = x.target
  BY <1>2, <1>3 DEF Proper, OnItsWay
<1>5. \E ms \in Measured : stats' = [stats EXCEPT ![t] = AfterSuccess(@, ms)]
  BY <1>1, <1>4 DEF CallServed
<1>6. StatsTyped(stats')
  BY <1>5, StatsStep DEF TypeInv
<1>7. PICK y : y = Served(x)
  OBVIOUS
<1>8. Proper(y)
  BY <1>2, <1>3, <1>7, ServedProper
<1>9. Become(r, y)
  BY <1>2, <1>7
<1>10. (\A e \in cache' : e.target \in Target) /\ tasks' \cup rows' \subseteq Row
  BY <1>2 DEF TypeInv
<1>11. QED
  BY <1>2, <1>6, <1>8, <1>9, <1>10, TypedStep

LEMMA CallFailsTyped ==
  ASSUME TypeInv, NEW r \in Request, CallFails(r)
  PROVE  TypeInv'
<1>1. PICK x : x = req[r]
  OBVIOUS
<1>2. PICK p : p = x.target[1]
  OBVIOUS
<1>3. x.pc = "call" /\ p \in Registered /\ UNCHANGED <<policy, cache, rows, edits, others>>
  BY <1>1, <1>2 DEF CallFails
<1>4. Proper(x)
  BY <1>1, <1>3, ProperUnderWay
<1>5. PICK t \in Target : t = x.target
  BY <1>3, <1>4 DEF Proper, OnItsWay
<1>6. stats' = [stats EXCEPT ![t] = AfterFailure(@)]
  BY <1>1, <1>5 DEF CallFails
<1>7. StatsTyped(stats')
  BY <1>6, StatsStep DEF TypeInv
<1>8. PICK what \in Failing :
        \E e \in Raised(p, what) :
          \/ FailOver(r, Missed(x, p, <<p, what>>))
          \/ GiveUp(r, Missed(x, p, <<p, what>>), StatusOf(e))
  BY <1>1, <1>2 DEF CallFails, Missed
<1>9. PICK e \in Raised(p, what) :
        \/ FailOver(r, Missed(x, p, <<p, what>>))
        \/ GiveUp(r, Missed(x, p, <<p, what>>), StatusOf(e))
  BY <1>8
<1>10. p \in Provider /\ p \in Adapter /\ what \in Happening
  BY <1>3, Providers, PipelineAssumption DEF PipelineAssumption
<1>11. PICK l \in Last : l = <<p, what>>
  BY <1>10 DEF Last
<1>12. PICK m : m = Missed(x, p, l)
  OBVIOUS
<1>13. Proper(m)
  BY <1>4, <1>10, <1>12, MissedProper
<1>14. PICK s \in Status : s = StatusOf(e)
  BY <1>9, <1>10, RaisedIs, StatusTyped
<1>15. FailOver(r, m) \/ GiveUp(r, m, s)
  BY <1>9, <1>11, <1>12, <1>14
<1>16. QED
  BY <1>3, <1>7, <1>13, <1>15, FailOverTyped, GiveUpTyped

LEMMA CallUnknownTyped ==
  ASSUME TypeInv, NEW r \in Request, CallUnknown(r)
  PROVE  TypeInv'
<1>1. PICK x : x = req[r]
  OBVIOUS
<1>2. /\ x.pc = "call" /\ UNCHANGED <<policy, cache, rows, edits, others>>
      /\ GiveUp(r, Tried(x, x.target[1]), 404)
  BY <1>1 DEF CallUnknown, Tried, StatusOf
<1>3. Proper(x)
  BY <1>1, <1>2, ProperUnderWay
<1>4. PICK t \in Target : t = x.target
  BY <1>2, <1>3 DEF Proper, OnItsWay
<1>5. PICK p \in Provider : p = t[1]
  BY DEF Target
<1>6. stats' = [stats EXCEPT ![t] = AfterFailure(@)]
  BY <1>1, <1>4 DEF CallUnknown
<1>7. StatsTyped(stats') /\ 404 \in Status
  <2>1. StatsTyped(stats')
    BY <1>6, StatsStep DEF TypeInv
  <2>2. 404 \in Status
    BY DEF Status
  <2>3. QED
    BY <2>1, <2>2
<1>8. PICK m : m = Tried(x, p)
  OBVIOUS
<1>9. Proper(m)
  BY <1>3, <1>8, TriedProper
<1>10. GiveUp(r, m, 404)
  BY <1>2, <1>4, <1>5, <1>8
<1>11. QED
  BY <1>2, <1>7, <1>9, <1>10, GiveUpTyped

LEMMA CallShortCircuitedTyped ==
  ASSUME TypeInv, NEW r \in Request, CallShortCircuited(r)
  PROVE  TypeInv'
<1>1. PICK x : x = req[r]
  OBVIOUS
<1>2. /\ x.pc = "call" /\ UNCHANGED <<policy, stats, cache, rows, edits, others>>
      /\ \/ FailOver(r, Tried(x, x.target[1]))
         \/ GiveUp(r, Tried(x, x.target[1]), 503)
  BY <1>1 DEF CallShortCircuited, Tried, StatusOf
<1>3. Proper(x)
  BY <1>1, <1>2, ProperUnderWay
<1>4. PICK p \in Provider : p = x.target[1]
  BY <1>2, <1>3 DEF Proper, OnItsWay, Target
<1>5. PICK m : m = Tried(x, p)
  OBVIOUS
<1>6. Proper(m)
  BY <1>3, <1>5, TriedProper
<1>7. FailOver(r, m) \/ GiveUp(r, m, 503)
  BY <1>2, <1>4, <1>5
<1>8. StatsTyped(stats') /\ 503 \in Status
  BY <1>2 DEF TypeInv, Status
<1>9. QED
  BY <1>2, <1>6, <1>7, <1>8, FailOverTyped, GiveUpTyped

LEMMA OutOfTimeTyped ==
  ASSUME TypeInv, NEW r \in Request, OutOfTime(r)
  PROVE  TypeInv'
<1>1. PICK x : x = req[r]
  OBVIOUS
<1>2. /\ x.pc = "call" /\ GiveUp(r, x, 504)
      /\ UNCHANGED <<policy, stats, cache, rows, edits, others>>
  BY <1>1 DEF OutOfTime, StatusOf
<1>3. Proper(x)
  BY <1>1, <1>2, ProperUnderWay
<1>4. StatsTyped(stats') /\ 504 \in Status
  BY <1>2 DEF TypeInv, Status
<1>5. QED
  BY <1>2, <1>3, <1>4, GiveUpTyped

LEMMA SettleTyped ==
  ASSUME TypeInv, NEW r \in Request, Settle(r)
  PROVE  TypeInv'
<1>1. PICK x : x = req[r]
  OBVIOUS
<1>2. x.pc = "settle" /\ UNCHANGED <<policy, stats, rows, edits, others>>
  BY <1>1 DEF Settle
<1>3. Proper(x)
  BY <1>1, <1>2, ProperUnderWay
<1>4. PICK t \in Target : t = x.target
  BY <1>2, <1>3 DEF Proper, OnItsWay
<1>5. \/ /\ Answer(r, Keeping(x, 0), t)
         /\ cache' \in {cache, cache \cup {[text |-> x.q.text, target |-> t]}}
      \/ Raise(r, x, 500) /\ UNCHANGED cache
  BY <1>1, <1>4 DEF Settle, Keeping
<1>6. CASE /\ Answer(r, Keeping(x, 0), t)
           /\ cache' \in {cache, cache \cup {[text |-> x.q.text, target |-> t]}}
  <2>1. PICK k : k = Keeping(x, 0)
    OBVIOUS
  <2>2. Proper(k)
    BY <1>3, <2>1, KeepingProper
  <2>3. Answer(r, k, t)
    BY <1>6, <2>1
  <2>4. \A e \in cache' : e.target \in Target
    BY <1>6 DEF TypeInv
  <2>5. QED
    BY <1>2, <2>2, <2>3, <2>4, AnswerTyped
<1>7. CASE Raise(r, x, 500) /\ UNCHANGED cache
  <2>1. StatsTyped(stats') /\ 500 \in Status
    BY <1>2 DEF TypeInv, Status
  <2>2. QED
    BY <1>2, <1>3, <1>7, <2>1, RaiseTyped
<1>8. QED
  BY <1>5, <1>6, <1>7

\* What leaves the requests and the cache alone and adds no row.
LEMMA QuietRows ==
  ASSUME TypeInv, UNCHANGED <<cache, req>>, rows' \cup tasks' \subseteq rows \cup tasks,
         StatsTyped(stats'),
         policy' = {} \/ \E raw \in Policies : ValidPolicy(raw, Registered) /\ policy' = {raw},
         edits' \in 0 .. MaxEdits, others' \in 0 .. MaxOthers
  PROVE  TypeInv'
<1>1. (\A e \in cache' : e.target \in Target) /\ tasks' \cup rows' \subseteq Row
  BY DEF TypeInv
<1>2. req' = [r \in Request |-> req'[r]]
  BY DEF TypeInv
<1>3. \A r \in Request : req'[r] \in {New, Lost} \/ Proper(req'[r])
  BY DEF TypeInv
<1>4. QED
  BY <1>1, <1>2, <1>3 DEF TypeInv

LEMMA NoStatsTyped ==
  ASSUME NEW st, st = [t \in Target |-> NoStats] PROVE StatsTyped(st)
  BY NoStatsIs DEF StatsTyped

LEMMA RestartTyped ==
  ASSUME TypeInv, Restart
  PROVE  TypeInv'
<1>1. /\ req' = [r \in Request |->
                   IF req[r] = New \/ req[r].pc \in Over THEN req[r] ELSE Lost]
      /\ tasks' = {} /\ UNCHANGED <<policy, cache, rows, edits, others>>
      /\ stats' = [t \in Target |-> NoStats]
  BY DEF Restart
<1>2. req' = [r \in Request |-> req'[r]]
  BY <1>1
<1>3. \A r \in Request : req'[r] \in {New, Lost} \/ Proper(req'[r])
  BY <1>1 DEF TypeInv
<1>4. StatsTyped(stats')
  BY <1>1, NoStatsTyped
<1>5. QED
  BY <1>1, <1>2, <1>3, <1>4 DEF TypeInv

LEMMA TypeInvInit ==
  ASSUME PipelineInit
  PROVE  TypeInv
<1>1. StatsTyped(stats)
  BY NoStatsTyped DEF PipelineInit
<1>2. \A e \in cache : e.target \in Target
  BY PipelineAssumption DEF PipelineInit, PipelineAssumption
<1>3. req = [r \in Request |-> req[r]] /\ \A r \in Request : req[r] = New
  BY DEF PipelineInit
<1>4. edits \in 0 .. MaxEdits /\ others \in 0 .. MaxOthers
  BY PipelineAssumption DEF PipelineInit, PipelineAssumption
<1>5. tasks \cup rows \subseteq Row
  BY DEF PipelineInit
<1>6. policy = {} \/ \E raw \in Policies : ValidPolicy(raw, Registered) /\ policy = {raw}
  BY DEF PipelineInit
<1>7. QED
  BY <1>1, <1>2, <1>3, <1>4, <1>5, <1>6 DEF TypeInv

LEMMA TypeInvNext ==
  ASSUME PipelineInv, TypeInv, [PipelineNext]_pipelineVars
  PROVE  TypeInv'
<1>0. /\ StatsTyped(stats) /\ edits \in 0 .. MaxEdits /\ others \in 0 .. MaxOthers
      /\ policy = {} \/ \E raw \in Policies : ValidPolicy(raw, Registered) /\ policy = {raw}
      /\ MaxEdits \in Nat /\ MaxOthers \in Nat
  BY PipelineAssumption DEF TypeInv, PipelineAssumption
<1>1. CASE UNCHANGED pipelineVars
  <2>1. UNCHANGED <<policy, stats, cache, req, tasks, rows, edits, others>>
    BY <1>1 DEF pipelineVars
  <2>2. QED
    BY <1>0, <2>1, QuietRows
<1>2. ASSUME NEW r \in Request,
             \/ Arrive(r) \/ RateLimit(r) \/ RouteManual(r) \/ Route(r)
             \/ CacheHit(r) \/ CacheMiss(r) \/ Estimate(r) \/ Reserve(r)
             \/ CallServed(r) \/ CallFails(r) \/ CallUnknown(r)
             \/ CallShortCircuited(r) \/ OutOfTime(r) \/ Settle(r)
      PROVE  TypeInv'
  BY <1>2, ArriveTyped, RateLimitTyped, RouteManualTyped, RouteTyped, CacheHitTyped,
     CacheMissTyped, EstimateTyped, ReserveTyped, CallServedTyped, CallFailsTyped,
     CallUnknownTyped, CallShortCircuitedTyped, OutOfTimeTyped, SettleTyped
<1>3. ASSUME NEW row \in tasks, WriteLog(row) \/ LogFails(row)
      PROVE  TypeInv'
  <2>1. /\ UNCHANGED <<policy, stats, cache, req, edits, others>>
        /\ rows' \cup tasks' \subseteq rows \cup tasks
    BY <1>3 DEF WriteLog, LogFails
  <2>2. QED
    BY <1>0, <2>1, QuietRows
<1>4. ASSUME NEW t \in Targets, OtherRequest(t)
      PROVE  TypeInv'
  <2>1. /\ UNCHANGED <<policy, cache, req, tasks, rows, edits>>
        /\ others < MaxOthers /\ others' = others + 1
    BY <1>4 DEF OtherRequest
  <2>2. others' \in 0 .. MaxOthers
    BY <1>0, <2>1
  <2>3. t \in Target
    BY DEF Targets
  <2>4. \/ \E ms \in Measured : stats' = [stats EXCEPT ![t] = AfterSuccess(@, ms)]
        \/ stats' = [stats EXCEPT ![t] = AfterFailure(@)]
    BY <1>4 DEF OtherRequest
  <2>5. StatsTyped(stats')
    BY <1>0, <2>3, <2>4, StatsStep
  <2>6. QED
    BY <1>0, <2>1, <2>2, <2>5, QuietRows
<1>5. ASSUME NEW raw \in Policies, PutPolicy(raw)
      PROVE  TypeInv'
  <2>1. /\ UNCHANGED <<stats, cache, req, tasks, rows, others>>
        /\ edits < MaxEdits /\ edits' = edits + 1
        /\ ValidPolicy(raw, Registered) /\ policy' = {raw}
    BY <1>5 DEF PutPolicy, UpsertPolicy
  <2>2. edits' \in 0 .. MaxEdits
    BY <1>0, <2>1
  <2>3. QED
    BY <1>0, <2>1, <2>2, QuietRows
<1>6. CASE DeletePolicy
  <2>1. /\ UNCHANGED <<stats, cache, req, tasks, rows, others>>
        /\ edits < MaxEdits /\ edits' = edits + 1 /\ policy' = {}
    BY <1>6 DEF DeletePolicy
  <2>2. edits' \in 0 .. MaxEdits
    BY <1>0, <2>1
  <2>3. QED
    BY <1>0, <2>1, <2>2, QuietRows
<1>7. CASE Restart
  BY <1>7, RestartTyped
<1>8. QED
  BY <1>1, <1>2, <1>3, <1>4, <1>5, <1>6, <1>7 DEF PipelineNext

\* Every request has a target as soon as it has been routed, and one with the
\* capabilities it needs unless it was told where to go; the statistics, the
\* cache and the log are of their types.
THEOREM PipelineTyped == PipelineSpec => []TypeInv
<1>1. PipelineInit => TypeInv
  BY TypeInvInit
<1>2. PipelineInv /\ TypeInv /\ [PipelineNext]_pipelineVars => TypeInv'
  BY TypeInvNext
<1>3. QED
  BY <1>1, <1>2, PipelineSound, PTL DEF PipelineSpec

-----------------------------------------------------------------------------
(* What follows for the service.                                           *)

\* A request that the guardrails refuse takes no slot of the rate limit, no
\* reservation and no call; an answer from the cache costs its slot alone;
\* and what fails before the first call keeps nothing of the budget.
THEOREM PipelineRefusedIsFree == PipelineSpec => []RefusedIsFree
<1>1. PipelineInv => RefusedIsFree
  <2>1. SUFFICES ASSUME PipelineInv, NEW r \in Known PROVE
          LET x == req[r]
          IN  /\ GuardrailAction(x.policy["guardrails"], x.q.size, x.q.finds) = "block"
                   => ~x.counted /\ ~x.called /\ x.held = 0
              /\ x.pc = "failed" /\ x.target = NoTarget => ~x.called /\ x.held = 0
              /\ x.hit => x.counted /\ ~x.called /\ x.held = 0 /\ x.arm = 0
              /\ x.called => x.counted
              /\ x.pc = "failed" /\ x.tried = {} /\ ~x.called => x.held = 0
    BY DEF RefusedIsFree
  <2>2. Sound(req[r])
    BY <2>1, KnownSound
  <2>3. QED
    BY <2>2 DEF Sound, Free, Blocked
<1>2. QED
  BY <1>1, PipelineSound, PTL

\* Whatever the administrator stores while a request is on its way, the
\* policy it found at its arrival decides to its end: on the guardrails, the
\* cache, the experiment and the failover.
THEOREM PipelinePolicyPinned == PipelineSpec => []PolicyPinned
<1>1. PipelineInv => PolicyPinned
  <2>1. ASSUME PipelineInv, NEW r \in Known, NEW x, x = req[r], NEW p,
               p = IF x.read /\ x.stored # {} THEN Merge(CHOOSE raw \in x.stored : TRUE)
                                              ELSE GlobalDefault
        PROVE  /\ \/ p["guardrails"].max # NoLimit /\ x.q.size > p["guardrails"].max
                  \/ p["guardrails"].pii = "block" /\ "pii" \in x.q.finds
                  \/ p["guardrails"].injection = "block" /\ "injection" \in x.q.finds
                  => x.pc = "failed" /\ x.target = NoTarget
               /\ x.hit => p["cache"]
               /\ x.arm # 0 => p["experiment"].on
               /\ Cardinality(x.tried \cup {x.target[1]}) > 1
                    => p["fallback"] /\ x.q.failover
    <3>1. Sound(x)
      BY <2>1, KnownSound
    <3>2. x.policy = p
      BY <2>1, <3>1 DEF Sound, Pinned
    <3>3. /\ x.hit => p["cache"]
          /\ x.arm # 0 => p["experiment"].on
          /\ x.tried \subseteq {x.target[1]} \/ (p["fallback"] /\ x.q.failover)
      BY <3>1, <3>2 DEF Sound, Pinned
    <3>4. ASSUME Cardinality(x.tried \cup {x.target[1]}) > 1
          PROVE  p["fallback"] /\ x.q.failover
      <4>1. ASSUME x.tried \subseteq {x.target[1]} PROVE FALSE
        <5>1. x.tried \cup {x.target[1]} = {x.target[1]}
          BY <4>1
        <5>2. Cardinality({x.target[1]}) = 1
          BY FS_Singleton
        <5>3. QED
          BY <3>4, <5>1, <5>2
      <4>2. QED
        BY <3>3, <4>1
    <3>5. ASSUME \/ p["guardrails"].max # NoLimit /\ x.q.size > p["guardrails"].max
                 \/ p["guardrails"].pii = "block" /\ "pii" \in x.q.finds
                 \/ p["guardrails"].injection = "block" /\ "injection" \in x.q.finds
          PROVE  x.pc = "failed" /\ x.target = NoTarget
      <4>1. Blocked(x)
        BY <3>2, <3>5 DEF Blocked, GuardrailAction, TooLong, PiiVerdict, InjectionVerdict
      <4>2. QED
        BY <3>1, <4>1 DEF Sound, Free
    <3>6. QED
      BY <3>3, <3>4, <3>5
  <2>2. QED
    BY <2>1 DEF PolicyPinned
<1>2. QED
  BY <1>1, PipelineSound, PTL

\* The status that a client gets tells what happened to its request, whichever
\* adapter the error came from.
THEOREM PipelineFailureExplained == PipelineSpec => []FailureExplained
<1>1. PipelineInv => FailureExplained
  <2>1. SUFFICES ASSUME PipelineInv, NEW r \in Known PROVE Explained(req[r])
    BY DEF FailureExplained, Explained
  <2>2. QED
    BY <2>1, KnownSound DEF Sound
<1>2. QED
  BY <1>1, PipelineSound, PTL

LEMMA KnownProper ==
  ASSUME TypeInv, NEW r \in Known PROVE Proper(req[r])
  BY DEF TypeInv, Known

\* The type invariant.
THEOREM PipelineTypes == PipelineSpec => []PipelineTypeOK
<1>1. TypeInv => PipelineTypeOK
  <2>1. SUFFICES ASSUME TypeInv PROVE PipelineTypeOK
    OBVIOUS
  <2>2. policy \in {{}} \cup {{raw} : raw \in Policies}
    BY <2>1 DEF TypeInv
  <2>3. StatsTyped(stats)
    BY <2>1 DEF TypeInv
  <2>4. stats \in [Target -> [outcomes : Seq(BOOLEAN), latencies : Seq(Measured)]]
    BY <2>3 DEF StatsTyped, History
  <2>5. \A t \in Target :
          Len(stats[t].outcomes) <= Window /\ Len(stats[t].latencies) <= Window
    BY <2>3 DEF StatsTyped, History
  <2>6. \A r \in Known : req[r] \in RequestRecord
    BY <2>1, KnownProper, TypedIs DEF Proper
  <2>7. /\ \A e \in cache : e.target \in Target
        /\ tasks \cup rows \subseteq Row
        /\ edits \in 0 .. MaxEdits /\ others \in 0 .. MaxOthers
    BY <2>1 DEF TypeInv
  <2>8. QED
    BY <2>2, <2>4, <2>5, <2>6, <2>7 DEF PipelineTypeOK
<1>2. QED
  BY <1>1, PipelineTyped, PTL

\* What the client requires of a model survives the routing decision, a
\* downgrade for the budget and every failover.
THEOREM PipelineCapsHonoured == PipelineSpec => []CapsHonoured
<1>1. TypeInv => CapsHonoured
  <2>1. SUFFICES ASSUME TypeInv, NEW r \in Known,
                        req[r].pc \in {"reserve", "call", "settle"},
                        ~IsManual(req[r].q), req[r].arm = 0
                 PROVE  req[r].q.caps \subseteq MetaOf(req[r].target).caps
    BY DEF CapsHonoured
  <2>2. Proper(req[r])
    BY <2>1, KnownProper
  <2>3. QED
    BY <2>1, <2>2 DEF Proper, OnItsWay, Able
<1>2. QED
  BY <1>1, PipelineTyped, PTL

\* Whatever the statistics have become and whatever the providers answer, no
\* candidate beats the one that the routing engine chooses: not in health, nor
\* in success rate, latency and cost together, in any mode.
THEOREM PipelineRouteUndominated == PipelineSpec => []RouteUndominated
<1>1. TypeInv => RouteUndominated
  <2>1. ASSUME TypeInv, NEW r \in Known, ~IsManual(req[r].q), NEW env \in Environment,
               NEW pool, pool = Eligible(req[r].q, PoolOf(env)),
               NEW best, best = Best(pool, Weights(ResolveMode(req[r].q))),
               NEW c \in pool
        PROVE  /\ c.healthy => best.healthy
               /\ c.success >= best.success /\ c.latency <= best.latency
                    /\ c.cost <= best.cost
                  => /\ c.success = best.success /\ c.latency = best.latency
                     /\ c.cost = best.cost
    <3>1. PICK q \in Question : q = req[r].q
      BY <2>1, KnownProper DEF Proper, Typed
    <3>2. PICK mode \in Mode : mode = ResolveMode(q)
      BY <2>1, <3>1, ModeIs
    <3>3. PICK all : all = PoolOf(env) /\ PoolOK(all)
      BY <2>1, PoolOfIs DEF TypeInv
    <3>4. PICK part : part = Eligible(q, all)
      OBVIOUS
    <3>5. part = pool
      BY <2>1, <3>1, <3>3, <3>4
    <3>6. PoolOK(part) /\ \A d, e \in part : d.healthy => e.healthy
      BY <3>3, <3>4, EligibleIs, PoolPart
    <3>7. c \in part /\ part # {}
      BY <2>1, <3>5
    <3>8. PICK b : b = Best(part, Weights(mode))
      OBVIOUS
    <3>9. b \in part /\ b = best
      BY <2>1, <3>1, <3>2, <3>5, <3>6, <3>7, <3>8, BestIs
    <3>10. c.healthy => b.healthy
      BY <3>6, <3>7, <3>9
    <3>11. \A d \in part : d.healthy = c.healthy
      <4>1. \A d \in part : d.healthy \in BOOLEAN
        BY <3>6 DEF PoolOK, CandidateOK
      <4>2. QED
        BY <3>6, <3>7, <4>1
    <3>12. ASSUME c.success >= b.success, c.latency <= b.latency, c.cost <= b.cost
           PROVE  c.success = b.success /\ c.latency = b.latency /\ c.cost = b.cost
      BY <3>6, <3>7, <3>8, <3>11, <3>12, BestUndominated
    <3>13. QED
      BY <3>9, <3>10, <3>12
  <2>2. QED
    BY <2>1 DEF RouteUndominated
<1>2. QED
  BY <1>1, PipelineTyped, PTL

\* A request that comes to an experiment gets each arm for exactly the arm's
\* share of the buckets: the cumulative weights of _select_arm leave no bucket
\* out and give none to two arms.
THEOREM PipelineArmsGetTheirShare == PipelineSpec => []ArmsGetTheirShare
<1>1. TypeInv => ArmsGetTheirShare
  <2>1. ASSUME TypeInv, NEW r \in Known, NEW e, e = req[r].policy["experiment"], e.on,
               NEW n \in 1 .. Len(e.arms)
        PROVE  100 * Cardinality({b \in 0 .. BucketSize - 1 : Assign(e, b) = n})
                 = e.arms[n].weight * BucketSize
    <3>1. Runnable(e)
      BY <2>1, KnownProper DEF Proper
    <3>2. ExperimentOK(e)
      BY <3>1, RunnableOK
    <3>3. QED
      BY <2>1, <3>2, ShareOfArm
  <2>2. QED
    BY <2>1 DEF ArmsGetTheirShare
<1>2. QED
  BY <1>1, PipelineTyped, PTL
=============================================================================
