----------------------------- MODULE RateLimiter -----------------------------
(***************************************************************************)
(* RateLimiter.check_all (rate_limit/limiter.py): the two-window counters  *)
(* in Redis that a chat request is checked against, one check each for its *)
(* API key, its team and its organization.                                 *)
(*                                                                         *)
(* A check reads the clock, sends the Lua script, and awaits the answer.   *)
(* Redis runs the script in one step, up to MaxLag ticks after the clock   *)
(* was read; the answer comes back later still.  Requests of all gateway   *)
(* processes interleave freely, and any round trip can fail, before or     *)
(* after the script has run.                                               *)
(***************************************************************************)
EXTENDS Integers, Sequences, FiniteSetsExt

CONSTANTS
    Caller,         \* clients; each sends one request at a time
    IdOf,           \* IdOf[c][s]: the id a caller is counted under in a scope
    Limit,          \* Limit[s]: the configured requests per window
    Window,         \* Window[s]: the window's length, in ticks
    MaxLag,         \* bound: ticks from reading the clock to the script
    MaxTime,        \* bound: last tick
    MaxRequests,    \* bound: requests in a behaviour
    MaxFaults       \* bound: round trips that fail, and cancellations

\* check_all takes the scopes in this order, all three of them every time.
Scopes == <<"key", "team", "org">>
Scope == {"key", "team", "org"}

ASSUME LimiterAssumption ==
    /\ Limit \in [Scope -> Nat] /\ Window \in [Scope -> Nat \ {0}]
    /\ MaxTime \in Nat /\ MaxRequests \in Nat /\ MaxFaults \in Nat
    /\ MaxLag \in Nat /\ \A s \in Scope : MaxLag <= Window[s]

VARIABLES
    now,            \* the clock
    store,          \* Redis: the counters by key, n = 0 when there is none
    req,            \* each caller's request
    begun,          \* requests so far
    faults,         \* failed round trips and cancellations so far
    passed,         \* history: checks passed, by key
    passedAt,       \* history: the same, by bucket and clock reading
    late            \* history: keys with a check that passed in a later
                    \* window than the one its clock reading is in

histories == <<passed, passedAt, late>>
limiterVars == <<now, store, req, begun, faults, histories>>

Time == 0 .. MaxTime
Slot == Time                            \* window numbers
Bucket == {<<s, IdOf[c][s]>> : s \in Scope, c \in Caller}
Key == {<<b[1], b[2], d>> : b \in Bucket, d \in Slot}
                                        \* ratelimit:<scope>:<id>:<window>
Counter == [n : Nat, ttl : Nat]
NoCounter == [n |-> 0, ttl |-> 0]

InCheck == {"sent", "answered"}

\* `at' and `stamp' (until Redis has used it) belong to the check in progress,
\* ok and `after', its retry_after_seconds, to the answer.  `blocked' are the
\* scopes that have rejected the request, and retry is their longest wait.
\* `wait' counts down a rejected caller's Retry-After; `was' are the scopes
\* that had blocked the request before, when this one came no sooner than its
\* Retry-After asked for.
RequestRecord ==
    [pc : {"idle", "rejected"} \cup InCheck,
     at : 1 .. Len(Scopes), stamp : Time, ok : BOOLEAN, after : Nat,
     blocked : SUBSET Scope, retry : Nat, wait : Nat, was : SUBSET Scope]

Idle == [pc |-> "idle", at |-> 1, stamp |-> 0, ok |-> TRUE, after |-> 0,
         blocked |-> {}, retry |-> 0, wait |-> 0, was |-> {}]

-----------------------------------------------------------------------------
(* The Lua script.                                                         *)

\* The keys of a check whose clock reading was t.
CurrKey(s, i, t) == <<s, i, t \div Window[s]>>

PrevCount(s, i, t) ==
    IF t \div Window[s] = 0 THEN 0
    ELSE store[<<s, i, (t \div Window[s]) - 1>>].n

\* Mutant: a counter lives for one window only.
IncrementedOneWindow(s, b) ==
    IF b.n = 0 THEN [n |-> 1, ttl |-> Window[s]]
               ELSE [n |-> b.n + 1, ttl |-> b.ttl]

\* Mutant: the expiry is not set, so that TTL answers -1.
IncrementedForever(s, b) == [n |-> b.n + 1, ttl |-> -1]

\* INCR, with EXPIRE on the first hit.
Incremented(s, b) ==
    IF b.n = 0 THEN [n |-> 1, ttl |-> 2 * Window[s]]
               ELSE [n |-> b.n + 1, ttl |-> b.ttl]

\* Mutant: a plain fixed-window counter.
EffectiveFixed(s, prev, curr, elapsed) == curr

\* ceil(prev * (1 - elapsed / window) + curr)
Effective(s, prev, curr, elapsed) ==
    curr + (prev * (Window[s] - elapsed) + Window[s] - 1) \div Window[s]

\* Mutant: a rejection asks to wait for the end of the window only.
AfterToReset(s, b, t) == Window[s] - (t % Window[s])

\* retry_after_seconds of a scope that blocks: the TTL of its counter.
After(s, b, t) == b.ttl

-----------------------------------------------------------------------------
(* check_all.                                                              *)

Become(c, q) == req' = [req EXCEPT ![c] = q]

ScopeOf(q) == Scopes[q.at]

Begin(c) ==
    /\ req[c].pc \notin InCheck
    /\ begun < MaxRequests
    /\ begun' = begun + 1
    /\ Become(c, [Idle EXCEPT !.pc = "sent", !.stamp = now,
                              !.was = IF req[c].pc = "rejected" /\ req[c].wait = 0
                                        THEN req[c].blocked ELSE {}])
    /\ UNCHANGED <<now, store, faults, histories>>

\* Redis runs the script.
RunScript(c) ==
    LET q    == req[c]
        s    == ScopeOf(q)
        i    == IdOf[c][s]
        k    == CurrKey(s, i, q.stamp)
        curr == Incremented(s, store[k])
        ok   == Effective(s, PrevCount(s, i, q.stamp), curr.n,
                          q.stamp % Window[s]) <= Limit[s]
    IN  /\ q.pc = "sent"
        /\ store' = [store EXCEPT ![k] = curr]
        /\ Become(c, [q EXCEPT !.pc = "answered", !.stamp = 0, !.ok = ok,
                               !.after = IF ok THEN 0 ELSE After(s, curr, q.stamp)])
        /\ IF ok
             THEN /\ passed' = [passed EXCEPT ![k] = @ + 1]
                  /\ passedAt' = [passedAt EXCEPT ![<<s, i>>][q.stamp] = @ + 1]
                  /\ late' = IF k = CurrKey(s, i, now) THEN late ELSE late \cup {k}
             ELSE UNCHANGED histories
        /\ UNCHANGED <<now, begun, faults>>

\* The check is over: go on to the next scope, whatever this one said, or
\* give the verdict, with the longest wait of the scopes that have blocked.
Proceed(c, ok) ==
    LET q       == req[c]
        retry   == IF ok \/ q.after <= q.retry THEN q.retry ELSE q.after
        blocked == IF ok THEN q.blocked ELSE q.blocked \cup {ScopeOf(q)}
    IN  /\ \/ /\ q.at < Len(Scopes)
              /\ Become(c, [q EXCEPT !.pc = "sent", !.at = @ + 1, !.stamp = now,
                                     !.ok = TRUE, !.after = 0,
                                     !.blocked = blocked, !.retry = retry])
           \/ /\ q.at = Len(Scopes) /\ blocked = {}
              /\ Become(c, Idle)
           \/ /\ q.at = Len(Scopes) /\ blocked # {}
              /\ Become(c, [Idle EXCEPT !.pc = "rejected", !.blocked = blocked,
                                        !.wait = retry, !.was = q.was])
        /\ UNCHANGED <<now, store, begun, histories>>

Reply(c) ==
    /\ req[c].pc = "answered"
    /\ Proceed(c, req[c].ok)
    /\ UNCHANGED faults

Fault == faults < MaxFaults /\ faults' = faults + 1

\* Redis is down, times out, or its answer is lost: the scope lets through.
RedisFails(c) ==
    /\ req[c].pc \in InCheck
    /\ Proceed(c, TRUE)
    /\ Fault

Cancel(c) ==
    /\ req[c].pc \in InCheck
    /\ Become(c, Idle)
    /\ Fault
    /\ UNCHANGED <<now, store, begun, histories>>

-----------------------------------------------------------------------------
(* Time.                                                                   *)

\* A counter whose time has come is deleted.
Older(b) ==
    IF b.ttl > 1 THEN [n |-> b.n, ttl |-> b.ttl - 1] ELSE NoCounter

Tick ==
    /\ now < MaxTime
    /\ \A c \in Caller : req[c].pc = "sent" => now < req[c].stamp + MaxLag
    /\ now' = now + 1
    /\ store' = [k \in Key |-> Older(store[k])]
    /\ req' = [c \in Caller |->
                 [req[c] EXCEPT !.wait = IF @ > 0 THEN @ - 1 ELSE 0]]
    /\ UNCHANGED <<begun, faults, histories>>

LimiterInit ==
    /\ now = 0 /\ begun = 0 /\ faults = 0
    /\ store = [k \in Key |-> NoCounter]
    /\ req = [c \in Caller |-> Idle]
    /\ passed = [k \in Key |-> 0]
    /\ passedAt = [b \in Bucket |-> [t \in Time |-> 0]]
    /\ late = {}

LimiterNext ==
    \/ \E c \in Caller :
         Begin(c) \/ RunScript(c) \/ Reply(c) \/ RedisFails(c) \/ Cancel(c)
    \/ Tick

LimiterSpec == LimiterInit /\ [][LimiterNext]_limiterVars

-----------------------------------------------------------------------------
(* Properties.                                                             *)

LimiterTypeOK ==
    /\ now \in Time /\ begun \in 0 .. MaxRequests /\ faults \in 0 .. MaxFaults
    /\ store \in [Key -> Counter]
    /\ req \in [Caller -> RequestRecord]
    /\ passed \in [Key -> Nat] /\ passedAt \in [Bucket -> [Time -> Nat]]
    /\ late \in SUBSET Key

\* However checks are delayed and reordered, no more than the limit pass in
\* one window of a key, team or organization: the counter outlives every
\* check that still refers to it.
WithinLimit == \A k \in Key : passed[k] <= Limit[k[1]]

\* limiter.py: the burst is limited to about the limit times one plus what
\* remains of the window before, "not 2x limit".  Twice the limit passes in a
\* stretch of a window's length, wherever it begins, only when a check of one
\* of the two windows it touches passed after that window's end.
BurstExplained ==
    \A b \in Bucket, t \in Time :
      LET d       == t \div Window[b[1]]
          stretch == t .. Min({MaxTime, t + Window[b[1]] - 1})
      IN  /\ Limit[b[1]] > 0
          /\ MapThenSumSet(LAMBDA u : passedAt[b][u], stretch) >= 2 * Limit[b[1]]
          => <<b[1], b[2], d>> \in late \/ <<b[1], b[2], d + 1>> \in late

\* Nobody else is counted under the caller's id in this scope.
Own(c, s) == \A d \in Caller : d # c => IdOf[d][s] # IdOf[c][s]

\* Retry-After is long enough, although the answer names one wait for three
\* scopes: a caller that waits for it is not blocked again by a scope that has
\* blocked it and in which it does not share its id.
RetryAfterSuffices ==
    \A c \in Caller, s \in Scope :
      Own(c, s) /\ Limit[s] > 0 /\ s \in req[c].was => s \notin req[c].blocked
=============================================================================
