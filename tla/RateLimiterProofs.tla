-------------------------- MODULE RateLimiterProofs --------------------------
(***************************************************************************)
(* Theorems about RateLimiter for any callers, ids, limits, windows and    *)
(* delays up to a window.                                                  *)
(*                                                                         *)
(* WithinLimit is not inductive: that a counter starts again from nothing  *)
(* is harmless only because nobody refers to it any more.  The invariant   *)
(* therefore says until when a counter lives, and that a key whose counter *)
(* is gone before that moment has let nobody through (KeySound).  Two more *)
(* invariants rest on it: BurstInv, on what passes in consecutive windows, *)
(* and RetryInv, on the order in which the counters of a bucket expire.    *)
(***************************************************************************)
EXTENDS RateLimiter, FiniteSums

-----------------------------------------------------------------------------
(* The inductive invariant.                                                *)

\* The end of the window after the one that a key counts.  By then every
\* script sent with this key has run.
Lapses(k) == (k[3] + 2) * Window[k[1]]

KeySound(k) ==
    /\ store[k].n > 0 =>
         /\ store[k].ttl >= 1 /\ Lapses(k) <= now + store[k].ttl
         /\ passed[k] <= store[k].n
    /\ store[k].n = 0 /\ now < Lapses(k) => passed[k] = 0
    /\ passed[k] <= Limit[k[1]]

RequestSound(q) ==
    q.pc = "sent" => q.stamp <= now /\ now <= q.stamp + MaxLag

LimiterInv ==
    /\ LimiterTypeOK
    /\ \A c \in Caller : RequestSound(req[c])
    /\ \A k \in Key : KeySound(k)

-----------------------------------------------------------------------------
(* Windows.                                                                *)

LEMMA Constants ==
  /\ Len(Scopes) = 3 /\ Len(Scopes) \in Nat /\ 1 \in 1 .. Len(Scopes)
  /\ \A n \in 1 .. Len(Scopes) : Scopes[n] \in Scope
  /\ \A m, n \in 1 .. Len(Scopes) : Scopes[m] = Scopes[n] => m = n
  /\ \A s \in Scope : \E n \in 1 .. Len(Scopes) : Scopes[n] = s
  /\ \A s \in Scope : Window[s] \in Nat \ {0} /\ Limit[s] \in Nat /\ MaxLag <= Window[s]
  /\ MaxLag \in Nat /\ MaxTime \in Nat
<1>1. /\ Limit \in [Scope -> Nat] /\ Window \in [Scope -> Nat \ {0}]
      /\ MaxTime \in Nat /\ MaxLag \in Nat /\ \A s \in Scope : MaxLag <= Window[s]
  BY LimiterAssumption DEF LimiterAssumption
<1>2. Len(Scopes) = 3 /\ Scopes[1] = "key" /\ Scopes[2] = "team" /\ Scopes[3] = "org"
  BY DEF Scopes
<1>3. 1 .. Len(Scopes) = {1, 2, 3}
  BY <1>2
<1>4. \A n \in 1 .. Len(Scopes) : Scopes[n] \in Scope
  BY <1>2, <1>3 DEF Scope
<1>5. \A m, n \in 1 .. Len(Scopes) : Scopes[m] = Scopes[n] => m = n
  BY <1>2, <1>3
<1>6. \A s \in Scope : \E n \in 1 .. Len(Scopes) : Scopes[n] = s
  BY <1>2, <1>3 DEF Scope
<1>7. QED
  BY <1>1, <1>2, <1>3, <1>4, <1>5, <1>6

\* Buckets and their keys.
LEMMA Keys ==
  /\ \A s, i, d : <<s, i, d>> \in Key <=> <<s, i>> \in Bucket /\ d \in Slot
  /\ \A k \in Key : /\ k = <<k[1], k[2], k[3]>> /\ k[1] \in Scope
                    /\ <<k[1], k[2]>> \in Bucket /\ k[3] \in Slot
  /\ \A b \in Bucket : b = <<b[1], b[2]>> /\ b[1] \in Scope
  /\ \A c \in Caller, s \in Scope : <<s, IdOf[c][s]>> \in Bucket
<1>1. \A b \in Bucket : b = <<b[1], b[2]>> /\ b[1] \in Scope
  BY DEF Bucket
<1>2. \A c \in Caller, s \in Scope : <<s, IdOf[c][s]>> \in Bucket
  BY DEF Bucket
<1>3. ASSUME NEW k \in Key
      PROVE  /\ k = <<k[1], k[2], k[3]>> /\ k[1] \in Scope
             /\ <<k[1], k[2]>> \in Bucket /\ k[3] \in Slot
  <2>1. PICK b \in Bucket, d \in Slot : k = <<b[1], b[2], d>>
    BY DEF Key
  <2>2. b = <<b[1], b[2]>> /\ b[1] \in Scope
    BY <1>1
  <2>3. k[1] = b[1] /\ k[2] = b[2] /\ k[3] = d
    BY <2>1
  <2>4. QED
    BY <2>1, <2>2, <2>3
<1>4. ASSUME NEW s, NEW i, NEW d, <<s, i>> \in Bucket, d \in Slot PROVE <<s, i, d>> \in Key
  <2>1. PICK b \in Bucket : b = <<s, i>>
    BY <1>4
  <2>2. <<s, i, d>> = <<b[1], b[2], d>>
    BY <2>1
  <2>3. QED
    BY <1>4, <2>2 DEF Key
<1>5. ASSUME NEW s, NEW i, NEW d, <<s, i, d>> \in Key PROVE <<s, i>> \in Bucket /\ d \in Slot
  <2>1. PICK k \in Key : k = <<s, i, d>>
    BY <1>5
  <2>2. k[1] = s /\ k[2] = i /\ k[3] = d
    BY <2>1
  <2>3. QED
    BY <1>3, <2>1, <2>2
<1>6. QED
  BY <1>1, <1>2, <1>3, <1>4, <1>5

\* Division by a window.
LEMMA Divided ==
  ASSUME NEW t \in Nat, NEW w \in Nat \ {0}
  PROVE  /\ t \div w \in Nat /\ t \div w <= t /\ t % w \in 0 .. w - 1
         /\ w * (t \div w) <= t /\ t < w * (t \div w) + w
<1>1. t \div w \in Nat /\ t % w \in 0 .. w - 1
  OBVIOUS
<1>2. w * (t \div w) <= t /\ t < w * (t \div w) + w
  OBVIOUS
<1>3. t \div w <= t
  OBVIOUS
<1>4. QED
  BY <1>1, <1>2, <1>3

\* The key of a clock reading, and when it lapses.
LEMMA KeyOfStamp ==
  ASSUME NEW s \in Scope, NEW i, <<s, i>> \in Bucket, NEW t \in Time
  PROVE  /\ CurrKey(s, i, t) \in Key /\ CurrKey(s, i, t)[1] = s
         /\ Lapses(CurrKey(s, i, t)) <= t + 2 * Window[s]
         /\ t + Window[s] < Lapses(CurrKey(s, i, t))
         /\ t % Window[s] \in 0 .. Window[s] - 1
<1> DEFINE w == Window[s]
           d == t \div w
<1>1. w \in Nat \ {0} /\ t \in Nat /\ t <= MaxTime /\ MaxTime \in Nat
  BY Constants DEF Time
<1>2. d \in Nat /\ d <= t /\ w * d <= t /\ t < w * d + w /\ t % w \in 0 .. w - 1
  BY <1>1, Divided
<1>3. CurrKey(s, i, t) = <<s, i, d>>
  BY DEF CurrKey
<1> HIDE DEF w, d
<1>4. (d + 2) * w = w * d + 2 * w /\ w * d \in Nat
  BY <1>1, <1>2
<1>5. Lapses(<<s, i, d>>) = (d + 2) * w
  BY DEF Lapses, w
<1>6. <<s, i, d>> \in Key
  <2>1. d \in Slot
    BY <1>1, <1>2 DEF Slot, Time
  <2>2. QED
    BY <2>1, Keys
<1>7. QED
  BY <1>1, <1>2, <1>3, <1>4, <1>5, <1>6 DEF w

LEMMA LapsesInt ==
  ASSUME NEW k \in Key
  PROVE  Lapses(k) \in Nat /\ k[1] \in Scope
<1>1. k[1] \in Scope /\ k[3] \in Nat
  <2>1. k[1] \in Scope /\ k[3] \in Slot
    BY Keys
  <2>2. QED
    BY <2>1, Constants DEF Slot, Time
<1>2. Window[k[1]] \in Nat
  BY <1>1, Constants
<1>3. \A a \in Nat, b \in Nat : (a + 2) * b \in Nat
  OBVIOUS
<1>4. QED
  BY <1>1, <1>2, <1>3 DEF Lapses

\* The weighted count is at least the count of the window itself, and that
\* alone when the window before is empty.
LEMMA EffectiveBounds ==
  ASSUME NEW s \in Scope, NEW prev \in Nat, NEW curr \in Nat,
         NEW elapsed \in 0 .. Window[s] - 1
  PROVE  /\ Effective(s, prev, curr, elapsed) \in Int
         /\ Effective(s, prev, curr, elapsed) >= curr
         /\ prev = 0 => Effective(s, prev, curr, elapsed) = curr
<1> DEFINE w == Window[s]
<1>1. w \in Nat \ {0} /\ elapsed \in 0 .. w - 1
  BY Constants
<1>2. Effective(s, prev, curr, elapsed) = curr + (prev * (w - elapsed) + w - 1) \div w
  BY DEF Effective
<1> HIDE DEF w
<1>3. curr + (prev * (w - elapsed) + w - 1) \div w \in Int
      /\ curr + (prev * (w - elapsed) + w - 1) \div w >= curr
  BY <1>1
<1>4. (0 * (w - elapsed) + w - 1) \div w = 0
  BY <1>1
<1>5. QED
  BY <1>2, <1>3, <1>4

LEMMA PrevCountTyped ==
  ASSUME LimiterTypeOK, NEW s \in Scope, NEW i, <<s, i>> \in Bucket, NEW t \in Time
  PROVE  PrevCount(s, i, t) \in Nat
<1>1. Window[s] \in Nat \ {0} /\ t \in Nat /\ MaxTime \in Nat
  BY Constants DEF Time
<1>2. t \div Window[s] \in Nat /\ t \div Window[s] <= t
  BY <1>1, Divided
<1>3. CASE t \div Window[s] = 0
  BY <1>3 DEF PrevCount
<1>4. CASE t \div Window[s] # 0
  <2>1. (t \div Window[s]) - 1 \in Slot
    BY <1>1, <1>2, <1>4 DEF Slot, Time
  <2>2. <<s, i, (t \div Window[s]) - 1>> \in Key
    BY <2>1, Keys
  <2>3. store[<<s, i, (t \div Window[s]) - 1>>].n \in Nat
    BY <2>2 DEF LimiterTypeOK, Counter
  <2>4. QED
    BY <1>4, <2>3 DEF PrevCount
<1>5. QED
  BY <1>3, <1>4

-----------------------------------------------------------------------------
(* Request records.                                                        *)

LEMMA IdleTyped ==
  /\ Idle \in RequestRecord /\ Idle.pc = "idle" /\ Idle.at = 1 /\ Idle.ok = TRUE
  /\ Idle.blocked = {} /\ Idle.was = {} /\ Idle.retry = 0 /\ Idle.wait = 0
  BY Constants DEF Idle, RequestRecord, Time

\* A request whose first check is sent, and one that is rejected.
Sending(t, was) == [Idle EXCEPT !.pc = "sent", !.stamp = t, !.was = was]
Verdict(bs, r, was) == [Idle EXCEPT !.pc = "rejected", !.blocked = bs, !.wait = r, !.was = was]

LEMMA SendingRecord ==
  ASSUME NEW t \in Time, NEW was \in SUBSET Scope
  PROVE  /\ Sending(t, was) \in RequestRecord
         /\ Sending(t, was).pc = "sent" /\ Sending(t, was).stamp = t
         /\ Sending(t, was).at = 1 /\ Sending(t, was).was = was
         /\ Sending(t, was).blocked = {} /\ Sending(t, was).retry = 0
  BY IdleTyped DEF Sending, RequestRecord, InCheck

LEMMA VerdictRecord ==
  ASSUME NEW bs \in SUBSET Scope, NEW r \in Nat, NEW was \in SUBSET Scope
  PROVE  /\ Verdict(bs, r, was) \in RequestRecord
         /\ Verdict(bs, r, was).pc = "rejected" /\ Verdict(bs, r, was).wait = r
         /\ Verdict(bs, r, was).blocked = bs /\ Verdict(bs, r, was).was = was
  BY IdleTyped DEF Verdict, RequestRecord, InCheck

\* A check that Redis has answered.
Told(q, ok, after) == [q EXCEPT !.pc = "answered", !.stamp = 0, !.ok = ok, !.after = after]

LEMMA ToldRecord ==
  ASSUME NEW q \in RequestRecord, NEW ok \in BOOLEAN, NEW after \in Nat
  PROVE  /\ Told(q, ok, after) \in RequestRecord
         /\ Told(q, ok, after).pc = "answered" /\ Told(q, ok, after).ok = ok
         /\ Told(q, ok, after).after = after /\ Told(q, ok, after).at = q.at
         /\ Told(q, ok, after).blocked = q.blocked /\ Told(q, ok, after).was = q.was
         /\ Told(q, ok, after).retry = q.retry
<1>1. 0 \in Time
  BY Constants DEF Time
<1>2. QED
  BY <1>1 DEF Told, RequestRecord, InCheck

\* The check of the next scope.
Asked(q, a, t, bs, r) ==
    [q EXCEPT !.pc = "sent", !.at = a, !.stamp = t, !.ok = TRUE, !.after = 0,
              !.blocked = bs, !.retry = r]

LEMMA AskedRecord ==
  ASSUME NEW q \in RequestRecord, NEW a \in 1 .. Len(Scopes), NEW t \in Time,
         NEW bs \in SUBSET Scope, NEW r \in Nat
  PROVE  /\ Asked(q, a, t, bs, r) \in RequestRecord /\ Asked(q, a, t, bs, r).pc = "sent"
         /\ Asked(q, a, t, bs, r).stamp = t /\ Asked(q, a, t, bs, r).at = a
         /\ Asked(q, a, t, bs, r).blocked = bs /\ Asked(q, a, t, bs, r).retry = r
         /\ Asked(q, a, t, bs, r).was = q.was
  BY DEF Asked, RequestRecord, InCheck

\* One tick of the wait.
Waited(q) == [q EXCEPT !.wait = IF @ > 0 THEN @ - 1 ELSE 0]

LEMMA WaitedRecord ==
  ASSUME NEW q \in RequestRecord
  PROVE  /\ Waited(q) \in RequestRecord
         /\ Waited(q).pc = q.pc /\ Waited(q).stamp = q.stamp /\ Waited(q).blocked = q.blocked
         /\ Waited(q).ok = q.ok /\ Waited(q).after = q.after /\ Waited(q).retry = q.retry
         /\ Waited(q).was = q.was /\ Waited(q).at = q.at
         /\ Waited(q).wait = IF q.wait > 0 THEN q.wait - 1 ELSE 0
<1> DEFINE v == IF q.wait > 0 THEN q.wait - 1 ELSE 0
<1>1. v \in Nat
  BY DEF RequestRecord
<1>2. Waited(q) = [q EXCEPT !.wait = v]
  BY DEF Waited
<1> HIDE DEF v
<1>3. /\ [q EXCEPT !.wait = v] \in RequestRecord
      /\ [q EXCEPT !.wait = v].wait = v
  BY <1>1 DEF RequestRecord
<1>4. /\ Waited(q).pc = q.pc /\ Waited(q).stamp = q.stamp /\ Waited(q).blocked = q.blocked
      /\ Waited(q).ok = q.ok /\ Waited(q).after = q.after /\ Waited(q).retry = q.retry
      /\ Waited(q).was = q.was /\ Waited(q).at = q.at
  BY <1>2 DEF RequestRecord
<1>5. QED
  BY <1>2, <1>3, <1>4 DEF v

-----------------------------------------------------------------------------
(* The steps of a check.                                                   *)

\* A step that changes one request and no counter.
LEMMA BecomeKeeps ==
  ASSUME LimiterInv, NEW c \in Caller, NEW q \in RequestRecord, RequestSound(q),
         Become(c, q), begun' \in 0 .. MaxRequests, faults' \in 0 .. MaxFaults,
         UNCHANGED <<now, store, histories>>
  PROVE  LimiterInv'
<1>1. /\ req' \in [Caller -> RequestRecord] /\ req'[c] = q
      /\ \A d \in Caller : d # c => req'[d] = req[d]
  BY DEF LimiterInv, LimiterTypeOK, Become
<1>2. LimiterTypeOK'
  BY <1>1 DEF LimiterInv, LimiterTypeOK, histories
<1>3. (\A d \in Caller : RequestSound(req[d]))'
  <2>1. \A x : RequestSound(x)' <=> RequestSound(x)
    BY DEF RequestSound
  <2>2. QED
    BY <1>1, <2>1 DEF LimiterInv
<1>4. (\A k \in Key : KeySound(k))'
  BY DEF LimiterInv, KeySound, histories
<1>5. QED
  BY <1>2, <1>3, <1>4 DEF LimiterInv

LEMMA OfCheck ==
  ASSUME LimiterInv, NEW c \in Caller
  PROVE  /\ req[c] \in RequestRecord /\ RequestSound(req[c])
         /\ now \in Time /\ now \in Nat /\ begun \in 0 .. MaxRequests
         /\ faults \in 0 .. MaxFaults
  BY Constants DEF LimiterInv, LimiterTypeOK, Time

LEMMA FaultCounted ==
  ASSUME LimiterInv, Fault \/ UNCHANGED faults PROVE faults' \in 0 .. MaxFaults
<1>1. faults \in 0 .. MaxFaults /\ MaxFaults \in Nat
  BY LimiterAssumption DEF LimiterInv, LimiterTypeOK, LimiterAssumption
<1>2. QED
  BY <1>1 DEF Fault

\* What the request knows of the one before it.
Before(c) == IF req[c].pc = "rejected" /\ req[c].wait = 0 THEN req[c].blocked ELSE {}

LEMMA BeginKeeps ==
  ASSUME LimiterInv, NEW c \in Caller, Begin(c) PROVE LimiterInv'
<1> DEFINE q == Sending(now, Before(c))
<1>1. Become(c, q) /\ begun' = begun + 1 /\ begun < MaxRequests
      /\ UNCHANGED <<now, store, faults, histories>>
  BY DEF Begin, Sending, Before
<1>2. begun' \in 0 .. MaxRequests /\ faults' \in 0 .. MaxFaults
  BY <1>1, OfCheck, LimiterAssumption DEF LimiterAssumption
<1>3. Before(c) \in SUBSET Scope /\ now \in Time /\ now \in Nat
  <2>1. req[c].blocked \in SUBSET Scope
    BY OfCheck DEF RequestRecord
  <2>2. QED
    BY <2>1, OfCheck DEF Before
<1>4. q \in RequestRecord /\ q.pc = "sent" /\ q.stamp = now
  BY <1>3, SendingRecord
<1> HIDE DEF q
<1>5. RequestSound(q)
  BY <1>3, <1>4, Constants DEF RequestSound
<1>6. QED
  BY <1>1, <1>2, <1>4, <1>5, BecomeKeeps

\* The end of a check: the next one, admission, or rejection.
Wait(q, ok) == IF ok \/ q.after <= q.retry THEN q.retry ELSE q.after
Blockers(q, ok) == IF ok THEN q.blocked ELSE q.blocked \cup {ScopeOf(q)}

LEMMA ProceedTo ==
  ASSUME LimiterInv, NEW c \in Caller, NEW ok \in BOOLEAN, Proceed(c, ok)
  PROVE  /\ UNCHANGED <<now, store, begun, histories>>
         /\ Wait(req[c], ok) \in Nat /\ Blockers(req[c], ok) \in SUBSET Scope
         /\ \/ /\ req[c].at < Len(Scopes) /\ req[c].at + 1 \in 1 .. Len(Scopes)
               /\ Become(c, Asked(req[c], req[c].at + 1, now, Blockers(req[c], ok),
                                  Wait(req[c], ok)))
            \/ Become(c, Idle)
            \/ Become(c, Verdict(Blockers(req[c], ok), Wait(req[c], ok), req[c].was))
<1> DEFINE q == req[c]
<1>1. UNCHANGED <<now, store, begun, histories>>
  BY DEF Proceed
<1>2. q \in RequestRecord
  BY OfCheck
<1>3. /\ q.at \in 1 .. Len(Scopes) /\ q.retry \in Nat /\ q.after \in Nat
      /\ q.blocked \in SUBSET Scope
  BY <1>2 DEF RequestRecord
<1>4. ScopeOf(q) \in Scope
  BY <1>3, Constants DEF ScopeOf
<1>5. Wait(q, ok) \in Nat
  BY <1>3 DEF Wait
<1>6. Blockers(q, ok) \in SUBSET Scope
  BY <1>3, <1>4 DEF Blockers
<1>7. \/ q.at < Len(Scopes) /\ Become(c, Asked(q, q.at + 1, now, Blockers(q, ok), Wait(q, ok)))
      \/ Become(c, Idle)
      \/ Become(c, Verdict(Blockers(q, ok), Wait(q, ok), q.was))
  BY DEF Proceed, Asked, Verdict, Wait, Blockers
<1>8. q.at < Len(Scopes) => q.at + 1 \in 1 .. Len(Scopes)
  BY <1>3, Constants
<1>9. QED
  BY <1>1, <1>5, <1>6, <1>7, <1>8

LEMMA ProceedKeeps ==
  ASSUME LimiterInv, NEW c \in Caller, NEW ok \in BOOLEAN, Proceed(c, ok),
         faults' \in 0 .. MaxFaults
  PROVE  LimiterInv'
<1>1. /\ req[c] \in RequestRecord /\ now \in Time /\ now \in Nat /\ begun \in 0 .. MaxRequests
      /\ req[c].was \in SUBSET Scope
  BY OfCheck DEF RequestRecord
<1>2. PICK r, bs : r = Wait(req[c], ok) /\ bs = Blockers(req[c], ok)
  OBVIOUS
<1>3. r \in Nat /\ bs \in SUBSET Scope /\ UNCHANGED <<now, store, begun, histories>>
  BY <1>2, ProceedTo
<1>4. \E q \in RequestRecord : RequestSound(q) /\ Become(c, q)
  <2>1. ASSUME req[c].at + 1 \in 1 .. Len(Scopes),
               Become(c, Asked(req[c], req[c].at + 1, now, bs, r))
        PROVE  \E q \in RequestRecord : RequestSound(q) /\ Become(c, q)
    <3>1. PICK q : q = Asked(req[c], req[c].at + 1, now, bs, r)
      OBVIOUS
    <3>2. q \in RequestRecord /\ q.stamp = now
      BY <1>1, <1>3, <2>1, <3>1, AskedRecord
    <3>3. RequestSound(q)
      BY <1>1, <3>2, Constants DEF RequestSound
    <3>4. QED
      BY <2>1, <3>1, <3>2, <3>3
  <2>2. RequestSound(Idle) /\ Idle \in RequestRecord
    BY IdleTyped DEF RequestSound
  <2>3. /\ Verdict(bs, r, req[c].was) \in RequestRecord
        /\ RequestSound(Verdict(bs, r, req[c].was))
    BY <1>1, <1>3, VerdictRecord DEF RequestSound
  <2>4. QED
    BY <1>2, <2>1, <2>2, <2>3, ProceedTo
<1>5. QED
  BY <1>1, <1>3, <1>4, BecomeKeeps

LEMMA CancelKeeps ==
  ASSUME LimiterInv, NEW c \in Caller, Cancel(c) PROVE LimiterInv'
<1>1. RequestSound(Idle)
  BY IdleTyped DEF RequestSound
<1>2. begun' \in 0 .. MaxRequests /\ faults' \in 0 .. MaxFaults
  BY OfCheck, FaultCounted DEF Cancel
<1>3. QED
  BY <1>1, <1>2, IdleTyped, BecomeKeeps DEF Cancel

\* What the script leaves in its counter.
LEMMA IncrementedCounter ==
  ASSUME NEW s \in Scope, NEW b \in Counter
  PROVE  /\ Incremented(s, b) \in Counter
         /\ Incremented(s, b).n = b.n + 1
         /\ b.n = 0 => Incremented(s, b).ttl = 2 * Window[s]
         /\ b.n > 0 => Incremented(s, b).ttl = b.ttl
<1>1. b.n \in Nat /\ b.ttl \in Nat /\ 2 * Window[s] \in Nat
  BY Constants DEF Counter
<1>2. CASE b.n = 0
  <2>1. Incremented(s, b) = [n |-> 1, ttl |-> 2 * Window[s]]
    BY <1>2 DEF Incremented
  <2>2. QED
    BY <1>1, <1>2, <2>1 DEF Counter
<1>3. CASE b.n # 0
  <2>1. Incremented(s, b) = [n |-> b.n + 1, ttl |-> b.ttl]
    BY <1>3 DEF Incremented
  <2>2. QED
    BY <1>1, <1>3, <2>1 DEF Counter
<1>4. QED
  BY <1>2, <1>3

\* A script that runs: its counter is still the one its window has had from
\* the beginning, and who passes is within the limit.
LEMMA RunScriptKeeps ==
  ASSUME LimiterInv, NEW c \in Caller, RunScript(c) PROVE LimiterInv'
<1> DEFINE q    == req[c]
           s    == ScopeOf(q)
           i    == IdOf[c][s]
           k    == CurrKey(s, i, q.stamp)
           curr == Incremented(s, store[k])
           eff  == Effective(s, PrevCount(s, i, q.stamp), curr.n, q.stamp % Window[s])
           ok   == eff <= Limit[s]
           aft  == IF ok THEN 0 ELSE curr.ttl
           x    == Told(q, ok, aft)
<1>1. /\ q.pc = "sent" /\ store' = [store EXCEPT ![k] = curr] /\ Become(c, x)
      /\ UNCHANGED <<now, begun, faults>>
  BY DEF RunScript, Told, After
<1>2. IF ok
        THEN /\ passed' = [passed EXCEPT ![k] = @ + 1]
             /\ passedAt' = [passedAt EXCEPT ![<<s, i>>][q.stamp] = @ + 1]
             /\ late' \in {late, late \cup {k}}
        ELSE UNCHANGED <<passed, passedAt, late>>
  BY DEF RunScript, histories
<1>3. /\ q \in RequestRecord /\ RequestSound(q) /\ now \in Nat /\ LimiterTypeOK
      /\ q.at \in 1 .. Len(Scopes) /\ q.stamp \in Time /\ q.stamp \in Nat
  BY OfCheck, Constants DEF RequestRecord, LimiterInv, Time
<1>4. s \in Scope /\ <<s, i>> \in Bucket
  BY <1>3, Constants, Keys DEF ScopeOf
<1>5. Limit[s] \in Nat /\ Window[s] \in Nat \ {0} /\ MaxLag <= Window[s] /\ MaxLag \in Nat
  BY <1>4, Constants
<1>6. /\ k \in Key /\ k[1] = s /\ Lapses(k) \in Nat
      /\ Lapses(k) <= q.stamp + 2 * Window[s] /\ q.stamp + Window[s] < Lapses(k)
      /\ q.stamp % Window[s] \in 0 .. Window[s] - 1
  BY <1>3, <1>4, KeyOfStamp, LapsesInt
<1>7. q.stamp <= now /\ now <= q.stamp + MaxLag /\ now < Lapses(k)
  <2> HIDE DEF k, s, q
  <2>1. q.stamp <= now /\ now <= q.stamp + MaxLag
    BY <1>1, <1>3 DEF RequestSound
  <2>2. QED
    BY <1>3, <1>5, <1>6, <2>1
<1>8. store[k] \in Counter /\ store[k].n \in Nat /\ store[k].ttl \in Nat
      /\ passed[k] \in Nat
  BY <1>3, <1>6 DEF LimiterTypeOK, Counter
<1>9. /\ curr \in Counter /\ curr.n = store[k].n + 1 /\ curr.n \in Nat /\ curr.ttl \in Nat
      /\ store[k].n = 0 => curr.ttl = 2 * Window[s]
      /\ store[k].n > 0 => curr.ttl = store[k].ttl
  BY <1>4, <1>8, IncrementedCounter DEF Counter
<1>10. PrevCount(s, i, q.stamp) \in Nat
  BY <1>3, <1>4, PrevCountTyped
<1> HIDE DEF k, curr, s, i
<1>11. eff \in Int /\ eff >= curr.n
  BY <1>4, <1>6, <1>9, <1>10, EffectiveBounds
<1>12. ok \in BOOLEAN /\ (ok => curr.n <= Limit[s])
  BY <1>5, <1>9, <1>11
<1> HIDE DEF eff, ok
<1>13. KeySound(k)
  BY <1>6 DEF LimiterInv
<1>14. /\ curr.ttl >= 1 /\ Lapses(k) <= now + curr.ttl
       /\ passed[k] + 1 <= curr.n /\ passed[k] <= Limit[s]
  <2>1. CASE store[k].n = 0
    <3>1. passed[k] = 0 /\ passed[k] <= Limit[s]
      BY <1>6, <1>7, <1>13, <2>1 DEF KeySound
    <3>2. curr.ttl = 2 * Window[s] /\ curr.n = 1
      BY <1>9, <2>1
    <3>3. now + 2 * Window[s] >= Lapses(k) /\ 2 * Window[s] >= 1
      <4>1. \A t, n, l \in Nat, w \in Nat \ {0} :
              t <= n /\ l <= t + 2 * w => n + 2 * w >= l /\ 2 * w >= 1
        OBVIOUS
      <4> HIDE DEF q
      <4>2. QED
        BY <1>3, <1>5, <1>6, <1>7, <4>1
    <3>4. QED
      BY <3>1, <3>2, <3>3
  <2>2. CASE store[k].n > 0
    BY <1>6, <1>8, <1>9, <1>13, <2>2 DEF KeySound
  <2>3. QED
    BY <1>8, <2>1, <2>2
<1>15. x \in RequestRecord /\ x.pc = "answered"
  <2>1. q \in RequestRecord /\ ok \in BOOLEAN /\ aft \in Nat
    BY <1>3, <1>9, <1>12
  <2> HIDE DEF q, aft
  <2>2. QED
    BY <2>1, ToldRecord
<1>16. /\ store' \in [Key -> Counter] /\ store'[k] = curr
       /\ \A j \in Key : j # k => store'[j] = store[j]
  BY <1>1, <1>3, <1>6, <1>9 DEF LimiterTypeOK
<1>17. /\ passed' \in [Key -> Nat] /\ passed'[k] \in {passed[k], passed[k] + 1}
       /\ (passed'[k] = passed[k] + 1 => ok)
       /\ \A j \in Key : j # k => passed'[j] = passed[j]
  <2>1. CASE ok
    <3>1. passed' = [passed EXCEPT ![k] = passed[k] + 1] /\ passed[k] + 1 \in Nat
      BY <1>2, <1>8, <2>1
    <3>2. QED
      BY <1>3, <1>6, <2>1, <3>1 DEF LimiterTypeOK
  <2>2. CASE ~ok
    BY <1>2, <1>3, <1>6, <1>8, <2>2 DEF LimiterTypeOK
  <2>3. QED
    BY <2>1, <2>2
<1>18. passedAt' \in [Bucket -> [Time -> Nat]]
  <2>1. CASE ok
    <3> DEFINE b == <<s, i>>
               f == passedAt[b]
               g == [f EXCEPT ![q.stamp] = f[q.stamp] + 1]
    <3>1. b \in Bucket /\ f \in [Time -> Nat]
      BY <1>3, <1>4 DEF LimiterTypeOK
    <3>2. f[q.stamp] + 1 \in Nat
      BY <1>3, <3>1
    <3>3. g \in [Time -> Nat]
      BY <1>3, <3>1, <3>2
    <3>4. passedAt' = [passedAt EXCEPT ![b] = g]
      BY <1>2, <2>1
    <3> HIDE DEF g, b
    <3>5. QED
      BY <1>3, <3>1, <3>3, <3>4 DEF LimiterTypeOK
  <2>2. CASE ~ok
    BY <1>2, <1>3, <2>2 DEF LimiterTypeOK
  <2>3. QED
    BY <2>1, <2>2
<1>24. late' \in SUBSET Key
  BY <1>2, <1>3, <1>6 DEF LimiterTypeOK
<1> HIDE DEF x
<1>19. /\ req' \in [Caller -> RequestRecord] /\ req'[c] = x
       /\ \A d \in Caller : d # c => req'[d] = req[d]
  BY <1>1, <1>3, <1>15 DEF LimiterTypeOK, Become
<1>20. LimiterTypeOK'
  BY <1>1, <1>3, <1>16, <1>17, <1>18, <1>19, <1>24 DEF LimiterTypeOK
<1>21. (\A d \in Caller : RequestSound(req[d]))'
  <2>1. RequestSound(x)
    BY <1>15 DEF RequestSound
  <2>2. \A d \in Caller : RequestSound(req[d])
    BY DEF LimiterInv
  <2>3. ASSUME NEW d \in Caller PROVE RequestSound(req[d])'
    <3>1. CASE d = c
      BY <1>1, <1>19, <2>1, <3>1 DEF RequestSound
    <3>2. CASE d # c
      BY <1>1, <1>19, <2>2, <3>2 DEF RequestSound
    <3>3. QED
      BY <3>1, <3>2
  <2>4. QED
    BY <2>3
<1>22. (\A j \in Key : KeySound(j))'
  <2> SUFFICES ASSUME NEW j \in Key PROVE KeySound(j)'
    OBVIOUS
  <2>1. CASE j = k
    <3>1. passed'[k] <= Limit[s] /\ passed'[k] <= curr.n
      BY <1>5, <1>8, <1>9, <1>12, <1>14, <1>17
    <3>2. curr.n > 0
      BY <1>8, <1>9
    <3>3. QED
      BY <1>1, <1>6, <1>14, <1>16, <2>1, <3>1, <3>2 DEF KeySound, Lapses
  <2>2. CASE j # k
    <3>1. store'[j] = store[j] /\ passed'[j] = passed[j] /\ now' = now /\ KeySound(j)
      BY <1>1, <1>16, <1>17, <2>2 DEF LimiterInv
    <3>2. QED
      BY <3>1 DEF KeySound, Lapses
  <2>3. QED
    BY <2>1, <2>2
<1>23. QED
  BY <1>20, <1>21, <1>22 DEF LimiterInv

-----------------------------------------------------------------------------
(* Time.                                                                   *)

LEMMA OlderCounter ==
  ASSUME NEW b \in Counter
  PROVE  /\ Older(b) \in Counter
         /\ b.ttl > 1 => Older(b).n = b.n /\ Older(b).ttl = b.ttl - 1
         /\ ~(b.ttl > 1) => Older(b).n = 0 /\ Older(b).ttl = 0
<1>1. b.n \in Nat /\ b.ttl \in Nat
  BY DEF Counter
<1>2. CASE b.ttl > 1
  <2>1. Older(b) = [n |-> b.n, ttl |-> b.ttl - 1] /\ b.ttl - 1 \in Nat
    BY <1>1, <1>2 DEF Older
  <2>2. QED
    BY <1>1, <1>2, <2>1 DEF Counter
<1>3. CASE ~(b.ttl > 1)
  <2>1. Older(b) = NoCounter
    BY <1>3 DEF Older
  <2>2. QED
    BY <1>3, <2>1 DEF Counter, NoCounter
<1>4. QED
  BY <1>2, <1>3

\* A counter is deleted no sooner than its key lapses.
LEMMA TickKeeps ==
  ASSUME LimiterInv, Tick PROVE LimiterInv'
<1>1. /\ now' = now + 1 /\ now' \in Time /\ now \in Nat
      /\ UNCHANGED <<begun, faults, passed, passedAt, late>>
  BY Constants DEF Tick, LimiterInv, LimiterTypeOK, Time, histories
<1>2. \A c \in Caller : req[c] \in RequestRecord /\ req'[c] = Waited(req[c])
  BY DEF Tick, LimiterInv, LimiterTypeOK, Waited
<1>3. req' \in [Caller -> RequestRecord]
  BY <1>2, WaitedRecord DEF Tick
<1>4. \A k \in Key : store[k] \in Counter /\ store'[k] = Older(store[k])
  BY DEF Tick, LimiterInv, LimiterTypeOK
<1>5. store' \in [Key -> Counter]
  BY <1>4, OlderCounter DEF Tick
<1>6. LimiterTypeOK'
  BY <1>1, <1>3, <1>5 DEF LimiterInv, LimiterTypeOK
<1>7. ASSUME NEW c \in Caller PROVE RequestSound(req[c])'
  <2>1. /\ req'[c].pc = req[c].pc /\ req'[c].stamp = req[c].stamp
        /\ req[c].stamp \in Nat
    BY <1>2, WaitedRecord, Constants DEF RequestRecord, Time
  <2>2. RequestSound(req[c]) /\ (req[c].pc = "sent" => now < req[c].stamp + MaxLag)
    BY DEF LimiterInv, Tick
  <2>3. QED
    BY <1>1, <2>1, <2>2, Constants DEF RequestSound
<1>8. ASSUME NEW k \in Key PROVE KeySound(k)'
  <2>1. /\ store[k] \in Counter /\ store'[k] = Older(store[k]) /\ KeySound(k)
        /\ passed'[k] = passed[k] /\ Lapses(k) \in Nat /\ passed[k] \in Nat
    BY <1>1, <1>4, LapsesInt DEF LimiterInv, LimiterTypeOK
  <2>2. store[k].n \in Nat /\ store[k].ttl \in Nat
    BY <2>1 DEF Counter
  <2>3. CASE store[k].ttl > 1
    <3>1. store'[k].n = store[k].n /\ store'[k].ttl = store[k].ttl - 1
      BY <2>1, <2>3, OlderCounter
    <3>2. store[k].n > 0 => /\ store'[k].ttl >= 1 /\ Lapses(k) <= now' + store'[k].ttl
                            /\ passed[k] <= store[k].n
      BY <1>1, <2>1, <2>2, <2>3, <3>1 DEF KeySound
    <3>3. store[k].n = 0 /\ now' < Lapses(k) => passed[k] = 0
      BY <1>1, <2>1 DEF KeySound
    <3>4. passed[k] <= Limit[k[1]]
      BY <2>1 DEF KeySound
    <3>5. QED
      BY <2>1, <3>1, <3>2, <3>3, <3>4 DEF KeySound, Lapses
  <2>4. CASE ~(store[k].ttl > 1)
    <3>1. store'[k].n = 0
      BY <2>1, <2>4, OlderCounter
    <3>2. now' < Lapses(k) => passed[k] = 0
      BY <1>1, <2>1, <2>2, <2>4 DEF KeySound
    <3>3. passed[k] <= Limit[k[1]]
      BY <2>1 DEF KeySound
    <3>4. QED
      BY <2>1, <3>1, <3>2, <3>3 DEF KeySound, Lapses
  <2>5. QED
    BY <2>3, <2>4
<1>9. QED
  BY <1>6, <1>7, <1>8 DEF LimiterInv

LEMMA LimiterInitInv == LimiterInit => LimiterInv
<1> SUFFICES ASSUME LimiterInit PROVE LimiterInv
  OBVIOUS
<1>0. /\ now = 0 /\ begun = 0 /\ faults = 0 /\ late = {} /\ store = [k \in Key |-> NoCounter]
      /\ req = [c \in Caller |-> Idle]
      /\ passed = [k \in Key |-> 0] /\ passedAt = [b \in Bucket |-> [t \in Time |-> 0]]
  BY DEF LimiterInit
<1>1. now \in Time /\ begun \in 0 .. MaxRequests /\ faults \in 0 .. MaxFaults
  BY <1>0, LimiterAssumption DEF Time, LimiterAssumption
<1>2. NoCounter \in Counter /\ NoCounter.n = 0
  BY DEF NoCounter, Counter
<1>3. LimiterTypeOK
  BY <1>0, <1>1, <1>2, IdleTyped DEF LimiterTypeOK
<1>4. \A c \in Caller : RequestSound(req[c])
  BY <1>0, IdleTyped DEF RequestSound, InCheck
<1>5. \A k \in Key : KeySound(k)
  BY <1>0, <1>2, LapsesInt, Constants DEF KeySound
<1>6. QED
  BY <1>3, <1>4, <1>5 DEF LimiterInv

LEMMA LimiterNextInv == LimiterInv /\ [LimiterNext]_limiterVars => LimiterInv'
<1> SUFFICES ASSUME LimiterInv, [LimiterNext]_limiterVars PROVE LimiterInv'
  OBVIOUS
<1>1. CASE UNCHANGED limiterVars
  BY <1>1 DEF LimiterInv, LimiterTypeOK, RequestSound, KeySound, Lapses, limiterVars, histories
<1>2. ASSUME NEW c \in Caller,
             Begin(c) \/ RunScript(c) \/ Reply(c) \/ RedisFails(c) \/ Cancel(c)
      PROVE  LimiterInv'
  <2>1. CASE Reply(c)
    <3>1. req[c].ok \in BOOLEAN /\ Proceed(c, req[c].ok) /\ UNCHANGED faults
      BY <2>1, OfCheck DEF Reply, RequestRecord
    <3>2. QED
      BY <3>1, ProceedKeeps, FaultCounted
  <2>2. CASE RedisFails(c)
    BY <2>2, ProceedKeeps, FaultCounted DEF RedisFails
  <2>3. QED
    BY <1>2, <2>1, <2>2, BeginKeeps, RunScriptKeeps, CancelKeeps
<1>3. CASE Tick
  BY <1>3, TickKeeps
<1>4. QED
  BY <1>1, <1>2, <1>3 DEF LimiterNext

LEMMA LimiterInvHolds == LimiterSpec => []LimiterInv
  BY LimiterInitInv, LimiterNextInv, PTL DEF LimiterSpec

-----------------------------------------------------------------------------
(* Bursts across the boundary of two windows.  What passes in a stretch of *)
(* a window's length passes in two consecutive windows, and a check of the *)
(* second one that passes has counted at least one request of the first,   *)
(* unless a check of either window passed after the end of its window.     *)

\* The clock readings that fall into a window.
InWindow(s, d) == {t \in Time : t \div Window[s] = d}

\* Nothing has passed in a window that has not begun.
NotEarly ==
    \A k \in Key : passed[k] > 0 => k[3] * Window[k[1]] <= now

\* A window after one in which something passed does not fill up, when the
\* checks of both passed in time.
NotBothFull ==
    \A s \in Scope : \A b \in Bucket : \A d \in Slot :
      b[1] = s /\ d + 1 \in Slot /\ passed[<<s, b[2], d>>] > 0 /\ Limit[s] > 0
        /\ <<s, b[2], d>> \notin late /\ <<s, b[2], d + 1>> \notin late
      => passed[<<s, b[2], d + 1>>] < Limit[s]

\* The two histories agree.
Booked ==
    \A b \in Bucket : \A d \in Slot :
      SumOver(passedAt[b], InWindow(b[1], d)) = passed[<<b[1], b[2], d>>]

BurstInv == LimiterInv /\ NotEarly /\ NotBothFull /\ Booked

LEMMA WindowFinite ==
  ASSUME NEW s \in Scope, NEW d
  PROVE  IsFiniteSet(InWindow(s, d)) /\ InWindow(s, d) \in SUBSET Time
<1>1. IsFiniteSet(Time)
  BY Constants, FS_Interval DEF Time
<1>2. InWindow(s, d) \in SUBSET Time
  BY DEF InWindow
<1>3. QED
  BY <1>1, <1>2, FS_Subset

\* The script lets nobody through, or one request, whose check has counted
\* everything that it should.
LEMMA ScriptPasses ==
  ASSUME LimiterInv, NEW c \in Caller, RunScript(c)
  PROVE  \/ UNCHANGED histories
         \/ \E s \in Scope : \E i : \E t \in Time :
              /\ <<s, i>> \in Bucket
              /\ t <= now /\ now <= t + MaxLag
              /\ passed' = [passed EXCEPT ![CurrKey(s, i, t)] = @ + 1]
              /\ passedAt' = [passedAt EXCEPT ![<<s, i>>][t] = @ + 1]
              /\ late' = IF CurrKey(s, i, t) = CurrKey(s, i, now)
                           THEN late ELSE late \cup {CurrKey(s, i, t)}
              /\ passed[CurrKey(s, i, t)] <= store[CurrKey(s, i, t)].n
              /\ Effective(s, PrevCount(s, i, t), store[CurrKey(s, i, t)].n + 1,
                           t % Window[s]) <= Limit[s]
<1> DEFINE q == req[c]
           s == ScopeOf(q)
           i == IdOf[c][s]
           k == CurrKey(s, i, q.stamp)
<1>1. /\ q \in RequestRecord /\ RequestSound(q) /\ now \in Nat /\ LimiterTypeOK
      /\ q.at \in 1 .. Len(Scopes) /\ q.stamp \in Time /\ q.stamp \in Nat
  BY OfCheck, Constants DEF RequestRecord, LimiterInv, Time
<1>2. q.pc = "sent"
  BY DEF RunScript
<1>3. s \in Scope /\ <<s, i>> \in Bucket
  BY <1>1, Constants, Keys DEF ScopeOf
<1>4. /\ Window[s] \in Nat /\ MaxLag \in Nat /\ MaxLag <= Window[s]
      /\ q.stamp <= now /\ now <= q.stamp + MaxLag
  BY <1>1, <1>2, <1>3, Constants DEF RequestSound
<1>5. k \in Key /\ k[1] = s /\ q.stamp + Window[s] < Lapses(k) /\ Lapses(k) \in Nat
  BY <1>1, <1>3, KeyOfStamp, LapsesInt
<1>6. store[k] \in Counter /\ KeySound(k) /\ passed[k] \in Nat /\ store[k].n \in Nat
  BY <1>1, <1>5 DEF LimiterInv, LimiterTypeOK, Counter
<1>7. Incremented(s, store[k]).n = store[k].n + 1
  BY <1>3, <1>6, IncrementedCounter
<1>8. passed[k] <= store[k].n
  <2>1. now < Lapses(k)
    <3> HIDE DEF q, s, k
    <3>1. QED
      BY <1>1, <1>4, <1>5
  <2>2. QED
    BY <1>6, <2>1 DEF KeySound
<1> DEFINE eff == Effective(s, PrevCount(s, i, q.stamp), store[k].n + 1, q.stamp % Window[s])
<1>9. CASE eff <= Limit[s]
  <2>1. /\ passed' = [passed EXCEPT ![k] = @ + 1]
        /\ passedAt' = [passedAt EXCEPT ![<<s, i>>][q.stamp] = @ + 1]
        /\ late' = IF k = CurrKey(s, i, now) THEN late ELSE late \cup {k}
    BY <1>7, <1>9 DEF RunScript
  <2> HIDE DEF s, i
  <2>2. QED
    BY <1>1, <1>3, <1>4, <1>8, <1>9, <2>1
<1>10. CASE ~(eff <= Limit[s])
  BY <1>7, <1>10 DEF RunScript
<1>11. QED
  BY <1>9, <1>10

\* What is still counted of the window before weighs at least one.
LEMMA EffectiveCountsPrev ==
  ASSUME NEW s \in Scope, NEW prev \in Nat, NEW curr \in Nat, prev > 0,
         NEW elapsed \in 0 .. Window[s] - 1
  PROVE  Effective(s, prev, curr, elapsed) >= curr + 1
<1> DEFINE w == Window[s]
<1>1. w \in Nat \ {0} /\ elapsed \in 0 .. w - 1
  BY Constants
<1>2. PICK r \in Nat : r = w - elapsed /\ r > 0
  BY <1>1
<1>3. Effective(s, prev, curr, elapsed) = curr + (prev * r + w - 1) \div w
  BY <1>2 DEF Effective
<1> HIDE DEF w
<1>4. PICK m \in Nat : m = prev * r /\ m > 0
  BY <1>2
<1>5. (m + w - 1) \div w >= 1 /\ (m + w - 1) \div w \in Int
  BY <1>1, <1>4
<1>6. QED
  BY <1>3, <1>4, <1>5

\* The key of a window, and the window before.
LEMMA WindowKey ==
  ASSUME LimiterInv, NEW s \in Scope, NEW i, <<s, i>> \in Bucket, NEW d \in Slot
  PROVE  /\ <<s, i, d>> \in Key /\ <<s, i>> \in Bucket /\ d \in Nat
         /\ passed[<<s, i, d>>] \in Nat /\ store[<<s, i, d>>].n \in Nat
         /\ passedAt[<<s, i>>] \in [Time -> Nat]
         /\ now < (d + 2) * Window[s] /\ passed[<<s, i, d>>] > 0 => store[<<s, i, d>>].n > 0
<1>1. <<s, i, d>> \in Key /\ <<s, i>> \in Bucket /\ d \in Nat
  BY Keys, Constants DEF Slot, Time
<1>2. /\ passed[<<s, i, d>>] \in Nat /\ store[<<s, i, d>>].n \in Nat
      /\ passedAt[<<s, i>>] \in [Time -> Nat]
  BY <1>1 DEF LimiterInv, LimiterTypeOK, Counter
<1>3. Lapses(<<s, i, d>>) = (d + 2) * Window[s]
  BY DEF Lapses
<1>4. KeySound(<<s, i, d>>)
  BY <1>1 DEF LimiterInv
<1>5. now < (d + 2) * Window[s] /\ passed[<<s, i, d>>] > 0 => store[<<s, i, d>>].n > 0
  BY <1>2, <1>3, <1>4 DEF KeySound
<1>6. QED
  BY <1>1, <1>2, <1>5

\* A request that passes in window d of a bucket.
Passes(s, i, t, d) ==
    /\ passed' = [passed EXCEPT ![<<s, i, d>>] = @ + 1]
    /\ passedAt' = [passedAt EXCEPT ![<<s, i>>][t] = @ + 1]

LEMMA PassBooked ==
  ASSUME LimiterInv, Booked, NEW s \in Scope, NEW i, <<s, i>> \in Bucket, NEW t \in Time,
         NEW e \in Slot, e = t \div Window[s], Passes(s, i, t, e)
  PROVE  Booked'
<1> SUFFICES ASSUME NEW b \in Bucket, NEW d \in Slot
             PROVE  SumOver(passedAt'[b], InWindow(b[1], d)) = passed'[<<b[1], b[2], d>>]
  BY DEF Booked, InWindow
<1>0. PICK j, m : j \in Scope /\ b = <<j, m>> /\ b[1] = j /\ b[2] = m
  BY Keys
<1>1. PICK F, H, S : F = passedAt[<<j, m>>] /\ H = passedAt'[<<j, m>>] /\ S = InWindow(j, d)
  OBVIOUS
<1>2. /\ SumOver(F, S) = passed[<<j, m, d>>] /\ IsFiniteSet(S) /\ S \in SUBSET Time
      /\ F \in [Time -> Nat]
  BY <1>0, <1>1, WindowKey, WindowFinite DEF Booked
<1>3. passed \in [Key -> Nat] /\ passedAt \in [Bucket -> [Time -> Nat]]
  BY DEF LimiterInv, LimiterTypeOK
<1>4. <<j, m>> \in Bucket /\ <<j, m, d>> \in Key /\ <<s, i, e>> \in Key
  BY <1>0, WindowKey
<1>5. CASE j = s /\ m = i
  <2>1. H = [F EXCEPT ![t] = F[t] + 1]
    BY <1>1, <1>3, <1>4, <1>5 DEF Passes
  <2>2. H[t] = F[t] + 1 /\ \A u \in Time : u # t => H[u] = F[u]
    BY <1>2, <2>1
  <2>3. CASE d = e
    <3>1. t \in S
      BY <1>1, <1>5, <2>3 DEF InWindow
    <3>2. Agree(F, H, S \ {t}) /\ \A u \in S : F[u] \in Int
      BY <1>2, <2>2 DEF Agree
    <3>3. SumOver(H, S) = SumOver(F, S) + 1
      BY <1>2, <2>2, <3>1, <3>2, SumBump
    <3>4. passed'[<<j, m, d>>] = passed[<<j, m, d>>] + 1
      BY <1>3, <1>4, <1>5, <2>3 DEF Passes
    <3>5. QED
      BY <1>0, <1>1, <1>2, <3>3, <3>4
  <2>4. CASE d # e
    <3>1. t \notin S
      BY <1>1, <1>5, <2>4 DEF InWindow
    <3>2. Agree(F, H, S)
      BY <1>2, <2>2, <3>1 DEF Agree
    <3>3. SumOver(H, S) = SumOver(F, S)
      BY <1>2, <3>2, SumSame
    <3>4. passed'[<<j, m, d>>] = passed[<<j, m, d>>]
      BY <1>3, <1>4, <2>4 DEF Passes
    <3>5. QED
      BY <1>0, <1>1, <1>2, <3>3, <3>4
  <2>5. QED
    BY <2>3, <2>4
<1>6. CASE ~(j = s /\ m = i)
  <2>1. passedAt'[<<j, m>>] = passedAt[<<j, m>>] /\ passed'[<<j, m, d>>] = passed[<<j, m, d>>]
    BY <1>3, <1>4, <1>6 DEF Passes
  <2>2. QED
    BY <1>0, <1>1, <1>2, <2>1
<1>7. QED
  BY <1>0, <1>5, <1>6

\* Every reading of the clock is in a window, whose ends are d and d + 1
\* times its length.
LEMMA WindowOf ==
  ASSUME NEW s \in Scope, NEW t \in Time
  PROVE  /\ t \div Window[s] \in Slot /\ (t \div Window[s]) * Window[s] <= t
         /\ t < ((t \div Window[s]) + 1) * Window[s] /\ t \in Nat
<1> DEFINE w == Window[s]
           d == t \div w
<1>1. w \in Nat \ {0} /\ t \in Nat /\ t <= MaxTime /\ MaxTime \in Nat
  BY Constants DEF Time
<1>2. d \in Nat /\ d <= t /\ w * d <= t /\ t < w * d + w
  BY <1>1, Divided
<1> HIDE DEF w, d
<1>3. d * w = w * d /\ (d + 1) * w = w * d + w
  BY <1>1, <1>2
<1>4. d \in Slot
  BY <1>1, <1>2 DEF Slot, Time
<1>5. QED
  BY <1>1, <1>2, <1>3, <1>4 DEF d, w

LEMMA PassKeeps ==
  ASSUME BurstInv, NEW s \in Scope, NEW i, <<s, i>> \in Bucket, NEW t \in Time,
         NEW e \in Slot, e = t \div Window[s], t <= now, now' = now, Passes(s, i, t, e),
         late \in SUBSET late', <<s, i, e>> \in late' \/ e = now \div Window[s],
         passed[<<s, i, e>>] <= store[<<s, i, e>>].n,
         Effective(s, PrevCount(s, i, t), store[<<s, i, e>>].n + 1, t % Window[s]) <= Limit[s]
  PROVE  (NotEarly /\ NotBothFull /\ Booked)'
<1>1. LimiterInv /\ NotEarly /\ NotBothFull /\ Booked /\ now \in Time
  BY DEF BurstInv, LimiterInv, LimiterTypeOK
<1>2. Booked'
  BY <1>1, PassBooked
<1>3. /\ passed'[<<s, i, e>>] = passed[<<s, i, e>>] + 1 /\ <<s, i, e>> \in Key
      /\ \A k \in Key : k # <<s, i, e>> => passed'[k] = passed[k]
  BY <1>1, WindowKey DEF LimiterInv, LimiterTypeOK, Passes
<1>4. e * Window[s] <= now /\ now \in Nat /\ e \in Nat /\ Window[s] \in Nat /\ Limit[s] \in Nat
  <2>1. e * Window[s] <= t /\ t \in Nat /\ now \in Nat /\ e \in Nat /\ Window[s] \in Nat
        /\ Limit[s] \in Nat
    BY <1>1, WindowOf, WindowKey, Constants
  <2>2. e * Window[s] \in Nat
    BY <2>1
  <2>3. QED
    BY <2>1, <2>2
<1>5. <<s, i, e>> \notin late' => now < (e + 1) * Window[s]
  BY <1>1, WindowOf
<1>6. NotEarly'
  <2> SUFFICES ASSUME NEW k \in Key, passed'[k] > 0 PROVE k[3] * Window[k[1]] <= now'
    BY DEF NotEarly
  <2>1. CASE k = <<s, i, e>>
    BY <1>4, <2>1
  <2>2. CASE k # <<s, i, e>>
    BY <1>1, <1>3, <2>2 DEF NotEarly
  <2>3. QED
    BY <2>1, <2>2
<1>7. NotBothFull'
  <2>1. SUFFICES ASSUME NEW j \in Scope, NEW b \in Bucket, NEW d \in Slot, b[1] = j,
                        d + 1 \in Slot, passed'[<<j, b[2], d>>] > 0, Limit[j] > 0,
                        <<j, b[2], d>> \notin late', <<j, b[2], d + 1>> \notin late'
                 PROVE  passed'[<<j, b[2], d + 1>>] < Limit[j]
    BY DEF NotBothFull
  <2>2. PICK m : m = b[2] /\ <<j, m>> \in Bucket
    BY <2>1, Keys
  <2>3. /\ d \in Nat /\ <<j, m, d>> \in Key /\ <<j, m, d + 1>> \in Key
        /\ passed[<<j, m, d + 1>>] \in Nat /\ passed[<<j, m, d>>] \in Nat
    BY <1>1, <2>1, <2>2, WindowKey
  <2>4. CASE <<j, m, d + 1>> = <<s, i, e>>
    <3>1. j = s /\ m = i /\ e = d + 1 /\ <<j, m, d>> # <<s, i, e>> /\ d = e - 1 /\ e # 0
      BY <2>3, <2>4
    <3>2. passed[<<s, i, d>>] > 0
      BY <1>3, <2>1, <2>2, <2>3, <3>1
    <3>3. now < (d + 2) * Window[s]
      <4>1. d + 2 = e + 1
        BY <2>3, <3>1
      <4>2. now < (e + 1) * Window[s]
        BY <1>5, <2>1, <2>2, <2>4
      <4>3. QED
        BY <4>1, <4>2
    <3>4. store[<<s, i, d>>].n \in Nat /\ store[<<s, i, d>>].n > 0
      BY <1>1, <3>2, <3>3, WindowKey
    <3>5. PrevCount(s, i, t) = store[<<s, i, d>>].n
      BY <3>1 DEF PrevCount
    <3>6. t % Window[s] \in 0 .. Window[s] - 1 /\ store[<<s, i, e>>].n \in Nat
      BY <1>1, KeyOfStamp, WindowKey
    <3>7. Limit[s] >= (store[<<s, i, e>>].n + 1) + 1
      <4>1. PICK p \in Nat, n \in Nat, u \in 0 .. Window[s] - 1 :
              p = PrevCount(s, i, t) /\ n = store[<<s, i, e>>].n + 1 /\ u = t % Window[s]
        BY <3>4, <3>5, <3>6
      <4>2. p > 0
        BY <3>4, <3>5, <4>1
      <4>3. Effective(s, p, n, u) >= n + 1 /\ Effective(s, p, n, u) \in Int
        BY <4>2, EffectiveCountsPrev, EffectiveBounds
      <4>4. Effective(s, p, n, u) <= Limit[s]
        BY <4>1
      <4>5. QED
        BY <1>4, <4>1, <4>3, <4>4
    <3>8. passed[<<s, i, e>>] \in Nat
      BY <1>1, WindowKey
    <3>9. passed'[<<s, i, e>>] < Limit[s]
      BY <1>3, <1>4, <3>6, <3>7, <3>8
    <3>10. QED
      BY <2>2, <2>4, <3>1, <3>9
  <2>5. CASE <<j, m, d + 1>> # <<s, i, e>> /\ <<j, m, d>> = <<s, i, e>>
    <3>1. j = s /\ m = i /\ d = e
      BY <2>5
    <3>2. passed'[<<s, i, e + 1>>] = passed[<<s, i, e + 1>>]
      BY <1>3, <2>3, <2>5, <3>1
    <3>3. ~(passed[<<s, i, e + 1>>] > 0)
      <4>1. passed[<<s, i, e + 1>>] > 0 => (e + 1) * Window[s] <= now
        BY <1>1, <2>3, <3>1 DEF NotEarly
      <4>2. (e + 1) * Window[s] \in Nat
        BY <1>4
      <4>3. now < (e + 1) * Window[s]
        BY <1>5, <2>1, <2>2, <2>5
      <4>4. QED
        BY <1>4, <4>1, <4>2, <4>3
    <3>4. QED
      BY <1>4, <2>1, <2>2, <2>3, <3>1, <3>2, <3>3
  <2>6. CASE <<j, m, d + 1>> # <<s, i, e>> /\ <<j, m, d>> # <<s, i, e>>
    <3>1. passed'[<<j, m, d + 1>>] = passed[<<j, m, d + 1>>] /\ passed'[<<j, m, d>>] = passed[<<j, m, d>>]
      BY <1>3, <2>3, <2>6
    <3>2. <<j, m, d>> \notin late /\ <<j, m, d + 1>> \notin late
      BY <2>1, <2>2
    <3>3. QED
      BY <1>1, <2>1, <2>2, <3>1, <3>2 DEF NotBothFull
  <2>7. QED
    BY <2>4, <2>5, <2>6
<1>8. QED
  BY <1>2, <1>6, <1>7

LEMMA ScriptBurst ==
  ASSUME BurstInv, NEW c \in Caller, RunScript(c)
  PROVE  (NotEarly /\ NotBothFull /\ Booked)'
<1>1. LimiterInv /\ now' = now /\ now \in Nat /\ now \in Time
  BY OfCheck DEF BurstInv, RunScript
<1>2. CASE UNCHANGED histories
  BY <1>1, <1>2 DEF BurstInv, NotEarly, NotBothFull, Booked, InWindow, histories
<1>3. ASSUME NEW s \in Scope, NEW i, NEW t \in Time, <<s, i>> \in Bucket,
             t <= now /\ now <= t + MaxLag,
             passed' = [passed EXCEPT ![CurrKey(s, i, t)] = @ + 1],
             passedAt' = [passedAt EXCEPT ![<<s, i>>][t] = @ + 1],
             late' = IF CurrKey(s, i, t) = CurrKey(s, i, now)
                       THEN late ELSE late \cup {CurrKey(s, i, t)},
             passed[CurrKey(s, i, t)] <= store[CurrKey(s, i, t)].n,
             Effective(s, PrevCount(s, i, t), store[CurrKey(s, i, t)].n + 1,
                       t % Window[s]) <= Limit[s]
      PROVE  (NotEarly /\ NotBothFull /\ Booked)'
  <2>1. PICK e \in Slot : e = t \div Window[s]
    BY WindowOf
  <2>2. CurrKey(s, i, t) = <<s, i, e>> /\ CurrKey(s, i, now) = <<s, i, now \div Window[s]>>
    BY <2>1 DEF CurrKey
  <2>3. late \in SUBSET late' /\ (<<s, i, e>> \in late' \/ e = now \div Window[s])
    BY <1>3, <2>2
  <2>4. Passes(s, i, t, e)
    BY <1>3, <2>2 DEF Passes
  <2>5. QED
    BY <1>1, <1>3, <2>1, <2>2, <2>3, <2>4, PassKeeps
<1>4. QED
  BY <1>1, <1>2, <1>3, ScriptPasses

\* Everything but a script leaves the histories alone, and time only grows.
LEMMA BurstStep ==
  ASSUME BurstInv, [LimiterNext]_limiterVars PROVE BurstInv'
<1>1. LimiterInv /\ LimiterInv'
  BY LimiterNextInv DEF BurstInv
<1>2. now \in Nat /\ \A s \in Scope : Window[s] \in Nat
  BY <1>1, Constants DEF LimiterInv, LimiterTypeOK, Time
<1>3. CASE UNCHANGED histories /\ now' \in {now, now + 1}
  <2>1. NotBothFull' /\ Booked'
    BY <1>3 DEF BurstInv, NotBothFull, Booked, InWindow, histories
  <2>2. ASSUME NEW k \in Key, passed[k] > 0 PROVE k[3] * Window[k[1]] <= now'
    <3>1. k[3] * Window[k[1]] <= now
      BY <2>2 DEF BurstInv, NotEarly
    <3>2. k[3] \in Slot /\ k[1] \in Scope
      BY Keys
    <3>3. k[3] \in Nat /\ Window[k[1]] \in Nat
      BY <1>2, <3>2, Constants DEF Slot, Time
    <3>4. k[3] * Window[k[1]] \in Nat
      BY <3>3
    <3>5. QED
      BY <1>2, <1>3, <3>1, <3>4
  <2>3. NotEarly'
    BY <1>3, <2>2 DEF NotEarly, histories
  <2>4. QED
    BY <1>1, <2>1, <2>3 DEF BurstInv
<1>4. ASSUME NEW c \in Caller, RunScript(c) PROVE BurstInv'
  BY <1>1, <1>4, ScriptBurst DEF BurstInv
<1>5. ASSUME NEW c \in Caller, Begin(c) \/ Reply(c) \/ RedisFails(c) \/ Cancel(c)
      PROVE  BurstInv'
  BY <1>3, <1>5 DEF Begin, Reply, RedisFails, Proceed, Cancel
<1>6. CASE Tick \/ UNCHANGED limiterVars
  BY <1>3, <1>6 DEF Tick, limiterVars
<1>7. QED
  BY <1>4, <1>5, <1>6 DEF LimiterNext

LEMMA BurstInit == ASSUME LimiterInit PROVE BurstInv
<1>1. LimiterInv
  BY LimiterInitInv
<1>2. passed = [k \in Key |-> 0] /\ passedAt = [b \in Bucket |-> [t \in Time |-> 0]]
  BY DEF LimiterInit
<1>3. ASSUME NEW b \in Bucket, NEW d \in Slot
      PROVE  /\ passed[<<b[1], b[2], d>>] = 0
             /\ SumOver(passedAt[b], InWindow(b[1], d)) = 0
  <2>0. b = <<b[1], b[2]>> /\ b[1] \in Scope
    BY Keys
  <2>1. passed[<<b[1], b[2], d>>] = 0 /\ passedAt[b] = [t \in Time |-> 0]
    BY <1>1, <1>2, <2>0, WindowKey
  <2>2. PICK F, S : F = passedAt[b] /\ S = InWindow(b[1], d)
    OBVIOUS
  <2>3. IsFiniteSet(S) /\ \A t \in S : F[t] = 0
    BY <2>0, <2>1, <2>2, WindowFinite
  <2>4. SumOver(F, S) = 0
    BY <2>3, SumZero
  <2>5. QED
    BY <2>1, <2>2, <2>4
<1>4. \A k \in Key : ~(passed[k] > 0)
  BY <1>2
<1>5. NotEarly
  BY <1>4, Zenon DEF NotEarly
<1>6. NotBothFull
  <2> SUFFICES ASSUME NEW b \in Bucket, NEW d \in Slot PROVE ~(passed[<<b[1], b[2], d>>] > 0)
    BY DEF NotBothFull
  <2>1. passed[<<b[1], b[2], d>>] = 0
    BY <1>3
  <2>2. QED
    BY <2>1
<1>7. Booked
  <2> SUFFICES ASSUME NEW b \in Bucket, NEW d \in Slot
               PROVE  SumOver(passedAt[b], InWindow(b[1], d)) = passed[<<b[1], b[2], d>>]
    BY DEF Booked
  <2>1. QED
    BY <1>3
<1>8. QED
  BY <1>1, <1>5, <1>6, <1>7 DEF BurstInv

\* A stretch of a window's length reaches into one window more, at most.
Stretch(s, t) == t .. Min({MaxTime, t + Window[s] - 1})

LEMMA StretchInTwo ==
  ASSUME NEW s \in Scope, NEW t \in Time
  PROVE  Stretch(s, t) \in SUBSET (InWindow(s, t \div Window[s])
                                   \cup InWindow(s, (t \div Window[s]) + 1))
<1>1. PICK w, d : w = Window[s] /\ d = t \div Window[s]
  OBVIOUS
<1>2. w \in Nat \ {0} /\ MaxTime \in Nat /\ t \in Nat /\ d \in Nat
      /\ d * w <= t /\ t < (d + 1) * w
  BY <1>1, Constants, WindowOf DEF Slot, Time
<1>3. ASSUME NEW u \in Stretch(s, t) PROVE u \in Time /\ u >= t /\ u < t + w
  <2>1. PICK x \in {MaxTime, t + w - 1} : x <= MaxTime /\ x <= t + w - 1
                                          /\ x = Min({MaxTime, t + w - 1})
    <3>1. \E x \in {MaxTime, t + w - 1} : \A y \in {MaxTime, t + w - 1} : x <= y
      <4>1. MaxTime <= t + w - 1 \/ t + w - 1 <= MaxTime
        BY <1>2
      <4>2. MaxTime <= MaxTime /\ t + w - 1 <= t + w - 1
        BY <1>2
      <4>3. QED
        BY <4>1, <4>2
    <3>2. QED
      BY <3>1 DEF Min
  <2>2. x \in Int /\ u \in t .. x
    BY <1>1, <1>2, <2>1 DEF Stretch
  <2>3. QED
    BY <1>2, <2>1, <2>2 DEF Time
<1>4. ASSUME NEW u \in Stretch(s, t)
      PROVE  u \in Time /\ u \div w \in {d, d + 1}
  <2>1. u \in Time /\ u \in Nat /\ u >= t /\ u < t + w
    BY <1>2, <1>3 DEF Time
  <2>2. PICK e : e = u \div w
    OBVIOUS
  <2>3. e \in Nat /\ e * w <= u /\ u < (e + 1) * w
    BY <1>1, <2>1, <2>2, WindowOf DEF Slot, Time
  <2>4. d * w < (e + 1) * w /\ e * w < (d + 2) * w
    BY <1>2, <2>1, <2>3
  <2>5. d < e + 1 /\ e < d + 2
    BY <1>2, <2>3, <2>4
  <2>6. QED
    BY <1>2, <2>1, <2>2, <2>3, <2>5
<1>5. QED
  BY <1>1, <1>4 DEF InWindow

LEMMA BurstBound ==
  ASSUME BurstInv, NEW s \in Scope, NEW i, <<s, i>> \in Bucket, NEW t \in Time, Limit[s] > 0,
         <<s, i, t \div Window[s]>> \notin late, <<s, i, (t \div Window[s]) + 1>> \notin late
  PROVE  SumOver(passedAt[<<s, i>>], Stretch(s, t)) < 2 * Limit[s]
<1>1. PICK F, A, B, S, d :
        /\ F = passedAt[<<s, i>>] /\ d = t \div Window[s] /\ S = Stretch(s, t)
        /\ A = InWindow(s, d) /\ B = InWindow(s, d + 1)
  OBVIOUS
<1>2. d \in Slot /\ d \in Nat /\ LimiterInv /\ Booked /\ NotBothFull
      /\ Limit[s] \in Nat /\ Limit[s] > 0 /\ MaxTime \in Nat
  BY <1>1, WindowOf, WindowKey, Constants DEF BurstInv
<1>0. PICK b \in Bucket : b = <<s, i>> /\ b[1] = s /\ b[2] = i
  OBVIOUS
<1>3. /\ IsFiniteSet(A) /\ IsFiniteSet(B) /\ A \in SUBSET Time /\ B \in SUBSET Time
      /\ F \in [Time -> Nat] /\ S \in SUBSET (A \cup B)
  BY <1>1, <1>2, WindowFinite, WindowKey, StretchInTwo
<1>4. A \cap B = {}
  BY <1>1, <1>2 DEF InWindow
<1>5. /\ \A u \in A \cup B : F[u] \in Nat /\ F[u] \in Int
      /\ IsFiniteSet(A \cup B)
  <2>1. IsFiniteSet(A \cup B)
    BY <1>3, FS_Union
  <2>2. \A u \in A \cup B : F[u] \in Nat
    BY <1>3
  <2>3. QED
    BY <2>1, <2>2
<1>6. SumOver(F, S) <= SumOver(F, A \cup B)
  BY <1>3, <1>5, SumPart
<1>7. SumOver(F, A \cup B) = SumOver(F, A) + SumOver(F, B)
  BY <1>3, <1>4, <1>5, SumUnion
<1>8. SumOver(F, A) = passed[<<s, i, d>>] /\ passed[<<s, i, d>>] \in Nat
      /\ passed[<<s, i, d>>] <= Limit[s]
  <2>1. <<s, i, d>> \in Key /\ KeySound(<<s, i, d>>)
    BY <1>2, WindowKey DEF LimiterInv
  <2>2. passed[<<s, i, d>>] <= Limit[s]
    BY <2>1 DEF KeySound
  <2>3. QED
    BY <1>0, <1>1, <1>2, <2>2, WindowKey DEF Booked
<1>9. SumOver(F, S) \in Nat /\ SumOver(F, B) \in Nat
  BY <1>3, <1>5, FS_Subset, SumNat
<1>10. CASE d + 1 \in Slot
  <2>1. SumOver(F, B) = passed[<<s, i, d + 1>>] /\ passed[<<s, i, d + 1>>] \in Nat
    BY <1>0, <1>1, <1>2, <1>10, WindowKey DEF Booked
  <2>2. <<s, i, d + 1>> \in Key /\ KeySound(<<s, i, d + 1>>)
    BY <1>2, <1>10, WindowKey DEF LimiterInv
  <2>3. passed[<<s, i, d + 1>>] <= Limit[s]
    BY <2>2 DEF KeySound
  <2>4. passed[<<s, i, d>>] > 0 => passed[<<s, i, d + 1>>] < Limit[s]
    BY <1>0, <1>1, <1>2, <1>10 DEF NotBothFull
  <2>5. QED
    BY <1>1, <1>2, <1>6, <1>7, <1>8, <1>9, <2>1, <2>3, <2>4
<1>11. CASE d + 1 \notin Slot
  <2>1. \A u \in Time : u \div Window[s] \in Slot
    BY WindowOf
  <2>2. B = {}
    BY <1>1, <1>11, <2>1 DEF InWindow
  <2>3. SumOver(F, B) = 0
    BY <2>2, SumEmpty
  <2>4. QED
    BY <1>1, <1>2, <1>6, <1>7, <1>8, <1>9, <2>3
<1>12. QED
  BY <1>10, <1>11

-----------------------------------------------------------------------------
(* A caller that waits.  In a bucket that is its own the counters are      *)
(* created in the order of their windows, so the one a rejection reports   *)
(* is the last to expire; Retry-After is the longest of the waits of all   *)
(* scopes, so when it is over each bucket of the caller that has blocked   *)
(* it is empty.                                                            *)

Place == 1 .. Len(Scopes)

LEMMA EachPlace == ASSUME NEW n \in Place PROVE n \in Nat /\ ~(n < n)
<1>1. n \in 1 .. 3
  BY Constants DEF Place
<1>2. QED
  BY <1>1

\* The n-th scope counts this caller alone, and lets something through.
Alone(c, n) == Own(c, Scopes[n]) /\ Limit[Scopes[n]] > 0

Mine(c, n, d) == <<Scopes[n], IdOf[c][Scopes[n]], d>>

LiveIn(c, n, d) == store[Mine(c, n, d)].n > 0

\* A counter lives for two windows at most, and is of a window that has begun.
CounterSound(k) ==
    store[k].n > 0 => store[k].ttl <= 2 * Window[k[1]] /\ k[3] * Window[k[1]] <= now

\* The counter of a later window does not expire before.
InOrder(c, n) ==
    \A d, e \in Slot : d < e /\ LiveIn(c, n, d) /\ LiveIn(c, n, e) =>
                         store[Mine(c, n, d)].ttl <= store[Mine(c, n, e)].ttl

GoneAfter(c, n, m) == \A d \in Slot : LiveIn(c, n, d) => store[Mine(c, n, d)].ttl <= m

CallerSound(c, n, q) ==
    /\ q.pc = "sent" /\ q.at = n =>
         \A d \in Slot : LiveIn(c, n, d) => d <= q.stamp \div Window[Scopes[n]]
    /\ q.pc = "answered" /\ q.at = n /\ ~q.ok => GoneAfter(c, n, q.after)
    /\ Scopes[n] \in q.blocked =>
         /\ q.pc \in InCheck => n < q.at /\ GoneAfter(c, n, q.retry)
         /\ q.pc = "rejected" => GoneAfter(c, n, q.wait)
    /\ Scopes[n] \in q.was =>
         /\ Scopes[n] \notin q.blocked
         /\ q.pc \in InCheck /\ q.at < n => \A d \in Slot : ~LiveIn(c, n, d)
         /\ q.pc = "sent" /\ q.at = n => \A d \in Slot : ~LiveIn(c, n, d)
         /\ q.pc = "answered" /\ q.at = n => q.ok

RetryInv ==
    /\ LimiterInv
    /\ \A k \in Key : CounterSound(k)
    /\ \A c \in Caller, n \in Place :
         Alone(c, n) => InOrder(c, n) /\ CallerSound(c, n, req[c])

LEMMA MineIs ==
  ASSUME LimiterInv, NEW c \in Caller, NEW n \in Place, NEW d \in Slot
  PROVE  /\ Mine(c, n, d) \in Key /\ d \in Nat /\ Scopes[n] \in Scope
         /\ <<Scopes[n], IdOf[c][Scopes[n]]>> \in Bucket
         /\ Mine(c, n, d)[1] = Scopes[n] /\ Mine(c, n, d)[3] = d
         /\ store[Mine(c, n, d)] \in Counter
         /\ store[Mine(c, n, d)].n \in Nat /\ store[Mine(c, n, d)].ttl \in Nat
         /\ LiveIn(c, n, d) => store[Mine(c, n, d)].ttl >= 1
<1>1. Scopes[n] \in Scope /\ <<Scopes[n], IdOf[c][Scopes[n]]>> \in Bucket
  BY Constants, Keys DEF Place
<1>2. Mine(c, n, d) \in Key /\ Mine(c, n, d)[1] = Scopes[n] /\ Mine(c, n, d)[3] = d
  BY <1>1, Keys DEF Mine
<1>3. d \in Nat
  BY Constants DEF Slot, Time
<1>4. store[Mine(c, n, d)] \in Counter /\ KeySound(Mine(c, n, d))
  BY <1>2 DEF LimiterInv, LimiterTypeOK
<1>5. store[Mine(c, n, d)].n \in Nat /\ store[Mine(c, n, d)].ttl \in Nat
  BY <1>4 DEF Counter
<1>6. LiveIn(c, n, d) => store[Mine(c, n, d)].ttl >= 1
  BY <1>4 DEF LiveIn, KeySound
<1>7. QED
  BY <1>1, <1>2, <1>3, <1>4, <1>5, <1>6

LEMMA MineSound ==
  ASSUME RetryInv, NEW c \in Caller, NEW n \in Place, NEW d \in Slot, LiveIn(c, n, d)
  PROVE  /\ store[Mine(c, n, d)].ttl <= 2 * Window[Scopes[n]]
         /\ d * Window[Scopes[n]] <= now
<1>1. LimiterInv
  BY DEF RetryInv
<1>2. PICK k \in Key : k = Mine(c, n, d) /\ k[1] = Scopes[n] /\ k[3] = d
  BY <1>1, MineIs
<1>3. CounterSound(k) /\ store[k].n > 0
  BY <1>2 DEF RetryInv, LiveIn
<1>4. QED
  BY <1>2, <1>3 DEF CounterSound

\* What RetryInv says of one bucket stays as long as its counters do.
LEMMA SameBucket ==
  ASSUME NEW c, NEW n, \A f \in Slot : store'[Mine(c, n, f)] = store[Mine(c, n, f)]
  PROVE  /\ InOrder(c, n) => InOrder(c, n)'
         /\ \A q : CallerSound(c, n, q) => CallerSound(c, n, q)'
<1>1. \A f \in Slot : LiveIn(c, n, f)' <=> LiveIn(c, n, f)
  BY DEF LiveIn, Mine
<1>2. \A m : GoneAfter(c, n, m) => GoneAfter(c, n, m)'
  BY <1>1 DEF GoneAfter, Mine
<1>3. InOrder(c, n) => InOrder(c, n)'
  BY <1>1 DEF InOrder, Mine
<1>4. ASSUME NEW q, CallerSound(c, n, q) PROVE CallerSound(c, n, q)'
  BY <1>1, <1>2, <1>4 DEF CallerSound
<1>5. QED
  BY <1>3, <1>4

\* A step that changes one request and no counter.
LEMMA BecomeRetry ==
  ASSUME RetryInv, LimiterInv', NEW c \in Caller, NEW q, Become(c, q),
         \A n \in Place : Alone(c, n) => CallerSound(c, n, q),
         UNCHANGED <<now, store>>
  PROVE  RetryInv'
<1>1. req'[c] = q /\ \A d \in Caller : d # c => req'[d] = req[d]
  BY DEF RetryInv, LimiterInv, LimiterTypeOK, Become
<1>2. ASSUME NEW d \in Caller, NEW n \in Place, Alone(d, n)
      PROVE  (InOrder(d, n) /\ CallerSound(d, n, req[d]))'
  <2>1. PICK x : x = req'[d]
    OBVIOUS
  <2>2. InOrder(d, n) /\ CallerSound(d, n, x)
    BY <1>1, <1>2, <2>1 DEF RetryInv
  <2>3. InOrder(d, n)' /\ CallerSound(d, n, x)'
    BY <2>2, SameBucket
  <2>4. QED
    BY <2>1, <2>3
<1>3. (\A k \in Key : CounterSound(k))'
  BY DEF RetryInv, CounterSound
<1>4. (\A d \in Caller, n \in Place : Alone(d, n) => InOrder(d, n) /\ CallerSound(d, n, req[d]))'
  <2> SUFFICES ASSUME NEW d \in Caller, NEW n \in Place, Alone(d, n)
               PROVE  (InOrder(d, n) /\ CallerSound(d, n, req[d]))'
    BY DEF Alone, Own
  <2>1. QED
    BY <1>2
<1>5. QED
  BY <1>3, <1>4 DEF RetryInv

LEMMA IdleCaller == ASSUME NEW c, NEW n PROVE CallerSound(c, n, Idle)
<1>1. Idle.pc = "idle" /\ Idle.blocked = {} /\ Idle.was = {}
  BY IdleTyped
<1>2. QED
  BY <1>1 DEF CallerSound, InCheck

\* No counter is of a window that begins after the clock's reading.
LEMMA LiveBegun ==
  ASSUME RetryInv, NEW c \in Caller, NEW n \in Place, NEW d \in Slot, LiveIn(c, n, d)
  PROVE  d <= now \div Window[Scopes[n]]
<1>1. LimiterInv /\ now \in Time /\ now \in Nat
  BY OfCheck DEF RetryInv
<1>2. PICK w, e : w = Window[Scopes[n]] /\ e = now \div Window[Scopes[n]]
  OBVIOUS
<1>3. d * w <= now /\ d \in Nat /\ Scopes[n] \in Scope
  <2>1. d \in Nat /\ Scopes[n] \in Scope
    BY <1>1, MineIs
  <2>2. QED
    BY <1>2, <2>1, MineSound
<1>4. e \in Nat /\ now < (e + 1) * w /\ w \in Nat
  BY <1>1, <1>2, <1>3, WindowOf, Constants DEF Slot, Time
<1>5. d * w < (e + 1) * w
  BY <1>1, <1>3, <1>4
<1>6. d < e + 1
  BY <1>3, <1>4, <1>5
<1>7. QED
  BY <1>2, <1>3, <1>4, <1>6

LEMMA BeginRetry ==
  ASSUME RetryInv, NEW c \in Caller, Begin(c) PROVE RetryInv'
<1> DEFINE q == Sending(now, Before(c))
<1>1. Become(c, q) /\ UNCHANGED <<now, store>> /\ LimiterInv /\ LimiterInv'
  BY BeginKeeps DEF Begin, Sending, Before, RetryInv
<1>2. Before(c) \in SUBSET Scope /\ now \in Time
  <2>1. req[c].blocked \in SUBSET Scope
    BY <1>1, OfCheck DEF RequestRecord
  <2>2. QED
    BY <1>1, <2>1, OfCheck DEF Before
<1>3. q.pc = "sent" /\ q.stamp = now /\ q.at = 1 /\ q.was = Before(c) /\ q.blocked = {}
  BY <1>2, SendingRecord
<1> HIDE DEF q
<1>4. ASSUME NEW n \in Place, Alone(c, n) PROVE CallerSound(c, n, q)
  <2>1. ASSUME Scopes[n] \in Before(c), NEW d \in Slot PROVE ~LiveIn(c, n, d)
    <3>1. req[c].pc = "rejected" /\ req[c].wait = 0 /\ Scopes[n] \in req[c].blocked
      BY <2>1 DEF Before
    <3>2. GoneAfter(c, n, 0)
      BY <1>4, <3>1 DEF RetryInv, CallerSound
    <3>3. LiveIn(c, n, d) => store[Mine(c, n, d)].ttl <= 0
      BY <3>2 DEF GoneAfter
    <3>4. LiveIn(c, n, d) => store[Mine(c, n, d)].ttl >= 1 /\ store[Mine(c, n, d)].ttl \in Nat
      BY <1>1, MineIs
    <3>5. QED
      BY <3>3, <3>4
  <2>2. \A d \in Slot : LiveIn(c, n, d) => d <= now \div Window[Scopes[n]]
    BY LiveBegun
  <2>3. QED
    BY <1>3, <2>1, <2>2 DEF CallerSound
<1>5. QED
  BY <1>1, <1>4, BecomeRetry

\* The end of a check: the longest wait so far covers every scope that has
\* blocked the request.
LEMMA ProceedRetry ==
  ASSUME RetryInv, NEW c \in Caller, NEW ok \in BOOLEAN, req[c].pc \in InCheck,
         ok \/ (req[c].pc = "answered" /\ ~req[c].ok), Proceed(c, ok),
         faults' \in 0 .. MaxFaults
  PROVE  RetryInv'
<1>1. LimiterInv /\ LimiterInv'
  BY ProceedKeeps DEF RetryInv
<1>2. PICK q, r, bs : q = req[c] /\ r = Wait(req[c], ok) /\ bs = Blockers(req[c], ok)
  OBVIOUS
<1>3. /\ q \in RequestRecord /\ q.at \in Place /\ q.retry \in Nat /\ q.after \in Nat
      /\ q.was \in SUBSET Scope /\ now \in Time
  BY <1>1, <1>2, OfCheck DEF RequestRecord, Place
<1>4. /\ r \in Nat /\ bs \in SUBSET Scope /\ UNCHANGED <<now, store>>
      /\ \/ q.at + 1 \in 1 .. Len(Scopes) /\ Become(c, Asked(q, q.at + 1, now, bs, r))
         \/ Become(c, Idle)
         \/ Become(c, Verdict(bs, r, q.was))
  BY <1>1, <1>2, ProceedTo
<1>5. r >= q.retry /\ (~ok => r >= q.after)
  BY <1>2, <1>3 DEF Wait
<1>6. ASSUME NEW n \in Place, Alone(c, n), Scopes[n] \in bs
      PROVE  n <= q.at /\ GoneAfter(c, n, r) /\ Scopes[n] \notin q.was
  <2>1. CallerSound(c, n, q) /\ q.pc \in InCheck
    BY <1>2, <1>6 DEF RetryInv
  <2>2. PICK m \in Nat : m = q.retry \/ (~ok /\ m = q.after)
    BY <1>3
  <2>3. CASE Scopes[n] \in q.blocked
    <3>1. n < q.at /\ GoneAfter(c, n, q.retry) /\ Scopes[n] \notin q.was
      BY <2>1, <2>3 DEF CallerSound
    <3>2. \A d \in Slot : LiveIn(c, n, d) => store[Mine(c, n, d)].ttl \in Nat
      BY <1>1, MineIs
    <3>3. GoneAfter(c, n, r)
      BY <1>3, <1>4, <1>5, <3>1, <3>2 DEF GoneAfter
    <3>4. QED
      BY <1>3, <3>1, <3>3 DEF Place
  <2>4. CASE Scopes[n] \notin q.blocked
    <3>1. ~ok /\ Scopes[n] = Scopes[q.at]
      BY <1>2, <1>6, <2>4 DEF Blockers, ScopeOf
    <3>2. n = q.at
      BY <1>3, <3>1, Constants DEF Place
    <3>3. q.pc = "answered" /\ ~q.ok
      BY <1>2, <3>1
    <3>4. GoneAfter(c, n, q.after) /\ Scopes[n] \notin q.was
      BY <2>1, <3>2, <3>3 DEF CallerSound
    <3>5. \A d \in Slot : LiveIn(c, n, d) => store[Mine(c, n, d)].ttl \in Nat
      BY <1>1, MineIs
    <3>6. GoneAfter(c, n, r)
      BY <1>3, <1>4, <1>5, <3>1, <3>4, <3>5 DEF GoneAfter
    <3>7. QED
      BY <1>3, <3>2, <3>4, <3>6 DEF Place
  <2>5. QED
    BY <2>3, <2>4
<1>7. ASSUME q.at + 1 \in 1 .. Len(Scopes), Become(c, Asked(q, q.at + 1, now, bs, r))
      PROVE  RetryInv'
  <2>1. PICK y : y = Asked(q, q.at + 1, now, bs, r)
    OBVIOUS
  <2>2. /\ y.pc = "sent" /\ y.at = q.at + 1 /\ y.stamp = now /\ y.blocked = bs
        /\ y.retry = r /\ y.was = q.was
    BY <1>3, <1>4, <1>7, <2>1, AskedRecord
  <2>3. ASSUME NEW n \in Place, Alone(c, n) PROVE CallerSound(c, n, y)
    <3>1. \A d \in Slot : LiveIn(c, n, d) => d <= now \div Window[Scopes[n]]
      BY LiveBegun
    <3>2. Scopes[n] \in bs => n < y.at /\ GoneAfter(c, n, r)
      BY <1>3, <1>6, <2>2, <2>3 DEF Place
    <3>3. Scopes[n] \in q.was => Scopes[n] \notin bs
      BY <1>6, <2>3
    <3>4. Scopes[n] \in q.was /\ y.at <= n => \A d \in Slot : ~LiveIn(c, n, d)
      <4>1. y.at <= n => q.at < n
        BY <1>3, <2>2 DEF Place
      <4>2. CallerSound(c, n, q) /\ q.pc \in InCheck
        BY <1>2, <2>3 DEF RetryInv
      <4>3. QED
        BY <4>1, <4>2 DEF CallerSound
    <3>5. (y.at < n => y.at <= n) /\ (y.at = n => y.at <= n)
      BY <1>3, <2>2 DEF Place
    <3>6. QED
      BY <2>2, <3>1, <3>2, <3>3, <3>4, <3>5 DEF CallerSound
  <2>4. QED
    BY <1>1, <1>4, <1>7, <2>1, <2>3, BecomeRetry
<1>8. CASE Become(c, Idle)
  BY <1>1, <1>4, <1>8, IdleCaller, BecomeRetry
<1>9. CASE Become(c, Verdict(bs, r, q.was))
  <2>1. PICK y : y = Verdict(bs, r, q.was)
    OBVIOUS
  <2>2. y.pc = "rejected" /\ y.wait = r /\ y.blocked = bs /\ y.was = q.was
    BY <1>3, <1>4, <2>1, VerdictRecord
  <2>3. ASSUME NEW n \in Place, Alone(c, n) PROVE CallerSound(c, n, y)
    BY <1>6, <2>2, <2>3 DEF CallerSound, InCheck
  <2>4. QED
    BY <1>1, <1>4, <1>9, <2>1, <2>3, BecomeRetry
<1>10. QED
  BY <1>4, <1>7, <1>8, <1>9

\* The answer of a script that leaves the counter b.
Answer(q, y, b) ==
    /\ y.pc = "answered" /\ y.at = q.at /\ y.blocked = q.blocked
    /\ y.was = q.was /\ y.retry = q.retry
    /\ ~y.ok => y.after = b.ttl

LEMMA ToldAnswer ==
  ASSUME NEW q \in RequestRecord, NEW ok \in BOOLEAN, NEW b \in Counter
  PROVE  \E y : /\ y = Told(q, ok, IF ok THEN 0 ELSE b.ttl)
                /\ Answer(q, y, b) /\ (ok => y.ok)
<1>1. b.ttl \in Nat
  BY DEF Counter
<1>2. CASE ok
  <2>1. PICK y : y = Told(q, TRUE, 0)
    OBVIOUS
  <2>2. /\ y.pc = "answered" /\ y.at = q.at /\ y.blocked = q.blocked
        /\ y.was = q.was /\ y.retry = q.retry /\ y.ok = TRUE
    <3>1. TRUE \in BOOLEAN /\ 0 \in Nat
      OBVIOUS
    <3>2. QED
      BY <2>1, <3>1, ToldRecord
  <2>3. Answer(q, y, b) /\ y.ok
    BY <2>2 DEF Answer
  <2>4. QED
    BY <1>2, <2>1, <2>3
<1>3. CASE ~ok
  <2>1. PICK y : y = Told(q, FALSE, b.ttl)
    OBVIOUS
  <2>2. Answer(q, y, b)
    BY <1>1, <2>1, ToldRecord DEF Answer
  <2>3. QED
    BY <1>3, <2>1, <2>2
<1>4. QED
  BY <1>2, <1>3

\* What the script of a check does; a request that is the first to be counted
\* in its bucket passes.
LEMMA ScriptMine ==
  ASSUME RetryInv, NEW c \in Caller, RunScript(c)
  PROVE  \E n \in Place, e \in Slot, b \in Counter : \E y :
           /\ n = req[c].at /\ e = req[c].stamp \div Window[Scopes[n]]
           /\ b = Incremented(Scopes[n], store[Mine(c, n, e)])
           /\ store' = [store EXCEPT ![Mine(c, n, e)] = b]
           /\ Become(c, y) /\ Answer(req[c], y, b)
           /\ Limit[Scopes[n]] > 0 /\ (\A d \in Slot : ~LiveIn(c, n, d)) => y.ok
<1> DEFINE q  == req[c]
           n  == q.at
           s  == Scopes[n]
           i  == IdOf[c][s]
           k  == CurrKey(s, i, q.stamp)
           b  == Incremented(s, store[k])
           ok == Effective(s, PrevCount(s, i, q.stamp), b.n, q.stamp % Window[s]) <= Limit[s]
<1>1. LimiterInv /\ q \in RequestRecord /\ q.stamp \in Time /\ n \in Place
  BY OfCheck DEF RetryInv, RequestRecord, Place
<1>2. s \in Scope /\ <<s, i>> \in Bucket
  BY <1>1, Constants, Keys DEF Place
<1>3. /\ store' = [store EXCEPT ![k] = b]
      /\ Become(c, Told(q, ok, IF ok THEN 0 ELSE b.ttl))
  BY DEF RunScript, Told, ScopeOf, After
<1>4. Limit[s] \in Nat
  BY <1>2, Constants
<1>5. PICK e \in Slot : e = q.stamp \div Window[s]
  BY <1>1, <1>2, WindowOf
<1>6. k = Mine(c, n, e)
  BY <1>5 DEF CurrKey, Mine
<1>7. store[k] \in Counter /\ store[k].n \in Nat
  <2> HIDE DEF n, k
  <2>1. store[Mine(c, n, e)] \in Counter /\ store[Mine(c, n, e)].n \in Nat
    BY <1>1, MineIs
  <2>2. QED
    BY <1>6, <2>1
<1>8. b \in Counter /\ b.n = store[k].n + 1
  BY <1>2, <1>7, IncrementedCounter
<1>9. ASSUME Limit[s] > 0, \A d \in Slot : ~LiveIn(c, n, d) PROVE ok
  <2>1. store[k].n = 0
    BY <1>6, <1>7, <1>9 DEF LiveIn
  <2>2. PrevCount(s, i, q.stamp) = 0
    <3>1. CASE e = 0
      BY <1>5, <3>1 DEF PrevCount
    <3>2. CASE e # 0
      <4>1. e - 1 \in Slot
        BY <3>2, Constants DEF Slot, Time
      <4>2. PrevCount(s, i, q.stamp) = store[Mine(c, n, e - 1)].n
        BY <1>5, <3>2 DEF PrevCount, Mine
      <4>3. store[Mine(c, n, e - 1)].n \in Nat /\ ~(store[Mine(c, n, e - 1)].n > 0)
        BY <1>1, <1>9, <4>1, MineIs DEF LiveIn
      <4>4. QED
        BY <4>2, <4>3
    <3>3. QED
      BY <3>1, <3>2
  <2>3. q.stamp % Window[s] \in 0 .. Window[s] - 1
    BY <1>1, <1>2, KeyOfStamp
  <2>4. b.n = 1
    BY <1>8, <2>1
  <2>5. PICK u \in 0 .. Window[s] - 1 : u = q.stamp % Window[s]
    BY <2>3
  <2>6. Effective(s, 0, 1, u) = 1
    BY <1>2, EffectiveBounds
  <2> HIDE DEF b, s, i, q, n
  <2>7. QED
    BY <1>4, <1>9, <2>2, <2>4, <2>5, <2>6
<1>10. ok \in BOOLEAN
  OBVIOUS
<1> HIDE DEF ok, b
<1>11. b = Incremented(Scopes[n], store[Mine(c, n, e)])
  BY <1>6 DEF b
<1>12. PICK okk \in BOOLEAN, bb \in Counter : okk = ok /\ bb = b
  BY <1>8, <1>10
<1>13. PICK y : /\ y = Told(q, okk, IF okk THEN 0 ELSE bb.ttl)
                /\ Answer(q, y, bb) /\ (okk => y.ok)
  BY <1>1, ToldAnswer
<1>14. /\ store' = [store EXCEPT ![Mine(c, n, e)] = bb]
       /\ Become(c, Told(q, okk, IF okk THEN 0 ELSE bb.ttl))
       /\ bb = Incremented(Scopes[n], store[Mine(c, n, e)])
       /\ Limit[s] > 0 /\ (\A d \in Slot : ~LiveIn(c, n, d)) => okk
  BY <1>3, <1>6, <1>9, <1>11, <1>12
<1>15. /\ Become(c, y)
       /\ Limit[s] > 0 /\ (\A d \in Slot : ~LiveIn(c, n, d)) => y.ok
  BY <1>13, <1>14
<1>16. QED
  BY <1>1, <1>5, <1>13, <1>14, <1>15

\* The counter of a check after its script.
LEMMA Hit ==
  ASSUME LimiterInv, NEW c \in Caller, NEW n \in Place, NEW e \in Slot
  PROVE  LET a == store[Mine(c, n, e)]
             b == Incremented(Scopes[n], a)
         IN  /\ a.n \in Nat /\ a.ttl \in Nat
             /\ b \in Counter /\ b.n \in Nat /\ b.n > 0 /\ b.ttl \in Nat
             /\ a.n = 0 => b.ttl = 2 * Window[Scopes[n]]
             /\ a.n > 0 => b.ttl = a.ttl
<1>1. PICK a : a = store[Mine(c, n, e)]
  OBVIOUS
<1>2. PICK s : s = Scopes[n]
  OBVIOUS
<1>3. a \in Counter /\ a.n \in Nat /\ a.ttl \in Nat /\ s \in Scope
  BY <1>1, <1>2, MineIs
<1>4. PICK b : b = Incremented(s, a)
  OBVIOUS
<1>5. /\ b \in Counter /\ b.n = a.n + 1 /\ (a.n = 0 => b.ttl = 2 * Window[s])
      /\ (a.n > 0 => b.ttl = a.ttl)
  BY <1>3, <1>4, IncrementedCounter
<1>6. b.ttl \in Nat
  BY <1>5 DEF Counter
<1>7. QED
  BY <1>1, <1>2, <1>3, <1>4, <1>5, <1>6

\* The counters of a bucket of the caller's own after a script: those of
\* earlier windows, and the one of e.
LEMMA OwnCounters ==
  ASSUME RetryInv, NEW c \in Caller, NEW n \in Place, NEW e \in Slot, NEW b,
         InOrder(c, n), \A d \in Slot : LiveIn(c, n, d) => d <= e,
         b.ttl \in Nat,
         store[Mine(c, n, e)].n = 0 => b.ttl = 2 * Window[Scopes[n]],
         store[Mine(c, n, e)].n > 0 => b.ttl = store[Mine(c, n, e)].ttl,
         store' = [store EXCEPT ![Mine(c, n, e)] = b]
  PROVE  InOrder(c, n)' /\ GoneAfter(c, n, b.ttl)'
<1>1. LimiterInv /\ store \in [Key -> Counter]
  BY DEF RetryInv, LimiterInv, LimiterTypeOK
<1>2. Mine(c, n, e) \in Key /\ e \in Nat /\ store[Mine(c, n, e)].n \in Nat
  BY <1>1, MineIs
<1>3. store'[Mine(c, n, e)] = b
  BY <1>1, <1>2
<1>4. ASSUME NEW d \in Slot
      PROVE  /\ LiveIn(c, n, d)' => d <= e
             /\ d # e /\ LiveIn(c, n, d)' => LiveIn(c, n, d)
             /\ d # e => store'[Mine(c, n, d)].ttl = store[Mine(c, n, d)].ttl
             /\ LiveIn(c, n, d)' => store'[Mine(c, n, d)].ttl <= b.ttl
             /\ d \in Nat
  <2>1. Mine(c, n, d) \in Key /\ d \in Nat /\ store[Mine(c, n, d)].ttl \in Nat
    BY <1>1, MineIs
  <2>2. CASE d = e
    <3>1. store'[Mine(c, n, d)].ttl <= b.ttl /\ d <= e
      BY <1>2, <1>3, <2>2
    <3>2. QED
      BY <2>1, <2>2, <3>1
  <2>3. CASE d # e
    <3>1. Mine(c, n, d) # Mine(c, n, e)
      BY <2>3 DEF Mine
    <3>2. store'[Mine(c, n, d)] = store[Mine(c, n, d)]
      BY <1>1, <2>1, <3>1
    <3>3. LiveIn(c, n, d)' => LiveIn(c, n, d) /\ d <= e
      BY <3>2 DEF LiveIn, Mine
    <3>4. ASSUME LiveIn(c, n, d)' PROVE store[Mine(c, n, d)].ttl <= b.ttl
      <4>1. LiveIn(c, n, d) /\ d < e
        BY <1>2, <2>1, <2>3, <3>3, <3>4
      <4>2. CASE store[Mine(c, n, e)].n = 0
        BY <4>1, <4>2, MineSound
      <4>3. CASE store[Mine(c, n, e)].n > 0
        <5>1. LiveIn(c, n, e)
          BY <4>3 DEF LiveIn
        <5>2. store[Mine(c, n, d)].ttl <= store[Mine(c, n, e)].ttl
          BY <4>1, <5>1 DEF InOrder
        <5>3. QED
          BY <4>3, <5>2
      <4>4. QED
        BY <1>2, <4>2, <4>3
    <3>5. QED
      BY <2>1, <2>3, <3>2, <3>3, <3>4
  <2>4. QED
    BY <2>2, <2>3
<1>5. InOrder(c, n)'
  <2> SUFFICES ASSUME NEW d \in Slot, NEW f \in Slot, d < f, LiveIn(c, n, d)', LiveIn(c, n, f)'
               PROVE  store'[Mine(c, n, d)].ttl <= store'[Mine(c, n, f)].ttl
    BY DEF InOrder, Mine
  <2>1. f <= e /\ d # e /\ d \in Nat /\ f \in Nat
    BY <1>2, <1>4
  <2>2. CASE f = e
    BY <1>3, <1>4, <2>2
  <2>3. CASE f # e
    <3>1. LiveIn(c, n, d) /\ LiveIn(c, n, f)
      BY <1>4, <2>1, <2>3
    <3>2. store[Mine(c, n, d)].ttl <= store[Mine(c, n, f)].ttl
      BY <3>1 DEF InOrder
    <3>3. QED
      BY <1>4, <2>1, <2>3, <3>2
  <2>4. QED
    BY <2>2, <2>3
<1>6. GoneAfter(c, n, b.ttl)'
  BY <1>4 DEF GoneAfter, Mine
<1>7. QED
  BY <1>5, <1>6

\* The script in a bucket of the caller's own.
LEMMA ScriptOwn ==
  ASSUME RetryInv, NEW c \in Caller, req[c].pc = "sent", NEW n \in Place,
         NEW e \in Slot, NEW b, NEW y,
         n = req[c].at, Alone(c, n), e = req[c].stamp \div Window[Scopes[n]],
         b = Incremented(Scopes[n], store[Mine(c, n, e)]),
         store' = [store EXCEPT ![Mine(c, n, e)] = b],
         Answer(req[c], y, b),
         (\A d \in Slot : ~LiveIn(c, n, d)) => y.ok
  PROVE  InOrder(c, n)' /\ CallerSound(c, n, y)'
<1>1. LimiterInv /\ CallerSound(c, n, req[c]) /\ InOrder(c, n)
  BY DEF RetryInv
<1>2. \A d \in Slot : LiveIn(c, n, d) => d <= e
  BY <1>1 DEF CallerSound
<1>3. /\ b.ttl \in Nat
      /\ store[Mine(c, n, e)].n = 0 => b.ttl = 2 * Window[Scopes[n]]
      /\ store[Mine(c, n, e)].n > 0 => b.ttl = store[Mine(c, n, e)].ttl
  BY <1>1, Hit
<1>4. InOrder(c, n)' /\ GoneAfter(c, n, b.ttl)'
  <2>1. PICK bb : bb = b
    OBVIOUS
  <2>2. QED
    BY <1>1, <1>2, <1>3, <2>1, OwnCounters
<1>5. /\ y.pc = "answered" /\ y.at = n /\ y.blocked = req[c].blocked
      /\ y.was = req[c].was /\ (~y.ok => y.after = b.ttl)
  BY DEF Answer
<1>6. ~y.ok => GoneAfter(c, n, y.after)'
  BY <1>4, <1>5 DEF GoneAfter
<1>7. n \in Nat /\ ~(n < n)
  BY EachPlace
<1>8. Scopes[n] \notin y.blocked
  <2>1. Scopes[n] \in req[c].blocked => n < req[c].at
    BY <1>1 DEF CallerSound, InCheck
  <2>2. QED
    BY <1>5, <1>7, <2>1
<1>9. Scopes[n] \in y.was => y.ok
  <2>1. Scopes[n] \in req[c].was => \A d \in Slot : ~LiveIn(c, n, d)
    BY <1>1 DEF CallerSound
  <2>2. QED
    BY <1>5, <2>1
<1>10. CallerSound(c, n, y)'
  BY <1>5, <1>6, <1>7, <1>8, <1>9 DEF CallerSound, InCheck
<1>11. QED
  BY <1>4, <1>10

\* The script of c in any other bucket than the n-th of d.
LEMMA ScriptOther ==
  ASSUME RetryInv, NEW c \in Caller, req[c].pc = "sent", NEW n \in Place, NEW e \in Slot,
         NEW b, NEW y, n = req[c].at,
         store' = [store EXCEPT ![Mine(c, n, e)] = b],
         Become(c, y), Answer(req[c], y, b),
         NEW d \in Caller, NEW m \in Place, Alone(d, m), d # c \/ m # n
  PROVE  (InOrder(d, m) /\ CallerSound(d, m, req[d]))'
<1>1. LimiterInv /\ req[c] \in RequestRecord /\ CallerSound(d, m, req[d]) /\ InOrder(d, m)
  BY OfCheck DEF RetryInv
<1>2. \A f \in Slot : store'[Mine(d, m, f)] = store[Mine(d, m, f)]
  <2> SUFFICES ASSUME NEW f \in Slot PROVE store'[Mine(d, m, f)] = store[Mine(d, m, f)]
    OBVIOUS
  <2>1. Mine(d, m, f) \in Key /\ Scopes[m] = Scopes[n] => m = n
    BY <1>1, MineIs, Constants DEF Place
  <2>2. Mine(d, m, f) # Mine(c, n, e)
    <3>1. CASE m # n
      BY <2>1, <3>1, Constants DEF Mine, Place
    <3>2. CASE m = n
      BY <3>2 DEF Alone, Own, Mine
    <3>3. QED
      BY <3>1, <3>2
  <2>3. Mine(d, m, f) \in Key /\ store \in [Key -> Counter]
    BY <1>1, MineIs DEF LimiterInv, LimiterTypeOK
  <2>4. QED
    BY <2>2, <2>3
<1>4. req'[c] = y /\ \A f \in Caller : f # c => req'[f] = req[f]
  BY <1>1 DEF LimiterInv, LimiterTypeOK, Become
<1>5. PICK x : x = req'[d]
  OBVIOUS
<1>6. CallerSound(d, m, x)
  <2>1. CASE d # c
    BY <1>1, <1>4, <1>5, <2>1
  <2>2. CASE d = c
    <3>1. /\ y.pc = "answered" /\ y.at = n /\ y.blocked = req[c].blocked
          /\ y.was = req[c].was /\ y.retry = req[c].retry
      BY DEF Answer
    <3>2. m # n /\ x = y
      BY <1>4, <1>5, <2>2
    <3>3. QED
      BY <1>1, <2>2, <3>1, <3>2 DEF CallerSound, InCheck
  <2>3. QED
    BY <2>1, <2>2
<1>7. InOrder(d, m)' /\ CallerSound(d, m, x)'
  BY <1>1, <1>2, <1>6, SameBucket
<1>8. QED
  BY <1>5, <1>7

LEMMA ScriptRetry ==
  ASSUME RetryInv, NEW c \in Caller, RunScript(c) PROVE RetryInv'
<1>1. LimiterInv /\ LimiterInv' /\ now' = now /\ now \in Nat /\ req[c].pc = "sent"
  BY RunScriptKeeps, OfCheck DEF RetryInv, RunScript
<1>0. PICK n \in Place, e \in Slot, b \in Counter : \E y :
        /\ n = req[c].at /\ e = req[c].stamp \div Window[Scopes[n]]
        /\ b = Incremented(Scopes[n], store[Mine(c, n, e)])
        /\ store' = [store EXCEPT ![Mine(c, n, e)] = b]
        /\ Become(c, y) /\ Answer(req[c], y, b)
        /\ Limit[Scopes[n]] > 0 /\ (\A d \in Slot : ~LiveIn(c, n, d)) => y.ok
  BY ScriptMine
<1>2. PICK y :
        /\ n = req[c].at /\ e = req[c].stamp \div Window[Scopes[n]]
        /\ b = Incremented(Scopes[n], store[Mine(c, n, e)])
        /\ store' = [store EXCEPT ![Mine(c, n, e)] = b]
        /\ Become(c, y) /\ Answer(req[c], y, b)
        /\ Limit[Scopes[n]] > 0 /\ (\A d \in Slot : ~LiveIn(c, n, d)) => y.ok
  BY <1>0
<1>3. req'[c] = y
  BY <1>1, <1>2 DEF LimiterInv, LimiterTypeOK, Become
<1>4. b.ttl \in Nat
  BY DEF Counter
<1>5. ASSUME NEW d \in Caller, NEW m \in Place, Alone(d, m)
      PROVE  (InOrder(d, m) /\ CallerSound(d, m, req[d]))'
  <2>1. CASE d = c /\ m = n
    <3>1. Alone(c, n) /\ Limit[Scopes[n]] > 0
      BY <1>5, <2>1 DEF Alone
    <3>2. InOrder(c, n)' /\ CallerSound(c, n, y)'
      BY <1>1, <1>2, <3>1, ScriptOwn
    <3>3. QED
      BY <1>3, <2>1, <3>2
  <2>2. CASE d # c \/ m # n
    <3>1. store' = [store EXCEPT ![Mine(c, n, e)] = b] /\ n = req[c].at
      BY <1>2
    <3>2. Become(c, y) /\ Answer(req[c], y, b) /\ req[c].pc = "sent"
      BY <1>1, <1>2
    <3>3. Alone(d, m)
      BY <1>5
    <3>4. QED
      BY <2>2, <3>1, <3>2, <3>3, ScriptOther
  <2>3. QED
    BY <2>1, <2>2
<1>6. ASSUME NEW k \in Key PROVE CounterSound(k)'
  <2>1. /\ Mine(c, n, e) \in Key /\ Mine(c, n, e)[1] = Scopes[n] /\ Mine(c, n, e)[3] = e
        /\ e \in Nat /\ Scopes[n] \in Scope /\ store[Mine(c, n, e)] \in Counter
        /\ store[Mine(c, n, e)].n \in Nat
    <3>1. Mine(c, n, e) \in Key /\ Scopes[n] \in Scope
      BY <1>1, MineIs
    <3>2. Mine(c, n, e)[1] = Scopes[n] /\ Mine(c, n, e)[3] = e
      BY DEF Mine
    <3>3. e \in Nat
      BY <1>1, MineIs
    <3>4. store[Mine(c, n, e)] \in Counter /\ store[Mine(c, n, e)].n \in Nat
      BY <1>1, MineIs
    <3>5. QED
      BY <3>1, <3>2, <3>3, <3>4
  <2>2. /\ store'[Mine(c, n, e)] = b
        /\ k # Mine(c, n, e) => store'[k] = store[k]
    BY <1>1, <1>2, <2>1 DEF LimiterInv, LimiterTypeOK
  <2>3. CASE k = Mine(c, n, e)
    <3>1. e * Window[Scopes[n]] <= now
      <4>1. req[c].stamp \in Time /\ req[c].stamp <= now /\ req[c].stamp \in Nat
        BY <1>1, OfCheck, Constants DEF RequestSound, RequestRecord, Time
      <4>2. e * Window[Scopes[n]] <= req[c].stamp
        BY <1>2, <2>1, <4>1, WindowOf
      <4>3. Window[Scopes[n]] \in Nat
        BY <2>1, Constants
      <4>4. e * Window[Scopes[n]] \in Nat
        BY <2>1, <4>3
      <4>5. QED
        BY <1>1, <4>1, <4>2, <4>4
    <3>2. b.ttl <= 2 * Window[Scopes[n]]
      <4>1. /\ store[Mine(c, n, e)].n = 0 => b.ttl = 2 * Window[Scopes[n]]
            /\ store[Mine(c, n, e)].n > 0 => b.ttl = store[Mine(c, n, e)].ttl
        BY <1>2, <2>1, IncrementedCounter
      <4>2. Window[Scopes[n]] \in Nat
        BY <2>1, Constants
      <4>3. store[Mine(c, n, e)].n > 0 => store[Mine(c, n, e)].ttl <= 2 * Window[Scopes[n]]
        BY MineSound DEF LiveIn
      <4>4. QED
        BY <2>1, <4>1, <4>2, <4>3
    <3>3. QED
      BY <1>1, <2>1, <2>2, <2>3, <3>1, <3>2 DEF CounterSound
  <2>4. CASE k # Mine(c, n, e)
    BY <1>1, <2>2, <2>4 DEF RetryInv, CounterSound
  <2>5. QED
    BY <2>3, <2>4
<1>7. (\A d \in Caller, m \in Place : Alone(d, m) => InOrder(d, m) /\ CallerSound(d, m, req[d]))'
  <2> SUFFICES ASSUME NEW d \in Caller, NEW m \in Place, Alone(d, m)
               PROVE  (InOrder(d, m) /\ CallerSound(d, m, req[d]))'
    BY DEF Alone, Own
  <2>1. QED
    BY <1>5
<1>8. QED
  BY <1>1, <1>6, <1>7 DEF RetryInv

\* Counters and waits grow shorter together.
LEMMA TickRetry ==
  ASSUME RetryInv, Tick PROVE RetryInv'
<1>1. LimiterInv /\ LimiterInv' /\ now' = now + 1 /\ now \in Nat
  BY TickKeeps, Constants DEF RetryInv, Tick, LimiterInv, LimiterTypeOK, Time
<1>2. \A k \in Key : store[k] \in Counter /\ store'[k] = Older(store[k])
  BY <1>1 DEF Tick, LimiterInv, LimiterTypeOK
<1>3. ASSUME NEW k \in Key PROVE CounterSound(k)'
  <2>1. CounterSound(k) /\ store[k].n \in Nat /\ store[k].ttl \in Nat
    BY <1>2 DEF RetryInv, Counter
  <2>2. 2 * Window[k[1]] \in Nat /\ k[3] * Window[k[1]] \in Nat
    <3>1. k[1] \in Scope /\ k[3] \in Slot
      BY Keys
    <3>2. Window[k[1]] \in Nat /\ k[3] \in Nat
      BY <3>1, Constants DEF Slot, Time
    <3>3. QED
      BY <3>2
  <2>3. store'[k].n > 0 => store[k].n > 0 /\ store'[k].ttl = store[k].ttl - 1
    BY <1>2, <2>1, OlderCounter
  <2>4. QED
    BY <1>1, <2>1, <2>2, <2>3 DEF CounterSound
<1>4. ASSUME NEW c \in Caller, NEW n \in Place, NEW d \in Slot
      PROVE  LiveIn(c, n, d)' =>
               /\ LiveIn(c, n, d) /\ store'[Mine(c, n, d)].ttl = store[Mine(c, n, d)].ttl - 1
               /\ store[Mine(c, n, d)].ttl \in Nat /\ store[Mine(c, n, d)].ttl >= 1
  <2>1. PICK k \in Key : k = Mine(c, n, d)
    BY <1>1, MineIs
  <2>2. store[k].ttl \in Nat /\ (LiveIn(c, n, d) => store[k].ttl >= 1)
    BY <1>1, <2>1, MineIs
  <2>3. store[k] \in Counter /\ store'[k] = Older(store[k])
    BY <1>2
  <2>4. store'[k].n > 0 => store[k].n > 0 /\ store'[k].ttl = store[k].ttl - 1
    BY <2>3, OlderCounter
  <2>5. (LiveIn(c, n, d) <=> store[k].n > 0) /\ (LiveIn(c, n, d)' <=> store'[k].n > 0)
    BY <2>1 DEF LiveIn, Mine
  <2>6. QED
    BY <2>1, <2>2, <2>4, <2>5
<1>5. ASSUME NEW c \in Caller, NEW n \in Place, Alone(c, n) PROVE InOrder(c, n)'
  <2> SUFFICES ASSUME NEW d \in Slot, NEW e \in Slot, d < e, LiveIn(c, n, d)', LiveIn(c, n, e)'
               PROVE  store'[Mine(c, n, d)].ttl <= store'[Mine(c, n, e)].ttl
    BY DEF InOrder, Mine
  <2>1. store[Mine(c, n, d)].ttl <= store[Mine(c, n, e)].ttl
    BY <1>4, <1>5 DEF RetryInv, InOrder
  <2>2. QED
    BY <1>4, <2>1
<1>6. ASSUME NEW c \in Caller, NEW n \in Place, Alone(c, n) PROVE CallerSound(c, n, req[c])'
  <2>1. PICK q, y : q = req[c] /\ y = req'[c]
    OBVIOUS
  <2>2. q \in RequestRecord /\ CallerSound(c, n, q) /\ y = Waited(q)
    BY <1>1, <1>6, <2>1 DEF RetryInv, LimiterInv, LimiterTypeOK, Tick, Waited
  <2>3. /\ y.pc = q.pc /\ y.stamp = q.stamp /\ y.ok = q.ok /\ y.after = q.after
        /\ y.retry = q.retry /\ y.was = q.was /\ y.at = q.at /\ y.blocked = q.blocked
        /\ y.wait = IF q.wait > 0 THEN q.wait - 1 ELSE 0
    BY <2>2, WaitedRecord
  <2>4. q.wait \in Nat /\ q.after \in Nat /\ q.retry \in Nat
    BY <2>2 DEF RequestRecord
  <2>5. ASSUME NEW m \in Nat, GoneAfter(c, n, m)
        PROVE  GoneAfter(c, n, m)' /\ GoneAfter(c, n, IF m > 0 THEN m - 1 ELSE 0)'
    <3>1. ASSUME NEW d \in Slot, LiveIn(c, n, d)'
          PROVE  /\ store'[Mine(c, n, d)].ttl <= m /\ m > 0
                 /\ store'[Mine(c, n, d)].ttl <= m - 1
      <4>1. store[Mine(c, n, d)].ttl <= m
        BY <1>4, <2>5, <3>1 DEF GoneAfter
      <4>2. QED
        BY <1>4, <3>1, <4>1
    <3>2. GoneAfter(c, n, m)'
      BY <3>1 DEF GoneAfter, Mine
    <3>3. GoneAfter(c, n, IF m > 0 THEN m - 1 ELSE 0)'
      BY <3>1 DEF GoneAfter, Mine
    <3>4. QED
      BY <3>2, <3>3
  <2>6. q.pc = "answered" /\ q.at = n /\ ~q.ok => GoneAfter(c, n, y.after)'
    BY <2>2, <2>3, <2>4, <2>5 DEF CallerSound
  <2>7. Scopes[n] \in q.blocked =>
          /\ q.pc \in InCheck => n < q.at /\ GoneAfter(c, n, y.retry)'
          /\ q.pc = "rejected" => GoneAfter(c, n, y.wait)'
    BY <2>2, <2>3, <2>4, <2>5 DEF CallerSound
  <2>8. q.pc = "sent" /\ q.at = n =>
          \A d \in Slot : LiveIn(c, n, d)' => d <= y.stamp \div Window[Scopes[n]]
    BY <1>4, <2>2, <2>3 DEF CallerSound
  <2>9. Scopes[n] \in q.was =>
          /\ Scopes[n] \notin q.blocked
          /\ q.pc \in InCheck /\ q.at < n => \A d \in Slot : ~LiveIn(c, n, d)'
          /\ q.pc = "sent" /\ q.at = n => \A d \in Slot : ~LiveIn(c, n, d)'
          /\ q.pc = "answered" /\ q.at = n => q.ok
    BY <1>4, <2>2 DEF CallerSound
  <2>10. CallerSound(c, n, y)'
    BY <2>3, <2>6, <2>7, <2>8, <2>9 DEF CallerSound
  <2>11. QED
    BY <2>1, <2>10
<1>7. (\A d \in Caller, m \in Place : Alone(d, m) => InOrder(d, m) /\ CallerSound(d, m, req[d]))'
  <2> SUFFICES ASSUME NEW d \in Caller, NEW m \in Place, Alone(d, m)
               PROVE  (InOrder(d, m) /\ CallerSound(d, m, req[d]))'
    BY DEF Alone, Own
  <2>1. QED
    BY <1>5, <1>6
<1>8. QED
  BY <1>1, <1>3, <1>7 DEF RetryInv

LEMMA RetryStep ==
  ASSUME RetryInv, [LimiterNext]_limiterVars PROVE RetryInv'
<1>1. LimiterInv /\ LimiterInv'
  BY LimiterNextInv DEF RetryInv
<1>2. CASE UNCHANGED limiterVars
  <2>1. (\A k \in Key : CounterSound(k))'
    BY <1>2 DEF RetryInv, CounterSound, limiterVars
  <2>2. (\A d \in Caller, m \in Place : Alone(d, m) => InOrder(d, m) /\ CallerSound(d, m, req[d]))'
    BY <1>2 DEF RetryInv, InOrder, CallerSound, GoneAfter, LiveIn, Mine, Alone, Own, limiterVars
  <2>3. QED
    BY <1>1, <2>1, <2>2 DEF RetryInv
<1>3. ASSUME NEW c \in Caller,
             Begin(c) \/ RunScript(c) \/ Reply(c) \/ RedisFails(c) \/ Cancel(c)
      PROVE  RetryInv'
  <2>1. CASE Reply(c)
    <3>1. /\ req[c].pc = "answered" /\ req[c].pc \in InCheck
          /\ req[c].ok \in BOOLEAN /\ Proceed(c, req[c].ok) /\ UNCHANGED faults
      BY <1>1, <2>1, OfCheck DEF Reply, InCheck, RequestRecord
    <3>2. QED
      BY <1>1, <3>1, ProceedRetry, FaultCounted
  <2>2. CASE RedisFails(c)
    BY <1>1, <2>2, ProceedRetry, FaultCounted DEF RedisFails
  <2>3. CASE Cancel(c)
    BY <1>1, <2>3, IdleCaller, BecomeRetry DEF Cancel
  <2>4. QED
    BY <1>3, <2>1, <2>2, <2>3, BeginRetry, ScriptRetry
<1>4. CASE Tick
  BY <1>4, TickRetry
<1>5. QED
  BY <1>2, <1>3, <1>4 DEF LimiterNext

LEMMA RetryInit == ASSUME LimiterInit PROVE RetryInv
<1>1. LimiterInv /\ store = [k \in Key |-> NoCounter] /\ req = [c \in Caller |-> Idle]
  BY LimiterInitInv DEF LimiterInit
<1>2. \A k \in Key : store[k].n = 0
  BY <1>1 DEF NoCounter
<1>3. \A k \in Key : CounterSound(k)
  BY <1>2 DEF CounterSound
<1>4. ASSUME NEW c \in Caller, NEW n \in Place PROVE InOrder(c, n) /\ CallerSound(c, n, req[c])
  <2>1. \A d \in Slot : ~LiveIn(c, n, d)
    <3>1. ASSUME NEW d \in Slot PROVE ~LiveIn(c, n, d)
      <4>1. PICK k \in Key : k = Mine(c, n, d)
        BY <1>1, MineIs
      <4>2. store[k].n = 0
        BY <1>2
      <4>3. QED
        BY <4>1, <4>2 DEF LiveIn
    <3>2. QED
      BY <3>1
  <2>2. QED
    BY <1>1, <2>1, IdleCaller DEF InOrder
<1>5. QED
  BY <1>1, <1>3, <1>4 DEF RetryInv

-----------------------------------------------------------------------------
(* The theorems.                                                           *)

\* Counters, requests and histories keep their types.
THEOREM LimiterTyped == LimiterSpec => []LimiterTypeOK
<1>1. LimiterInv => LimiterTypeOK
  BY DEF LimiterInv
<1>2. QED
  BY <1>1, LimiterInvHolds, PTL

\* No more than the limit pass in one window of a key, a team or an
\* organization, for any number of callers, any limits and windows, and
\* scripts that run up to a whole window after the clock was read.
THEOREM LimiterWithinLimit == LimiterSpec => []WithinLimit
<1>1. LimiterInv => WithinLimit
  BY DEF LimiterInv, KeySound, WithinLimit
<1>2. QED
  BY <1>1, LimiterInvHolds, PTL

\* What the weighted count is for, whatever the delays: fewer than twice the
\* limit pass in any stretch of a window's length, wherever it begins, unless
\* a check of one of its two windows passed after the end of that window.
THEOREM LimiterBurstExplained == LimiterSpec => []BurstExplained
<1>1. LimiterInit => BurstInv
  BY BurstInit
<1>2. BurstInv /\ [LimiterNext]_limiterVars => BurstInv'
  BY BurstStep
<1>3. BurstInv => BurstExplained
  <2> SUFFICES ASSUME BurstInv, NEW b \in Bucket, NEW t \in Time, Limit[b[1]] > 0,
                      <<b[1], b[2], t \div Window[b[1]]>> \notin late,
                      <<b[1], b[2], (t \div Window[b[1]]) + 1>> \notin late
               PROVE  ~ (MapThenSumSet(LAMBDA u : passedAt[b][u],
                                       t .. Min({MaxTime, t + Window[b[1]] - 1})) >= 2 * Limit[b[1]])
    BY DEF BurstExplained
  <2>1. b = <<b[1], b[2]>> /\ b[1] \in Scope
    BY Keys
  <2>2. SumOver(passedAt[b], Stretch(b[1], t)) < 2 * Limit[b[1]]
    BY <2>1, BurstBound
  <2>3. SumOver(passedAt[b], Stretch(b[1], t)) \in Nat /\ Limit[b[1]] \in Nat
    <3>1. passedAt[b] \in [Time -> Nat] /\ MaxTime \in Nat
      BY Constants DEF BurstInv, LimiterInv, LimiterTypeOK
    <3>2. Stretch(b[1], t) \in SUBSET Time
      BY <2>1, StretchInTwo DEF InWindow
    <3>3. IsFiniteSet(Time)
      BY <3>1, FS_Interval DEF Time
    <3>4. PICK F, S : F = passedAt[b] /\ S = Stretch(b[1], t)
      OBVIOUS
    <3>5. IsFiniteSet(S) /\ \A u \in S : F[u] \in Nat
      BY <3>1, <3>2, <3>3, <3>4, FS_Subset
    <3>6. QED
      BY <2>1, <3>4, <3>5, SumNat, Constants
  <2>4. ~ (SumOver(passedAt[b], Stretch(b[1], t)) >= 2 * Limit[b[1]])
    BY <2>2, <2>3
  <2>5. QED
    BY <2>4 DEF SumOver, Stretch
<1>4. QED
  BY <1>1, <1>2, <1>3, PTL DEF LimiterSpec

\* A caller that waits for its Retry-After is not blocked again by a scope
\* that has blocked it and counts it alone, for any limits, windows and
\* delays, and whatever happens in the other scopes.
THEOREM LimiterRetryAfterSuffices == LimiterSpec => []RetryAfterSuffices
<1>1. LimiterInit => RetryInv
  BY RetryInit
<1>2. RetryInv /\ [LimiterNext]_limiterVars => RetryInv'
  BY RetryStep
<1>3. RetryInv => RetryAfterSuffices
  <2> SUFFICES ASSUME RetryInv, NEW c \in Caller, NEW s \in Scope, Own(c, s), Limit[s] > 0,
                      s \in req[c].was
               PROVE  s \notin req[c].blocked
    BY DEF RetryAfterSuffices
  <2>1. PICK n \in Place : Scopes[n] = s
    BY Constants DEF Place
  <2>2. QED
    BY <2>1 DEF RetryInv, CallerSound, Alone
<1>4. QED
  BY <1>1, <1>2, <1>3, PTL DEF LimiterSpec
=============================================================================
