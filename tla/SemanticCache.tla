---------------------------- MODULE SemanticCache ----------------------------
(***************************************************************************)
(* The semantic cache (semantic_cache/cache.py, similarity.py,             *)
(* embedding.py).  Redis holds, for each team, a list of entry ids, newest *)
(* first, one hash per entry that expires on its own, and a flag that      *)
(* turns the cache off for the team.                                       *)
(*                                                                         *)
(* A chat request looks its question up before the provider is called and  *)
(* stores the provider's answer afterwards, in a task of its own.  Both    *)
(* are sequences of awaits (the flag, the embedding, the index, one entry  *)
(* at a time; the flag, the embedding, the write) that interleave with     *)
(* those of other requests, with expiry and with the administrator; each   *)
(* round trip can fail, and the process can die between any two.           *)
(***************************************************************************)
EXTENDS Integers, Sequences, FiniteSets, FiniteSetsExt

CONSTANTS
    Team,
    Task,           \* chat requests
    Ask,            \* the requests' contents: records, see AskRecord
    Text,           \* user messages
    NoText,         \* no user message
    Vector,         \* Vector[x]: the embedding of a text
    MaxEntries,     \* semantic_cache_max_entries_per_team
    Ttl,            \* semantic_cache_ttl_seconds, in ticks
    ThrNum, ThrDen, \* semantic_cache_similarity_threshold, as a fraction
    MaxActive,      \* bound: requests at a time
    MaxTime         \* bound: last tick

\* What a request asks, as far as the cache can tell it from another:
\* the last user message, the first system message, the parameters that
\* build_config_hash takes in, and those it does not.
AskRecord == [text : Text \cup {NoText}, system : {"s0", "s1"},
              params : {"p0", "p1"}, stream : BOOLEAN]

ASSUME CacheAssumption ==
    /\ IsFiniteSet(Task)
    /\ Ask \subseteq AskRecord
    /\ NoText \notin Text
    /\ Vector \in [Text -> Seq(Int)]
    /\ MaxEntries \in Nat \ {0} /\ Ttl \in Nat \ {0}
    /\ ThrNum \in Nat /\ ThrDen \in Nat \ {0} /\ ThrNum <= ThrDen
    /\ MaxActive \in Nat /\ MaxTime \in Nat

VARIABLES
    now,            \* the clock
    hash,           \* Redis: the entry hashes, by team and id
    index,          \* Redis: each team's list of ids, newest first
    disabled,       \* Redis: each team's disable flag
    task,           \* the requests' progress
    lastId          \* entries written so far; their ids are numbers

cacheVars == <<now, hash, index, disabled, task, lastId>>

Id == 1 .. Cardinality(Task)
Time == 0 .. MaxTime

\* An entry is the request it answers and when it expires.
Entry == [ask : Ask, dies : 1 .. MaxTime + Ttl]
NoEntry == [dies |-> 0]

InLookup == {"flag", "embed", "index", "scan"}
InStore == {"sflag", "sembed", "swrite"}

\* ids is what LRANGE answered, at the place of the next HGETALL in it, best
\* the id of the closest entry so far with its hash, began the time of the
\* call.  faulty says that a round trip of this lookup or store has failed;
\* off that the team has been disabled since before it began.
NoBest == [id |-> 0, entry |-> NoEntry]
TaskRecord ==
    [pc : {"hit", "ask"} \cup InLookup \cup InStore,
     team : Team, ask : Ask, ids : Seq(Id), at : Nat,
     best : [id : Id \cup {0}, entry : Entry \cup {NoEntry}],
     began : Time, faulty : BOOLEAN, off : BOOLEAN]

Idle == [pc |-> "idle"]         \* the request has not come
Done == [pc |-> "done"]         \* it is over, without a hit

\* A lookup or a store that begins.
Beginning(pc, t, a) ==
    [pc |-> pc, team |-> t, ask |-> a, ids |-> << >>, at |-> 1, best |-> NoBest,
     began |-> now, faulty |-> FALSE, off |-> disabled[t]]

\* The lookup has missed, and the provider is asked.
Asking(t, a) ==
    [pc |-> "ask", team |-> t, ask |-> a, ids |-> << >>, at |-> 1, best |-> NoBest,
     began |-> 0, faulty |-> FALSE, off |-> FALSE]

-----------------------------------------------------------------------------
(* similarity.py.                                                          *)

\* _is_eligible.
IsEligible(a) == ~a.stream /\ a.text # NoText

\* Mutant: the system prompt does not take part in the hash.
ConfigHashParamsOnly(a) == a.params

\* The hash is as good as what is hashed: the system prompt and the
\* parameters, not the earlier turns of the conversation, nor provider and
\* model.
ConfigHash(a) == <<a.system, a.params>>

Dot(u, v) == MapThenSumSet(LAMBDA n : u[n] * v[n], DOMAIN u)

\* cosine_similarity, squared with its sign, as a fraction: comparing these
\* is comparing the cosines.
Cosine(u, v) ==
    IF Len(u) # Len(v) \/ Dot(u, u) = 0 \/ Dot(v, v) = 0
      THEN [num |-> 0, den |-> 1]
      ELSE [num |-> IF Dot(u, v) < 0 THEN -(Dot(u, v) * Dot(u, v))
                                     ELSE Dot(u, v) * Dot(u, v),
            den |-> Dot(u, u) * Dot(v, v)]

Similarity(a, b) == Cosine(Vector[a.text], Vector[b.text])

Greater(x, y) == x.num * y.den > y.num * x.den

\* sim >= self._threshold
MeetsThreshold(x) == x.num * ThrDen * ThrDen >= ThrNum * ThrNum * x.den

-----------------------------------------------------------------------------
(* Redis.                                                                  *)

Live(t, i) == now < hash[<<t, i>>].dies

\* Mutant: the list grows at its other end, and the trim keeps the old.
PushedRight(s, i) == IF Len(s) < MaxEntries THEN Append(s, i) ELSE s

\* LPUSH and LTRIM 0 .. max - 1.
Pushed(s, i) == SubSeq(<<i>> \o s, 1,
                       IF Len(s) + 1 < MaxEntries THEN Len(s) + 1 ELSE MaxEntries)

-----------------------------------------------------------------------------
(* lookup.                                                                 *)

Become(c, q) == task' = [task EXCEPT ![c] = q]

\* A chat request arrives.  A lookup that cannot hit goes on to the provider.
Lookup(c) ==
    /\ task[c] = Idle
    /\ Cardinality({d \in Task : task[d].pc \in {"ask"} \cup InLookup \cup InStore}) < MaxActive
    /\ \E t \in Team, a \in Ask :
         Become(c, IF IsEligible(a) THEN Beginning("flag", t, a) ELSE Asking(t, a))
    /\ UNCHANGED <<now, hash, index, disabled, lastId>>

\* A lookup that cannot hit goes on to the provider; a store just ends.
GiveUp(c) ==
    Become(c, IF task[c].pc \in InLookup THEN Asking(task[c].team, task[c].ask)
                                         ELSE Done)

\* The flag is not set.
GoOn(c, fails) ==
    Become(c, [task[c] EXCEPT !.pc = IF @ = "flag" THEN "embed" ELSE "sembed",
                              !.faulty = fails])

\* Mutant: store does not look at the flag.
ReadFlagLookupOnly(c) ==
    /\ task[c].pc \in {"flag", "sflag"}
    /\ IF disabled[task[c].team] /\ task[c].pc = "flag" THEN GiveUp(c) ELSE GoOn(c, FALSE)
    /\ UNCHANGED <<now, hash, index, disabled, lastId>>

ReadFlag(c) ==
    /\ task[c].pc \in {"flag", "sflag"}
    /\ IF disabled[task[c].team] THEN GiveUp(c) ELSE GoOn(c, FALSE)
    /\ UNCHANGED <<now, hash, index, disabled, lastId>>

\* A read that fails counts as no flag.
FlagFails(c) ==
    /\ task[c].pc \in {"flag", "sflag"}
    /\ GoOn(c, TRUE)
    /\ UNCHANGED <<now, hash, index, disabled, lastId>>

\* The embedding service answers, or does not: a miss, or no write.
Embed(c) ==
    /\ task[c].pc \in {"embed", "sembed"}
    /\ \/ Become(c, [task[c] EXCEPT !.pc = IF @ = "embed" THEN "index" ELSE "swrite"])
       \/ GiveUp(c)
    /\ UNCHANGED <<now, hash, index, disabled, lastId>>

ReadIndex(c) ==
    /\ task[c].pc = "index"
    /\ \/ Become(c, [task[c] EXCEPT !.pc = "scan", !.ids = index[task[c].team]])
       \/ GiveUp(c)
    /\ UNCHANGED <<now, hash, index, disabled, lastId>>

\* Mutant: the last entry that meets the threshold is kept, not the closest.
ImprovesAny(q, e) == MeetsThreshold(Similarity(q.ask, e.ask))

\* sim > best_similarity, and what is kept must meet the threshold.
Improves(q, e) ==
    /\ MeetsThreshold(Similarity(q.ask, e.ask))
    /\ \/ q.best = NoBest
       \/ Greater(Similarity(q.ask, e.ask), Similarity(q.ask, q.best.entry.ask))

\* One HGETALL.  An entry that has expired, or that cannot be read, is passed
\* over.
ReadEntry(c) ==
    LET q == task[c]
        i == q.ids[q.at]
        e == hash[<<q.team, i>>]
    IN  /\ q.pc = "scan" /\ q.at <= Len(q.ids)
        /\ Become(c, [q EXCEPT
             !.at = @ + 1,
             !.best = IF Live(q.team, i) /\ ConfigHash(e.ask) = ConfigHash(q.ask)
                                         /\ Improves(q, e)
                        THEN [id |-> i, entry |-> e] ELSE @])
        /\ UNCHANGED <<now, hash, index, disabled, lastId>>

EntryFails(c) ==
    LET q == task[c]
    IN  /\ q.pc = "scan" /\ q.at <= Len(q.ids)
        /\ Become(c, [q EXCEPT !.at = @ + 1, !.faulty = TRUE])
        /\ UNCHANGED <<now, hash, index, disabled, lastId>>

\* The scan is over: the closest entry is served, or the provider is asked.
Decide(c) ==
    /\ task[c].pc = "scan" /\ task[c].at > Len(task[c].ids)
    /\ IF task[c].best = NoBest THEN GiveUp(c)
                                ELSE Become(c, [task[c] EXCEPT !.pc = "hit"])
    /\ UNCHANGED <<now, hash, index, disabled, lastId>>

\* The closest entry cannot be read back: a miss.
DecodeFails(c) ==
    /\ task[c].pc = "scan" /\ task[c].at > Len(task[c].ids) /\ task[c].best # NoBest
    /\ GiveUp(c)
    /\ UNCHANGED <<now, hash, index, disabled, lastId>>

-----------------------------------------------------------------------------
(* store.                                                                  *)

\* The provider has answered, the response is on its way, and store begins;
\* or the provider has failed.
Answered(c) ==
    /\ task[c].pc = "ask"
    /\ \/ /\ IsEligible(task[c].ask)
          /\ Become(c, Beginning("sflag", task[c].team, task[c].ask))
       \/ Become(c, Done)
    /\ UNCHANGED <<now, hash, index, disabled, lastId>>

\* Mutant: EXPIRE is left out, and the hash has no time to live.
DiesNever == MaxTime + Ttl + 1

\* EXPIRE: when a hash written now is gone.
Dies == now + Ttl

\* HSET, EXPIRE, LPUSH and LTRIM in one transaction.
Write(c) ==
    LET q == task[c]
        i == lastId + 1
    IN  /\ q.pc = "swrite"
        /\ lastId' = i
        /\ hash' = [hash EXCEPT ![<<q.team, i>>] = [ask |-> q.ask, dies |-> Dies]]
        /\ index' = [index EXCEPT ![q.team] = Pushed(@, i)]
        /\ Become(c, Done)
        /\ UNCHANGED <<now, disabled>>

WriteFails(c) ==
    /\ task[c].pc = "swrite"
    /\ Become(c, Done)
    /\ UNCHANGED <<now, hash, index, disabled, lastId>>

-----------------------------------------------------------------------------
(* The flag, the clock and the process.                                    *)

DisableForTeam(t) ==
    /\ disabled' = [disabled EXCEPT ![t] = TRUE]
    /\ UNCHANGED <<now, hash, index, task, lastId>>

EnableForTeam(t) ==
    /\ disabled[t]
    /\ disabled' = [disabled EXCEPT ![t] = FALSE]
    /\ task' = [c \in Task |->
                  IF task[c] \in {Idle, Done} THEN task[c]
                  ELSE [task[c] EXCEPT !.off = @ /\ task[c].team # t]]
    /\ UNCHANGED <<now, hash, index, lastId>>

Tick ==
    /\ now < MaxTime
    /\ now' = now + 1
    /\ UNCHANGED <<hash, index, disabled, task, lastId>>

\* The gateway restarts: Redis keeps what it has, the requests are gone.
Restart ==
    /\ task' = [c \in Task |-> IF task[c] = Idle THEN Idle ELSE Done]
    /\ UNCHANGED <<now, hash, index, disabled, lastId>>

CacheInit ==
    /\ now = 0 /\ lastId = 0
    /\ hash = [k \in Team \X Id |-> NoEntry]
    /\ index = [t \in Team |-> << >>]
    /\ disabled = [t \in Team |-> FALSE]
    /\ task = [c \in Task |-> Idle]

CacheNext ==
    \/ \E c \in Task :
         \/ Lookup(c) \/ ReadFlag(c) \/ FlagFails(c) \/ Embed(c) \/ ReadIndex(c)
         \/ ReadEntry(c) \/ EntryFails(c) \/ Decide(c) \/ DecodeFails(c)
         \/ Answered(c) \/ Write(c) \/ WriteFails(c)
    \/ \E t \in Team : DisableForTeam(t) \/ EnableForTeam(t)
    \/ Tick \/ Restart

CacheSpec == CacheInit /\ [][CacheNext]_cacheVars

-----------------------------------------------------------------------------
(* Properties.                                                             *)

CacheTypeOK ==
    /\ now \in Time /\ lastId \in 0 .. Cardinality(Task)
    /\ hash \in [Team \X Id -> Entry \cup {NoEntry}]
    /\ index \in [Team -> Seq(Id)]
    /\ disabled \in [Team -> BOOLEAN]
    /\ task \in [Task -> TaskRecord \cup {Idle, Done}]

\* "team isolation": what a hit serves was stored for the same team, for a
\* request with the same response-affecting parameters and a question within
\* the threshold, and had not expired when the lookup began, however long the
\* scan after it took.
HitSound ==
    \A c \in Task :
      task[c].pc = "hit" =>
        LET q == task[c]
            e == q.best.entry
        IN  /\ hash[<<q.team, q.best.id>>] = e
            /\ e.ask.system = q.ask.system /\ e.ask.params = q.ask.params
            /\ MeetsThreshold(Similarity(q.ask, e.ask))
            /\ q.began < e.dies
            /\ IsEligible(q.ask) /\ IsEligible(e.ask)

\* A lookup none of whose reads failed serves the closest of the entries of
\* its index that are still there when it decides, and asks the provider only
\* when none of them would do.
ClosestServed ==
    [][\A c \in Task :
         Decide(c) /\ ~task[c].faulty =>
           \A n \in 1 .. Len(task[c].ids) :
             LET q == task[c]
                 e == hash[<<q.team, q.ids[n]>>]
             IN  /\ Live(q.team, q.ids[n]) /\ ConfigHash(e.ask) = ConfigHash(q.ask)
                 /\ MeetsThreshold(Similarity(q.ask, e.ask))
                 => /\ q.best # NoBest
                    /\ ~Greater(Similarity(q.ask, e.ask),
                                Similarity(q.ask, q.best.entry.ask))]_cacheVars

\* The list of a team never exceeds its bound, and the ids of expired entries
\* that it still holds never cost a live entry its place: an entry that can
\* still be read is missing from the list only if the list is full of newer
\* ones, all of them live.
IndexKeepsLive ==
    \A t \in Team :
      LET listed == {index[t][n] : n \in 1 .. Len(index[t])}
      IN  /\ Cardinality(listed) = Len(index[t]) /\ Len(index[t]) <= MaxEntries
          /\ \A i \in Id : Live(t, i) /\ i \notin listed =>
               /\ Len(index[t]) = MaxEntries
               /\ \A j \in listed : j > i /\ Live(t, j)

\* Disabling a team acts from the next lookup and the next store on: one that
\* begins while the flag is set serves no hit and writes nothing while it
\* stays set, unless reading the flag fails.  (A store that has already read
\* the flag still writes.)
DisableRespected ==
    [][\A c \in Task :
         Write(c) \/ (Decide(c) /\ task[c].best # NoBest)
           => ~task[c].off \/ task[c].faulty]_cacheVars
=============================================================================
