------------------------- MODULE SemanticCacheProofs -------------------------
(***************************************************************************)
(* Theorems about SemanticCache for any number of teams, requests and      *)
(* questions, any list bound, time to live, threshold and embedding.       *)
(*                                                                         *)
(* HitSound speaks of the end of a scan of many round trips, so the        *)
(* invariant says what the scan has in hand at each of them (TaskSound),   *)
(* and that no hash ever changes once it is written: its id is fresh       *)
(* (HashSound, and the count of the requests that are over).               *)
(* IndexKeepsLive needs that ids and expiry times grow together (Ordered)  *)
(* and what a list leaves out (ListSound).                                 *)
(*                                                                         *)
(* ClosestServed compares the entry served with all that the scan went by, *)
(* so a second invariant, ScanInv, says that of every entry read so far    *)
(* the best one is at least as close.  It rests on similarities being      *)
(* totally ordered: each is a fraction whose denominator is positive.      *)
(***************************************************************************)
EXTENDS SemanticCache, FiniteSums, FiniteSetTheorems, SequenceTheorems, TLAPS

-----------------------------------------------------------------------------
(* The inductive invariant.                                                *)

\* The requests that are over.  Every entry was written by one of them.
Over == {c \in Task : task[c] = Done}

\* The best entry of a scan so far is in Redis as it was read, and could be
\* served.
BestSound(q) ==
    q.best # NoBest =>
      LET e == q.best.entry
      IN  /\ q.best.id \in Id /\ e \in Entry
          /\ hash[<<q.team, q.best.id>>] = e
          /\ ConfigHash(e.ask) = ConfigHash(q.ask)
          /\ MeetsThreshold(Similarity(q.ask, e.ask))
          /\ q.began < e.dies
          /\ IsEligible(e.ask)

\* A request under way.
TaskSound(q) ==
    /\ q.at >= 1 /\ q.began <= now
    /\ q.pc # "ask" => IsEligible(q.ask)
    /\ q.off => disabled[q.team]
    /\ q.pc \in {"embed", "index", "scan", "sembed", "swrite"} => ~q.off \/ q.faulty
    /\ q.pc = "hit" => q.best # NoBest
    /\ BestSound(q)

TasksSound == \A c \in Task : task[c] \in TaskRecord => TaskSound(task[c])

\* What is in Redis was written by now, under an id given out by now.
HashSound ==
    \A t \in Team, i \in Id :
      hash[<<t, i>>] # NoEntry =>
        i <= lastId /\ hash[<<t, i>>].dies <= now + Ttl /\ IsEligible(hash[<<t, i>>].ask)

\* Of two entries of a team, the later one lives longer.
Ordered ==
    \A t \in Team, i, j \in Id :
      i < j /\ hash[<<t, i>>] # NoEntry /\ hash[<<t, j>>] # NoEntry =>
        hash[<<t, i>>].dies <= hash[<<t, j>>].dies

\* A team's list: bounded, newest first, of ids with entries; it leaves an
\* entry out only when it is full of newer ones.
ListSound(t) ==
    LET s == index[t]
    IN  /\ Len(s) <= MaxEntries
        /\ \A m, n \in 1 .. Len(s) : m < n => s[m] > s[n]
        /\ \A n \in 1 .. Len(s) : hash[<<t, s[n]>>] # NoEntry
        /\ \A i \in Id :
             hash[<<t, i>>] # NoEntry /\ (\A n \in 1 .. Len(s) : s[n] # i) =>
               Len(s) = MaxEntries /\ \A n \in 1 .. Len(s) : s[n] > i

ListsSound == \A t \in Team : ListSound(t)

CacheInv ==
    /\ CacheTypeOK /\ lastId <= Cardinality(Over)
    /\ TasksSound /\ HashSound /\ Ordered /\ ListsSound

-----------------------------------------------------------------------------
(* Records.                                                                *)

LEMMA IdleDone ==
  /\ Idle.pc = "idle" /\ Done.pc = "done" /\ Idle # Done
  /\ Idle \notin TaskRecord /\ Done \notin TaskRecord
  /\ NoEntry.dies = 0 /\ NoEntry \notin Entry
<1>1. Idle.pc = "idle" /\ Done.pc = "done"
  BY DEF Idle, Done
<1>2. \A q \in TaskRecord : q.pc # "idle" /\ q.pc # "done"
  BY DEF TaskRecord, InLookup, InStore
<1>3. NoEntry.dies = 0
  BY DEF NoEntry
<1>4. \A e \in Entry : e.dies # 0
  BY CacheAssumption DEF Entry, CacheAssumption
<1>5. QED
  BY <1>1, <1>2, <1>3, <1>4

\* A request whose pc is that of no other state is under way.
LEMMA UnderWay ==
  ASSUME CacheTypeOK, NEW c \in Task, task[c].pc \notin {"idle", "done"}
  PROVE  task[c] \in TaskRecord /\ task[c] # Done
  BY IdleDone DEF CacheTypeOK

LEMMA BeginningTyped ==
  ASSUME CacheTypeOK, NEW pc \in {"flag", "sflag"}, NEW t \in Team, NEW a \in Ask
  PROVE  /\ Beginning(pc, t, a) \in TaskRecord
         /\ IsEligible(a) => TaskSound(Beginning(pc, t, a))
<1> DEFINE q == Beginning(pc, t, a)
<1>0. << >> \in Seq(Id) /\ NoBest \in [id : Id \cup {0}, entry : Entry \cup {NoEntry}]
      /\ now \in Time /\ now \in Int /\ disabled[t] \in BOOLEAN
  BY CacheAssumption DEF CacheTypeOK, NoBest, Time, CacheAssumption
<1>1. q \in TaskRecord
  BY <1>0 DEF Beginning, TaskRecord, InLookup, InStore
<1>2. /\ q.at = 1 /\ q.began = now /\ q.pc = pc /\ q.ask = a /\ q.off = disabled[t]
      /\ q.team = t /\ q.best = NoBest
  BY DEF Beginning
<1> HIDE DEF q
<1>3. IsEligible(a) => TaskSound(q)
  BY <1>0, <1>2 DEF TaskSound, BestSound
<1>4. QED
  BY <1>1, <1>3 DEF q

LEMMA AskingTyped ==
  ASSUME CacheTypeOK, NEW t \in Team, NEW a \in Ask
  PROVE  Asking(t, a) \in TaskRecord /\ TaskSound(Asking(t, a))
<1> DEFINE q == Asking(t, a)
<1>0. << >> \in Seq(Id) /\ NoBest \in [id : Id \cup {0}, entry : Entry \cup {NoEntry}]
      /\ now \in Nat /\ 0 \in Time
  BY CacheAssumption DEF CacheTypeOK, NoBest, Time, CacheAssumption
<1>1. q \in TaskRecord
  BY <1>0 DEF Asking, TaskRecord, InLookup, InStore
<1>2. q.at = 1 /\ q.began = 0 /\ q.pc = "ask" /\ q.off = FALSE /\ q.best = NoBest
  BY DEF Asking
<1> HIDE DEF q
<1>3. TaskSound(q)
  BY <1>0, <1>2 DEF TaskSound, BestSound
<1>4. QED
  BY <1>1, <1>3 DEF q

-----------------------------------------------------------------------------
(* Steps that change one request and nothing else.                         *)

LEMMA OverFinite ==
  ASSUME NEW S \in SUBSET Task
  PROVE  IsFiniteSet(S) /\ Cardinality(S) \in Nat /\ Cardinality(S) <= Cardinality(Task)
         /\ Cardinality(Task) \in Nat
<1>1. IsFiniteSet(Task)
  BY CacheAssumption DEF CacheAssumption
<1>2. IsFiniteSet(S) /\ Cardinality(S) <= Cardinality(Task)
  BY <1>1, FS_Subset
<1>3. QED
  BY <1>1, <1>2, FS_CardinalityType

\* The request goes on as q, which is sound: the invariant is kept.
LEMMA BecomeKeeps ==
  ASSUME CacheInv, NEW c \in Task, NEW q \in TaskRecord \cup {Done},
         q \in TaskRecord => TaskSound(q) /\ task[c] # Done,
         Become(c, q), UNCHANGED <<now, hash, index, disabled, lastId>>
  PROVE  CacheInv'
<1>0. CacheTypeOK /\ lastId <= Cardinality(Over) /\ TasksSound
  BY DEF CacheInv
<1>1. /\ task' \in [Task -> TaskRecord \cup {Idle, Done}] /\ task'[c] = q
      /\ \A d \in Task : d # c => task'[d] = task[d]
  BY <1>0 DEF CacheTypeOK, Become
<1>2. CacheTypeOK'
  BY <1>0, <1>1 DEF CacheTypeOK
<1>3. TasksSound'
  <2>1. \A r : TaskSound(r)' <=> TaskSound(r)
    BY DEF TaskSound, BestSound
  <2>2. QED
    BY <1>0, <1>1, <2>1, IdleDone DEF TasksSound
<1>4. (lastId <= Cardinality(Over))'
  <2>1. Over \subseteq Over' /\ Over' \subseteq Task
    BY <1>1, IdleDone DEF Over
  <2>2. IsFiniteSet(Over') /\ Cardinality(Over') \in Nat /\ Cardinality(Over) \in Nat
    BY <2>1, OverFinite
  <2>3. Cardinality(Over) <= Cardinality(Over')
    BY <2>1, <2>2, FS_Subset
  <2>4. QED
    BY <1>0, <2>2, <2>3 DEF CacheTypeOK
<1>5. HashSound' /\ Ordered' /\ ListsSound'
  BY DEF CacheInv, HashSound, Ordered, ListsSound, ListSound
<1>6. QED
  BY <1>2, <1>3, <1>4, <1>5 DEF CacheInv

\* What is known of a request under way.
LEMMA OfTask ==
  ASSUME CacheInv, NEW c \in Task, task[c].pc \notin {"idle", "done"}
  PROVE  /\ task[c] \in TaskRecord /\ task[c] # Done /\ TaskSound(task[c])
         /\ task[c].team \in Team /\ task[c].ask \in Ask
  BY UnderWay DEF CacheInv, TasksSound, TaskRecord

\* A miss, or a store that ends.
LEMMA GiveUpKeeps ==
  ASSUME CacheInv, NEW c \in Task, task[c].pc \notin {"idle", "done"},
         GiveUp(c), UNCHANGED <<now, hash, index, disabled, lastId>>
  PROVE  CacheInv'
<1>1. task[c] # Done /\ Asking(task[c].team, task[c].ask) \in TaskRecord
      /\ TaskSound(Asking(task[c].team, task[c].ask))
  BY OfTask, AskingTyped DEF CacheInv
<1>2. CASE task[c].pc \in InLookup
  BY <1>1, <1>2, BecomeKeeps DEF GiveUp
<1>3. CASE task[c].pc \notin InLookup
  BY <1>3, BecomeKeeps, IdleDone DEF GiveUp
<1>4. QED
  BY <1>2, <1>3

LEMMA LookupKeeps ==
  ASSUME CacheInv, NEW c \in Task, Lookup(c) PROVE CacheInv'
<1>1. PICK t \in Team, a \in Ask :
        Become(c, IF IsEligible(a) THEN Beginning("flag", t, a) ELSE Asking(t, a))
  BY DEF Lookup
<1>2. task[c] # Done /\ UNCHANGED <<now, hash, index, disabled, lastId>>
  BY IdleDone DEF Lookup
<1>3. CASE IsEligible(a)
  BY <1>1, <1>2, <1>3, BeginningTyped, BecomeKeeps DEF CacheInv
<1>4. CASE ~IsEligible(a)
  BY <1>1, <1>2, <1>4, AskingTyped, BecomeKeeps DEF CacheInv
<1>5. QED
  BY <1>3, <1>4

LEMMA GoOnKeeps ==
  ASSUME CacheInv, NEW c \in Task, task[c].pc \in {"flag", "sflag"}, NEW fails \in BOOLEAN,
         fails \/ ~disabled[task[c].team],
         GoOn(c, fails), UNCHANGED <<now, hash, index, disabled, lastId>>
  PROVE  CacheInv'
<1> DEFINE p == task[c]
           pc == IF p.pc = "flag" THEN "embed" ELSE "sembed"
           q == [p EXCEPT !.pc = pc, !.faulty = fails]
<1>1. p \in TaskRecord /\ p # Done /\ TaskSound(p)
  BY OfTask
<1>2. q \in TaskRecord
  BY <1>1 DEF TaskRecord, InLookup, InStore
<1>3. /\ q.pc \in {"embed", "sembed"} /\ q.faulty = fails /\ q.team = p.team /\ q.ask = p.ask
      /\ q.ids = p.ids /\ q.at = p.at /\ q.best = p.best /\ q.began = p.began /\ q.off = p.off
  BY <1>1 DEF TaskRecord
<1>4. Become(c, q)
  BY DEF GoOn
<1> HIDE DEF q
<1>5. TaskSound(q)
  BY <1>1, <1>3 DEF TaskSound, BestSound
<1>6. QED
  BY <1>1, <1>2, <1>4, <1>5, BecomeKeeps

LEMMA FlagKeeps ==
  ASSUME CacheInv, NEW c \in Task, ReadFlag(c) \/ FlagFails(c) PROVE CacheInv'
<1>1. CASE FlagFails(c)
  BY <1>1, GoOnKeeps DEF FlagFails
<1>2. CASE ReadFlag(c) /\ disabled[task[c].team]
  BY <1>2, GiveUpKeeps DEF ReadFlag
<1>3. CASE ReadFlag(c) /\ ~disabled[task[c].team]
  BY <1>3, GoOnKeeps DEF ReadFlag
<1>4. QED
  BY <1>1, <1>2, <1>3

LEMMA EmbedKeeps ==
  ASSUME CacheInv, NEW c \in Task, Embed(c) PROVE CacheInv'
<1> DEFINE p == task[c]
           pc == IF p.pc = "embed" THEN "index" ELSE "swrite"
           q == [p EXCEPT !.pc = pc]
<1>1. p \in TaskRecord /\ p # Done /\ TaskSound(p)
  BY OfTask DEF Embed
<1>2. q \in TaskRecord
  BY <1>1 DEF TaskRecord, InLookup, InStore
<1>3. /\ q.pc \in {"index", "swrite"} /\ q.faulty = p.faulty /\ q.team = p.team /\ q.ask = p.ask
      /\ q.ids = p.ids /\ q.at = p.at /\ q.best = p.best /\ q.began = p.began /\ q.off = p.off
  BY <1>1 DEF TaskRecord
<1>4. CASE GiveUp(c)
  BY <1>4, GiveUpKeeps DEF Embed
<1>5. CASE Become(c, q)
  <2> HIDE DEF q
  <2>1. TaskSound(q)
    BY <1>1, <1>3 DEF TaskSound, BestSound, Embed
  <2>2. QED
    BY <1>1, <1>2, <1>5, <2>1, BecomeKeeps DEF Embed
<1>6. QED
  BY <1>4, <1>5 DEF Embed

LEMMA ReadIndexKeeps ==
  ASSUME CacheInv, NEW c \in Task, ReadIndex(c) PROVE CacheInv'
<1> DEFINE p == task[c]
           q == [p EXCEPT !.pc = "scan", !.ids = index[p.team]]
<1>1. p \in TaskRecord /\ p # Done /\ TaskSound(p) /\ index[p.team] \in Seq(Id)
  BY OfTask DEF ReadIndex, CacheInv, CacheTypeOK
<1>2. q \in TaskRecord
  BY <1>1 DEF TaskRecord, InLookup, InStore
<1>3. /\ q.pc = "scan" /\ q.faulty = p.faulty /\ q.team = p.team /\ q.ask = p.ask
      /\ q.at = p.at /\ q.best = p.best /\ q.began = p.began /\ q.off = p.off
  BY <1>1 DEF TaskRecord
<1>4. CASE GiveUp(c)
  BY <1>4, GiveUpKeeps DEF ReadIndex
<1>5. CASE Become(c, q)
  <2> HIDE DEF q
  <2>1. TaskSound(q)
    BY <1>1, <1>3 DEF TaskSound, BestSound, ReadIndex
  <2>2. QED
    BY <1>1, <1>2, <1>5, <2>1, BecomeKeeps DEF ReadIndex
<1>6. QED
  BY <1>4, <1>5 DEF ReadIndex

LEMMA ReadEntryKeeps ==
  ASSUME CacheInv, NEW c \in Task, ReadEntry(c) PROVE CacheInv'
<1> DEFINE p == task[c]
           i == p.ids[p.at]
           e == hash[<<p.team, i>>]
           found == Live(p.team, i) /\ ConfigHash(e.ask) = ConfigHash(p.ask) /\ Improves(p, e)
           best == IF found THEN [id |-> i, entry |-> e] ELSE p.best
           at == p.at + 1
           q == [p EXCEPT !.at = at, !.best = best]
<1>1. p \in TaskRecord /\ p # Done /\ TaskSound(p) /\ p.team \in Team
  BY OfTask DEF ReadEntry
<1>2. i \in Id
  BY <1>1 DEF ReadEntry, TaskRecord, TaskSound
<1>3. e \in Entry \cup {NoEntry} /\ now \in Nat
  BY <1>1, <1>2, CacheAssumption DEF CacheInv, CacheTypeOK, Time, CacheAssumption
<1>4. best \in [id : Id \cup {0}, entry : Entry \cup {NoEntry}]
  BY <1>1, <1>2, <1>3 DEF TaskRecord
<1>5. q \in TaskRecord
  <2>1. at \in Nat
    BY <1>1 DEF TaskRecord
  <2> HIDE DEF best, at
  <2>2. QED
    BY <1>1, <1>4, <2>1 DEF TaskRecord
<1>6. /\ q.pc = p.pc /\ q.faulty = p.faulty /\ q.team = p.team /\ q.ask = p.ask
      /\ q.at = p.at + 1 /\ q.best = best /\ q.began = p.began /\ q.off = p.off
  <2> HIDE DEF best
  <2>1. QED
    BY <1>1 DEF TaskRecord
<1>7. Become(c, q) /\ p.pc = "scan" /\ UNCHANGED <<now, hash, index, disabled, lastId>>
  BY DEF ReadEntry
<1>8. BestSound(q)
  <2>1. CASE found
    <3>1. e \in Entry /\ now < e.dies /\ hash[<<p.team, i>>] # NoEntry
      BY <1>3, <2>1, IdleDone DEF Live
    <3>2. IsEligible(e.ask) /\ p.began < e.dies
      BY <1>1, <1>2, <1>3, <3>1 DEF CacheInv, HashSound, TaskSound, TaskRecord, Time, Entry
    <3>3. best.id = i /\ best.entry = e
      BY <2>1
    <3>4. MeetsThreshold(Similarity(p.ask, e.ask)) /\ ConfigHash(e.ask) = ConfigHash(p.ask)
      BY <2>1 DEF Improves
    <3> HIDE DEF best, q, e, i, found
    <3>5. QED
      BY <1>2, <1>6, <3>1, <3>2, <3>3, <3>4 DEF BestSound, e
  <2>2. CASE ~found
    <3>1. best = p.best
      BY <2>2
    <3> HIDE DEF best, q, e, i, found
    <3>2. QED
      BY <1>1, <1>6, <3>1 DEF BestSound, TaskSound
  <2>3. QED
    BY <2>1, <2>2
<1> HIDE DEF q, best, found, e, i
<1>9. TaskSound(q)
  BY <1>1, <1>6, <1>7, <1>8 DEF TaskSound, TaskRecord
<1>10. QED
  BY <1>1, <1>5, <1>7, <1>9, BecomeKeeps

LEMMA EntryFailsKeeps ==
  ASSUME CacheInv, NEW c \in Task, EntryFails(c) PROVE CacheInv'
<1> DEFINE p == task[c]
           at == p.at + 1
           q == [p EXCEPT !.at = at, !.faulty = TRUE]
<1>1. p \in TaskRecord /\ p # Done /\ TaskSound(p)
  BY OfTask DEF EntryFails
<1>2. q \in TaskRecord
  <2>1. at \in Nat
    BY <1>1 DEF TaskRecord
  <2> HIDE DEF at
  <2>2. QED
    BY <1>1, <2>1 DEF TaskRecord
<1>3. /\ q.pc = p.pc /\ q.faulty = TRUE /\ q.team = p.team /\ q.ask = p.ask
      /\ q.at = p.at + 1 /\ q.best = p.best /\ q.began = p.began /\ q.off = p.off
  BY <1>1 DEF TaskRecord
<1>4. Become(c, q) /\ p.pc = "scan" /\ UNCHANGED <<now, hash, index, disabled, lastId>>
  BY DEF EntryFails
<1> HIDE DEF q
<1>5. TaskSound(q)
  BY <1>1, <1>3, <1>4 DEF TaskSound, BestSound, TaskRecord
<1>6. QED
  BY <1>1, <1>2, <1>4, <1>5, BecomeKeeps

LEMMA DecideKeeps ==
  ASSUME CacheInv, NEW c \in Task, Decide(c) \/ DecodeFails(c) PROVE CacheInv'
<1> DEFINE p == task[c]
           q == [p EXCEPT !.pc = "hit"]
<1>0. p.pc = "scan" /\ UNCHANGED <<now, hash, index, disabled, lastId>>
  BY DEF Decide, DecodeFails
<1>1. p \in TaskRecord /\ p # Done /\ TaskSound(p)
  BY <1>0, OfTask
<1>2. q \in TaskRecord
  BY <1>1 DEF TaskRecord
<1>3. /\ q.pc = "hit" /\ q.faulty = p.faulty /\ q.team = p.team /\ q.ask = p.ask
      /\ q.at = p.at /\ q.best = p.best /\ q.began = p.began /\ q.off = p.off
  BY <1>1 DEF TaskRecord
<1>4. CASE GiveUp(c)
  BY <1>0, <1>4, GiveUpKeeps
<1>5. CASE Become(c, q) /\ p.best # NoBest
  <2> HIDE DEF q
  <2>1. TaskSound(q)
    BY <1>0, <1>1, <1>3, <1>5 DEF TaskSound, BestSound
  <2>2. QED
    BY <1>0, <1>1, <1>2, <1>5, <2>1, BecomeKeeps
<1>6. QED
  BY <1>4, <1>5 DEF Decide, DecodeFails

LEMMA AnsweredKeeps ==
  ASSUME CacheInv, NEW c \in Task, Answered(c) PROVE CacheInv'
<1>1. /\ task[c] # Done /\ task[c].team \in Team /\ task[c].ask \in Ask
      /\ UNCHANGED <<now, hash, index, disabled, lastId>>
  BY OfTask DEF Answered
<1>2. CASE IsEligible(task[c].ask) /\ Become(c, Beginning("sflag", task[c].team, task[c].ask))
  BY <1>1, <1>2, BeginningTyped, BecomeKeeps DEF CacheInv
<1>3. CASE Become(c, Done)
  BY <1>1, <1>3, BecomeKeeps, IdleDone
<1>4. QED
  BY <1>2, <1>3 DEF Answered

LEMMA WriteFailsKeeps ==
  ASSUME CacheInv, NEW c \in Task, WriteFails(c) PROVE CacheInv'
  BY BecomeKeeps, IdleDone DEF WriteFails

-----------------------------------------------------------------------------
(* The write.                                                              *)

\* What LPUSH and LTRIM leave.
LEMMA PushedProperties ==
  ASSUME NEW s \in Seq(Id), NEW i \in Id, Len(s) <= MaxEntries
  PROVE  /\ Pushed(s, i) \in Seq(Id)
         /\ Len(Pushed(s, i)) = IF Len(s) + 1 < MaxEntries THEN Len(s) + 1 ELSE MaxEntries
         /\ Len(Pushed(s, i)) >= 1
         /\ Pushed(s, i)[1] = i
         /\ \A n \in 2 .. Len(Pushed(s, i)) : n - 1 \in 1 .. Len(s) /\ Pushed(s, i)[n] = s[n - 1]
<1> DEFINE k == IF Len(s) + 1 < MaxEntries THEN Len(s) + 1 ELSE MaxEntries
           r == <<i>> \o s
<1>0. MaxEntries \in Nat \ {0} /\ Len(s) \in Nat
  BY CacheAssumption DEF CacheAssumption
<1>1. k \in Nat /\ k >= 1 /\ k <= Len(s) + 1
  BY <1>0
<1>2. <<i>> \in Seq(Id) /\ Len(<<i>>) = 1 /\ <<i>>[1] = i
  OBVIOUS
<1>3. /\ r \in Seq(Id) /\ Len(r) = 1 + Len(s)
      /\ \A n \in 1 .. 1 + Len(s) : r[n] = IF n <= 1 THEN <<i>>[n] ELSE s[n - 1]
  BY <1>2, ConcatProperties
<1>4. r[1] = i /\ \A n \in 2 .. k : r[n] = s[n - 1]
  BY <1>0, <1>1, <1>2, <1>3
<1>5. \A n \in 1 .. k : r[n] \in Id
  BY <1>0, <1>1, <1>3
<1>6. Pushed(s, i) = SubSeq(r, 1, k)
  BY DEF Pushed
<1> HIDE DEF k, r
<1>7. /\ SubSeq(r, 1, k) \in Seq(Id) /\ Len(SubSeq(r, 1, k)) = k
      /\ \A n \in 1 .. k : SubSeq(r, 1, k)[n] = r[n]
  BY <1>1, <1>5, SubSeqProperties
<1>8. \A n \in 2 .. k : n - 1 \in 1 .. Len(s)
  BY <1>0, <1>1
<1>9. k = IF Len(s) + 1 < MaxEntries THEN Len(s) + 1 ELSE MaxEntries
  BY DEF k
<1>10. QED
  BY <1>1, <1>4, <1>6, <1>7, <1>8, <1>9

\* The transaction keeps a list sound: the new id is above all others, and
\* what falls off the end is below everything that stays.
LEMMA PushKeepsList ==
  ASSUME CacheInv, NEW t \in Team, NEW i \in Id, i = lastId + 1,
         NEW e \in Entry, hash' = [hash EXCEPT ![<<t, i>>] = e],
         index' = [index EXCEPT ![t] = Pushed(index[t], i)]
  PROVE  ListSound(t)'
<1> DEFINE s == index[t]
           p == Pushed(s, i)
<1>0. /\ s \in Seq(Id) /\ Len(s) \in Nat /\ MaxEntries \in Nat \ {0} /\ Id \subseteq Nat
      /\ hash \in [Team \X Id -> Entry \cup {NoEntry}] /\ lastId \in Nat
      /\ \A n \in 1 .. Len(s) : s[n] \in Id
  BY CacheAssumption, OverFinite DEF CacheInv, CacheTypeOK, CacheAssumption, Id
<1>1. /\ Len(s) <= MaxEntries
      /\ \A m, n \in 1 .. Len(s) : m < n => s[m] > s[n]
      /\ \A n \in 1 .. Len(s) : hash[<<t, s[n]>>] # NoEntry
      /\ \A j \in Id :
           hash[<<t, j>>] # NoEntry /\ (\A n \in 1 .. Len(s) : s[n] # j) =>
             Len(s) = MaxEntries /\ \A n \in 1 .. Len(s) : s[n] > j
  BY DEF CacheInv, ListsSound, ListSound
<1>2. \A j \in Id : hash[<<t, j>>] # NoEntry => j < i
  BY <1>0 DEF CacheInv, HashSound
<1>3. /\ index'[t] = p
      /\ hash'[<<t, i>>] = e /\ e # NoEntry
      /\ \A j \in Id : j # i => hash'[<<t, j>>] = hash[<<t, j>>]
  BY <1>0, IdleDone DEF CacheInv, CacheTypeOK
<1>4. /\ p \in Seq(Id) /\ Len(p) \in Nat
      /\ Len(p) = IF Len(s) + 1 < MaxEntries THEN Len(s) + 1 ELSE MaxEntries
      /\ Len(p) >= 1 /\ p[1] = i
      /\ \A n \in 2 .. Len(p) : n - 1 \in 1 .. Len(s) /\ p[n] = s[n - 1]
  BY <1>0, <1>1, PushedProperties
<1> HIDE DEF p, s
<1>5. Len(p) <= MaxEntries
  BY <1>0, <1>4
<1>6. \A n \in 2 .. Len(p) : p[n] \in Id /\ p[n] < i /\ hash[<<t, p[n]>>] # NoEntry
  BY <1>0, <1>1, <1>2, <1>4
<1>7. \A m, n \in 1 .. Len(p) : m < n => p[m] > p[n]
  <2> SUFFICES ASSUME NEW m \in 1 .. Len(p), NEW n \in 1 .. Len(p), m < n PROVE p[m] > p[n]
    OBVIOUS
  <2>1. n \in 2 .. Len(p)
    BY <1>4
  <2>2. CASE m = 1
    BY <1>0, <1>4, <1>6, <2>1, <2>2
  <2>3. CASE m # 1
    <3>1. m \in 2 .. Len(p) /\ m - 1 < n - 1
      BY <1>4, <2>3
    <3>2. QED
      BY <1>1, <1>4, <2>1, <3>1
  <2>4. QED
    BY <2>2, <2>3
<1>8. \A n \in 1 .. Len(p) : hash'[<<t, p[n]>>] # NoEntry
  <2> SUFFICES ASSUME NEW n \in 1 .. Len(p) PROVE hash'[<<t, p[n]>>] # NoEntry
    OBVIOUS
  <2>1. CASE n = 1
    BY <1>3, <1>4, <2>1
  <2>2. CASE n \in 2 .. Len(p)
    <3>1. p[n] # i
      BY <1>0, <1>6, <2>2
    <3>2. QED
      BY <1>3, <1>6, <2>2, <3>1
  <2>3. QED
    BY <1>4, <2>1, <2>2
<1>9. ASSUME NEW j \in Id, hash'[<<t, j>>] # NoEntry, \A n \in 1 .. Len(p) : p[n] # j
      PROVE  Len(p) = MaxEntries /\ \A n \in 1 .. Len(p) : p[n] > j
  <2>1. j # i
    BY <1>4, <1>9
  <2>2. hash[<<t, j>>] # NoEntry /\ j < i /\ j \in Nat /\ i \in Nat
    BY <1>0, <1>2, <1>3, <1>9, <2>1
  <2>3. CASE \A n \in 1 .. Len(s) : s[n] # j
    <3>1. Len(s) = MaxEntries /\ \A n \in 1 .. Len(s) : s[n] > j
      BY <1>1, <2>2, <2>3
    <3>2. Len(p) = MaxEntries
      BY <1>0, <1>4, <3>1
    <3>3. ASSUME NEW n \in 1 .. Len(p) PROVE p[n] > j
      <4>1. CASE n = 1
        BY <1>4, <2>2, <4>1
      <4>2. CASE n \in 2 .. Len(p)
        BY <1>4, <3>1, <4>2
      <4>3. QED
        BY <1>4, <4>1, <4>2
    <3>4. QED
      BY <3>2, <3>3
  <2>4. CASE \E m \in 1 .. Len(s) : s[m] = j
    <3>1. PICK m \in 1 .. Len(s) : s[m] = j
      BY <2>4
    <3>2. ~(m + 1 \in 2 .. Len(p))
      <4>1. m + 1 \in 2 .. Len(p) => p[m + 1] = s[m] /\ m + 1 \in 1 .. Len(p)
        BY <1>0, <1>4
      <4>2. QED
        BY <1>9, <3>1, <4>1
    <3>3. m >= Len(p) /\ Len(p) = MaxEntries
      BY <1>0, <1>4, <3>2
    <3>4. ASSUME NEW n \in 1 .. Len(p) PROVE p[n] > j
      <4>1. CASE n = 1
        BY <1>4, <2>2, <4>1
      <4>2. CASE n \in 2 .. Len(p)
        <5>1. n - 1 \in 1 .. Len(s) /\ n - 1 < m /\ p[n] = s[n - 1]
          BY <1>0, <1>4, <3>3, <4>2
        <5>2. QED
          BY <1>1, <3>1, <5>1
      <4>3. QED
        BY <1>4, <4>1, <4>2
    <3>5. QED
      BY <3>3, <3>4
  <2>5. QED
    BY <2>3, <2>4
<1>10. QED
  BY <1>3, <1>5, <1>7, <1>8, <1>9 DEF ListSound

LEMMA WriteKeeps ==
  ASSUME CacheInv, NEW c \in Task, Write(c) PROVE CacheInv'
<1> DEFINE p == task[c]
           t == p.team
           i == lastId + 1
           e == [ask |-> p.ask, dies |-> now + Ttl]
<1>0. /\ CacheTypeOK /\ lastId <= Cardinality(Over) /\ TasksSound /\ HashSound
      /\ Ordered /\ ListsSound
  BY DEF CacheInv
<1>1. /\ p \in TaskRecord /\ p # Done /\ TaskSound(p) /\ t \in Team /\ p.ask \in Ask
      /\ IsEligible(p.ask)
  BY OfTask DEF Write, TaskSound
<1>2. /\ lastId' = i /\ now' = now /\ disabled' = disabled /\ Become(c, Done)
      /\ hash' = [hash EXCEPT ![<<t, i>>] = e]
      /\ index' = [index EXCEPT ![t] = Pushed(index[t], i)]
  BY DEF Write, Dies
<1>3. /\ now \in Nat /\ now <= MaxTime /\ Ttl \in Nat \ {0} /\ MaxTime \in Nat /\ lastId \in Nat
  BY <1>0, CacheAssumption, OverFinite DEF CacheTypeOK, Time, CacheAssumption
<1>4. e \in Entry /\ e.dies = now + Ttl /\ e.ask = p.ask /\ e # NoEntry
  BY <1>1, <1>3, IdleDone DEF Entry
<1>5. /\ task' \in [Task -> TaskRecord \cup {Idle, Done}] /\ task'[c] = Done
      /\ \A d \in Task : d # c => task'[d] = task[d]
  BY <1>0, <1>2 DEF CacheTypeOK, Become
<1>6. i <= Cardinality(Over') /\ Cardinality(Over') <= Cardinality(Task) /\ i \in Id
      /\ Cardinality(Task) \in Nat
  <2>1. Over' = Over \cup {c} /\ c \notin Over /\ Over \subseteq Task
    BY <1>1, <1>5 DEF Over
  <2>2. IsFiniteSet(Over) /\ Cardinality(Over) \in Nat /\ Cardinality(Task) \in Nat
        /\ Cardinality(Over') <= Cardinality(Task)
    BY <2>1, OverFinite
  <2>3. Cardinality(Over') = Cardinality(Over) + 1
    BY <2>1, <2>2, FS_AddElement
  <2>4. QED
    BY <1>0, <1>3, <2>2, <2>3 DEF Id
<1> HIDE DEF e, i, p, t
<1>7. /\ hash' \in [Team \X Id -> Entry \cup {NoEntry}]
      /\ hash'[<<t, i>>] = e
      /\ \A u \in Team, j \in Id : <<u, j>> # <<t, i>> => hash'[<<u, j>>] = hash[<<u, j>>]
  BY <1>0, <1>1, <1>2, <1>4, <1>6 DEF CacheTypeOK
<1>8. hash[<<t, i>>] = NoEntry
  BY <1>0, <1>1, <1>3, <1>6 DEF HashSound, i
<1>9. CacheTypeOK'
  <2>1. Len(index[t]) <= MaxEntries /\ index[t] \in Seq(Id)
    BY <1>0, <1>1 DEF ListsSound, ListSound, CacheTypeOK
  <2>2. Pushed(index[t], i) \in Seq(Id)
    BY <1>6, <2>1, PushedProperties
  <2>3. index' \in [Team -> Seq(Id)]
    BY <1>0, <1>1, <1>2, <2>2 DEF CacheTypeOK
  <2>4. lastId' \in 0 .. Cardinality(Task)
    BY <1>2, <1>6 DEF Id
  <2>5. QED
    BY <1>0, <1>2, <1>5, <1>7, <2>3, <2>4 DEF CacheTypeOK
<1>10. TasksSound'
  <2> SUFFICES ASSUME NEW d \in Task, task'[d] \in TaskRecord
               PROVE  TaskSound(task[d])'
    BY DEF TasksSound
  <2> DEFINE q == task[d]
  <2>1. d # c /\ task'[d] = q /\ q \in TaskRecord /\ TaskSound(q) /\ q.team \in Team
    BY <1>0, <1>5, IdleDone DEF TasksSound, TaskRecord
  <2>2. q.best # NoBest => q.best.id \in Id /\ hash'[<<q.team, q.best.id>>] = q.best.entry
    <3>1. SUFFICES ASSUME q.best # NoBest
                   PROVE  q.best.id \in Id /\ hash'[<<q.team, q.best.id>>] = q.best.entry
      OBVIOUS
    <3>2. /\ q.best.id \in Id /\ q.best.entry \in Entry
          /\ hash[<<q.team, q.best.id>>] = q.best.entry
      BY <2>1, <3>1 DEF TaskSound, BestSound
    <3>3. <<q.team, q.best.id>> # <<t, i>>
      BY <1>8, <3>2, IdleDone
    <3>4. QED
      BY <1>7, <2>1, <3>2, <3>3
  <2> HIDE DEF q
  <2>3. now' = now /\ disabled' = disabled
    BY <1>2
  <2>4. QED
    BY <2>1, <2>2, <2>3 DEF TaskSound, BestSound, q
<1>11. HashSound'
  <2> SUFFICES ASSUME NEW u \in Team, NEW j \in Id, hash'[<<u, j>>] # NoEntry
               PROVE  /\ j <= lastId' /\ hash'[<<u, j>>].dies <= now' + Ttl
                      /\ IsEligible(hash'[<<u, j>>].ask)
    BY DEF HashSound
  <2>1. CASE <<u, j>> = <<t, i>>
    BY <1>1, <1>2, <1>3, <1>4, <1>7, <2>1 DEF i
  <2>2. CASE <<u, j>> # <<t, i>>
    <3>1. hash'[<<u, j>>] = hash[<<u, j>>]
      BY <1>7, <2>2
    <3>2. j <= lastId /\ j \in Nat
      BY <1>0, <1>6, <3>1 DEF HashSound, Id
    <3>3. QED
      BY <1>0, <1>2, <1>3, <3>1, <3>2 DEF HashSound, i
  <2>3. QED
    BY <2>1, <2>2
<1>12. Ordered'
  <2> SUFFICES ASSUME NEW u \in Team, NEW j \in Id, NEW k \in Id, j < k,
                      hash'[<<u, j>>] # NoEntry, hash'[<<u, k>>] # NoEntry
               PROVE  hash'[<<u, j>>].dies <= hash'[<<u, k>>].dies
    BY DEF Ordered
  <2>0. j \in Nat /\ k \in Nat
    BY <1>6 DEF Id
  <2>1. j <= lastId' /\ k <= lastId'
    BY <1>11 DEF HashSound
  <2>2. <<u, j>> # <<t, i>>
    BY <1>2, <1>3, <2>0, <2>1 DEF i
  <2>3. hash'[<<u, j>>] = hash[<<u, j>>] /\ hash[<<u, j>>] # NoEntry
    BY <1>7, <2>2
  <2>4. CASE <<u, k>> = <<t, i>>
    BY <1>0, <1>4, <1>7, <2>3, <2>4 DEF HashSound
  <2>5. CASE <<u, k>> # <<t, i>>
    BY <1>0, <1>7, <2>3, <2>5 DEF Ordered
  <2>6. QED
    BY <2>4, <2>5
<1>13. ListsSound'
  <2> SUFFICES ASSUME NEW u \in Team PROVE ListSound(u)'
    BY DEF ListsSound
  <2>1. CASE u = t
    BY <1>1, <1>2, <1>4, <1>6, <2>1, PushKeepsList DEF i
  <2>2. CASE u # t
    <3>1. index'[u] = index[u] /\ index[u] \in Seq(Id)
      BY <1>0, <1>2, <2>2 DEF CacheTypeOK
    <3>2. \A j \in Id : hash'[<<u, j>>] = hash[<<u, j>>]
      BY <1>7, <2>2
    <3>3. ListSound(u) /\ \A n \in 1 .. Len(index[u]) : index[u][n] \in Id
      BY <1>0, <3>1 DEF ListsSound
    <3>4. QED
      BY <3>1, <3>2, <3>3 DEF ListSound
  <2>3. QED
    BY <2>1, <2>2
<1>14. QED
  BY <1>2, <1>6, <1>9, <1>10, <1>11, <1>12, <1>13 DEF CacheInv

-----------------------------------------------------------------------------
(* The flag, the clock and the process.                                    *)

LEMMA DisableKeeps ==
  ASSUME CacheInv, NEW t \in Team, DisableForTeam(t) PROVE CacheInv'
<1>1. /\ disabled' \in [Team -> BOOLEAN] /\ \A u \in Team : disabled[u] => disabled'[u]
      /\ UNCHANGED <<now, hash, index, task, lastId>>
  BY DEF DisableForTeam, CacheInv, CacheTypeOK
<1>2. CacheTypeOK' /\ (lastId <= Cardinality(Over))'
  BY <1>1 DEF CacheInv, CacheTypeOK, Over
<1>3. TasksSound'
  <2>1. \A q \in TaskRecord : TaskSound(q) => TaskSound(q)'
    BY <1>1 DEF TaskSound, BestSound, TaskRecord
  <2>2. QED
    BY <1>1, <2>1 DEF CacheInv, TasksSound
<1>4. HashSound' /\ Ordered' /\ ListsSound'
  BY <1>1 DEF CacheInv, HashSound, Ordered, ListsSound, ListSound
<1>5. QED
  BY <1>2, <1>3, <1>4 DEF CacheInv

LEMMA EnableKeeps ==
  ASSUME CacheInv, NEW t \in Team, EnableForTeam(t) PROVE CacheInv'
<1>0. CacheTypeOK /\ lastId <= Cardinality(Over) /\ TasksSound
  BY DEF CacheInv
<1>1. /\ disabled' \in [Team -> BOOLEAN] /\ \A u \in Team : u # t => disabled'[u] = disabled[u]
      /\ UNCHANGED <<now, hash, index, lastId>>
  BY <1>0 DEF EnableForTeam, CacheTypeOK
<1>2. ASSUME NEW c \in Task, task[c] \in {Idle, Done}
      PROVE  task'[c] = task[c]
  BY <1>2 DEF EnableForTeam
<1>3. ASSUME NEW c \in Task, task[c] \notin {Idle, Done}
      PROVE  /\ task'[c] \in TaskRecord /\ TaskSound(task[c])'
             /\ task[c] \in TaskRecord
  <2> DEFINE p == task[c]
             off == p.off /\ p.team # t
             q == [p EXCEPT !.off = off]
  <2>1. p \in TaskRecord /\ TaskSound(p)
    BY <1>0, <1>3 DEF CacheTypeOK, TasksSound
  <2>2. off \in BOOLEAN
    OBVIOUS
  <2>3. q \in TaskRecord
    <3> HIDE DEF off
    <3>1. QED
      BY <2>1, <2>2 DEF TaskRecord
  <2>4. /\ q.pc = p.pc /\ q.faulty = p.faulty /\ q.team = p.team /\ q.ask = p.ask
        /\ q.at = p.at /\ q.best = p.best /\ q.began = p.began /\ q.off = off
    <3> HIDE DEF off
    <3>1. QED
      BY <2>1 DEF TaskRecord
  <2>5. task'[c] = q
    BY <1>3 DEF EnableForTeam
  <2> HIDE DEF q
  <2>6. TaskSound(task[c])'
    BY <1>1, <2>1, <2>4, <2>5 DEF TaskSound, BestSound, TaskRecord
  <2>7. QED
    BY <2>1, <2>3, <2>5, <2>6
<1>4. task' \in [Task -> TaskRecord \cup {Idle, Done}]
  <2>1. \A c \in Task : task'[c] \in TaskRecord \cup {Idle, Done}
    BY <1>2, <1>3
  <2>2. QED
    BY <2>1 DEF EnableForTeam
<1>5. Over' = Over
  BY <1>2, <1>3, IdleDone DEF Over
<1>6. CacheTypeOK' /\ (lastId <= Cardinality(Over))'
  BY <1>0, <1>1, <1>4, <1>5 DEF CacheTypeOK
<1>7. TasksSound'
  BY <1>2, <1>3, IdleDone DEF TasksSound
<1>8. HashSound' /\ Ordered' /\ ListsSound'
  BY <1>1 DEF CacheInv, HashSound, Ordered, ListsSound, ListSound
<1>9. QED
  BY <1>6, <1>7, <1>8 DEF CacheInv

LEMMA TickKeeps ==
  ASSUME CacheInv, Tick PROVE CacheInv'
<1>1. /\ now' = now + 1 /\ now \in Nat /\ Ttl \in Nat /\ now' \in Time
      /\ UNCHANGED <<hash, index, disabled, task, lastId>>
  BY CacheAssumption DEF Tick, CacheInv, CacheTypeOK, Time, CacheAssumption
<1>2. CacheTypeOK' /\ (lastId <= Cardinality(Over))'
  BY <1>1 DEF CacheInv, CacheTypeOK, Over
<1>3. TasksSound'
  <2>1. \A q \in TaskRecord : TaskSound(q) => TaskSound(q)'
    BY <1>1 DEF TaskSound, BestSound, TaskRecord, Time
  <2>2. QED
    BY <1>1, <2>1 DEF CacheInv, TasksSound
<1>4. HashSound'
  <2>1. \A t \in Team, i \in Id : hash[<<t, i>>] \in Entry \cup {NoEntry}
    BY DEF CacheInv, CacheTypeOK
  <2>2. \A t \in Team, i \in Id : hash[<<t, i>>] # NoEntry => hash[<<t, i>>].dies \in Int
    BY <2>1 DEF Entry
  <2>3. QED
    BY <1>1, <2>2 DEF CacheInv, HashSound
<1>5. Ordered' /\ ListsSound'
  BY <1>1 DEF CacheInv, Ordered, ListsSound, ListSound
<1>6. QED
  BY <1>2, <1>3, <1>4, <1>5 DEF CacheInv

LEMMA RestartKeeps ==
  ASSUME CacheInv, Restart PROVE CacheInv'
<1>1. /\ task' \in [Task -> {Idle, Done}] /\ \A c \in Task : task[c] = Done => task'[c] = Done
      /\ UNCHANGED <<now, hash, index, disabled, lastId>>
  BY IdleDone DEF Restart
<1>2. CacheTypeOK'
  BY <1>1 DEF CacheInv, CacheTypeOK
<1>3. TasksSound'
  BY <1>1, IdleDone DEF TasksSound
<1>4. (lastId <= Cardinality(Over))'
  <2>1. Over \subseteq Over' /\ Over' \subseteq Task
    BY <1>1 DEF Over
  <2>2. IsFiniteSet(Over') /\ Cardinality(Over') \in Nat /\ Cardinality(Over) \in Nat
    BY <2>1, OverFinite
  <2>3. Cardinality(Over) <= Cardinality(Over')
    BY <2>1, <2>2, FS_Subset
  <2>4. QED
    BY <1>1, <2>2, <2>3 DEF CacheInv, CacheTypeOK
<1>5. HashSound' /\ Ordered' /\ ListsSound'
  BY <1>1 DEF CacheInv, HashSound, Ordered, ListsSound, ListSound
<1>6. QED
  BY <1>2, <1>3, <1>4, <1>5 DEF CacheInv

LEMMA StutterKeeps ==
  ASSUME CacheInv, UNCHANGED cacheVars PROVE CacheInv'
  BY DEF CacheInv, CacheTypeOK, Over, TasksSound, TaskSound, BestSound, HashSound, Ordered,
         ListsSound, ListSound, cacheVars

LEMMA CacheInitInv == CacheInit => CacheInv
<1> SUFFICES ASSUME CacheInit PROVE CacheInv
  OBVIOUS
<1>0. /\ now = 0 /\ lastId = 0 /\ hash = [k \in Team \X Id |-> NoEntry]
      /\ index = [t \in Team |-> << >>] /\ disabled = [t \in Team |-> FALSE]
      /\ task = [c \in Task |-> Idle]
  BY DEF CacheInit
<1>1. MaxEntries \in Nat /\ MaxTime \in Nat /\ Cardinality(Task) \in Nat /\ Cardinality(Over) \in Nat
  BY CacheAssumption, OverFinite DEF CacheAssumption, Over
<1>2. CacheTypeOK
  BY <1>0, <1>1 DEF CacheTypeOK, Time
<1>3. TasksSound
  BY <1>0, IdleDone DEF TasksSound
<1>4. HashSound /\ Ordered
  BY <1>0 DEF HashSound, Ordered
<1>5. ListsSound
  BY <1>0, <1>1 DEF ListsSound, ListSound
<1>6. QED
  BY <1>0, <1>1, <1>2, <1>3, <1>4, <1>5 DEF CacheInv

LEMMA CacheNextInv == CacheInv /\ [CacheNext]_cacheVars => CacheInv'
<1> SUFFICES ASSUME CacheInv, [CacheNext]_cacheVars PROVE CacheInv'
  OBVIOUS
<1>1. CASE UNCHANGED cacheVars
  BY <1>1, StutterKeeps
<1>2. ASSUME NEW c \in Task,
             \/ Lookup(c) \/ ReadFlag(c) \/ FlagFails(c) \/ Embed(c) \/ ReadIndex(c)
             \/ ReadEntry(c) \/ EntryFails(c) \/ Decide(c) \/ DecodeFails(c)
             \/ Answered(c) \/ Write(c) \/ WriteFails(c)
      PROVE  CacheInv'
  BY <1>2, LookupKeeps, FlagKeeps, EmbedKeeps, ReadIndexKeeps, ReadEntryKeeps, EntryFailsKeeps,
     DecideKeeps, AnsweredKeeps, WriteKeeps, WriteFailsKeeps
<1>3. ASSUME NEW t \in Team, DisableForTeam(t) \/ EnableForTeam(t) PROVE CacheInv'
  BY <1>3, DisableKeeps, EnableKeeps
<1>4. CASE Tick \/ Restart
  BY <1>4, TickKeeps, RestartKeeps
<1>5. QED
  BY <1>1, <1>2, <1>3, <1>4 DEF CacheNext

LEMMA CacheInvHolds == CacheSpec => []CacheInv
<1>1. CacheInit => CacheInv
  BY CacheInitInv
<1>2. CacheInv /\ [CacheNext]_cacheVars => CacheInv'
  BY CacheNextInv
<1>3. QED
  BY <1>1, <1>2, PTL DEF CacheSpec


-----------------------------------------------------------------------------
(* Similarities.                                                           *)

Products(u, v) == [n \in DOMAIN u |-> u[n] * v[n]]
DotStep(u, v, g, s) == IF s = {} THEN 0 ELSE u[AnyOf(s)] * v[AnyOf(s)] + g[s \ {AnyOf(s)}]

\* The scalar product is the sum of the products.
LEMMA DotSum ==
  ASSUME NEW u, NEW v, IsFiniteSet(DOMAIN u)
  PROVE  Dot(u, v) = SumOver(Products(u, v), DOMAIN u)
<1>1. PICK F : F = Products(u, v)
  OBVIOUS
<1>2. PICK S : S = DOMAIN u /\ IsFiniteSet(S)
  OBVIOUS
<1>3. PICK h : h = CHOOSE g : g = [s \in SUBSET S |-> DotStep(u, v, g, s)]
  OBVIOUS
<1>4. Dot(u, v) = h[S]
  BY <1>2, <1>3 DEF Dot, MapThenSumSet, MapThenFoldSet, DotStep, AnyOf
<1>5. ASSUME NEW g, NEW s \in SUBSET S PROVE DotStep(u, v, g, s) = SumStep(F, g, s)
  <2>1. CASE s = {}
    BY <2>1 DEF DotStep, SumStep
  <2>2. CASE s # {}
    <3>1. AnyOf(s) \in DOMAIN u
      BY <1>2, <2>2 DEF AnyOf
    <3>2. F[AnyOf(s)] = u[AnyOf(s)] * v[AnyOf(s)]
      BY <1>1, <3>1 DEF Products
    <3>3. QED
      BY <2>2, <3>2 DEF DotStep, SumStep
  <2>3. QED
    BY <2>1, <2>2
<1>6. \E g : g = [s \in SUBSET S |-> DotStep(u, v, g, s)]
  <2>0. IsFiniteSet(S)
    BY <1>2
  <2>1. PICK g : g = [s \in SUBSET S |-> SumStep(F, g, s)]
    BY <2>0, SumsExist
  <2>2. g = [s \in SUBSET S |-> DotStep(u, v, g, s)]
    BY <1>5, <2>1
  <2>3. QED
    BY <2>2
<1>7. h = [s \in SUBSET S |-> DotStep(u, v, h, s)]
  BY <1>3, <1>6
<1>8. \A s \in SUBSET S : h[s] = DotStep(u, v, h, s)
  BY <1>7
<1>9. SumsBy(F, S, h)
  BY <1>5, <1>8 DEF SumsBy
<1>10. QED
  BY <1>1, <1>2, <1>4, <1>9, SumOf

LEMMA SquareNat == ASSUME NEW a \in Int PROVE a * a \in Nat
  OBVIOUS

LEMMA DotIs ==
  ASSUME NEW u \in Seq(Int), NEW v \in Seq(Int), Len(u) = Len(v)
  PROVE  Dot(u, v) \in Int /\ Dot(u, u) \in Nat
<1>1. PICK S : S = 1 .. Len(u) /\ S = DOMAIN u /\ IsFiniteSet(S)
  BY FS_Interval
<1>2. PICK F : F = Products(u, v)
  OBVIOUS
<1>3. PICK H : H = Products(u, u)
  OBVIOUS
<1>4. ASSUME NEW n \in S PROVE F[n] \in Int /\ H[n] \in Nat
  <2>1. PICK a \in Int : a = u[n]
    BY <1>1
  <2>2. PICK b \in Int : b = v[n]
    BY <1>1
  <2>3. F[n] = a * b /\ H[n] = a * a
    BY <1>1, <1>2, <1>3, <2>1, <2>2 DEF Products
  <2>4. a * b \in Int /\ a * a \in Nat
    BY SquareNat
  <2>5. QED
    BY <2>3, <2>4
<1>5. SumOver(F, S) \in Int
  BY <1>1, <1>4, SumInt
<1>6. SumOver(H, S) \in Nat
  BY <1>1, <1>4, SumNat
<1>7. Dot(u, v) = SumOver(F, S) /\ Dot(u, u) = SumOver(H, S)
  BY <1>1, <1>2, <1>3, DotSum
<1>8. QED
  BY <1>5, <1>6, <1>7

Fraction(x) == x.num \in Int /\ x.den \in Nat \ {0}

LEMMA CosineIs ==
  ASSUME NEW u \in Seq(Int), NEW v \in Seq(Int)
  PROVE  Fraction(Cosine(u, v))
<1>1. CASE Len(u) # Len(v) \/ Dot(u, u) = 0 \/ Dot(v, v) = 0
  BY <1>1 DEF Cosine, Fraction
<1>2. CASE ~(Len(u) # Len(v) \/ Dot(u, u) = 0 \/ Dot(v, v) = 0)
  <2>1. PICK d \in Int : d = Dot(u, v)
    BY <1>2, DotIs
  <2>2. PICK a \in Nat \ {0} : a = Dot(u, u)
    BY <1>2, DotIs
  <2>3. PICK b \in Nat \ {0} : b = Dot(v, v)
    BY <1>2, DotIs
  <2>4. PICK n \in Int : n = IF d < 0 THEN -(d * d) ELSE d * d
    OBVIOUS
  <2>5. PICK m \in Nat \ {0} : m = a * b
    OBVIOUS
  <2>6. Cosine(u, v) = [num |-> n, den |-> m]
    BY <1>2, <2>1, <2>2, <2>3, <2>4, <2>5 DEF Cosine
  <2>7. QED
    BY <2>6 DEF Fraction
<1>3. QED
  BY <1>1, <1>2

LEMMA SimilarityIs ==
  ASSUME NEW a \in Ask, NEW b \in Ask, IsEligible(a), IsEligible(b)
  PROVE  Fraction(Similarity(a, b))
<1>1. a.text \in Text /\ b.text \in Text
  BY CacheAssumption DEF CacheAssumption, AskRecord, IsEligible
<1>2. Vector[a.text] \in Seq(Int) /\ Vector[b.text] \in Seq(Int)
  BY <1>1, CacheAssumption DEF CacheAssumption
<1>3. QED
  BY <1>2, CosineIs DEF Similarity

\* What is no greater than one fraction is no greater than a greater one.
LEMMA GreaterStill ==
  ASSUME NEW x, NEW y, NEW z, Fraction(x), Fraction(y), Fraction(z),
         ~Greater(x, y), Greater(z, y)
  PROVE  ~Greater(x, z)
<1>1. PICK a \in Int, b \in Nat \ {0} : a = x.num /\ b = x.den
  BY DEF Fraction
<1>2. PICK c \in Int, d \in Nat \ {0} : c = y.num /\ d = y.den
  BY DEF Fraction
<1>3. PICK e \in Int, f \in Nat \ {0} : e = z.num /\ f = z.den
  BY DEF Fraction
<1>4. a * d <= c * b /\ c * f < e * d
  <2>1. PICK p \in Int, q \in Int : p = a * d /\ q = c * b
    OBVIOUS
  <2>2. ~(p > q)
    BY <1>1, <1>2, <2>1 DEF Greater
  <2>3. p <= q
    BY <2>2
  <2>4. c * f < e * d
    BY <1>2, <1>3 DEF Greater
  <2>5. QED
    BY <2>1, <2>3, <2>4
<1>5. (a * d) * f <= (c * b) * f
  <2>1. PICK p \in Int, q \in Int : p = a * d /\ q = c * b
    OBVIOUS
  <2>2. p <= q
    BY <1>4, <2>1
  <2>3. p * f <= q * f
    BY <2>2
  <2>4. QED
    BY <2>1, <2>3
<1>6. (c * f) * b <= (e * d) * b
  <2>1. PICK p \in Int, q \in Int : p = c * f /\ q = e * d
    OBVIOUS
  <2>2. p <= q
    BY <1>4, <2>1
  <2>3. p * b <= q * b
    BY <2>2
  <2>4. QED
    BY <2>1, <2>3
<1>7. PICK m \in Int, n \in Int : m = a * f /\ n = e * b
  OBVIOUS
<1>8. m * d <= n * d
  <2>1. (a * d) * f = m * d /\ (c * b) * f = (c * f) * b /\ (e * d) * b = n * d
    BY <1>7
  <2>2. (c * b) * f \in Int /\ m * d \in Int /\ n * d \in Int
    OBVIOUS
  <2>3. QED
    BY <1>5, <1>6, <2>1, <2>2
<1>9. ASSUME m > n PROVE FALSE
  <2>1. m >= n + 1
    BY <1>9
  <2>2. m * d >= (n + 1) * d
    BY <2>1
  <2>3. (n + 1) * d = n * d + d
    OBVIOUS
  <2>4. QED
    BY <1>8, <2>2, <2>3
<1>10. QED
  BY <1>1, <1>3, <1>7, <1>9 DEF Greater


-----------------------------------------------------------------------------
(* The scan.                                                               *)

\* An entry that could be served is no closer than the best one so far.
Passed(q, e) ==
    (/\ now < e.dies /\ ConfigHash(e.ask) = ConfigHash(q.ask)
     /\ MeetsThreshold(Similarity(q.ask, e.ask)))
      => /\ q.best # NoBest
         /\ ~Greater(Similarity(q.ask, e.ask), Similarity(q.ask, q.best.entry.ask))

\* The ids of a scan all have entries, and those before its place, if all
\* could be read, have been passed.
Scanned(q) ==
    /\ q.pc \in {"flag", "embed", "index"} => q.at = 1
    /\ q.pc = "scan" =>
         \A n \in 1 .. Len(q.ids) :
           /\ hash[<<q.team, q.ids[n]>>] # NoEntry
           /\ (n < q.at /\ ~q.faulty) => Passed(q, hash[<<q.team, q.ids[n]>>])

ScanInv == \A c \in Task : task[c] \in TaskRecord => Scanned(task[c])

\* A request goes on, and Redis and the clock stay as they are.
LEMMA BecomeScanned ==
  ASSUME CacheInv, ScanInv, NEW c \in Task, NEW q \in TaskRecord \cup {Done},
         q \in TaskRecord => Scanned(q), Become(c, q), UNCHANGED <<now, hash>>
  PROVE  ScanInv'
<1>1. task'[c] = q /\ \A d \in Task : d # c => task'[d] = task[d]
  BY DEF CacheInv, CacheTypeOK, Become
<1>2. \A r : Scanned(r)' <=> Scanned(r)
  BY DEF Scanned, Passed
<1>3. QED
  BY <1>1, <1>2 DEF ScanInv

\* What is not in a scan and does not go on to one.
LEMMA ElsewhereScanned ==
  ASSUME NEW q, q.pc \notin {"flag", "embed", "index", "scan"}
  PROVE  Scanned(q)
  BY DEF Scanned

LEMMA StartScanned ==
  ASSUME NEW q, q.pc \in {"flag", "embed", "index"}, q.at = 1
  PROVE  Scanned(q)
  BY DEF Scanned

LEMMA GiveUpScanned ==
  ASSUME CacheInv, ScanInv, NEW c \in Task, task[c].pc \notin {"idle", "done"}, GiveUp(c),
         UNCHANGED <<now, hash>>
  PROVE  ScanInv'
<1>1. PICK a : a = Asking(task[c].team, task[c].ask)
  OBVIOUS
<1>2. a \in TaskRecord
  BY <1>1, OfTask, AskingTyped DEF CacheInv
<1>3. a.pc = "ask"
  BY <1>1 DEF Asking
<1>4. Scanned(a)
  BY <1>3, ElsewhereScanned
<1>5. Become(c, a) \/ Become(c, Done)
  BY <1>1 DEF GiveUp
<1>6. CASE Become(c, a)
  BY <1>2, <1>4, <1>6, BecomeScanned
<1>7. CASE Become(c, Done)
  BY <1>7, BecomeScanned, IdleDone
<1>8. QED
  BY <1>5, <1>6, <1>7

LEMMA LookupScanned ==
  ASSUME CacheInv, ScanInv, NEW c \in Task, Lookup(c) PROVE ScanInv'
<1>1. PICK t \in Team, a \in Ask :
        Become(c, IF IsEligible(a) THEN Beginning("flag", t, a) ELSE Asking(t, a))
  BY DEF Lookup
<1>2. UNCHANGED <<now, hash>>
  BY DEF Lookup
<1>3. PICK q : q = IF IsEligible(a) THEN Beginning("flag", t, a) ELSE Asking(t, a)
  OBVIOUS
<1>4. q \in TaskRecord
  BY <1>3, BeginningTyped, AskingTyped DEF CacheInv
<1>5. q.at = 1 /\ q.pc \in {"flag", "ask"}
  BY <1>3 DEF Beginning, Asking
<1>6. Scanned(q)
  BY <1>5, ElsewhereScanned, StartScanned
<1>7. QED
  BY <1>1, <1>2, <1>3, <1>4, <1>6, BecomeScanned

LEMMA GoOnScanned ==
  ASSUME CacheInv, ScanInv, NEW c \in Task, task[c].pc \in {"flag", "sflag"},
         NEW fails \in BOOLEAN, GoOn(c, fails), UNCHANGED <<now, hash>>
  PROVE  ScanInv'
<1>1. PICK p : p = task[c]
  OBVIOUS
<1>2. PICK pc \in {"embed", "sembed"} : pc = IF p.pc = "flag" THEN "embed" ELSE "sembed"
  OBVIOUS
<1>3. PICK q : q = [p EXCEPT !.pc = pc, !.faulty = fails]
  OBVIOUS
<1>4. p \in TaskRecord /\ Scanned(p)
  BY <1>1, OfTask DEF ScanInv
<1>5. q \in TaskRecord /\ q.pc = pc /\ q.at = p.at
  BY <1>3, <1>4 DEF TaskRecord, InLookup, InStore
<1>6. Scanned(q)
  BY <1>1, <1>2, <1>4, <1>5 DEF Scanned
<1>7. Become(c, q)
  BY <1>1, <1>2, <1>3 DEF GoOn
<1>8. QED
  BY <1>5, <1>6, <1>7, BecomeScanned

LEMMA FlagScanned ==
  ASSUME CacheInv, ScanInv, NEW c \in Task, ReadFlag(c) \/ FlagFails(c) PROVE ScanInv'
<1>1. task[c].pc \in {"flag", "sflag"} /\ UNCHANGED <<now, hash>>
  BY DEF ReadFlag, FlagFails
<1>2. GiveUp(c) \/ \E fails \in BOOLEAN : GoOn(c, fails)
  BY DEF ReadFlag, FlagFails
<1>3. QED
  BY <1>1, <1>2, GiveUpScanned, GoOnScanned

LEMMA EmbedScanned ==
  ASSUME CacheInv, ScanInv, NEW c \in Task, Embed(c) PROVE ScanInv'
<1>1. PICK p : p = task[c]
  OBVIOUS
<1>2. p.pc \in {"embed", "sembed"} /\ UNCHANGED <<now, hash>>
  BY <1>1 DEF Embed
<1>3. PICK pc \in {"index", "swrite"} : pc = IF p.pc = "embed" THEN "index" ELSE "swrite"
  OBVIOUS
<1>4. PICK q : q = [p EXCEPT !.pc = pc]
  OBVIOUS
<1>5. p \in TaskRecord /\ Scanned(p)
  BY <1>1, <1>2, OfTask DEF ScanInv
<1>6. q \in TaskRecord /\ q.pc = pc /\ q.at = p.at
  BY <1>4, <1>5 DEF TaskRecord, InLookup, InStore
<1>7. Scanned(q)
  BY <1>2, <1>3, <1>5, <1>6 DEF Scanned
<1>8. Become(c, q) \/ GiveUp(c)
  BY <1>1, <1>3, <1>4 DEF Embed
<1>9. CASE Become(c, q)
  BY <1>2, <1>6, <1>7, <1>9, BecomeScanned
<1>10. CASE GiveUp(c)
  BY <1>1, <1>2, <1>10, GiveUpScanned
<1>11. QED
  BY <1>8, <1>9, <1>10

LEMMA ReadIndexScanned ==
  ASSUME CacheInv, ScanInv, NEW c \in Task, ReadIndex(c) PROVE ScanInv'
<1>1. PICK p : p = task[c]
  OBVIOUS
<1>2. p.pc = "index" /\ UNCHANGED <<now, hash>>
  BY <1>1 DEF ReadIndex
<1>3. p \in TaskRecord /\ Scanned(p) /\ p.team \in Team
  BY <1>1, <1>2, OfTask DEF ScanInv
<1>4. PICK s \in Seq(Id) : s = index[p.team]
  BY <1>3 DEF CacheInv, CacheTypeOK
<1>5. \A n \in 1 .. Len(s) : hash[<<p.team, s[n]>>] # NoEntry
  BY <1>3, <1>4 DEF CacheInv, ListsSound, ListSound
<1>6. PICK q : q = [p EXCEPT !.pc = "scan", !.ids = s]
  OBVIOUS
<1>7. /\ q \in TaskRecord /\ q.pc = "scan" /\ q.at = p.at /\ q.ids = s /\ q.team = p.team
  BY <1>3, <1>6 DEF TaskRecord, InLookup, InStore
<1>8. p.at = 1 /\ Len(s) \in Nat
  BY <1>2, <1>3 DEF Scanned
<1>9. Scanned(q)
  BY <1>5, <1>7, <1>8 DEF Scanned
<1>10. Become(c, q) \/ GiveUp(c)
  BY <1>1, <1>4, <1>6 DEF ReadIndex
<1>11. CASE Become(c, q)
  BY <1>2, <1>7, <1>9, <1>11, BecomeScanned
<1>12. CASE GiveUp(c)
  BY <1>1, <1>2, <1>12, GiveUpScanned
<1>13. QED
  BY <1>10, <1>11, <1>12

\* What an entry of Redis says.
LEMMA EntryIs ==
  ASSUME CacheInv, NEW t \in Team, NEW i \in Id, hash[<<t, i>>] # NoEntry
  PROVE  hash[<<t, i>>] \in Entry /\ hash[<<t, i>>].ask \in Ask /\ IsEligible(hash[<<t, i>>].ask)
<1>1. hash[<<t, i>>] \in Entry
  BY DEF CacheInv, CacheTypeOK
<1>2. QED
  BY <1>1 DEF CacheInv, HashSound, Entry

\* One more entry: the new best passes what the old one did, and the entry.
LEMMA PassedStill ==
  ASSUME NEW p, NEW q, NEW e, NEW d, q.ask = p.ask,
         p.ask \in Ask, IsEligible(p.ask),
         p.best # NoBest => p.best.entry.ask \in Ask /\ IsEligible(p.best.entry.ask),
         e.ask \in Ask, IsEligible(e.ask), d.ask \in Ask, IsEligible(d.ask),
         Improves(p, e), q.best # NoBest, q.best.entry = e, Passed(p, d)
  PROVE  Passed(q, d)
<1>1. SUFFICES ASSUME now < d.dies, ConfigHash(d.ask) = ConfigHash(p.ask),
                      MeetsThreshold(Similarity(p.ask, d.ask))
               PROVE  ~Greater(Similarity(p.ask, d.ask), Similarity(p.ask, e.ask))
  BY DEF Passed
<1>2. PICK x, y, z : /\ x = Similarity(p.ask, d.ask)
                     /\ y = Similarity(p.ask, p.best.entry.ask)
                     /\ z = Similarity(p.ask, e.ask)
  OBVIOUS
<1>3. p.best # NoBest /\ ~Greater(x, y)
  BY <1>1, <1>2 DEF Passed
<1>4. Greater(z, y)
  BY <1>2, <1>3 DEF Improves
<1>5. Fraction(x) /\ Fraction(y) /\ Fraction(z)
  BY <1>2, <1>3, SimilarityIs
<1>6. QED
  BY <1>2, <1>3, <1>4, <1>5, GreaterStill

LEMMA PassedNow ==
  ASSUME NEW p, NEW q, NEW e, q.ask = p.ask, p.ask \in Ask, IsEligible(p.ask),
         e.ask \in Ask, IsEligible(e.ask),
         \/ q.best # NoBest /\ q.best.entry = e
         \/ /\ q.best = p.best
            /\ ~(/\ now < e.dies /\ ConfigHash(e.ask) = ConfigHash(p.ask) /\ Improves(p, e))
  PROVE  Passed(q, e)
<1>1. PICK x : x = Similarity(p.ask, e.ask) /\ Fraction(x)
  BY SimilarityIs
<1>2. CASE q.best # NoBest /\ q.best.entry = e
  <2>1. PICK n \in Int : n = x.num * x.den
    BY <1>1 DEF Fraction
  <2>2. ~Greater(x, x)
    BY <2>1 DEF Greater
  <2>3. QED
    BY <1>1, <1>2, <2>2 DEF Passed
<1>3. CASE /\ q.best = p.best
           /\ ~(/\ now < e.dies /\ ConfigHash(e.ask) = ConfigHash(p.ask) /\ Improves(p, e))
  BY <1>3 DEF Passed, Improves
<1>4. QED
  BY <1>2, <1>3

LEMMA ReadEntryScanned ==
  ASSUME CacheInv, ScanInv, NEW c \in Task, ReadEntry(c) PROVE ScanInv'
<1>1. PICK p : p = task[c]
  OBVIOUS
<1>2. p.pc = "scan" /\ p.at <= Len(p.ids) /\ UNCHANGED <<now, hash>>
  BY <1>1 DEF ReadEntry
<1>3. /\ p \in TaskRecord /\ Scanned(p) /\ TaskSound(p) /\ p.team \in Team /\ p.ask \in Ask
      /\ IsEligible(p.ask)
  BY <1>1, <1>2, OfTask DEF ScanInv, TaskSound
<1>4. /\ p.ids \in Seq(Id) /\ Len(p.ids) \in Nat /\ p.at \in Nat /\ p.at >= 1
      /\ \A n \in 1 .. Len(p.ids) : p.ids[n] \in Id
  <2>1. p.ids \in Seq(Id) /\ p.at \in Nat
    BY <1>3 DEF TaskRecord
  <2>2. QED
    BY <1>3, <2>1 DEF TaskSound
<1>5. PICK i \in Id : i = p.ids[p.at]
  BY <1>2, <1>4
<1>6. PICK e : e = hash[<<p.team, i>>]
  OBVIOUS
<1>7. e # NoEntry
  BY <1>2, <1>3, <1>4, <1>5, <1>6 DEF Scanned
<1>8. e \in Entry /\ e.ask \in Ask /\ IsEligible(e.ask)
  BY <1>3, <1>6, <1>7, EntryIs
<1>9. PICK found \in BOOLEAN :
        found <=> /\ now < e.dies /\ ConfigHash(e.ask) = ConfigHash(p.ask) /\ Improves(p, e)
  OBVIOUS
<1>10. PICK best : best = IF found THEN [id |-> i, entry |-> e] ELSE p.best
  OBVIOUS
<1>11. PICK at \in Nat : at = p.at + 1
  BY <1>4
<1>12. PICK q : q = [p EXCEPT !.at = at, !.best = best]
  OBVIOUS
<1>13. best \in [id : Id \cup {0}, entry : Entry \cup {NoEntry}]
  BY <1>3, <1>8, <1>10 DEF TaskRecord
<1>14. q \in TaskRecord
  BY <1>3, <1>12, <1>13 DEF TaskRecord
<1>15. /\ q.pc = p.pc /\ q.faulty = p.faulty /\ q.team = p.team /\ q.ask = p.ask
       /\ q.at = at /\ q.best = best /\ q.ids = p.ids
  BY <1>3, <1>12 DEF TaskRecord
<1>16. Become(c, q)
  BY <1>1, <1>5, <1>6, <1>9, <1>10, <1>11, <1>12 DEF ReadEntry, Live
<1>17. found => best # NoBest /\ best.entry = e
  <2>1. found => best.id = i /\ best.entry = e
    BY <1>10
  <2>2. NoBest.id = 0 /\ i # 0
    BY OverFinite DEF NoBest, Id
  <2>3. QED
    BY <2>1, <2>2
<1>18. ~found => best = p.best
  BY <1>10
<1>19. p.best # NoBest => p.best.entry.ask \in Ask /\ IsEligible(p.best.entry.ask)
  BY <1>3 DEF TaskSound, BestSound, Entry
<1>20. ASSUME NEW n \in 1 .. Len(p.ids), n < at, ~p.faulty
       PROVE  Passed(q, hash[<<p.team, p.ids[n]>>])
  <2>1. PICK d : d = hash[<<p.team, p.ids[n]>>]
    OBVIOUS
  <2>2. CASE n = p.at
    <3>1. d = e
      BY <1>5, <1>6, <2>1, <2>2
    <3>2. Passed(q, e)
      BY <1>3, <1>8, <1>9, <1>15, <1>17, <1>18, PassedNow
    <3>3. QED
      BY <2>1, <3>1, <3>2
  <2>3. CASE n < p.at
    <3>1. d # NoEntry /\ Passed(p, d)
      BY <1>2, <1>3, <1>20, <2>1, <2>3 DEF Scanned
    <3>2. d.ask \in Ask /\ IsEligible(d.ask)
      BY <1>3, <1>4, <2>1, <3>1, EntryIs
    <3>3. CASE found
      <4>1. Improves(p, e) /\ q.best # NoBest /\ q.best.entry = e
        BY <1>9, <1>15, <1>17, <3>3
      <4>2. Passed(q, d)
        BY <1>3, <1>8, <1>15, <1>19, <3>1, <3>2, <4>1, PassedStill
      <4>3. QED
        BY <2>1, <4>2
    <3>4. CASE ~found
      <4>1. q.best = p.best /\ q.ask = p.ask
        BY <1>15, <1>18, <3>4
      <4>2. Passed(q, d)
        BY <3>1, <4>1 DEF Passed
      <4>3. QED
        BY <2>1, <4>2
    <3>5. QED
      BY <3>3, <3>4
  <2>4. QED
    BY <1>4, <1>11, <1>20, <2>2, <2>3
<1>21. Scanned(q)
  <2>1. \A n \in 1 .. Len(p.ids) : hash[<<p.team, p.ids[n]>>] # NoEntry
    BY <1>2, <1>3 DEF Scanned
  <2>2. QED
    BY <1>2, <1>15, <1>20, <2>1 DEF Scanned
<1>22. QED
  BY <1>2, <1>14, <1>16, <1>21, BecomeScanned

LEMMA EntryFailsScanned ==
  ASSUME CacheInv, ScanInv, NEW c \in Task, EntryFails(c) PROVE ScanInv'
<1>1. PICK p : p = task[c]
  OBVIOUS
<1>2. p.pc = "scan" /\ UNCHANGED <<now, hash>>
  BY <1>1 DEF EntryFails
<1>3. p \in TaskRecord /\ Scanned(p)
  BY <1>1, <1>2, OfTask DEF ScanInv
<1>4. PICK at \in Nat : at = p.at + 1
  BY <1>3 DEF TaskRecord
<1>5. PICK q : q = [p EXCEPT !.at = at, !.faulty = TRUE]
  OBVIOUS
<1>6. q \in TaskRecord
  BY <1>3, <1>5 DEF TaskRecord
<1>7. q.pc = p.pc /\ q.faulty = TRUE /\ q.team = p.team /\ q.ids = p.ids
  BY <1>3, <1>5 DEF TaskRecord
<1>8. Scanned(q)
  BY <1>2, <1>3, <1>7 DEF Scanned
<1>9. Become(c, q)
  BY <1>1, <1>4, <1>5 DEF EntryFails
<1>10. QED
  BY <1>2, <1>6, <1>8, <1>9, BecomeScanned

LEMMA DecideScanned ==
  ASSUME CacheInv, ScanInv, NEW c \in Task, Decide(c) \/ DecodeFails(c) PROVE ScanInv'
<1>1. PICK p : p = task[c]
  OBVIOUS
<1>2. p.pc = "scan" /\ UNCHANGED <<now, hash>>
  BY <1>1 DEF Decide, DecodeFails
<1>3. p \in TaskRecord
  BY <1>1, <1>2, OfTask
<1>4. PICK q : q = [p EXCEPT !.pc = "hit"]
  OBVIOUS
<1>5. q \in TaskRecord /\ q.pc = "hit"
  BY <1>3, <1>4 DEF TaskRecord
<1>6. Scanned(q)
  BY <1>5, ElsewhereScanned
<1>7. Become(c, q) \/ GiveUp(c)
  BY <1>1, <1>4 DEF Decide, DecodeFails
<1>8. CASE Become(c, q)
  BY <1>2, <1>5, <1>6, <1>8, BecomeScanned
<1>9. CASE GiveUp(c)
  BY <1>1, <1>2, <1>9, GiveUpScanned
<1>10. QED
  BY <1>7, <1>8, <1>9

LEMMA AnsweredScanned ==
  ASSUME CacheInv, ScanInv, NEW c \in Task, Answered(c) PROVE ScanInv'
<1>1. task[c].team \in Team /\ task[c].ask \in Ask /\ UNCHANGED <<now, hash>>
  BY OfTask DEF Answered
<1>2. PICK q : q = Beginning("sflag", task[c].team, task[c].ask)
  OBVIOUS
<1>3. q \in TaskRecord
  BY <1>1, <1>2, BeginningTyped DEF CacheInv
<1>4. q.pc = "sflag"
  BY <1>2 DEF Beginning
<1>5. Scanned(q)
  BY <1>4, ElsewhereScanned
<1>6. Become(c, q) \/ Become(c, Done)
  BY <1>2 DEF Answered
<1>7. QED
  BY <1>1, <1>3, <1>5, <1>6, BecomeScanned, IdleDone

\* A write leaves the entries of every scan as they are: its id is fresh.
LEMMA WriteScanned ==
  ASSUME CacheInv, ScanInv, NEW c \in Task, Write(c) PROVE ScanInv'
<1>1. PICK t \in Team : t = task[c].team
  BY OfTask DEF Write
<1>2. PICK i : i = lastId + 1
  OBVIOUS
<1>3. PICK e : hash' = [hash EXCEPT ![<<t, i>>] = e]
  BY <1>1, <1>2 DEF Write
<1>4. task'[c] = Done /\ now' = now /\ \A d \in Task : d # c => task'[d] = task[d]
  BY DEF CacheInv, CacheTypeOK, Write, Become
<1>5. lastId \in Nat
  BY OverFinite DEF CacheInv, CacheTypeOK
<1>6. \A u \in Team, j \in Id : hash[<<u, j>>] # NoEntry => hash'[<<u, j>>] = hash[<<u, j>>]
  <2>1. ASSUME NEW u \in Team, NEW j \in Id, hash[<<u, j>>] # NoEntry
        PROVE  hash'[<<u, j>>] = hash[<<u, j>>]
    <3>1. j <= lastId /\ j \in Nat
      BY <2>1, OverFinite DEF CacheInv, HashSound, Id
    <3>2. <<u, j>> # <<t, i>>
      BY <1>2, <1>5, <3>1
    <3>3. QED
      BY <1>3, <3>2 DEF CacheInv, CacheTypeOK
  <2>2. QED
    BY <2>1
<1>7. ASSUME NEW q \in TaskRecord, Scanned(q) PROVE Scanned(q)'
  <2>1. q.team \in Team /\ q.ids \in Seq(Id)
    BY DEF TaskRecord
  <2>2. \A n \in 1 .. Len(q.ids) : q.ids[n] \in Id
    BY <2>1
  <2>3. ASSUME NEW n \in 1 .. Len(q.ids), hash[<<q.team, q.ids[n]>>] # NoEntry
        PROVE  hash'[<<q.team, q.ids[n]>>] = hash[<<q.team, q.ids[n]>>]
    BY <1>6, <2>1, <2>2, <2>3
  <2>4. \A d : Passed(q, d)' <=> Passed(q, d)
    BY <1>4 DEF Passed
  <2>5. QED
    BY <1>7, <2>3, <2>4 DEF Scanned
<1>8. QED
  BY <1>4, <1>7, IdleDone DEF ScanInv

LEMMA EnableScanned ==
  ASSUME CacheInv, ScanInv, NEW t \in Team, EnableForTeam(t) PROVE ScanInv'
<1>1. UNCHANGED <<now, hash>>
  BY DEF EnableForTeam
<1>2. ASSUME NEW c \in Task, task'[c] \in TaskRecord PROVE Scanned(task'[c])
  <2>1. PICK p : p = task[c]
    OBVIOUS
  <2>2. CASE p \in {Idle, Done}
    BY <1>2, <2>1, <2>2, IdleDone DEF EnableForTeam
  <2>3. CASE p \notin {Idle, Done}
    <3>1. p \in TaskRecord /\ Scanned(p)
      BY <2>1, <2>3 DEF ScanInv, CacheInv, CacheTypeOK
    <3>2. PICK off : task'[c] = [p EXCEPT !.off = off]
      BY <2>1, <2>3 DEF EnableForTeam
    <3>3. PICK q : q = [p EXCEPT !.off = off]
      OBVIOUS
    <3>4. /\ q.pc = p.pc /\ q.faulty = p.faulty /\ q.team = p.team /\ q.ask = p.ask
          /\ q.at = p.at /\ q.best = p.best /\ q.ids = p.ids
      BY <3>1, <3>3 DEF TaskRecord
    <3>5. Scanned(q)
      BY <3>1, <3>4 DEF Scanned, Passed
    <3>6. QED
      BY <3>2, <3>3, <3>5
  <2>4. QED
    BY <2>2, <2>3
<1>3. \A r : Scanned(r)' <=> Scanned(r)
  BY <1>1 DEF Scanned, Passed
<1>4. QED
  BY <1>2, <1>3 DEF ScanInv

\* As time passes, fewer entries could be served.
LEMMA TickScanned ==
  ASSUME CacheInv, ScanInv, Tick PROVE ScanInv'
<1>1. now' = now + 1 /\ now \in Nat /\ hash' = hash /\ task' = task
  BY CacheAssumption DEF Tick, CacheInv, CacheTypeOK, Time, CacheAssumption
<1>2. ASSUME NEW q, NEW d \in Entry, Passed(q, d) PROVE Passed(q, d)'
  <2>1. d.dies \in Int
    BY CacheAssumption DEF Entry, CacheAssumption
  <2>2. now' < d.dies => now < d.dies
    BY <1>1, <2>1
  <2>3. QED
    BY <1>2, <2>2 DEF Passed
<1>3. ASSUME NEW q \in TaskRecord, Scanned(q) PROVE Scanned(q)'
  <2>1. q.team \in Team /\ q.ids \in Seq(Id)
    BY DEF TaskRecord
  <2>2. \A n \in 1 .. Len(q.ids) : q.ids[n] \in Id
    BY <2>1
  <2>3. ASSUME NEW n \in 1 .. Len(q.ids), hash[<<q.team, q.ids[n]>>] # NoEntry
        PROVE  hash[<<q.team, q.ids[n]>>] \in Entry
    BY <2>1, <2>2, <2>3, EntryIs
  <2>4. QED
    BY <1>1, <1>2, <1>3, <2>3 DEF Scanned
<1>4. QED
  BY <1>1, <1>3 DEF ScanInv

LEMMA ScanInvNext ==
  ASSUME CacheInv, ScanInv, [CacheNext]_cacheVars PROVE ScanInv'
<1>1. CASE UNCHANGED cacheVars
  BY <1>1 DEF cacheVars, ScanInv, Scanned, Passed
<1>2. ASSUME NEW c \in Task,
             \/ Lookup(c) \/ ReadFlag(c) \/ FlagFails(c) \/ Embed(c) \/ ReadIndex(c)
             \/ ReadEntry(c) \/ EntryFails(c) \/ Decide(c) \/ DecodeFails(c)
             \/ Answered(c) \/ Write(c)
      PROVE  ScanInv'
  BY <1>2, LookupScanned, FlagScanned, EmbedScanned, ReadIndexScanned, ReadEntryScanned,
     EntryFailsScanned, DecideScanned, AnsweredScanned, WriteScanned
<1>3. ASSUME NEW c \in Task, WriteFails(c) PROVE ScanInv'
  BY <1>3, BecomeScanned, IdleDone DEF WriteFails
<1>4. ASSUME NEW t \in Team, DisableForTeam(t) PROVE ScanInv'
  BY <1>4 DEF DisableForTeam, ScanInv, Scanned, Passed
<1>5. ASSUME NEW t \in Team, EnableForTeam(t) PROVE ScanInv'
  BY <1>5, EnableScanned
<1>6. CASE Tick
  BY <1>6, TickScanned
<1>7. CASE Restart
  BY <1>7, IdleDone DEF Restart, ScanInv
<1>8. QED
  BY <1>1, <1>2, <1>3, <1>4, <1>5, <1>6, <1>7 DEF CacheNext

LEMMA ScanInvHolds == CacheSpec => []ScanInv
<1>1. CacheInit => ScanInv
  BY IdleDone DEF CacheInit, ScanInv
<1>2. CacheInv /\ ScanInv /\ [CacheNext]_cacheVars => ScanInv'
  BY ScanInvNext
<1>3. QED
  BY <1>1, <1>2, CacheInvHolds, PTL DEF CacheSpec

-----------------------------------------------------------------------------
(* The theorems.                                                           *)

\* What Redis and the requests hold keeps its type; in particular no more
\* ids are given out than there are requests.
THEOREM CacheTyped == CacheSpec => []CacheTypeOK
<1>1. CacheInv => CacheTypeOK
  BY DEF CacheInv
<1>2. QED
  BY <1>1, CacheInvHolds, PTL

\* Every hit serves an entry of the caller's own team that fits its
\* parameters and its question and was alive when the lookup began, however
\* the lookup interleaves with writes, expiry, restarts and failures.
THEOREM CacheHitsSound == CacheSpec => []HitSound
<1>1. CacheInv => HitSound
  <2> SUFFICES ASSUME CacheInv, NEW c \in Task, task[c].pc = "hit"
               PROVE  LET q == task[c]
                          e == q.best.entry
                      IN  /\ hash[<<q.team, q.best.id>>] = e
                          /\ e.ask.system = q.ask.system /\ e.ask.params = q.ask.params
                          /\ MeetsThreshold(Similarity(q.ask, e.ask))
                          /\ q.began < e.dies
                          /\ IsEligible(q.ask) /\ IsEligible(e.ask)
    BY DEF HitSound
  <2> DEFINE q == task[c]
             e == q.best.entry
  <2>1. TaskSound(q)
    BY OfTask
  <2>2. q.best # NoBest /\ IsEligible(q.ask)
    BY <2>1 DEF TaskSound
  <2>3. /\ hash[<<q.team, q.best.id>>] = e /\ ConfigHash(e.ask) = ConfigHash(q.ask)
        /\ MeetsThreshold(Similarity(q.ask, e.ask)) /\ q.began < e.dies /\ IsEligible(e.ask)
    BY <2>1, <2>2 DEF TaskSound, BestSound
  <2>4. e.ask.system = q.ask.system /\ e.ask.params = q.ask.params
    BY <2>3 DEF ConfigHash
  <2>5. QED
    BY <2>2, <2>3, <2>4
<1>2. QED
  BY <1>1, CacheInvHolds, PTL

\* The ids of a list are as many as its length.
LEMMA ListCounted ==
  ASSUME CacheInv, NEW t \in Team
  PROVE  Cardinality({index[t][n] : n \in 1 .. Len(index[t])}) = Len(index[t])
<1> DEFINE s == index[t]
           k == Len(s)
           T == {s[n] : n \in 1 .. k}
           f == [n \in 1 .. k |-> s[n]]
<1>1. s \in Seq(Id) /\ k \in Nat /\ \A n \in 1 .. k : s[n] \in Int
  BY OverFinite DEF CacheInv, CacheTypeOK, Id
<1>2. \A m, n \in 1 .. k : m < n => s[m] > s[n]
  BY DEF CacheInv, ListsSound, ListSound
<1> HIDE DEF s, k
<1>3. \A m, n \in 1 .. k : s[m] = s[n] => m = n
  BY <1>1, <1>2
<1>4. f \in Surjection(1 .. k, T) /\ f \in Injection(1 .. k, T)
  BY <1>3 DEF Surjection, Injection, IsInjective
<1>5. IsFiniteSet(1 .. k) /\ Cardinality(1 .. k) = k
  BY <1>1, FS_Interval
<1> HIDE DEF f
<1>6. Cardinality(T) = k
  BY <1>4, <1>5, FS_Surjection
<1>7. QED
  BY <1>6 DEF s, k

\* Ids of expired entries never push a live entry out of its team's list.
THEOREM CacheIndexKeepsLive == CacheSpec => []IndexKeepsLive
<1>1. CacheInv => IndexKeepsLive
  <2> SUFFICES ASSUME CacheInv, NEW t \in Team
               PROVE  LET listed == {index[t][n] : n \in 1 .. Len(index[t])}
                      IN  /\ Cardinality(listed) = Len(index[t]) /\ Len(index[t]) <= MaxEntries
                          /\ \A i \in Id : Live(t, i) /\ i \notin listed =>
                               /\ Len(index[t]) = MaxEntries
                               /\ \A j \in listed : j > i /\ Live(t, j)
    BY DEF IndexKeepsLive
  <2> DEFINE s == index[t]
             listed == {s[n] : n \in 1 .. Len(s)}
  <2>1. Cardinality(listed) = Len(s) /\ Len(s) <= MaxEntries
    BY ListCounted DEF CacheInv, ListsSound, ListSound
  <2>2. ASSUME NEW i \in Id, Live(t, i), i \notin listed
        PROVE  Len(s) = MaxEntries /\ \A j \in listed : j > i /\ Live(t, j)
    <3>1. /\ now \in Nat /\ s \in Seq(Id)
          /\ \A j \in Id : hash[<<t, j>>] \in Entry \cup {NoEntry}
      BY CacheAssumption DEF CacheInv, CacheTypeOK, Time, CacheAssumption
    <3>2. \A j \in Id : hash[<<t, j>>] # NoEntry => hash[<<t, j>>].dies \in Int
      BY <3>1 DEF Entry
    <3>3. hash[<<t, i>>] # NoEntry
      BY <2>2, <3>1, IdleDone DEF Live
    <3>4. Len(s) = MaxEntries /\ \A n \in 1 .. Len(s) : s[n] > i
      BY <2>2, <3>3 DEF CacheInv, ListsSound, ListSound
    <3>5. ASSUME NEW n \in 1 .. Len(s) PROVE s[n] > i /\ Live(t, s[n])
      <4>1. s[n] \in Id /\ s[n] > i /\ hash[<<t, s[n]>>] # NoEntry
        BY <3>1, <3>4 DEF CacheInv, ListsSound, ListSound
      <4>2. i \in Nat /\ s[n] \in Nat
        BY <4>1, OverFinite DEF Id
      <4>3. hash[<<t, i>>].dies <= hash[<<t, s[n]>>].dies
        BY <3>3, <4>1, <4>2 DEF CacheInv, Ordered
      <4>4. QED
        BY <2>2, <3>1, <3>2, <3>3, <4>1, <4>3 DEF Live
    <3>6. QED
      BY <3>4, <3>5
  <2>3. QED
    BY <2>1, <2>2
<1>2. QED
  BY <1>1, CacheInvHolds, PTL

\* A lookup or a store that began while its team was disabled serves nothing
\* and writes nothing while the team stays disabled, unless the read of the
\* flag failed.
THEOREM CacheDisableRespected == CacheSpec => DisableRespected
<1>1. CacheInv /\ [CacheNext]_cacheVars =>
        [\A c \in Task : Write(c) \/ (Decide(c) /\ task[c].best # NoBest)
                           => ~task[c].off \/ task[c].faulty]_cacheVars
  <2> SUFFICES ASSUME CacheInv, NEW c \in Task, Write(c) \/ Decide(c)
               PROVE  ~task[c].off \/ task[c].faulty
    OBVIOUS
  <2>1. task[c].pc \in {"swrite", "scan"}
    BY DEF Write, Decide
  <2>2. TaskSound(task[c])
    BY <2>1, OfTask
  <2>3. QED
    BY <2>1, <2>2 DEF TaskSound
<1>2. QED
  BY <1>1, CacheInvHolds, PTL DEF CacheSpec, DisableRespected

\* A lookup none of whose reads failed serves the closest of the entries that
\* were in its index and are still there, and misses only when none of them
\* would do, whatever is written, expires or is trimmed while it scans.
THEOREM CacheClosestServed == CacheSpec => ClosestServed
<1>1. CacheInv /\ ScanInv /\ [CacheNext]_cacheVars =>
        [\A c \in Task :
           Decide(c) /\ ~task[c].faulty =>
             \A n \in 1 .. Len(task[c].ids) :
               LET q == task[c]
                   e == hash[<<q.team, q.ids[n]>>]
               IN  /\ Live(q.team, q.ids[n]) /\ ConfigHash(e.ask) = ConfigHash(q.ask)
                   /\ MeetsThreshold(Similarity(q.ask, e.ask))
                   => /\ q.best # NoBest
                      /\ ~Greater(Similarity(q.ask, e.ask),
                                  Similarity(q.ask, q.best.entry.ask))]_cacheVars
  <2>1. ASSUME CacheInv, ScanInv, NEW c \in Task, Decide(c), ~task[c].faulty,
               NEW n \in 1 .. Len(task[c].ids), NEW q, q = task[c],
               NEW e, e = hash[<<q.team, q.ids[n]>>],
               Live(q.team, q.ids[n]), ConfigHash(e.ask) = ConfigHash(q.ask),
               MeetsThreshold(Similarity(q.ask, e.ask))
        PROVE  /\ q.best # NoBest
               /\ ~Greater(Similarity(q.ask, e.ask), Similarity(q.ask, q.best.entry.ask))
    <3>1. q.pc = "scan" /\ q.at > Len(q.ids)
      BY <2>1 DEF Decide
    <3>2. q \in TaskRecord /\ Scanned(q)
      BY <2>1, <3>1, OfTask DEF ScanInv
    <3>3. n < q.at
      <4>1. q.at \in Nat /\ Len(q.ids) \in Nat
        BY <3>2 DEF TaskRecord
      <4>2. QED
        BY <2>1, <3>1, <4>1
    <3>4. Passed(q, e)
      BY <2>1, <3>1, <3>2, <3>3 DEF Scanned
    <3>5. now < e.dies
      BY <2>1 DEF Live
    <3>6. QED
      BY <2>1, <3>4, <3>5 DEF Passed
  <2>2. QED
    BY <2>1
<1>2. QED
  BY <1>1, CacheInvHolds, ScanInvHolds, PTL DEF CacheSpec, ClosestServed
=============================================================================
