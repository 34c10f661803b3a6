------------------------- MODULE ModelCatalogProofs -------------------------
(***************************************************************************)
(* Theorems about ModelCatalog for any number of processes, administrators *)
(* and models.                                                             *)
(*                                                                         *)
(* PatchKeepsOthers speaks of the commit, but the row was computed at the  *)
(* flush.  The inductive invariant CatalogInv carries it over: a PATCH     *)
(* that has written differs from the committed row only in its fields, and *)
(* this stays so because nobody else has written that row (the row lock).  *)
(***************************************************************************)
EXTENDS ModelCatalog, TLAPS

Rows == Row \cup {NoRow}

\* a is b with at most some of the fields changed.
Within(a, b, fields) ==
    /\ a.id = b.id
    /\ a.price # b.price => "price" \in fields
    /\ a.enabled # b.enabled => "enabled" \in fields

TxInv(t, rows) ==
    /\ t.pc \in {"idle", "found"} => ~ t.writes
    /\ t.kind = "update" => t.entry \in Row /\ t.changed \subseteq t.fields
    /\ t.writes /\ t.kind = "update" => Within(t.row, rows[t.model], t.fields)

Exclusive ==
    \A s, o \in Session :
      s # o /\ tx[s].writes /\ tx[o].writes => tx[s].model # tx[o].model

Typed ==
    /\ table \in [Model -> Rows]
    /\ tx \in [Session -> Transaction]
    /\ catalog \in [Process -> Dictionary]
    /\ loop \in [Process -> Task]
    /\ events \in 0 .. MaxEvents

CatalogInv ==
    Typed /\ Exclusive /\ \A s \in Session : TxInv(tx[s], table)

-----------------------------------------------------------------------------
(* Dictionaries and rows.                                                  *)

LEMMA EmptyTyped == Empty \in Dictionary
<1>1. {} \in SUBSET Model /\ Empty \in [{} -> Price]
  BY DEF Empty
<1>2. QED
  BY <1>1 DEF Dictionary

LEMMA VisibleTyped ==
  ASSUME NEW rows \in [Model -> Rows]
  PROVE  Visible(rows) \in Dictionary
<1> DEFINE S == {x \in Model : rows[x].enabled}
<1>1. \A m \in S : rows[m].price \in Price
  BY DEF Rows, Row, NoRow
<1>2. Visible(rows) \in [S -> Price] /\ S \in SUBSET Model
  BY <1>1 DEF Visible
<1>3. QED
  BY <1>2 DEF Dictionary

LEMMA OwnViewTyped ==
  ASSUME table \in [Model -> Rows], NEW t \in Transaction
  PROVE  OwnView(t) \in [Model -> Rows]
  BY DEF OwnView, Transaction, Rows

\* An enabled row has metadata, whichever copy of them is read.
LEMMA OwnDictionaryTyped ==
  ASSUME table \in [Model -> Rows], NEW t \in Transaction, 
         t.kind = "update" => t.entry \in Row
  PROVE  OwnDictionary(t) \in Dictionary
<1> DEFINE rows == OwnView(t)
           seen == [rows EXCEPT ![t.model].price = t.entry.price]
<1>1. rows \in [Model -> Rows] /\ t.model \in Model
  BY OwnViewTyped DEF Transaction
<1> HIDE DEF rows
<1>2. CASE t.kind = "update" /\ rows[t.model].id = t.entry.id
  <2>1. rows[t.model] \in Row
    BY <1>1, <1>2 DEF Rows, Row, NoRow
  <2>2. [rows[t.model] EXCEPT !.price = t.entry.price] \in Row
    BY <1>2, <2>1 DEF Row
  <2>3. seen = [rows EXCEPT ![t.model] = [rows[t.model] EXCEPT !.price = t.entry.price]]
    OBVIOUS
  <2>4. seen \in [Model -> Rows]
    BY <1>1, <2>2, <2>3 DEF Rows
  <2>5. OwnDictionary(t) = Visible(seen)
    BY <1>2 DEF OwnDictionary, rows
  <2>6. QED
    BY <2>4, <2>5, VisibleTyped
<1>3. CASE ~ (t.kind = "update" /\ rows[t.model].id = t.entry.id)
  <2>1. OwnDictionary(t) = Visible(rows)
    BY <1>3 DEF OwnDictionary, rows
  <2>2. QED
    BY <1>1, <2>1, VisibleTyped
<1>4. QED
  BY <1>2, <1>3

LEMMA PatchedTyped ==
  ASSUME NEW old \in Row, NEW fields, NEW want,
         want.price \in Price, want.enabled \in BOOLEAN
  PROVE  /\ Patched(old, fields, want) \in Row
         /\ Within(Patched(old, fields, want), old, fields)
  BY DEF Patched, Row, Within

-----------------------------------------------------------------------------
(* Transactions.                                                           *)

\* u differs from t in its program counter and its reload only.
Keeps(u, t) ==
    /\ u.model = t.model /\ u.kind = t.kind /\ u.entry = t.entry
    /\ u.fields = t.fields /\ u.changed = t.changed
    /\ u.writes = t.writes /\ u.row = t.row

LEMMA PcUpdate ==
  ASSUME NEW t \in Transaction, NEW v \in {"idle", "found", "flushed", "read", "ready"},
         NEW u, u = [t EXCEPT !.pc = v]
  PROVE  u \in Transaction /\ u.pc = v /\ Keeps(u, t) /\ u.proc = t.proc
  BY DEF Transaction, Keeps

LEMMA SnapUpdate ==
  ASSUME NEW t \in Transaction, NEW v \in {"idle", "found", "flushed", "read", "ready"},
         NEW d \in Dictionary, NEW u, u = [t EXCEPT !.pc = v, !.snap = d]
  PROVE  u \in Transaction /\ u.pc = v /\ Keeps(u, t)
<1> DEFINE w == [t EXCEPT !.pc = v]
<1>1. w \in Transaction /\ w.pc = v /\ Keeps(w, t)
  BY PcUpdate
<1>2. u = [w EXCEPT !.snap = d]
  BY DEF Transaction
<1> HIDE DEF w
<1>3. QED
  BY <1>1, <1>2 DEF Transaction, Keeps

LEMMA FailedUpdate ==
  ASSUME NEW t \in Transaction, NEW f \in BOOLEAN,
         NEW u, u = [t EXCEPT !.pc = "ready", !.failed = f]
  PROVE  u \in Transaction /\ u.pc = "ready" /\ Keeps(u, t)
<1> DEFINE w == [t EXCEPT !.pc = "ready"]
<1>1. w \in Transaction /\ w.pc = "ready" /\ Keeps(w, t)
  BY PcUpdate
<1>2. u = [w EXCEPT !.failed = f]
  BY DEF Transaction
<1> HIDE DEF w
<1>3. QED
  BY <1>1, <1>2 DEF Transaction, Keeps

LEMMA WroteUpdate ==
  ASSUME NEW t \in Transaction, NEW row \in Rows, NEW u, u = Wrote(t, row)
  PROVE  /\ u \in Transaction /\ u.pc = "flushed" /\ u.writes /\ u.row = row
         /\ u.model = t.model /\ u.kind = t.kind /\ u.entry = t.entry
         /\ u.fields = t.fields /\ u.changed = t.changed
<1> DEFINE w == [t EXCEPT !.pc = "flushed"]
           x == [w EXCEPT !.writes = TRUE]
<1>1. w \in Transaction /\ w.pc = "flushed" /\ Keeps(w, t)
  BY PcUpdate
<1>2. u = [x EXCEPT !.row = row]
  BY DEF Transaction, Wrote
<1> HIDE DEF w
<1>3. /\ x \in Transaction /\ x.pc = "flushed" /\ x.writes = TRUE
      /\ x.model = t.model /\ x.kind = t.kind /\ x.entry = t.entry
      /\ x.fields = t.fields /\ x.changed = t.changed
  BY <1>1 DEF Transaction, Keeps
<1> HIDE DEF x
<1>4. QED
  BY <1>2, <1>3 DEF Transaction, Rows

LEMMA NewTxSound ==
  ASSUME NEW pc \in {"idle", "found"}, NEW p \in Process, NEW m \in Model,
         NEW kind \in {"create", "update", "delete"}, NEW entry \in Rows,
         NEW fields \in SUBSET Fields, NEW changed \in SUBSET Fields,
         kind = "update" => entry \in Row /\ changed \subseteq fields,
         NEW rows,
         NEW t, t = NewTx(pc, p, m, kind, entry, fields, changed)
  PROVE  t \in Transaction /\ TxInv(t, rows) /\ ~ t.writes
<1>1. Empty \in Dictionary
  BY EmptyTyped
<1>2. t \in Transaction
  BY <1>1 DEF NewTx, Transaction, Rows
<1>3. /\ t.pc = pc /\ t.kind = kind /\ t.entry = entry /\ t.fields = fields
      /\ t.changed = changed /\ t.writes = FALSE
  BY DEF NewTx
<1>4. QED
  BY <1>2, <1>3 DEF TxInv

LEMMA IdleSound ==
  ASSUME NEW rows
  PROVE  Idle \in Transaction /\ TxInv(Idle, rows) /\ ~ Idle.writes /\ Idle.pc = "idle"
<1>1. (CHOOSE p \in Process : TRUE) \in Process /\ (CHOOSE m \in Model : TRUE) \in Model
  BY CatalogAssumption
<1>2. NoRow \in Rows
  BY DEF Rows
<1>3. Idle \in Transaction /\ TxInv(Idle, rows) /\ ~ Idle.writes
  BY <1>1, <1>2, NewTxSound DEF Idle
<1>4. Idle.pc = "idle"
  BY DEF Idle, NewTx
<1>5. QED
  BY <1>3, <1>4

\* What a step of one transaction has to show.
LEMMA SetTxKeeps ==
  ASSUME CatalogInv, NEW s \in Session, NEW t \in Transaction,
         SetTx(s, t), table' = table, TxInv(t, table),
         t.writes => \/ ~ Locked(s, t.model)
                     \/ tx[s].writes /\ t.model = tx[s].model
  PROVE  /\ tx' \in [Session -> Transaction] /\ table' \in [Model -> Rows]
         /\ Exclusive' /\ \A o \in Session : TxInv(tx'[o], table')
<1>1. tx \in [Session -> Transaction] /\ table \in [Model -> Rows]
  BY DEF CatalogInv, Typed
<1>2. tx' \in [Session -> Transaction] /\ tx'[s] = t
      /\ \A o \in Session \ {s} : tx'[o] = tx[o]
  BY <1>1 DEF SetTx
<1>3. t.writes => \A o \in Session \ {s} : tx[o].writes => tx[o].model # t.model
  BY DEF Locked, CatalogInv, Exclusive
<1>4. Exclusive'
  <2>1. SUFFICES ASSUME NEW a \in Session, NEW b \in Session, a # b,
                        tx'[a].writes, tx'[b].writes
                 PROVE  tx'[a].model # tx'[b].model
    BY DEF Exclusive
  <2>2. CASE a = s
    BY <1>2, <1>3, <2>1, <2>2
  <2>3. CASE b = s
    BY <1>2, <1>3, <2>1, <2>3
  <2>4. CASE a # s /\ b # s
    BY <1>2, <2>1, <2>4 DEF CatalogInv, Exclusive
  <2>5. QED
    BY <2>2, <2>3, <2>4
<1>5. \A o \in Session : TxInv(tx'[o], table')
  BY <1>2 DEF CatalogInv
<1>6. QED
  BY <1>1, <1>2, <1>4, <1>5

-----------------------------------------------------------------------------
(* The actions.                                                            *)

LEMMA LookupKeeps ==
  ASSUME CatalogInv, NEW s \in Session, NEW p \in Process, NEW m \in Model,
         NEW kind \in {"create", "update", "delete"}, NEW entry \in Rows,
         NEW fields \in SUBSET Fields, NEW changed \in SUBSET Fields,
         kind = "update" => entry \in Row /\ changed \subseteq fields,
         Lookup(s, p, m, kind, entry, fields, changed)
  PROVE  CatalogInv'
<1> DEFINE t == NewTx("found", p, m, kind, entry, fields, changed)
<1>1. t \in Transaction /\ TxInv(t, table) /\ ~ t.writes
  BY NewTxSound
<1>2. /\ SetTx(s, t) /\ events' = events + 1 /\ events < MaxEvents
      /\ table' = table /\ catalog' = catalog /\ loop' = loop
  BY DEF Lookup
<1> HIDE DEF t
<1>3. /\ tx' \in [Session -> Transaction] /\ table' \in [Model -> Rows]
      /\ Exclusive' /\ \A o \in Session : TxInv(tx'[o], table')
  BY <1>1, <1>2, SetTxKeeps
<1>4. events' \in 0 .. MaxEvents
  BY <1>2, CatalogAssumption DEF CatalogInv, Typed
<1>5. QED
  BY <1>2, <1>3, <1>4 DEF CatalogInv, Typed

LEMMA CreateModelKeeps ==
  ASSUME CatalogInv, NEW s \in Session, CreateModel(s)
  PROVE  CatalogInv'
<1>1. PICK p \in Process, m \in Model, c \in Price, e \in BOOLEAN :
        Lookup(s, p, m, "create", [id |-> events + 2, price |-> c, enabled |-> e], {}, {})
  BY DEF CreateModel
<1> DEFINE entry == [id |-> events + 2, price |-> c, enabled |-> e]
<1>2. events + 2 \in 1 .. MaxEvents + 1
  BY <1>1, CatalogAssumption DEF Lookup, CatalogInv, Typed
<1>3. entry \in Rows
  BY <1>2 DEF Rows, Row
<1> HIDE DEF entry
<1>4. QED
  BY <1>1, <1>3, LookupKeeps DEF entry

LEMMA UpdateModelKeeps ==
  ASSUME CatalogInv, NEW s \in Session, UpdateModel(s)
  PROVE  CatalogInv'
<1>1. PICK p \in Process, m \in Model, want \in [price : Price, enabled : BOOLEAN],
           fields \in SUBSET Fields \ {{}} :
        LET old == table[m]
            new == Patched(old, fields, want)
        IN  /\ old # NoRow
            /\ Lookup(s, p, m, "update", new, fields, {f \in Fields : new[f] # old[f]})
  BY DEF UpdateModel
<1> DEFINE old == table[m]
           new == Patched(old, fields, want)
           changed == {f \in Fields : new[f] # old[f]}
<1>2. old \in Row
  BY <1>1 DEF CatalogInv, Typed, Rows
<1>3. new \in Row /\ Within(new, old, fields)
  <2> HIDE DEF old
  <2>1. want.price \in Price /\ want.enabled \in BOOLEAN
    OBVIOUS
  <2>2. QED
    BY <1>2, <2>1, PatchedTyped
<1>4. Lookup(s, p, m, "update", new, fields, changed)
  BY <1>1
<1> HIDE DEF old, new
<1>5. changed \subseteq fields /\ changed \subseteq Fields
  BY <1>3 DEF Within, Fields
<1> HIDE DEF changed
<1>6. new \in Rows
  BY <1>3 DEF Rows
<1>7. QED
  BY <1>3, <1>4, <1>5, <1>6, LookupKeeps

LEMMA DeleteModelKeeps ==
  ASSUME CatalogInv, NEW s \in Session, DeleteModel(s)
  PROVE  CatalogInv'
<1>1. PICK p \in Process, m \in Model : Lookup(s, p, m, "delete", table[m], {}, {})
  BY DEF DeleteModel
<1>2. table[m] \in Rows
  BY DEF CatalogInv, Typed
<1>3. QED
  BY <1>1, <1>2, LookupKeeps

\* A step that changes one transaction and nothing else.
LEMMA TxStepKeeps ==
  ASSUME CatalogInv, NEW s \in Session, NEW t \in Transaction,
         SetTx(s, t), TxInv(t, table),
         t.writes => \/ ~ Locked(s, t.model)
                     \/ tx[s].writes /\ t.model = tx[s].model,
         UNCHANGED <<table, loop, events>>, catalog' \in [Process -> Dictionary]
  PROVE  CatalogInv'
<1>1. /\ tx' \in [Session -> Transaction] /\ table' \in [Model -> Rows]
      /\ Exclusive' /\ \A o \in Session : TxInv(tx'[o], table')
  BY SetTxKeeps
<1>2. QED
  BY <1>1 DEF CatalogInv, Typed

LEMMA EndKeeps ==
  ASSUME CatalogInv, NEW s \in Session, End(s), UNCHANGED <<table, catalog, loop, events>>
  PROVE  CatalogInv'
<1>1. Idle \in Transaction /\ TxInv(Idle, table) /\ ~ Idle.writes
  BY IdleSound
<1>2. catalog' \in [Process -> Dictionary]
  BY DEF CatalogInv, Typed
<1>3. QED
  BY <1>1, <1>2, TxStepKeeps DEF End

LEMMA FlushKeeps ==
  ASSUME CatalogInv, NEW s \in Session, NEW row \in Rows,
         SetTx(s, Wrote(tx[s], row)), ~ Locked(s, tx[s].model),
         tx[s].kind = "update" => Within(row, table[tx[s].model], tx[s].fields),
         UNCHANGED <<table, catalog, loop, events>>
  PROVE  CatalogInv'
<1> DEFINE t == tx[s]
           u == Wrote(t, row)
<1>1. t \in Transaction /\ TxInv(t, table)
  BY DEF CatalogInv, Typed
<1>2. /\ u \in Transaction /\ u.pc = "flushed" /\ u.writes /\ u.row = row
      /\ u.model = t.model /\ u.kind = t.kind /\ u.entry = t.entry
      /\ u.fields = t.fields /\ u.changed = t.changed
  BY <1>1, WroteUpdate
<1>3. SetTx(s, u) /\ ~ Locked(s, t.model)
      /\ (t.kind = "update" => Within(row, table[t.model], t.fields))
  OBVIOUS
<1> HIDE DEF t, u
<1>4. TxInv(u, table)
  BY <1>1, <1>2, <1>3 DEF TxInv
<1>5. catalog' \in [Process -> Dictionary]
  BY DEF CatalogInv, Typed
<1>6. QED
  BY <1>2, <1>3, <1>4, <1>5, TxStepKeeps

\* A step that only moves a transaction on.
LEMMA MoveKeeps ==
  ASSUME CatalogInv, NEW s \in Session, NEW u \in Transaction, Keeps(u, tx[s]),
         u.pc \notin {"idle", "found"},
         SetTx(s, u), UNCHANGED <<table, loop, events>>,
         catalog' \in [Process -> Dictionary]
  PROVE  CatalogInv'
<1> DEFINE t == tx[s]
<1>1. TxInv(t, table) /\ Keeps(u, t)
  BY DEF CatalogInv
<1>2. u.writes => t.writes /\ u.model = t.model
  BY <1>1 DEF Keeps
<1> HIDE DEF t
<1>3. TxInv(u, table)
  BY <1>1 DEF TxInv, Keeps
<1>4. QED
  BY <1>2, <1>3, TxStepKeeps DEF t

LEMMA FlushCreateKeeps ==
  ASSUME CatalogInv, NEW s \in Session, FlushCreate(s)
  PROVE  CatalogInv'
<1>1. CASE table[tx[s].model] = NoRow
  <2>1. tx[s].entry \in Rows
    BY DEF CatalogInv, Typed, Transaction, Rows
  <2>2. QED
    BY <1>1, <2>1, FlushKeeps DEF FlushCreate
<1>2. CASE table[tx[s].model] # NoRow
  BY <1>2, EndKeeps DEF FlushCreate
<1>3. QED
  BY <1>1, <1>2

\* The row is locked and patched as it is now, not as it was read.
LEMMA FlushUpdateKeeps ==
  ASSUME CatalogInv, NEW s \in Session, FlushUpdate(s)
  PROVE  CatalogInv'
<1> DEFINE t   == tx[s]
           old == table[t.model]
           row == Patched(old, t.changed, t.entry)
<1>1. /\ t \in Transaction /\ TxInv(t, table) /\ old \in Rows /\ t.kind = "update"
      /\ t.entry \in Row /\ t.changed \subseteq t.fields
  <2>1. t \in Transaction /\ TxInv(t, table) /\ t.kind = "update"
    BY DEF CatalogInv, Typed, FlushUpdate
  <2>2. t.model \in Model
    BY <2>1 DEF Transaction
  <2>3. old \in Rows
    BY <2>2 DEF CatalogInv, Typed
  <2>4. QED
    BY <2>1, <2>3 DEF TxInv
<1>2. UNCHANGED <<table, catalog, loop, events>>
  BY DEF FlushUpdate
<1>3. CASE SetTx(s, [t EXCEPT !.pc = "flushed"])
  <2> DEFINE u == [t EXCEPT !.pc = "flushed"]
  <2>1. u \in Transaction /\ u.pc = "flushed" /\ Keeps(u, t)
    BY <1>1, PcUpdate
  <2>2. SetTx(s, u) /\ Keeps(u, tx[s])
    BY <1>3, <2>1
  <2>3. catalog' \in [Process -> Dictionary]
    BY <1>2 DEF CatalogInv, Typed
  <2> HIDE DEF u
  <2>4. QED
    BY <1>2, <2>1, <2>2, <2>3, MoveKeeps
<1>4. CASE ~ Locked(s, t.model) /\ old.id = t.entry.id /\ SetTx(s, Wrote(t, row))
  <2>1. row \in Row /\ Within(row, old, t.changed)
    <3> HIDE DEF t, old
    <3>1. old \in Row
      BY <1>1, <1>4 DEF Rows, Row, NoRow
    <3>2. t.entry.price \in Price /\ t.entry.enabled \in BOOLEAN
      BY <1>1 DEF Row
    <3>3. QED
      BY <3>1, <3>2, PatchedTyped
  <2> HIDE DEF row
  <2>2. row \in Rows /\ Within(row, old, t.fields)
    BY <1>1, <2>1 DEF Rows, Within
  <2>3. QED
    BY <1>2, <1>4, <2>2, FlushKeeps
<1>5. CASE End(s)
  BY <1>2, <1>5, EndKeeps
<1>6. QED
  BY <1>3, <1>4, <1>5 DEF FlushUpdate

LEMMA FlushDeleteKeeps ==
  ASSUME CatalogInv, NEW s \in Session, FlushDelete(s)
  PROVE  CatalogInv'
<1> DEFINE t == tx[s]
           u == [t EXCEPT !.pc = "flushed"]
<1>1. t \in Transaction /\ t.kind = "delete" /\ ~ Locked(s, t.model)
      /\ UNCHANGED <<table, catalog, loop, events>>
  BY DEF CatalogInv, Typed, FlushDelete
<1>2. CASE SetTx(s, Wrote(t, NoRow))
  <2>1. NoRow \in Rows
    BY DEF Rows
  <2>2. QED
    BY <1>1, <1>2, <2>1, FlushKeeps
<1>3. CASE SetTx(s, u)
  <2>1. u \in Transaction /\ u.pc = "flushed" /\ Keeps(u, t)
    BY <1>1, PcUpdate
  <2>2. SetTx(s, u) /\ Keeps(u, tx[s])
    BY <1>3, <2>1
  <2>3. catalog' \in [Process -> Dictionary]
    BY <1>1 DEF CatalogInv, Typed
  <2> HIDE DEF u
  <2>4. QED
    BY <1>1, <2>1, <2>2, <2>3, MoveKeeps
<1>4. QED
  BY <1>2, <1>3 DEF FlushDelete

LEMMA RefreshKeeps ==
  ASSUME CatalogInv, NEW s \in Session,
         RefreshRead(s) \/ RefreshFails(s) \/ RefreshInstall(s)
  PROVE  CatalogInv'
<1> DEFINE t == tx[s]
<1>1. /\ t \in Transaction /\ TxInv(t, table) /\ table \in [Model -> Rows]
      /\ catalog \in [Process -> Dictionary]
  BY DEF CatalogInv, Typed
<1>2. CASE RefreshRead(s)
  <2> DEFINE d == OwnDictionary(t)
             u == [t EXCEPT !.pc = "read", !.snap = d]
  <2>1. d \in Dictionary
    BY <1>1, OwnDictionaryTyped DEF TxInv
  <2>2. SetTx(s, u) /\ UNCHANGED <<table, catalog, loop, events>>
    BY <1>2 DEF RefreshRead
  <2> HIDE DEF d
  <2>3. u \in Transaction /\ u.pc = "read" /\ Keeps(u, t)
    <3> HIDE DEF t
    <3>1. "read" \in {"idle", "found", "flushed", "read", "ready"}
      OBVIOUS
    <3>2. QED
      BY <1>1, <2>1, <3>1, SnapUpdate
  <2> HIDE DEF u
  <2>4. QED
    BY <1>1, <2>2, <2>3, MoveKeeps
<1>3. CASE RefreshFails(s)
  <2>1. PICK f \in BOOLEAN : SetTx(s, [t EXCEPT !.pc = "ready", !.failed = f])
    BY <1>3 DEF RefreshFails
  <2> DEFINE u == [t EXCEPT !.pc = "ready", !.failed = f]
  <2>2. SetTx(s, u) /\ UNCHANGED <<table, catalog, loop, events>>
    BY <1>3, <2>1 DEF RefreshFails
  <2>3. u \in Transaction /\ u.pc = "ready" /\ Keeps(u, t)
    BY <1>1, FailedUpdate
  <2> HIDE DEF u
  <2>4. QED
    BY <1>1, <2>2, <2>3, MoveKeeps
<1>4. CASE RefreshInstall(s)
  <2> DEFINE u == [t EXCEPT !.pc = "ready", !.snap = Empty]
  <2>1. SetTx(s, u) /\ UNCHANGED <<table, loop, events>> /\ Install(t.proc, t.snap)
    BY <1>4 DEF RefreshInstall
  <2>2. catalog' \in [Process -> Dictionary]
    <3>1. t.proc \in Process /\ t.snap \in Dictionary
      BY <1>1 DEF Transaction
    <3> HIDE DEF t
    <3>2. QED
      BY <1>1, <2>1, <3>1 DEF Install
  <2>3. u \in Transaction /\ u.pc = "ready" /\ Keeps(u, t)
    <3> HIDE DEF t
    <3>1. "ready" \in {"idle", "found", "flushed", "read", "ready"}
      OBVIOUS
    <3>2. QED
      BY <1>1, <3>1, EmptyTyped, SnapUpdate
  <2> HIDE DEF u
  <2>4. QED
    BY <2>1, <2>2, <2>3, MoveKeeps
<1>5. QED
  BY <1>2, <1>3, <1>4

\* What is committed is the row this transaction had locked, so no other
\* transaction that has written is affected.
LEMMA CommitKeeps ==
  ASSUME CatalogInv, NEW s \in Session, Commit(s)
  PROVE  CatalogInv'
<1>1. /\ tx \in [Session -> Transaction] /\ table \in [Model -> Rows]
      /\ tx[s] \in Transaction /\ tx[s].model \in Model
  BY DEF CatalogInv, Typed, Transaction
<1>2. /\ tx' = [tx EXCEPT ![s] = Idle]
      /\ table' = IF tx[s].failed THEN table ELSE OwnView(tx[s])
      /\ UNCHANGED <<catalog, loop, events>>
  BY DEF Commit, End, SetTx
<1>3. Idle \in Transaction /\ TxInv(Idle, table') /\ ~ Idle.writes
  BY IdleSound
<1>4. /\ tx' \in [Session -> Transaction] /\ tx'[s] = Idle
      /\ \A o \in Session \ {s} : tx'[o] = tx[o]
  BY <1>1, <1>2, <1>3
<1>5. table' \in [Model -> Rows]
  BY <1>1, <1>2, OwnViewTyped
<1>6. \A m \in Model : table'[m] # table[m] => tx[s].writes /\ m = tx[s].model
  BY <1>1, <1>2 DEF OwnView
<1>7. Exclusive'
  BY <1>3, <1>4 DEF Exclusive, CatalogInv
<1>8. ASSUME NEW o \in Session
      PROVE  TxInv(tx'[o], table')
  <2>1. CASE o = s
    BY <1>3, <1>4, <2>1
  <2>2. CASE o # s
    <3>1. tx'[o] = tx[o] /\ TxInv(tx[o], table) /\ tx[o].model \in Model
      BY <1>1, <1>4, <2>2 DEF CatalogInv, Transaction
    <3>2. tx[o].writes => table'[tx[o].model] = table[tx[o].model]
      BY <1>6, <2>2, <3>1 DEF CatalogInv, Exclusive
    <3>3. QED
      BY <3>1, <3>2 DEF TxInv
  <2>3. QED
    BY <2>1, <2>2
<1>9. QED
  BY <1>2, <1>4, <1>5, <1>7, <1>8 DEF CatalogInv, Typed

LEMMA LoopKeeps ==
  ASSUME CatalogInv, NEW p \in Process, LoopRead(p) \/ LoopInstall(p) \/ LoopFails(p)
  PROVE  CatalogInv'
<1>1. /\ loop \in [Process -> Task] /\ catalog \in [Process -> Dictionary]
      /\ table \in [Model -> Rows] /\ loop[p] \in Task
  BY DEF CatalogInv, Typed
<1>2. UNCHANGED <<table, tx, events>>
  BY DEF LoopRead, LoopInstall, LoopFails
<1>3. Rest(TRUE) \in Task
  BY EmptyTyped DEF Rest, Task
<1>4. [pc |-> "read", up |-> loop[p].up, snap |-> Visible(table)] \in Task
  BY <1>1, VisibleTyped DEF Task
<1>5. loop' \in [Process -> Task]
  BY <1>1, <1>3, <1>4 DEF LoopRead, LoopInstall, LoopFails
<1>6. catalog' \in [Process -> Dictionary]
  <2>1. loop[p].snap \in Dictionary
    BY <1>1 DEF Task
  <2>2. QED
    BY <1>1, <2>1 DEF LoopRead, LoopInstall, LoopFails, Install
<1>7. QED
  BY <1>2, <1>5, <1>6 DEF CatalogInv, Typed, Exclusive

LEMMA RestartKeeps ==
  ASSUME CatalogInv, NEW p \in Process, Restart(p)
  PROVE  CatalogInv'
<1>1. Idle \in Transaction /\ TxInv(Idle, table) /\ ~ Idle.writes
  BY IdleSound
<1>2. table' = table
  BY DEF Restart
<1>3. \A s \in Session : tx'[s] = tx[s] \/ tx'[s] = Idle
  BY DEF Restart
<1>4. tx' \in [Session -> Transaction]
  BY <1>1 DEF Restart, CatalogInv, Typed
<1>5. Exclusive'
  BY <1>1, <1>3 DEF Exclusive, CatalogInv
<1>6. \A s \in Session : TxInv(tx'[s], table')
  BY <1>1, <1>2, <1>3 DEF CatalogInv
<1>7. catalog' \in [Process -> Dictionary] /\ loop' \in [Process -> Task]
  <2>1. Rest(FALSE) \in Task
    BY EmptyTyped DEF Rest, Task
  <2>2. QED
    BY <2>1, EmptyTyped DEF Restart, CatalogInv, Typed
<1>8. events' \in 0 .. MaxEvents
  BY CatalogAssumption DEF Restart, CatalogInv, Typed
<1>9. QED
  BY <1>2, <1>4, <1>5, <1>6, <1>7, <1>8 DEF CatalogInv, Typed

-----------------------------------------------------------------------------
(* The theorems.                                                           *)

LEMMA CatalogInvInit == ASSUME CatalogInit PROVE CatalogInv
<1>1. Idle \in Transaction /\ TxInv(Idle, table) /\ ~ Idle.writes
  BY IdleSound
<1>2. table \in [Model -> Rows]
  BY DEF CatalogInit, Rows
<1>3. Rest(FALSE) \in Task
  BY EmptyTyped DEF Rest, Task
<1>4. Typed
  <2>1. tx \in [Session -> Transaction]
    BY <1>1 DEF CatalogInit
  <2>2. catalog \in [Process -> Dictionary] /\ loop \in [Process -> Task]
    BY <1>3, EmptyTyped DEF CatalogInit
  <2>3. events \in 0 .. MaxEvents
    BY CatalogAssumption DEF CatalogInit
  <2>4. QED
    BY <1>2, <2>1, <2>2, <2>3 DEF Typed
<1>5. Exclusive /\ \A s \in Session : TxInv(tx[s], table)
  BY <1>1 DEF CatalogInit, Exclusive
<1>6. QED
  BY <1>4, <1>5 DEF CatalogInv

LEMMA CatalogInvStep == ASSUME CatalogInv, [CatalogNext]_catalogVars PROVE CatalogInv'
<1>1. CASE UNCHANGED catalogVars
  BY <1>1 DEF CatalogInv, Typed, Exclusive, catalogVars
<1>2. ASSUME NEW s \in Session,
             CreateModel(s) \/ UpdateModel(s) \/ DeleteModel(s) \/ Handle(s) \/ Rollback(s)
      PROVE  CatalogInv'
  <2>1. CASE Rollback(s)
    BY <2>1, EndKeeps DEF Rollback
  <2>2. CASE CreateModel(s) \/ UpdateModel(s) \/ DeleteModel(s) \/ Handle(s)
    BY <2>2, CreateModelKeeps, UpdateModelKeeps, DeleteModelKeeps, FlushCreateKeeps,
       FlushUpdateKeeps, FlushDeleteKeeps, RefreshKeeps, CommitKeeps
    DEF Handle
  <2>3. QED
    BY <1>2, <2>1, <2>2
<1>3. ASSUME NEW p \in Process,
             LoopRead(p) \/ LoopInstall(p) \/ LoopFails(p) \/ Restart(p)
      PROVE  CatalogInv'
  BY <1>3, LoopKeeps, RestartKeeps
<1>4. QED
  BY <1>1, <1>2, <1>3 DEF CatalogNext

LEMMA CatalogInvAlways == CatalogSpec => []CatalogInv
<1>1. CatalogInit => CatalogInv
  BY CatalogInvInit
<1>2. CatalogInv /\ [CatalogNext]_catalogVars => CatalogInv'
  BY CatalogInvStep
<1>3. QED
  BY <1>1, <1>2, PTL DEF CatalogSpec

\* Rows, transactions and dictionaries keep their types; in particular no
\* reload, own or foreign, puts a row without metadata into a dictionary.
THEOREM CatalogTyped == CatalogSpec => []CatalogTypeOK
<1>1. CatalogInv => CatalogTypeOK
  BY DEF CatalogInv, Typed, CatalogTypeOK, Rows
<1>2. QED
  BY <1>1, CatalogInvAlways, PTL

\* Only a commit changes the table, and only where it has written.
LEMMA OnlyCommitWrites ==
  ASSUME CatalogNext
  PROVE  table' = table \/ \E s \in Session : Commit(s)
  BY DEF CatalogNext, CreateModel, UpdateModel, DeleteModel, Lookup, Handle,
     FlushCreate, FlushUpdate, FlushDelete, RefreshRead, RefreshFails, RefreshInstall,
     Rollback, LoopRead, LoopInstall, LoopFails, Restart

\* A PATCH changes only the fields its body sets, and brings back no deleted
\* row, for any number of administrators at work on any number of models.
THEOREM PatchesKeepOthers == CatalogSpec => PatchKeepsOthers
<1> DEFINE Kept(s) ==
      tx[s].pc = "ready" /\ tx[s].kind = "update" /\ tx'[s].pc = "idle"
      => \A m \in Model, f \in {"id", "price", "enabled"} :
           table'[m][f] # table[m][f] => m = tx[s].model /\ f \in tx[s].fields
<1>1. ASSUME CatalogInv, CatalogNext, NEW s \in Session
      PROVE  Kept(s)
  <2>1. CASE table' = table
    BY <2>1
  <2>2. ASSUME NEW o \in Session, o # s, Commit(o)
        PROVE  Kept(s)
    <3>1. tx'[s] = tx[s]
      BY <1>1, <2>2 DEF Commit, End, SetTx, CatalogInv, Typed
    <3>2. QED
      BY <3>1
  <2>3. ASSUME Commit(s)
        PROVE  Kept(s)
    <3>1. SUFFICES ASSUME tx[s].kind = "update", NEW m \in Model, table'[m] # table[m]
                   PROVE  m = tx[s].model /\ Within(table'[m], table[m], tx[s].fields)
      BY DEF Within
    <3>2. tx[s].writes /\ m = tx[s].model /\ table'[m] = tx[s].row
      BY <1>1, <2>3, <3>1 DEF Commit, OwnView, CatalogInv, Typed
    <3>3. QED
      BY <1>1, <3>1, <3>2 DEF CatalogInv, TxInv
  <2>4. QED
    BY <1>1, <2>1, <2>2, <2>3, OnlyCommitWrites
<1>2. CatalogInv /\ [CatalogNext]_catalogVars => [\A s \in Session : Kept(s)]_catalogVars
  BY <1>1
<1>3. QED
  BY <1>2, CatalogInvAlways, PTL DEF CatalogSpec, PatchKeepsOthers
=============================================================================
