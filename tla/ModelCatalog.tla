---------------------------- MODULE ModelCatalog ----------------------------
(***************************************************************************)
(* The model_registry table and the ModelMetadataCatalog dictionary that   *)
(* each gateway process keeps of it (model_registry/service.py,            *)
(* routing/metadata.py, endpoints/model_registry.py, main.py).             *)
(*                                                                         *)
(* An administrator's request is one READ COMMITTED transaction: look the  *)
(* row up, flush the change (which locks the row), reload the dictionary   *)
(* of the process from inside the open transaction, commit.  Meanwhile     *)
(* every process reloads its dictionary in a loop.  A reload is cut where  *)
(* the answer of its SELECT is under way.                                  *)
(***************************************************************************)
EXTENDS Naturals

CONSTANTS
    Process,        \* gateway processes
    Session,        \* administrator requests under way
    Model,          \* (provider, model_name) pairs
    Price,          \* stands for all metadata of a row
    MaxEvents       \* bound: administrator requests and process restarts

ASSUME CatalogAssumption ==
    /\ Price \subseteq Nat
    /\ MaxEvents \in Nat
    /\ Process # {} /\ Model # {}

VARIABLES
    table,          \* the committed rows
    tx,             \* each administrator request and its database session
    catalog,        \* each process's ModelMetadataCatalog._catalog
    loop,           \* each process's refresh task
    events          \* administrator requests and restarts so far

catalogVars == <<table, tx, catalog, loop, events>>

Fields == {"price", "enabled"}

Row == [id : 1 .. MaxEvents + 1, price : Price, enabled : BOOLEAN]

NoRow == [id |-> 0, price |-> 0, enabled |-> FALSE]

Dictionary == UNION {[S -> Price] : S \in SUBSET Model}

Empty == [m \in {} |-> 0]

\* get_all_for_catalog and the dictionary load_from_db makes of its rows.
Visible(rows) == [m \in {x \in Model : rows[x].enabled} |-> rows[m].price]

Transaction ==
    [pc     : {"idle", "found", "flushed", "read", "ready"},
     proc   : Process,
     model  : Model,
     kind   : {"create", "update", "delete"},
     entry  : Row \cup {NoRow},     \* the ORM object, as the handler sees it
     fields : SUBSET Fields,        \* what the PATCH body sets
     changed : SUBSET Fields,       \* attributes the session has to UPDATE
     writes : BOOLEAN,              \* the flush wrote, and locks, the row
     row    : Row \cup {NoRow},     \* the row as this transaction leaves it
     failed : BOOLEAN,              \* a statement failed: only ROLLBACK is left
     snap   : Dictionary]           \* answer of the reload's SELECT

\* A transaction that has read, and written nothing.
NewTx(pc, p, m, kind, entry, fields, changed) ==
    [pc |-> pc, proc |-> p, model |-> m, kind |-> kind, entry |-> entry,
     fields |-> fields, changed |-> changed, writes |-> FALSE, row |-> NoRow,
     failed |-> FALSE, snap |-> Empty]

Idle == NewTx("idle", CHOOSE p \in Process : TRUE, CHOOSE m \in Model : TRUE,
              "delete", NoRow, {}, {})

-----------------------------------------------------------------------------
(* The administrator's endpoints.                                          *)

\* The row as the transaction reads it: its own write over the committed rows.
OwnView(t) == IF t.writes THEN [table EXCEPT ![t.model] = t.row] ELSE table

\* The SELECT returns an object the session already holds with the attribute
\* values it has, not with those of the row.
OwnDictionary(t) ==
    LET rows == OwnView(t)
        held == t.kind = "update" /\ rows[t.model].id = t.entry.id
    IN  Visible(IF held THEN [rows EXCEPT ![t.model].price = t.entry.price]
                        ELSE rows)

SetTx(s, t) == tx' = [tx EXCEPT ![s] = t]

\* 409 if the row exists, 404 if it does not: nothing changes, so neither is
\* an action.
Lookup(s, p, m, kind, entry, fields, changed) ==
    /\ tx[s].pc = "idle" /\ events < MaxEvents
    /\ loop[p].up
    /\ SetTx(s, NewTx("found", p, m, kind, entry, fields, changed))
    /\ events' = events + 1
    /\ UNCHANGED <<table, catalog, loop>>

CreateModel(s) ==
    \E p \in Process, m \in Model, c \in Price, e \in BOOLEAN :
      /\ table[m] = NoRow
      /\ Lookup(s, p, m, "create",
                [id |-> events + 2, price |-> c, enabled |-> e], {}, {})

\* Mutant: model_dump without exclude_unset; what the body leaves out is lost.
PatchedWithDefaults(old, fields, want) ==
    [id      |-> old.id,
     price   |-> IF "price" \in fields THEN want.price ELSE NoRow.price,
     enabled |-> IF "enabled" \in fields THEN want.enabled ELSE NoRow.enabled]

\* The ORM object after the setattr loop.
Patched(old, fields, want) ==
    [id      |-> old.id,
     price   |-> IF "price" \in fields THEN want.price ELSE old.price,
     enabled |-> IF "enabled" \in fields THEN want.enabled ELSE old.enabled]

UpdateModel(s) ==
    \E p \in Process, m \in Model, want \in [price : Price, enabled : BOOLEAN],
       fields \in SUBSET Fields \ {{}} :
      LET old == table[m]
          new == Patched(old, fields, want)
      IN  /\ old # NoRow
          /\ Lookup(s, p, m, "update", new, fields,
                    {f \in Fields : new[f] # old[f]})

DeleteModel(s) ==
    \E p \in Process, m \in Model :
      /\ table[m] # NoRow
      /\ Lookup(s, p, m, "delete", table[m], {}, {})

Locked(s, m) == \E o \in Session \ {s} : tx[o].writes /\ tx[o].model = m

End(s) == SetTx(s, Idle)

Wrote(t, row) == [t EXCEPT !.pc = "flushed", !.writes = TRUE, !.row = row]

\* INSERT: an IntegrityError if the row has appeared meanwhile.
FlushCreate(s) ==
    LET t == tx[s]
    IN  /\ t.pc = "found" /\ t.kind = "create" /\ ~ Locked(s, t.model)
        /\ IF table[t.model] = NoRow THEN SetTx(s, Wrote(t, t.entry)) ELSE End(s)
        /\ UNCHANGED <<table, catalog, loop, events>>

\* Mutant: the UPDATE sets every column from the object.
FlushUpdateWhole(s) ==
    LET t == tx[s]
    IN  /\ t.pc = "found" /\ t.kind = "update" /\ ~ Locked(s, t.model)
        /\ IF table[t.model].id = t.entry.id THEN SetTx(s, Wrote(t, t.entry)) ELSE End(s)
        /\ UNCHANGED <<table, catalog, loop, events>>

\* UPDATE of the changed attributes, by primary key: a StaleDataError if the
\* row has gone, and no statement at all if nothing changed.
FlushUpdate(s) ==
    LET t   == tx[s]
        old == table[t.model]
    IN  /\ t.pc = "found" /\ t.kind = "update"
        /\ \/ /\ t.changed = {}
              /\ SetTx(s, [t EXCEPT !.pc = "flushed"])
           \/ /\ t.changed # {} /\ ~ Locked(s, t.model)
              /\ old.id = t.entry.id
              /\ SetTx(s, Wrote(t, Patched(old, t.changed, t.entry)))
           \/ /\ t.changed # {} /\ ~ Locked(s, t.model)
              /\ old.id # t.entry.id
              /\ End(s)
        /\ UNCHANGED <<table, catalog, loop, events>>

\* DELETE by primary key; a row that has gone already is only a warning.
FlushDelete(s) ==
    LET t == tx[s]
    IN  /\ t.pc = "found" /\ t.kind = "delete" /\ ~ Locked(s, t.model)
        /\ IF table[t.model].id = t.entry.id
             THEN SetTx(s, Wrote(t, NoRow))
             ELSE SetTx(s, [t EXCEPT !.pc = "flushed"])
        /\ UNCHANGED <<table, catalog, loop, events>>

\* _trigger_catalog_refresh: the SELECT, its answer, or the swallowed error.
\* An error of the server leaves the transaction good for a rollback only.
RefreshRead(s) ==
    /\ tx[s].pc = "flushed"
    /\ SetTx(s, [tx[s] EXCEPT !.pc = "read", !.snap = OwnDictionary(tx[s])])
    /\ UNCHANGED <<table, catalog, loop, events>>

RefreshFails(s) ==
    /\ tx[s].pc = "flushed"
    /\ \E f \in BOOLEAN : SetTx(s, [tx[s] EXCEPT !.pc = "ready", !.failed = f])
    /\ UNCHANGED <<table, catalog, loop, events>>

\* Mutant: the reload adds to the dictionary.
InstallMerged(p, snap) ==
    catalog' = [catalog EXCEPT ![p] =
                  [m \in DOMAIN snap \cup DOMAIN @ |->
                     IF m \in DOMAIN snap THEN snap[m] ELSE @[m]]]

\* The last step of load_from_db: a new dictionary takes the old one's place.
Install(p, snap) == catalog' = [catalog EXCEPT ![p] = snap]

RefreshInstall(s) ==
    /\ tx[s].pc = "read"
    /\ Install(tx[s].proc, tx[s].snap)
    /\ SetTx(s, [tx[s] EXCEPT !.pc = "ready", !.snap = Empty])
    /\ UNCHANGED <<table, loop, events>>

\* get_db_session commits when the handler has returned.  PostgreSQL answers
\* the COMMIT of a failed transaction with a rollback, and no error.
Commit(s) ==
    /\ tx[s].pc = "ready"
    /\ table' = IF tx[s].failed THEN table ELSE OwnView(tx[s])
    /\ End(s)
    /\ UNCHANGED <<catalog, loop, events>>

\* The handler or the commit raises, or the connection is lost.
Rollback(s) ==
    /\ tx[s].pc # "idle"
    /\ End(s)
    /\ UNCHANGED <<table, catalog, loop, events>>

-----------------------------------------------------------------------------
(* _init_model_catalog and _catalog_refresh_loop.                          *)

Task == [pc : {"sleeping", "read"}, up : BOOLEAN, snap : Dictionary]

Rest(up) == [pc |-> "sleeping", up |-> up, snap |-> Empty]

LoopRead(p) ==
    /\ loop[p].pc = "sleeping"
    /\ loop' = [loop EXCEPT ![p] = [pc |-> "read", up |-> @.up,
                                    snap |-> Visible(table)]]
    /\ UNCHANGED <<table, tx, catalog, events>>

\* The first load lets the process serve, whether it works or not.
LoopInstall(p) ==
    /\ loop[p].pc = "read"
    /\ Install(p, loop[p].snap)
    /\ loop' = [loop EXCEPT ![p] = Rest(TRUE)]
    /\ UNCHANGED <<table, tx, events>>

LoopFails(p) ==
    /\ loop[p].pc = "read"
    /\ loop' = [loop EXCEPT ![p] = Rest(TRUE)]
    /\ UNCHANGED <<table, tx, catalog, events>>

\* The process dies with its transactions and starts with an empty dictionary.
Restart(p) ==
    /\ events < MaxEvents
    /\ events' = events + 1
    /\ catalog' = [catalog EXCEPT ![p] = Empty]
    /\ loop' = [loop EXCEPT ![p] = Rest(FALSE)]
    /\ tx' = [s \in Session |-> IF tx[s].proc = p THEN Idle ELSE tx[s]]
    /\ UNCHANGED table

-----------------------------------------------------------------------------

CatalogInit ==
    /\ table \in [Model -> {NoRow} \cup {r \in Row : r.id = 1}]
    /\ tx = [s \in Session |-> Idle]
    /\ catalog = [p \in Process |-> Empty]
    /\ loop = [p \in Process |-> Rest(FALSE)]
    /\ events = 0

Handle(s) ==
    \/ FlushCreate(s) \/ FlushUpdate(s) \/ FlushDelete(s)
    \/ RefreshRead(s) \/ RefreshFails(s) \/ RefreshInstall(s)
    \/ Commit(s)

CatalogNext ==
    \/ \E s \in Session :
         \/ CreateModel(s) \/ UpdateModel(s) \/ DeleteModel(s)
         \/ Handle(s)
         \/ Rollback(s)
    \/ \E p \in Process :
         LoopRead(p) \/ LoopInstall(p) \/ LoopFails(p) \/ Restart(p)

CatalogSpec == CatalogInit /\ [][CatalogNext]_catalogVars

\* Requests that have begun go on, the loops go round, and the database does
\* not refuse a process's reload every time.
FairCatalogSpec ==
    /\ CatalogSpec
    /\ \A s \in Session : WF_catalogVars(Handle(s))
    /\ \A p \in Process : WF_catalogVars(LoopRead(p)) /\ SF_catalogVars(LoopInstall(p))

-----------------------------------------------------------------------------
(* Properties.                                                             *)

CatalogTypeOK ==
    /\ table \in [Model -> Row \cup {NoRow}]
    /\ tx \in [Session -> Transaction]
    /\ catalog \in [Process -> Dictionary]
    /\ loop \in [Process -> Task]
    /\ events \in 0 .. MaxEvents

\* A PATCH changes only what its body sets, whatever other administrators
\* have committed since it read the row: it takes back no other PATCH and
\* brings back no deleted row.
PatchKeepsOthers ==
    [][\A s \in Session :
         tx[s].pc = "ready" /\ tx[s].kind = "update" /\ tx'[s].pc = "idle"
         => \A m \in Model, f \in {"id", "price", "enabled"} :
              table'[m][f] # table[m][f] => m = tx[s].model /\ f \in tx[s].fields
      ]_catalogVars

\* "Refresh failure is non-fatal - background task will catch up": stale,
\* dirty and failed reloads notwithstanding, once the administrators rest the
\* dictionary of every process is the table, and stays so.
CatalogCatchesUp ==
    \A p \in Process : <>[](catalog[p] = Visible(table))
=============================================================================
