---------------------------- MODULE ChannelImport ----------------------------
(***************************************************************************)
(* Orders that come from a sales channel: ChannelService's                 *)
(* importMockShopifyOrders, called by a merchant or by a Shopify webhook,  *)
(* createSkuMapping, and ProductService.deleteSku, which takes mappings    *)
(* away.                                                                   *)
(*                                                                         *)
(* An import is one long call that awaits the database several times for   *)
(* every payload of its batch and holds no transaction across them; only   *)
(* the creation of an order is a transaction of its own.  Any number of    *)
(* imports run at once.  The variable imp is what a call keeps in memory   *)
(* and loses in a crash, the others are tables.  Prices, currencies,       *)
(* payment status and quantities decide nothing here and are left out, and *)
(* an import that ensureShopifyConnection turns away changes nothing.      *)
(***************************************************************************)
EXTENDS Integers, Sequences, FiniteSets

CONSTANTS
    Imports,        \* calls of importMockShopifyOrders and webhook deliveries, one use each
    Connections,    \* connected Shopify connections of one tenant
    Externals,      \* external order ids
    Numbers,        \* order numbers, unique within the tenant
    ExternalSkus,   \* SKU names of the channel
    Skus,           \* the tenant's SKUs without inventory
    Batches,        \* the batches of payloads that may be submitted
    OpeningMapping, \* ChannelSkuMapping at the start
    Remaps,         \* mappings <<connection, sku, external SKU>> that may be requested
    Deletable,      \* SKUs whose deletion may be requested
    Faults,         \* TRUE: statements may fail and processes may stop
    None

Payload == [ext : Externals, no : Numbers, skus : SUBSET ExternalSkus]

ASSUME ImportAssumption ==
    /\ Batches \subseteq Seq(Payload)
    /\ \A b \in Batches : b # <<>> /\ \A n \in 1 .. Len(b) : b[n].skus # {} /\ IsFiniteSet(b[n].skus)
    /\ OpeningMapping \in [Connections -> [Skus -> ExternalSkus \cup {None}]]
    /\ \A c \in Connections, s, t \in Skus :
          OpeningMapping[c][s] = OpeningMapping[c][t] /\ s # t => OpeningMapping[c][s] = None
    /\ Remaps \subseteq Connections \X Skus \X ExternalSkus
    /\ Deletable \subseteq Skus
    /\ Faults \in BOOLEAN
    /\ None \notin Connections \cup ExternalSkus \cup Imports

VARIABLES
    orders,     \* imported orders
    mapping,    \* mapping[c][s]: the channel's name for SKU s, or None
    skus,       \* SKUs that exist
    unused,     \* SKUs that deleteSku has found unused and is about to delete
    run,        \* ChannelSyncRun with its ChannelSyncLog rows
    synced,     \* the run ChannelConnection.lastSyncedAt comes from
    imp         \* local variables of each call

tables == <<orders, mapping, skus, unused, run, synced>>
catalog == <<mapping, skus, unused>>
vars == <<tables, imp>>

Codes == {"SUCCESS", "DUPLICATE_ORDER", "UNMAPPED_SKU", "IMPORT_ERROR"}
Order == [conn : Connections, ext : Externals, no : Numbers, skus : SUBSET Skus,
          run : Imports, at : Nat]
Run == [kind : {"none", "import", "event"}, conn : Connections \cup {None},
        batch : Batches \cup {<<>>}, status : {"RUNNING", "COMPLETED", "FAILED"},
        success : Nat, failed : Nat, logs : Seq([ext : Externals, code : Codes])]
Call == [pc : {"idle", "check", "map", "create", "log", "caught", "finish", "touch",
               "done", "lost"},
         at : Nat, skus : SUBSET Skus, code : Codes, success : Nat, failed : Nat]

NewRun(kind, c, batch, status, success) ==
    [kind |-> kind, conn |-> c, batch |-> batch, status |-> status,
     success |-> success, failed |-> 0, logs |-> <<>>]
NewCall(pc) ==
    [pc |-> pc, at |-> 1, skus |-> {}, code |-> "SUCCESS", success |-> 0, failed |-> 0]

Init ==
    /\ orders = {}
    /\ mapping = OpeningMapping
    /\ skus = Skus
    /\ unused = {}
    /\ run = [i \in Imports |-> NewRun("none", None, <<>>, "RUNNING", 0)]
    /\ synced = [c \in Connections |-> None]
    /\ imp = [i \in Imports |-> NewCall("idle")]

-----------------------------------------------------------------------------
(***************************************************************************)
(* One import.                                                             *)
(***************************************************************************)
Current(i) == run[i].batch[imp[i].at]

\* What the call does to its local variables: s more successes, f more failures.
Locals(i, pc, at, found, code, s, f) ==
    imp' = [imp EXCEPT ![i] =
              [pc |-> pc, at |-> at, skus |-> found, code |-> code,
               success |-> imp[i].success + s, failed |-> imp[i].failed + f]]
Go(i, pc, code, s, f) == Locals(i, pc, imp[i].at, imp[i].skus, code, s, f)

\* The sync run is created RUNNING before the first payload is looked at.
Start(i) ==
    /\ imp[i].pc = "idle"
    /\ \E c \in Connections, b \in Batches :
          run' = [run EXCEPT ![i] = NewRun("import", c, b, "RUNNING", 0)]
    /\ imp' = [imp EXCEPT ![i] = NewCall("check")]
    /\ UNCHANGED <<orders, synced, catalog>>

Imported(c, ext) == \E o \in orders : o.conn = c /\ o.ext = ext

FindDuplicate(i) ==
    /\ imp[i].pc = "check"
    /\ IF Imported(run[i].conn, Current(i).ext)
       THEN Go(i, "log", "DUPLICATE_ORDER", 0, 1)
       ELSE Go(i, "map", "SUCCESS", 0, 0)
    /\ UNCHANGED tables

Resolved(c, names) == {s \in skus : mapping[c][s] \in names}

Unresolved_AnyMapped(c, names) == IF Resolved(c, names) = {} THEN names ELSE {}
Unresolved(c, names) == names \ {mapping[c][s] : s \in skus}

ResolveSkus(i) ==
    /\ imp[i].pc = "map"
    /\ LET c == run[i].conn  names == Current(i).skus IN
       IF Unresolved(c, names) # {}
       THEN Go(i, "log", "UNMAPPED_SKU", 0, 1)
       ELSE Locals(i, "create", imp[i].at, Resolved(c, names), "SUCCESS", 0, 0)
    /\ UNCHANGED tables

NewOrder(i) ==
    [conn |-> run[i].conn, ext |-> Current(i).ext, no |-> Current(i).no,
     skus |-> imp[i].skus, run |-> i, at |-> imp[i].at]

\* The two unique indexes of Order and the foreign key of OrderItem.
Accepts_NoExternalIndex(o) == (\A p \in orders : p.no # o.no) /\ o.skus \subseteq skus

Accepts(o) ==
    /\ \A p \in orders : p.no # o.no /\ ~(p.conn = o.conn /\ p.ext = o.ext)
    /\ o.skus \subseteq skus

\* What an exception in the try block leads to.
Throw_TakesBackSuccess(i) == Go(i, "caught", "IMPORT_ERROR", -1, 1)
Throw(i) == Go(i, "caught", "IMPORT_ERROR", 0, 1)

CreateOrder_Uncounted(i) ==
    /\ imp[i].pc = "create"
    /\ IF Accepts(NewOrder(i))
       THEN orders' = orders \cup {NewOrder(i)} /\ Go(i, "log", "SUCCESS", 0, 0)
       ELSE UNCHANGED orders /\ Throw(i)
    /\ UNCHANGED <<run, synced, catalog>>

CreateOrder_LogsConflictAsSuccess(i) ==
    /\ imp[i].pc = "create"
    /\ orders' = IF Accepts(NewOrder(i)) THEN orders \cup {NewOrder(i)} ELSE orders
    /\ Go(i, "log", "SUCCESS", 1, 0)
    /\ UNCHANGED <<run, synced, catalog>>

CreateOrder_RetriesConflict(i) ==
    /\ imp[i].pc = "create"
    /\ Accepts(NewOrder(i))
    /\ orders' = orders \cup {NewOrder(i)}
    /\ Go(i, "log", "SUCCESS", 1, 0)
    /\ UNCHANGED <<run, synced, catalog>>

CreateOrder(i) ==
    /\ imp[i].pc = "create"
    /\ IF Accepts(NewOrder(i))
       THEN orders' = orders \cup {NewOrder(i)} /\ Go(i, "log", "SUCCESS", 1, 0)
       ELSE UNCHANGED orders /\ Throw(i)
    /\ UNCHANGED <<run, synced, catalog>>

SetRun(i, status, success, failed, logs) ==
    run' = [run EXCEPT ![i] =
              [kind |-> @.kind, conn |-> @.conn, batch |-> @.batch, status |-> status,
               success |-> success, failed |-> failed, logs |-> logs]]

Logged(i) ==
    SetRun(i, run[i].status, run[i].success, run[i].failed,
           Append(run[i].logs, [ext |-> Current(i).ext, code |-> imp[i].code]))

NextPayload(i) ==
    LET pc == IF imp[i].at < Len(run[i].batch) THEN "check" ELSE "finish"
    IN  Locals(i, pc, imp[i].at + 1, {}, "SUCCESS", 0, 0)

WriteLog_OneRowPerRun(i) ==
    /\ imp[i].pc \in {"log", "caught"}
    /\ IF run[i].logs = <<>> THEN Logged(i) ELSE UNCHANGED run
    /\ NextPayload(i)
    /\ UNCHANGED <<orders, synced, catalog>>

WriteLog(i) ==
    /\ imp[i].pc \in {"log", "caught"}
    /\ Logged(i)
    /\ NextPayload(i)
    /\ UNCHANGED <<orders, synced, catalog>>

Finish_AnyFailure(i) ==
    /\ imp[i].pc = "finish"
    /\ SetRun(i, IF imp[i].failed > 0 THEN "FAILED" ELSE "COMPLETED",
              imp[i].success, imp[i].failed, run[i].logs)
    /\ Go(i, "touch", "SUCCESS", 0, 0)
    /\ UNCHANGED <<orders, synced, catalog>>

Finish(i) ==
    /\ imp[i].pc = "finish"
    /\ SetRun(i, IF imp[i].failed > 0 /\ imp[i].success = 0 THEN "FAILED" ELSE "COMPLETED",
              imp[i].success, imp[i].failed, run[i].logs)
    /\ Go(i, "touch", "SUCCESS", 0, 0)
    /\ UNCHANGED <<orders, synced, catalog>>

Touch_BeforeFinish(i) ==
    /\ imp[i].pc \in {"finish", "touch"}
    /\ synced' = [synced EXCEPT ![run[i].conn] = i]
    /\ imp' = [imp EXCEPT ![i].pc = IF @ = "touch" THEN "done" ELSE @]
    /\ UNCHANGED <<orders, run, catalog>>

Touch(i) ==
    /\ imp[i].pc = "touch"
    /\ synced' = [synced EXCEPT ![run[i].conn] = i]
    /\ Go(i, "done", "SUCCESS", 0, 0)
    /\ UNCHANGED <<orders, run, catalog>>

\* A webhook of a topic other than orders/ is only noted, as a run of one item.  Its log
\* row names the topic and no order, and is left out.
RecordEvent(i) ==
    /\ imp[i].pc = "idle"
    /\ \E c \in Connections : run' = [run EXCEPT ![i] = NewRun("event", c, <<>>, "COMPLETED", 1)]
    /\ imp' = [imp EXCEPT ![i] = NewCall("touch")]
    /\ UNCHANGED <<orders, synced, catalog>>

-----------------------------------------------------------------------------
(***************************************************************************)
(* Failures: a statement that has no effect, one whose answer is lost, and *)
(* an exception nobody catches or the end of the process, after which the  *)
(* call does nothing more.                                                 *)
(***************************************************************************)
Fail(i) ==
    /\ Faults /\ imp[i].pc \in {"check", "map", "create", "log"}
    /\ Throw(i)
    /\ UNCHANGED tables

LoseAnswer(i) ==
    /\ Faults
    /\ \/ /\ imp[i].pc = "create" /\ Accepts(NewOrder(i))
          /\ orders' = orders \cup {NewOrder(i)} /\ UNCHANGED run
       \/ imp[i].pc = "log" /\ Logged(i) /\ UNCHANGED orders
    /\ Throw(i)
    /\ UNCHANGED <<synced, catalog>>

Stop(i) ==
    /\ Faults /\ imp[i].pc \notin {"idle", "done", "lost"}
    /\ Go(i, "lost", "SUCCESS", 0, 0)
    /\ UNCHANGED tables

-----------------------------------------------------------------------------
(***************************************************************************)
(* The catalogue under the imports.                                        *)
(***************************************************************************)
\* An upsert by (connection, sku); a name that another SKU has is EXTERNAL_SKU_EXISTS.
MapSku(c, s, x) ==
    /\ s \in skus /\ \A t \in Skus \ {s} : mapping[c][t] # x
    /\ mapping' = [mapping EXCEPT ![c][s] = x]
    /\ UNCHANGED <<orders, skus, unused, run, synced, imp>>

InOrders(s) == \E o \in orders : s \in o.skus

FindUnused(s) ==
    /\ s \in Deletable \cap skus /\ ~InOrders(s)
    /\ unused' = unused \cup {s}
    /\ UNCHANGED <<orders, mapping, skus, run, synced, imp>>

\* The foreign key of OrderItem stops a deletion that an import has overtaken.
DeleteSku(s) ==
    /\ s \in unused
    /\ unused' = unused \ {s}
    /\ IF InOrders(s) THEN UNCHANGED <<skus, mapping>>
       ELSE /\ skus' = skus \ {s}
            /\ mapping' = [c \in Connections |-> [mapping[c] EXCEPT ![s] = None]]
    /\ UNCHANGED <<orders, run, synced, imp>>

Progress(i) ==
    FindDuplicate(i) \/ ResolveSkus(i) \/ CreateOrder(i) \/ WriteLog(i) \/ Finish(i) \/ Touch(i)

Catalog ==
    \/ \E m \in Remaps : MapSku(m[1], m[2], m[3])
    \/ \E s \in Deletable : FindUnused(s) \/ DeleteSku(s)

Next ==
    \/ \E i \in Imports : \/ Start(i) \/ RecordEvent(i) \/ Progress(i)
                          \/ Fail(i) \/ LoseAnswer(i) \/ Stop(i)
    \/ Catalog

Spec == Init /\ [][Next]_vars

\* The event loop runs a call on whenever the statement it awaits has returned.
FairSpec == Spec /\ \A i \in Imports : WF_vars(Progress(i))
-----------------------------------------------------------------------------
(***************************************************************************)
(* Properties.                                                             *)
(***************************************************************************)
\* Tables and local variables keep their types.
TypeOK ==
    /\ orders \subseteq Order
    /\ mapping \in [Connections -> [Skus -> ExternalSkus \cup {None}]]
    /\ skus \subseteq Skus /\ unused \subseteq Deletable
    /\ run \in [Imports -> Run]
    /\ synced \in [Connections -> Imports \cup {None}]
    /\ imp \in [Imports -> Call]

\* An external order becomes at most one order, however often and however concurrently
\* it is submitted, within a batch, by several calls or after a call that broke off.
ExternalOrderOnce ==
    \A o, p \in orders :
        (o.conn = p.conn /\ o.ext = p.ext) \/ o.no = p.no => o = p

\* Every imported order has one line for every external SKU of its payload, and every
\* line is about a SKU that exists, although mappings and SKUs change meanwhile.
OrdersAreWhole ==
    \A o \in orders :
        /\ o.skus \subseteq skus
        /\ Cardinality(o.skus) = Cardinality(run[o.run].batch[o.at].skus)

Made(i) == {o \in orders : o.run = i}
Ended(i) == run[i].kind = "import" /\ run[i].status # "RUNNING"

\* What an ended run reports adds up: it never claims an order it did not create, no
\* payload and no order goes uncounted, and FAILED means that it imported nothing it
\* knows of.  Without failing statements the two counters are exact.
RunsAddUp ==
    \A i \in Imports : Ended(i) =>
        LET r == run[i]  made == Cardinality(Made(i))  total == Len(r.batch) IN
        /\ r.success <= made /\ made <= r.success + r.failed /\ total <= r.success + r.failed
        /\ r.status = "FAILED" <=> r.success = 0
        /\ ~Faults => r.success = made /\ r.success + r.failed = total

\* A log row that says SUCCESS or DUPLICATE_ORDER is backed by the order: the run's own
\* in the first case, one that was there before it in the second.
LogsTellTheTruth ==
    \A i \in Imports : \A n \in 1 .. Len(run[i].logs) :
        LET l == run[i].logs[n] IN
        /\ l.code = "SUCCESS" => \E o \in Made(i) : o.ext = l.ext
        /\ l.code = "DUPLICATE_ORDER" => Imported(run[i].conn, l.ext)

\* No payload of an ended run is passed over in silence: an external order has at least
\* as many log rows as payloads, also when the batch names it twice.
EveryPayloadLogged ==
    \A i \in Imports : Ended(i) =>
        \A e \in Externals :
            Cardinality({n \in 1 .. Len(run[i].batch) : run[i].batch[n].ext = e})
                <= Cardinality({k \in 1 .. Len(run[i].logs) : run[i].logs[k].ext = e})

\* A connection counts as synced only by a run that has ended.
SyncedByEndedRun ==
    \A c \in Connections : synced[c] # None => run[synced[c]].status # "RUNNING"

\* Every run ends, unless its process stops: no payload holds the others up.
EveryRunEnds ==
    \A i \in Imports : run[i].kind = "import" ~> run[i].status # "RUNNING" \/ imp[i].pc = "lost"

\* A payload whose external order another call has imported is logged as a duplicate.
ResubmissionIsDuplicate ==
    [][\A i \in Imports :
          Len(run'[i].logs) > Len(run[i].logs) =>
              LET l == run'[i].logs[Len(run'[i].logs)] IN
              (\E o \in orders : o.conn = run[i].conn /\ o.ext = l.ext /\ o.run # i)
                  => l.code = "DUPLICATE_ORDER"]_vars
=============================================================================
