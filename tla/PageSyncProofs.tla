---------------------------- MODULE PageSyncProofs ----------------------------
(***************************************************************************)
(* Proofs about PageSync, for every set of devices, tabs and updates and   *)
(* every value of the limits: the devices lose nothing, believe nothing of *)
(* the server that is not so, and share one page.                          *)
(***************************************************************************)
EXTENDS PageSync, PageOperationLogProofs

-----------------------------------------------------------------------------
(* What serving a request does to the log, as its device will hear of it.   *)

\* The document grows by updates of the request, and by all it did not hold.
LEMMA BatchImported ==
    ASSUME rows \in Seq(Row), NEW r \in Request, NEW p \in Plans(r)
    PROVE  LET log == AppendBatch(r, p.order)
           IN  /\ Document \subseteq Prefix(log, Len(log))
               /\ Ids(r) \subseteq Prefix(log, Len(log))
               /\ Prefix(log, Len(log)) \subseteq Document \cup Ids(r)
<1> DEFINE log == AppendBatch(r, p.order)
           new == {r.updates[p.order[m]].id : m \in 1 .. Len(p.order)}
<1>1. p.order \in ImportOrders(r)
  BY PlanFacts
<1>2. /\ p.order \in Seq(1 .. Len(r.updates))
      /\ \A k \in 1 .. Len(p.order) : p.order[k] \in NewIndexes(r)
      /\ IsImportOrder(r, p.order)
  BY <1>1, OrderType
<1>3. DOMAIN p.order = 1 .. Len(p.order) /\ Len(p.order) \in Nat
  BY <1>2
<1>4. Len(log) = Len(rows) + Len(p.order)
  BY <1>1, AppendBatchType
<1>5. Prefix(log, Len(log)) = Document \cup new
  <2>1. \A k \in 0 .. Len(p.order) :
           Prefix(log, Len(rows) + k)
               = Document \cup {r.updates[p.order[m]].id : m \in 1 .. k}
    BY <1>1, PrefixAppended
  <2>2. Len(p.order) \in 0 .. Len(p.order)
    BY <1>3
  <2> QED
    BY <1>4, <2>1, <2>2, Zenon
<1>6. new \subseteq Ids(r)
  BY <1>2 DEF NewIndexes, Ids
<1>7. Ids(r) \subseteq Document \cup new
  <2> SUFFICES ASSUME NEW i \in DOMAIN r.updates, r.updates[i].id \notin Document
               PROVE  r.updates[i].id \in new
    BY DEF Ids
  <2>1. i \in NewIndexes(r)
    BY DEF NewIndexes
  <2>2. PICK k \in DOMAIN p.order : p.order[k] = i
    BY <1>2, <2>1 DEF IsImportOrder
  <2> QED
    BY <1>3, <2>2
<1> HIDE DEF log, new
<1> QED
  BY <1>5, <1>6, <1>7 DEF log

\* What an answer says of a log, from the moment it is given.
AnswerHeld(log, a) ==
    /\ a.through \in Nat
    /\ a.through <= Len(log)
    /\ Prefix(log, a.through) \subseteq a.document
    /\ a.document \subseteq Prefix(log, Len(log))
    /\ DOMAIN a.acknowledged \subseteq Prefix(log, Len(log))
    /\ \A u \in a.remote : u.id \in Prefix(log, Len(log))
    /\ a.ambiguities \subseteq SUBSET Update

LEMMA RemoteIsLogged ==
    ASSUME rows \in Seq(Row), NEW r \in Request, NEW p \in Plans(r)
    PROVE  LET log == AppendBatch(r, p.order)
           IN  /\ p.through \in 0 .. Len(log)
               /\ Len(log) \in Nat
               /\ \A u \in Response(r, p).remote : u.id \in Prefix(log, Len(log))
<1> DEFINE log == AppendBatch(r, p.order)
<1>1. PICK order \in ImportOrders(r) : p \in PlansFor(r, order)
  BY DEF Plans
<1>2. /\ p.order = order
      /\ p.confirmed \in 0 .. Len(log)
      /\ p.through \in 0 .. Len(log)
  BY <1>1 DEF PlansFor
<1>3. Len(log) \in Nat
  BY <1>1, <1>2, AppendBatchType
<1> HIDE DEF log
<1>4. Sendable(log, r, p.confirmed) \subseteq 1 .. Len(log)
  <2>1. WindowEnd(log, p.confirmed) <= Len(log) /\ WindowEnd(log, p.confirmed) \in Nat
    BY <1>2, <1>3, LimitsAssumption DEF WindowEnd
  <2> QED
    BY <1>2, <1>3, <2>1 DEF Sendable, NeedPayload
<1>5. Response(r, p).remote =
         {[id |-> log[n].id, base |-> log[n].base] :
             n \in {m \in Sendable(log, r, p.confirmed) : m <= p.through}}
  BY DEF Response, log
<1>6. \A u \in Response(r, p).remote : u.id \in Prefix(log, Len(log))
  BY <1>4, <1>5 DEF Prefix
<1> QED
  BY <1>2, <1>3, <1>6 DEF log

LEMMA AnswerFacts ==
    ASSUME TypeOK, TypeOK', NEW r \in Request, NEW p \in Plans(r), SyncBy(r, p)
    PROVE  /\ AnswerHeld(rows', Answered(r, p))
           /\ Document \subseteq Document'
           /\ Document' \subseteq Document \cup Ids(r)
<1> DEFINE log == AppendBatch(r, p.order)
<1>1. rows \in Seq(Row)
  BY DEF TypeOK
<1>2. rows' = log
  BY DEF SyncBy, SyncWrites
<1>3. Document' = Prefix(log, Len(log))
  BY <1>2 DEF Document
<1>4. /\ p.through \in 0 .. Len(log)
      /\ Len(log) \in Nat
      /\ \A u \in Response(r, p).remote : u.id \in Prefix(log, Len(log))
  BY <1>1, RemoteIsLogged
<1>5. /\ Document \subseteq Prefix(log, Len(log))
      /\ Ids(r) \subseteq Prefix(log, Len(log))
      /\ Prefix(log, Len(log)) \subseteq Document \cup Ids(r)
  BY <1>1, BatchImported
<1>6. /\ Response(r, p).document = Prefix(log, Len(log))
      /\ Response(r, p).through = p.through
      /\ DOMAIN Response(r, p).acknowledged = Ids(r)
  BY DEF Response
<1> HIDE DEF log
<1>7. Prefix(log, p.through) \subseteq Prefix(log, Len(log))
  BY <1>4, PrefixGrows
<1>8. OpenAmbiguities(ambiguities') \subseteq SUBSET Update
  BY DEF TypeOK, Ambiguity, Frontier, OpenAmbiguities
<1> QED
  BY <1>2, <1>3, <1>4, <1>5, <1>6, <1>7, <1>8 DEF AnswerHeld, Answered

-----------------------------------------------------------------------------
(* The inductive invariant.                                                *)

\* A request a device has made tells only of what it wrote, out of its store.
RequestHeld(d, r) ==
    /\ r \in Request
    /\ r.device = d
    /\ Ids(r) \subseteq Writes[d] \cap durable[d].version

\* The store of a device.  What it wrote is in the log only after its store,
\* and what is in its store but not in the log is queued.
StoreHeld(d) ==
    /\ durable[d] \in Replica!State
    /\ Queued(d) \subseteq Writes[d] \cap durable[d].version
    /\ \A u \in Queued(d) : "base" \in DOMAIN queue[d][u] /\ queue[d][u].base \subseteq Update
    /\ durable[d].version \subseteq Document \cup Queued(d)
    /\ Writes[d] \cap Document \subseteq durable[d].version
    /\ durable[d].cursor <= Len(rows)
    /\ Prefix(rows, durable[d].cursor) \subseteq durable[d].version
    /\ durable[d].server \subseteq Document \cap durable[d].version

ExchangeHeld(d) ==
    /\ exchange[d].stage # "idle" => RequestHeld(d, exchange[d].request)
    /\ exchange[d].stage = "answered" => AnswerHeld(rows, exchange[d].response)

LateHeld(d) == late[d] # None => RequestHeld(d, late[d].request)

DeviceHeld(d) == StoreHeld(d) /\ ExchangeHeld(d) /\ LateHeld(d)

DomainsHeld ==
    /\ DOMAIN durable = Device
    /\ DOMAIN queue = Device
    /\ DOMAIN exchange = Device
    /\ DOMAIN late = Device
    /\ DOMAIN tabs = Tab

SyncInvariant ==
    /\ TypeOK
    /\ DomainsHeld
    /\ \A d \in Device : DeviceHeld(d)
    /\ VisibleIsDurable

LEMMA SyncInvariantInit == SyncInit => SyncInvariant
<1> SUFFICES ASSUME SyncInit PROVE SyncInvariant
  OBVIOUS
<1>1. TypeOK
  BY TypeInit DEF SyncInit
<1>2. DomainsHeld
  BY DEF SyncInit, Replica!Init, DomainsHeld
<1>3. Len(rows) = 0 /\ Prefix(rows, 0) = {} /\ Document = {}
  BY DEF SyncInit, Init, Document, Prefix
<1>4. ASSUME NEW d \in Device
      PROVE  DeviceHeld(d)
  <2>1. durable[d] = [version |-> {}, cursor |-> 0, server |-> {}, ambiguities |-> {}]
    BY DEF SyncInit, Replica!Init
  <2>2. Queued(d) = {}
    BY DEF SyncInit, Replica!Init, Queued, Replica!Queued
  <2>3. StoreHeld(d)
    BY <1>3, <2>1, <2>2 DEF StoreHeld, Replica!State
  <2>4. exchange[d].stage = "idle" /\ late[d] = None
    BY DEF SyncInit, Replica!Init, Replica!Idle
  <2> QED
    BY <2>3, <2>4 DEF DeviceHeld, ExchangeHeld, LateHeld
<1>5. VisibleIsDurable
  BY DEF SyncInit, Replica!Init, VisibleIsDurable
<1> QED
  BY <1>1, <1>2, <1>4, <1>5 DEF SyncInvariant

-----------------------------------------------------------------------------
(* What a step leaves alone.                                               *)

\* The log only grows, whoever takes the step.
LogGrows ==
    /\ Len(rows) \in Nat /\ Len(rows') \in Nat
    /\ Len(rows) <= Len(rows')
    /\ \A n \in 0 .. Len(rows) : Prefix(rows', n) = Prefix(rows, n)
    /\ Document \subseteq Document'

LEMMA LogGrowsStep == TypeOK /\ LogStep => LogGrows
<1> SUFFICES ASSUME TypeOK, LogStep PROVE LogGrows
  OBVIOUS
<1>1. RowsKept /\ TypeOK'
  BY RowsKeptStep, TypeStep
<1>2. rows \in Seq(Row) /\ rows' \in Seq(Row)
  BY <1>1 DEF TypeOK
<1>3. /\ Len(rows) \in Nat /\ Len(rows') \in Nat
      /\ Len(rows) <= Len(rows') /\ DOMAIN rows = 1 .. Len(rows)
  BY <1>1, <1>2 DEF RowsKept
<1>4. \A m \in 1 .. Len(rows) : rows'[m].id = rows[m].id
  <2> TAKE m \in 1 .. Len(rows)
  <2>1. rows[m] \in Row
    BY <1>2
  <2>2. rows'[m] = rows[m] \/ rows'[m] = [rows[m] EXCEPT !.compacted = TRUE]
    BY <1>1, <1>3 DEF RowsKept
  <2> QED
    BY <2>1, <2>2 DEF Row
<1>5. \A n \in 0 .. Len(rows) : Prefix(rows', n) = Prefix(rows, n)
  BY <1>3, <1>4, PrefixKept
<1>6. Prefix(rows', Len(rows)) \subseteq Prefix(rows', Len(rows'))
  BY <1>3, PrefixGrows
<1> QED
  BY <1>3, <1>5, <1>6 DEF LogGrows, Document

LEMMA RequestKept ==
    ASSUME NEW d \in Device, NEW r, RequestHeld(d, r),
           durable[d].version \subseteq durable'[d].version
    PROVE  RequestHeld(d, r)'
BY DEF RequestHeld

LEMMA AnswerKept ==
    ASSUME LogGrows, NEW a, AnswerHeld(rows, a)
    PROVE  AnswerHeld(rows', a)
<1>1. a.through \in 0 .. Len(rows)
  BY DEF AnswerHeld, LogGrows
<1>2. Prefix(rows', a.through) = Prefix(rows, a.through)
  BY <1>1 DEF LogGrows
<1>3. Prefix(rows, Len(rows)) \subseteq Prefix(rows', Len(rows'))
  BY DEF LogGrows, Document
<1>4. a.through <= Len(rows')
  BY <1>1 DEF LogGrows
<1> QED
  BY <1>2, <1>3, <1>4 DEF AnswerHeld

\* A store that is not written, up to the status and the order of its rows.
LEMMA StoreKept ==
    ASSUME LogGrows, NEW d \in Device, StoreHeld(d), durable'[d] = durable[d],
           Queued(d)' = Queued(d),
           \A u \in Queued(d) : /\ "base" \in DOMAIN queue'[d][u]
                                /\ queue'[d][u].base = queue[d][u].base,
           Writes[d] \cap Document' \subseteq durable[d].version
    PROVE  StoreHeld(d)'
<1>1. durable[d].cursor \in Nat
  BY DEF StoreHeld, Replica!State
<1>2. durable[d].cursor \in 0 .. Len(rows)
  BY <1>1 DEF StoreHeld, LogGrows
<1>3. Prefix(rows', durable[d].cursor) = Prefix(rows, durable[d].cursor)
  BY <1>2 DEF LogGrows
<1>4. durable[d].cursor <= Len(rows')
  BY <1>2 DEF LogGrows
<1>5. Document \subseteq Document'
  BY DEF LogGrows
<1> QED
  BY <1>3, <1>4, <1>5 DEF StoreHeld

LEMMA ExchangeKept ==
    ASSUME LogGrows, NEW d \in Device, ExchangeHeld(d), exchange'[d] = exchange[d],
           durable[d].version \subseteq durable'[d].version
    PROVE  ExchangeHeld(d)'
<1>1. exchange[d].stage # "idle" => RequestHeld(d, exchange[d].request)'
  BY RequestKept DEF ExchangeHeld
<1>2. exchange[d].stage = "answered" => AnswerHeld(rows', exchange[d].response)
  BY AnswerKept DEF ExchangeHeld
<1> QED
  BY <1>1, <1>2 DEF ExchangeHeld, RequestHeld

LEMMA LateKept ==
    ASSUME NEW d \in Device, LateHeld(d), late'[d] = late[d],
           durable[d].version \subseteq durable'[d].version
    PROVE  LateHeld(d)'
<1>1. late[d] # None => RequestHeld(d, late[d].request)'
  BY RequestKept DEF LateHeld
<1> QED
  BY <1>1 DEF LateHeld, RequestHeld, None

LEMMA LogUntouched ==
    ASSUME TypeOK, UNCHANGED vars
    PROVE  TypeOK' /\ LogGrows /\ rows' = rows /\ Document' = Document
<1>1. LogStep
  BY DEF LogStep
<1> QED
  BY <1>1, TypeStep, LogGrowsStep DEF vars, Document

\* A device that takes no part in a step.
LEMMA DeviceKept ==
    ASSUME LogGrows, NEW d \in Device, DeviceHeld(d), durable'[d] = durable[d],
           queue'[d] = queue[d], exchange'[d] = exchange[d], late'[d] = late[d],
           Writes[d] \cap Document' \subseteq durable[d].version
    PROVE  DeviceHeld(d)'
<1>1. Queued(d)' = Queued(d)
  BY DEF Queued, Replica!Queued
<1>2. StoreHeld(d)'
  BY <1>1, StoreKept DEF DeviceHeld, StoreHeld
<1>3. ExchangeHeld(d)' /\ LateHeld(d)'
  BY ExchangeKept, LateKept DEF DeviceHeld
<1> QED
  BY <1>2, <1>3 DEF DeviceHeld

\* A device whose rows only change their status.
LEMMA StatusKept ==
    ASSUME DomainsHeld, NEW d \in Device, StoreHeld(d), NEW status,
           queue' = Replica!WithStatus(d, status)
    PROVE  /\ DOMAIN queue' = Device
           /\ \A e \in Device \ {d} : queue'[e] = queue[e]
           /\ Queued(d)' = Queued(d)
           /\ \A u \in Queued(d) : /\ "base" \in DOMAIN queue'[d][u]
                                   /\ queue'[d][u].base = queue[d][u].base
<1>1. /\ DOMAIN queue' = Device
      /\ \A e \in Device \ {d} : queue'[e] = queue[e]
      /\ queue'[d] = [u \in Queued(d) |-> [queue[d][u] EXCEPT !.status = status[u]]]
  BY DEF Replica!WithStatus, Queued, DomainsHeld
<1>2. Queued(d)' = Queued(d)
  BY <1>1 DEF Queued, Replica!Queued
<1>3. ASSUME NEW u \in Queued(d)
      PROVE  /\ "base" \in DOMAIN queue'[d][u]
             /\ queue'[d][u].base = queue[d][u].base
  <2>1. queue'[d][u] = [queue[d][u] EXCEPT !.status = status[u]]
    BY <1>1
  <2>2. "base" \in DOMAIN queue[d][u]
    BY DEF StoreHeld
  <2> QED
    BY <2>1, <2>2
<1> QED
  BY <1>1, <1>2, <1>3

\* The request of an exchange that ends without an answer.
LEMMA AbandonedHeld ==
    ASSUME DomainsHeld, NEW d \in Device, DeviceHeld(d), late' \in Abandoned(d),
           durable'[d] = durable[d]
    PROVE  /\ DOMAIN late' = Device
           /\ \A e \in Device \ {d} : late'[e] = late[e]
           /\ LateHeld(d)'
<1>1. CASE late' = late
  BY <1>1, LateKept DEF DomainsHeld, DeviceHeld
<1>2. CASE /\ late' = [late EXCEPT ![d] = OnItsWay(exchange[d].request)]
           /\ exchange[d].stage = "waiting"
  <2>1. /\ DOMAIN late' = Device
        /\ \A e \in Device \ {d} : late'[e] = late[e]
        /\ late'[d] = OnItsWay(exchange[d].request)
    BY <1>2 DEF DomainsHeld
  <2>2. RequestHeld(d, exchange[d].request)
    BY <1>2 DEF DeviceHeld, ExchangeHeld
  <2>3. late'[d].request = exchange[d].request
    BY <2>1 DEF OnItsWay
  <2> QED
    BY <2>1, <2>2, <2>3 DEF LateHeld, RequestHeld
<1> QED
  BY <1>1, <1>2 DEF Abandoned

-----------------------------------------------------------------------------
(* The steps of a device.                                                  *)

LEMMA EditKeeps ==
    ASSUME SyncInvariant, NEW t \in Tab, NEW u \in Update, Edit(t, u)
    PROVE  SyncInvariant'
<1> DEFINE d == Owner[t]
<1>1. d \in Device
  BY SyncAssumption
<1>2. TypeOK' /\ LogGrows /\ rows' = rows /\ Document' = Document
  BY LogUntouched DEF SyncInvariant, Edit
<1>3. PICK adopts \in BOOLEAN : Replica!EditWrites(t, u, adopts)
  BY DEF Edit, Replica!Edit
<1>4. /\ u \in Writes[d]
      /\ tabs[t].visible \subseteq durable[d].version
      /\ late' = late
  BY DEF Edit, Replica!Edit
<1> HIDE DEF d
<1>5. /\ durable' = [durable EXCEPT ![d].version = durable[d].version \cup {u}]
      /\ queue' = [queue EXCEPT ![d] =
              [v \in Queued(d) \cup {u} |-> IF v = u THEN Replica!NewRow(t) ELSE queue[d][v]]]
      /\ exchange' = exchange
      /\ tabs' = [tabs EXCEPT ![t] =
              [visible |-> IF adopts THEN durable[d].version \cup {u} ELSE @.visible \cup {u},
               next |-> @.next + 1]]
  BY <1>3 DEF Replica!EditWrites, Queued, d
<1>6. DomainsHeld'
  BY <1>4, <1>5 DEF SyncInvariant, DomainsHeld
<1>7. DeviceHeld(d) /\ DomainsHeld
  BY <1>1 DEF SyncInvariant
<1>8. /\ durable'[d] = [durable[d] EXCEPT !.version = durable[d].version \cup {u}]
      /\ queue'[d] = [v \in Queued(d) \cup {u} |->
                         IF v = u THEN Replica!NewRow(t) ELSE queue[d][v]]
      /\ \A e \in Device \ {d} : durable'[e] = durable[e] /\ queue'[e] = queue[e]
  BY <1>1, <1>5, <1>7 DEF DomainsHeld
<1>9. StoreHeld(d) /\ durable[d] \in Replica!State
  BY <1>7 DEF DeviceHeld, StoreHeld
<1>10. /\ durable'[d] \in Replica!State
       /\ durable'[d].version = durable[d].version \cup {u}
       /\ durable'[d].cursor = durable[d].cursor
       /\ durable'[d].server = durable[d].server
  BY <1>8, <1>9 DEF Replica!State
<1>11. Queued(d)' = Queued(d) \cup {u}
  BY <1>8 DEF Queued, Replica!Queued
<1>12. ASSUME NEW v \in Queued(d)'
       PROVE  "base" \in DOMAIN queue'[d][v] /\ queue'[d][v].base \subseteq Update
  <2>1. CASE v = u
    <3>1. queue'[d][v] = Replica!NewRow(t)
      BY <1>8, <2>1
    <3>2. tabs[t].visible \subseteq Update
      BY <1>4, <1>9 DEF Replica!State
    <3> QED
      BY <3>1, <3>2 DEF Replica!NewRow
  <2>2. CASE v # u
    BY <1>8, <1>9, <1>11, <2>2 DEF StoreHeld
  <2> QED
    BY <2>1, <2>2
<1>13. StoreHeld(d)'
  BY <1>2, <1>4, <1>9, <1>10, <1>11, <1>12 DEF StoreHeld
<1>14. ExchangeHeld(d)' /\ LateHeld(d)'
  BY <1>2, <1>1, <1>4, <1>5, <1>7, <1>10, ExchangeKept, LateKept DEF DeviceHeld
<1>15. ASSUME NEW e \in Device, e # d
       PROVE  DeviceHeld(e)'
  <2>1. DeviceHeld(e) /\ Writes[e] \cap Document' \subseteq durable[e].version
    BY <1>2 DEF SyncInvariant, DeviceHeld, StoreHeld
  <2> QED
    BY <1>2, <1>4, <1>5, <1>8, <1>15, <2>1, DeviceKept
<1>16. VisibleIsDurable'
  <2> SUFFICES ASSUME NEW s \in Tab PROVE tabs'[s].visible \subseteq durable'[Owner[s]].version
    BY DEF VisibleIsDurable
  <2>1. Owner[s] \in Device
    BY SyncAssumption
  <2>2. durable[Owner[s]].version \subseteq durable'[Owner[s]].version
    BY <1>8, <1>10, <2>1
  <2>3. CASE s # t
    BY <1>5, <2>2, <2>3 DEF SyncInvariant, DomainsHeld, VisibleIsDurable
  <2>4. CASE s = t
    <3>1. tabs'[t].visible \subseteq durable[d].version \cup {u}
      BY <1>4, <1>5, <1>7 DEF DomainsHeld
    <3> QED
      BY <1>10, <2>4, <3>1 DEF d
  <2> QED
    BY <2>3, <2>4
<1> QED
  BY <1>2, <1>6, <1>13, <1>14, <1>15, <1>16 DEF SyncInvariant, DeviceHeld

LEMMA VisibleKept ==
    ASSUME VisibleIsDurable, tabs' = tabs,
           \A d \in Device : durable[d].version \subseteq durable'[d].version
    PROVE  VisibleIsDurable'
BY SyncAssumption DEF VisibleIsDurable

LEMMA AdoptKeeps ==
    ASSUME SyncInvariant, NEW t \in Tab, Adopt(t)
    PROVE  SyncInvariant'
<1>1. TypeOK' /\ LogGrows /\ Document' = Document
  BY LogUntouched DEF SyncInvariant, Adopt
<1>2. /\ durable' = durable /\ queue' = queue /\ exchange' = exchange /\ late' = late
      /\ \E next : tabs' = [tabs EXCEPT ![t] =
                               [visible |-> durable[Owner[t]].version, next |-> next]]
  BY DEF Adopt, Replica!Adopt
<1>3. \A d \in Device : DeviceHeld(d)'
  BY <1>1, <1>2, DeviceKept DEF SyncInvariant, DeviceHeld, StoreHeld
<1>4. VisibleIsDurable'
  BY <1>2 DEF SyncInvariant, DomainsHeld, VisibleIsDurable
<1>5. DomainsHeld'
  BY <1>2 DEF SyncInvariant, DomainsHeld
<1> QED
  BY <1>1, <1>3, <1>4, <1>5 DEF SyncInvariant

LEMMA ReloadKeeps ==
    ASSUME SyncInvariant, NEW t \in Tab, Reload(t)
    PROVE  SyncInvariant'
<1> DEFINE d == Owner[t]
<1>0. d \in Device
  BY SyncAssumption
<1>1. TypeOK' /\ LogGrows /\ Document' = Document
  BY LogUntouched DEF SyncInvariant, Reload
<1>2. /\ durable' = durable /\ queue' = queue
      /\ exchange' = exchange \/ exchange' = [exchange EXCEPT ![d] = Replica!Idle]
      /\ \E next : tabs' = [tabs EXCEPT ![t] = [visible |-> durable[d].version, next |-> next]]
  BY DEF Reload, Replica!Reload
<1>3. late' \in Abandoned(d)
  BY DEF Reload, Abandoned
<1>4. VisibleIsDurable'
  BY <1>2 DEF SyncInvariant, DomainsHeld, VisibleIsDurable
<1> HIDE DEF d
<1>5. DeviceHeld(d) /\ DomainsHeld
  BY <1>0 DEF SyncInvariant
<1>6. /\ DOMAIN late' = Device
      /\ \A e \in Device \ {d} : late'[e] = late[e]
      /\ LateHeld(d)'
  BY <1>0, <1>2, <1>3, <1>5, AbandonedHeld
<1>7. /\ DOMAIN exchange' = Device
      /\ \A e \in Device \ {d} : exchange'[e] = exchange[e]
      /\ exchange'[d] = exchange[d] \/ exchange'[d] = Replica!Idle
  BY <1>0, <1>2, <1>5 DEF DomainsHeld
<1>8. DomainsHeld'
  BY <1>2, <1>5, <1>6, <1>7 DEF DomainsHeld
<1>9. ASSUME NEW e \in Device, e # d
      PROVE  DeviceHeld(e)'
  BY <1>1, <1>2, <1>6, <1>7, <1>9, DeviceKept DEF SyncInvariant, DeviceHeld, StoreHeld
<1>10. StoreHeld(d)'
  <2>1. Queued(d)' = Queued(d)
    BY <1>2 DEF Queued, Replica!Queued
  <2> QED
    BY <1>0, <1>1, <1>2, <1>5, <2>1, StoreKept DEF DeviceHeld, StoreHeld
<1>11. ExchangeHeld(d)'
  <2>1. CASE exchange'[d] = exchange[d]
    BY <1>0, <1>1, <1>2, <1>5, <2>1, ExchangeKept DEF DeviceHeld
  <2>2. CASE exchange'[d] = Replica!Idle
    BY <2>2 DEF ExchangeHeld, Replica!Idle
  <2> QED
    BY <1>7, <2>1, <2>2
<1> QED
  BY <1>1, <1>4, <1>6, <1>8, <1>9, <1>10, <1>11 DEF SyncInvariant, DeviceHeld

\* A step that claims or releases the rows of a device and starts or ends its
\* exchange.
LEMMA ClaimKeeps ==
    ASSUME SyncInvariant, NEW d \in Device, NEW status, NEW x,
           UNCHANGED <<vars, durable, tabs>>,
           queue' = Replica!WithStatus(d, status),
           exchange' = [exchange EXCEPT ![d] = x],
           x.stage # "idle" => RequestHeld(d, x.request),
           x.stage # "answered",
           late' \in Abandoned(d)
    PROVE  SyncInvariant'
<1>1. TypeOK' /\ LogGrows /\ Document' = Document
  BY LogUntouched DEF SyncInvariant
<1>2. DeviceHeld(d) /\ DomainsHeld
  BY DEF SyncInvariant
<1>3. /\ DOMAIN late' = Device
      /\ \A e \in Device \ {d} : late'[e] = late[e]
      /\ LateHeld(d)'
  BY <1>2, AbandonedHeld
<1>4. /\ DOMAIN queue' = Device
      /\ \A e \in Device \ {d} : queue'[e] = queue[e]
      /\ Queued(d)' = Queued(d)
      /\ \A u \in Queued(d) : /\ "base" \in DOMAIN queue'[d][u]
                              /\ queue'[d][u].base = queue[d][u].base
  BY <1>2, StatusKept DEF DeviceHeld
<1>5. /\ DOMAIN exchange' = Device
      /\ \A e \in Device \ {d} : exchange'[e] = exchange[e]
      /\ exchange'[d] = x
  BY <1>2 DEF DomainsHeld
<1>6. DomainsHeld'
  BY <1>2, <1>3, <1>4, <1>5 DEF DomainsHeld
<1>7. ASSUME NEW e \in Device, e # d
      PROVE  DeviceHeld(e)'
  BY <1>1, <1>3, <1>4, <1>5, <1>7, DeviceKept DEF SyncInvariant, DeviceHeld, StoreHeld
<1>8. StoreHeld(d)'
  BY <1>1, <1>2, <1>4, StoreKept DEF DeviceHeld, StoreHeld
<1>9. ExchangeHeld(d)'
  BY <1>5 DEF ExchangeHeld, RequestHeld
<1>10. VisibleIsDurable'
  BY VisibleKept DEF SyncInvariant
<1> QED
  BY <1>1, <1>3, <1>6, <1>7, <1>8, <1>9, <1>10 DEF SyncInvariant, DeviceHeld

\* A batch tells of rows of the queue, so of updates in the store.
LEMMA OutgoingHeld ==
    ASSUME NEW d \in Device, StoreHeld(d), NEW batch \in Replica!Batches(d)
    PROVE  RequestHeld(d, Replica!Outgoing(d, batch))
<1> DEFINE row(n) == [id |-> batch[n], base |-> queue[d][batch[n]].base]
           r == Replica!Outgoing(d, batch)
<1>1. PICK k \in 0 .. MaxBatch : batch \in [1 .. k -> Replica!Waiting(d)]
  BY DEF Replica!Batches
<1>2. k \in Nat /\ DOMAIN batch = 1 .. k /\ Len(batch) = k
  BY <1>1, SyncAssumption
<1>3. \A n \in 1 .. k : batch[n] \in Queued(d)
  BY <1>1 DEF Replica!Waiting, Queued
<1>4. /\ Queued(d) \subseteq Update
      /\ durable[d].version \subseteq Update
      /\ Queued(d) \subseteq Writes[d] \cap durable[d].version
      /\ \A u \in Queued(d) : queue[d][u].base \subseteq Update
  BY DEF StoreHeld, Replica!State
<1>5. /\ r.device = d
      /\ r.updates = [n \in 1 .. k |-> row(n)]
      /\ r.persisted = IF batch = << >> THEN durable[d].version
                       ELSE Replica!Result(d, batch[k])
      /\ r = [device |-> r.device, updates |-> r.updates, persisted |-> r.persisted]
  BY <1>2 DEF Replica!Outgoing
<1>6. r.updates \in Seq(Candidate)
  <2>1. \A n \in 1 .. k : row(n) \in Candidate
    BY <1>3, <1>4 DEF Candidate, Frontier
  <2> QED
    BY <1>2, <1>5, <2>1
<1>7. r.persisted \subseteq Update
  <2>1. CASE batch = << >>
    BY <1>4, <1>5, <2>1
  <2>2. CASE batch # << >>
    <3>1. k # 0
      BY <1>1, <2>2
    <3>2. batch[k] \in Queued(d)
      BY <1>2, <1>3, <3>1
    <3> QED
      BY <1>4, <1>5, <2>2, <3>2 DEF Replica!Result
  <2> QED
    BY <2>1, <2>2
<1>8. Ids(r) \subseteq Writes[d] \cap durable[d].version
  BY <1>3, <1>4, <1>5 DEF Ids
<1> HIDE DEF r
<1> QED
  BY <1>5, <1>6, <1>7, <1>8 DEF RequestHeld, Request, Frontier, r

LEMMA SendKeeps ==
    ASSUME SyncInvariant, NEW d \in Device, Send(d)
    PROVE  SyncInvariant'
<1>1. PICK batch \in Replica!Batches(d) :
         /\ \E status : queue' = Replica!WithStatus(d, status)
         /\ exchange' = [exchange EXCEPT ![d] =
                [stage |-> "waiting", request |-> Replica!Outgoing(d, batch)]]
  BY DEF Send, Replica!Send
<1>2. UNCHANGED <<vars, durable, tabs>> /\ late' \in Abandoned(d)
  BY DEF Send, Replica!Send, Abandoned
<1>3. RequestHeld(d, Replica!Outgoing(d, batch))
  BY OutgoingHeld DEF SyncInvariant, DeviceHeld
<1> DEFINE x == [stage |-> "waiting", request |-> Replica!Outgoing(d, batch)]
<1>4. x.stage = "waiting" /\ x.request = Replica!Outgoing(d, batch)
  OBVIOUS
<1>5. exchange' = [exchange EXCEPT ![d] = x]
  BY <1>1
<1> HIDE DEF x
<1> QED
  BY <1>1, <1>2, <1>3, <1>4, <1>5, ClaimKeeps

LEMMA EndKeeps ==
    ASSUME SyncInvariant, NEW d \in Device, NEW s, Replica!EndExchange(d, s),
           UNCHANGED vars, late' \in Abandoned(d)
    PROVE  SyncInvariant'
<1>1. \E status : queue' = Replica!WithStatus(d, status)
  BY DEF Replica!EndExchange
<1>2. exchange' = [exchange EXCEPT ![d] = Replica!Idle] /\ UNCHANGED <<durable, tabs>>
  BY DEF Replica!EndExchange
<1>3. Replica!Idle.stage = "idle"
  BY DEF Replica!Idle
<1> QED
  BY <1>1, <1>2, <1>3, ClaimKeeps

-----------------------------------------------------------------------------
(* The steps of the log.                                                   *)

\* What a request brings to the log was in the store of its author first.
LEMMA WrittenFirst ==
    ASSUME \A d \in Device : DeviceHeld(d), NEW d \in Device, NEW r, RequestHeld(d, r),
           Document' \subseteq Document \cup Ids(r),
           NEW e \in Device
    PROVE  Writes[e] \cap Document' \subseteq durable[e].version
<1>1. /\ Ids(r) \subseteq durable[d].version
      /\ durable[d].version \subseteq Document \cup Queued(d)
      /\ Queued(d) \subseteq Writes[d]
      /\ Writes[e] \cap Document \subseteq durable[e].version
  BY DEF DeviceHeld, StoreHeld, RequestHeld
<1>2. CASE d = e
  BY <1>1, <1>2
<1>3. CASE d # e
  <2>1. Writes[e] \cap Writes[d] = {}
    BY <1>3, SyncAssumption
  <2> QED
    BY <1>1, <2>1
<1> QED
  BY <1>2, <1>3

\* A step that writes the log and at most the exchange of one device.
LEMMA LogStepKeeps ==
    ASSUME SyncInvariant, LogStep, UNCHANGED <<durable, queue, tabs>>,
           DOMAIN exchange' = Device, DOMAIN late' = Device,
           \A e \in Device : Writes[e] \cap Document' \subseteq durable[e].version,
           \A e \in Device : exchange'[e] = exchange[e] \/ ExchangeHeld(e)',
           \A e \in Device : late'[e] = late[e] \/ late'[e] = None
    PROVE  SyncInvariant'
<1>1. TypeOK' /\ LogGrows
  BY TypeStep, LogGrowsStep DEF SyncInvariant
<1>2. ASSUME NEW e \in Device
      PROVE  DeviceHeld(e)'
  <2>1. DeviceHeld(e)
    BY DEF SyncInvariant
  <2>2. Queued(e)' = Queued(e)
    BY DEF Queued, Replica!Queued
  <2>3. StoreHeld(e)'
    BY <1>1, <2>1, <2>2, StoreKept DEF DeviceHeld, StoreHeld
  <2>4. ExchangeHeld(e)'
    BY <1>1, <2>1, ExchangeKept DEF DeviceHeld
  <2>5. CASE late'[e] = late[e]
    BY <2>1, <2>3, <2>4, <2>5, LateKept DEF DeviceHeld
  <2>6. CASE late'[e] = None
    <3>1. LateHeld(e)'
      BY <2>6 DEF LateHeld, None
    <3> QED
      BY <2>3, <2>4, <3>1 DEF DeviceHeld
  <2> QED
    BY <2>5, <2>6
<1>3. VisibleIsDurable'
  BY VisibleKept DEF SyncInvariant
<1>4. DomainsHeld'
  BY DEF SyncInvariant, DomainsHeld
<1> QED
  BY <1>1, <1>2, <1>3, <1>4 DEF SyncInvariant

LEMMA ServeKeeps ==
    ASSUME SyncInvariant, NEW d \in Device, Serve(d)
    PROVE  SyncInvariant'
<1> DEFINE r == exchange[d].request
<1>1. DeviceHeld(d) /\ DomainsHeld /\ TypeOK
  BY DEF SyncInvariant
<1>2. PICK p \in Plans(r) :
         SyncBy(r, p) /\ Replica!Receive(d, Answered(r, p)) /\ UNCHANGED late
  BY DEF Serve
<1>3. RequestHeld(d, r)
  BY <1>1, <1>2 DEF DeviceHeld, ExchangeHeld, Replica!Receive
<1>4. r \in Request /\ LogStep
  BY <1>2, <1>3 DEF RequestHeld, Sync, LogStep
<1>5. AnswerHeld(rows', Answered(r, p)) /\ Document' \subseteq Document \cup Ids(r)
  BY <1>1, <1>2, <1>4, TypeStep, AnswerFacts
<1>6. /\ exchange' = [exchange EXCEPT ![d] =
             [stage |-> "answered", request |-> r, response |-> Answered(r, p)]]
      /\ UNCHANGED <<durable, queue, tabs>>
  BY <1>2 DEF Replica!Receive
<1> HIDE DEF r
<1>7. /\ DOMAIN exchange' = Device
      /\ \A e \in Device \ {d} : exchange'[e] = exchange[e]
      /\ exchange'[d] = [stage |-> "answered", request |-> r, response |-> Answered(r, p)]
  BY <1>1, <1>6 DEF DomainsHeld
<1>8. ExchangeHeld(d)'
  <2>1. exchange'[d].request = r /\ exchange'[d].response = Answered(r, p)
    BY <1>7
  <2>2. RequestHeld(d, exchange[d].request)'
    BY <1>3, <1>6, <2>1 DEF RequestHeld
  <2> QED
    BY <1>5, <2>1, <2>2 DEF ExchangeHeld, RequestHeld
<1>9. \A e \in Device : Writes[e] \cap Document' \subseteq durable[e].version
  BY <1>3, <1>5, WrittenFirst DEF SyncInvariant
<1> QED
  BY <1>1, <1>2, <1>4, <1>6, <1>7, <1>8, <1>9, LogStepKeeps DEF DomainsHeld

LEMMA ServeLateKeeps ==
    ASSUME SyncInvariant, NEW d \in Device, ServeLate(d)
    PROVE  /\ SyncInvariant'
           /\ LogStep
           /\ Document' \subseteq Document \cup durable[d].version
<1> DEFINE r == late[d].request
<1>1. DeviceHeld(d) /\ DomainsHeld /\ TypeOK
  BY DEF SyncInvariant
<1>2. RequestHeld(d, r)
  BY <1>1 DEF ServeLate, DeviceHeld, LateHeld
<1>3. /\ UNCHANGED <<durable, queue, tabs, exchange>>
      /\ late' = [late EXCEPT ![d] = None]
      /\ Sync(r) \/ UNCHANGED vars
  BY DEF ServeLate, replicaVars
<1> HIDE DEF r
<1>4. LogStep
  BY <1>2, <1>3 DEF LogStep, RequestHeld
<1>5. Document' \subseteq Document \cup Ids(r)
  <2>1. CASE Sync(r)
    <3>1. PICK p \in Plans(r) : SyncBy(r, p)
      BY <2>1 DEF Sync
    <3> QED
      BY <1>1, <1>2, <1>4, <3>1, TypeStep, AnswerFacts DEF RequestHeld
  <2>2. CASE UNCHANGED vars
    BY <2>2 DEF vars, Document
  <2> QED
    BY <1>3, <2>1, <2>2
<1>6. \A e \in Device : Writes[e] \cap Document' \subseteq durable[e].version
  BY <1>2, <1>5, WrittenFirst DEF SyncInvariant
<1>7. DOMAIN late' = Device /\ \A e \in Device : late'[e] = late[e] \/ late'[e] = None
  BY <1>1, <1>3 DEF DomainsHeld
<1>8. SyncInvariant'
  BY <1>1, <1>3, <1>4, <1>6, <1>7, LogStepKeeps DEF DomainsHeld
<1> QED
  BY <1>2, <1>4, <1>5, <1>8 DEF RequestHeld

\* What the server does by itself adds at most one update of its own.
LEMMA AuthoredByServer ==
    ASSUME TypeOK, Next
    PROVE  \/ Document' = Document
           \/ \E u \in ServerUpdate \ Document : Document' = Document \cup {u}
<1>0. rows \in Seq(Row) /\ Len(rows) \in Nat /\ DOMAIN rows = 1 .. Len(rows)
  BY DEF TypeOK
<1>1. ASSUME NEW u \in ServerUpdate, NEW d \in Device, ApplyServerCommands(u, d)
      PROVE  u \notin Document /\ Document' = Document \cup {u}
  <2> DEFINE row == [id |-> u, device |-> d, base |-> Document, compacted |-> FALSE]
  <2>1. rows' = Append(rows, row) /\ u \notin Document
    BY <1>1 DEF ApplyServerCommands
  <2>2. row.id = u
    OBVIOUS
  <2> HIDE DEF row
  <2>3. /\ Len(rows') = Len(rows) + 1
        /\ \A m \in 1 .. Len(rows) : rows'[m].id = rows[m].id
        /\ rows'[Len(rows) + 1].id = u
    BY <1>0, <2>1, <2>2
  <2>4. Prefix(rows', Len(rows)) = Prefix(rows, Len(rows))
    <3>1. \A k \in 0 .. Len(rows) : Prefix(rows', k) = Prefix(rows, k)
      BY <1>0, <2>3, PrefixKept
    <3> QED
      BY <1>0, <3>1
  <2>5. Prefix(rows', Len(rows) + 1) = Prefix(rows', Len(rows)) \cup {u}
    BY <1>0, <2>3, PrefixGrows
  <2> QED
    BY <2>1, <2>3, <2>4, <2>5 DEF Document
<1>2. ASSUME NEW c \in DOMAIN checkpoints, Compact(c)
      PROVE  Document' = Document
  <2>1. rows' = [n \in DOMAIN rows |->
                   IF n <= c THEN [rows[n] EXCEPT !.compacted = TRUE] ELSE rows[n]]
    BY <1>2 DEF Compact
  <2>2. Len(rows') = Len(rows)
    BY <1>0, <2>1
  <2>3. \A m \in 1 .. Len(rows) : rows'[m].id = rows[m].id
    <3> TAKE m \in 1 .. Len(rows)
    <3>1. rows[m] \in Row
      BY <1>0
    <3> QED
      BY <1>0, <2>1, <3>1 DEF Row
  <2>4. Prefix(rows', Len(rows)) = Prefix(rows, Len(rows))
    <3>1. \A k \in 0 .. Len(rows) : Prefix(rows', k) = Prefix(rows, k)
      BY <1>0, <2>3, PrefixKept
    <3> QED
      BY <1>0, <3>1
  <2> QED
    BY <2>2, <2>4 DEF Document
<1>3. CASE UNCHANGED rows
  BY <1>3 DEF Document
<1>4. ~ \E r \in Requests : Sync(r)
  BY SyncAssumption
<1> QED
  BY <1>1, <1>2, <1>3, <1>4
  DEF Next, RestoreRevision, ResolveAmbiguity, ConsolidateDue, CreateCandidate,
      VerifiedBackup, VerifyCandidate, CompactionBlocked, RequireDeviceReauthorization,
      Reauthorize, RevokeDevice, Authorize

LEMMA ServerStepKeeps ==
    ASSUME SyncInvariant, ServerStep
    PROVE  SyncInvariant'
<1>1. DomainsHeld /\ TypeOK
  BY DEF SyncInvariant
<1>2. LogStep /\ UNCHANGED <<durable, queue, tabs, exchange, late>>
  BY DEF ServerStep, LogStep, replicaVars
<1>3. Document' \subseteq Document \cup ServerUpdate
  BY <1>1, AuthoredByServer DEF ServerStep
<1>4. ASSUME NEW e \in Device
      PROVE  Writes[e] \cap Document' \subseteq durable[e].version
  <2>1. Writes[e] \cap Document \subseteq durable[e].version
    BY DEF SyncInvariant, DeviceHeld, StoreHeld
  <2>2. Writes[e] \cap ServerUpdate = {}
    BY SyncAssumption
  <2> QED
    BY <1>3, <2>1, <2>2
<1> QED
  BY <1>1, <1>2, <1>4, LogStepKeeps DEF DomainsHeld

\* The commit of an answer: what leaves the queue is in the log.
LEMMA CommitKeeps ==
    ASSUME SyncInvariant, NEW d \in Device, Commit(d)
    PROVE  SyncInvariant'
<1> DEFINE a == exchange[d].response
           merged == durable[d].version \cup {u.id : u \in a.remote}
<1>1. TypeOK' /\ LogGrows /\ rows' = rows /\ Document' = Document
  BY LogUntouched DEF SyncInvariant, Commit
<1>2. DeviceHeld(d) /\ DomainsHeld
  BY DEF SyncInvariant
<1>3. exchange[d].stage = "answered" /\ Replica!Acceptable(d, a, OpenAmbiguities(ambiguities))
  BY DEF Commit, Replica!CommitResponse
<1>4. /\ AnswerHeld(rows, a)
      /\ StoreHeld(d)
  BY <1>2, <1>3 DEF DeviceHeld, ExchangeHeld
<1>5. /\ durable' = [durable EXCEPT ![d] =
             [version |-> merged, cursor |-> a.through,
              server |-> a.document, ambiguities |-> a.ambiguities]]
      /\ queue' = [queue EXCEPT ![d] =
             [u \in Queued(d) \ DOMAIN a.acknowledged |-> queue[d][u]]]
      /\ exchange' = [exchange EXCEPT ![d] = Replica!Idle]
      /\ UNCHANGED <<tabs, late>>
  BY <1>2 DEF Commit, Replica!CommitResponse, Replica!CommitWrites, Replica!Merged,
              Queued, DomainsHeld
<1>6. a.document \subseteq merged
  BY <1>3 DEF Replica!Acceptable, Replica!Complete, Replica!Merged
<1> HIDE DEF a
<1>7. /\ a.through \in Nat /\ a.through <= Len(rows)
      /\ Prefix(rows, a.through) \subseteq a.document
      /\ a.document \subseteq Document
      /\ DOMAIN a.acknowledged \subseteq Document
      /\ merged \subseteq durable[d].version \cup Document
      /\ a.ambiguities \subseteq SUBSET Update
  BY <1>4 DEF AnswerHeld, Document
<1> HIDE DEF merged
<1>8. Document \subseteq Update
  BY <1>2, PrefixType DEF Document, SyncInvariant, TypeOK, LogGrows
<1>9. durable[d].version \subseteq merged
  BY DEF merged
<1>10. /\ durable'[d] = [version |-> merged, cursor |-> a.through,
                         server |-> a.document, ambiguities |-> a.ambiguities]
       /\ queue'[d] = [u \in Queued(d) \ DOMAIN a.acknowledged |-> queue[d][u]]
       /\ exchange'[d] = Replica!Idle
       /\ \A e \in Device \ {d} : /\ durable'[e] = durable[e]
                                  /\ queue'[e] = queue[e]
                                  /\ exchange'[e] = exchange[e]
  BY <1>2, <1>5 DEF DomainsHeld
<1>11. DomainsHeld'
  BY <1>2, <1>5 DEF DomainsHeld
<1>12. Queued(d)' = Queued(d) \ DOMAIN a.acknowledged
  BY <1>10 DEF Queued, Replica!Queued
<1>13. durable'[d] \in Replica!State
  <2>1. durable[d].version \subseteq Update
    BY <1>4 DEF StoreHeld, Replica!State
  <2> QED
    BY <1>7, <1>8, <1>10, <2>1 DEF Replica!State
<1>14. StoreHeld(d)'
  <2>1. /\ durable'[d].version = merged
        /\ durable'[d].cursor = a.through
        /\ durable'[d].server = a.document
    BY <1>10
  <2>2. Prefix(rows', durable'[d].cursor) \subseteq durable'[d].version
    BY <1>1, <1>6, <1>7, <2>1
  <2>3. durable'[d].version \subseteq Document' \cup Queued(d)'
    BY <1>1, <1>4, <1>7, <1>12, <2>1 DEF StoreHeld
  <2>4. \A u \in Queued(d)' : "base" \in DOMAIN queue'[d][u] /\ queue'[d][u].base \subseteq Update
    BY <1>4, <1>10, <1>12 DEF StoreHeld
  <2>5. Queued(d)' \subseteq Writes[d] \cap durable'[d].version
    BY <1>4, <1>9, <1>12, <2>1 DEF StoreHeld
  <2>6. Writes[d] \cap Document' \subseteq durable'[d].version
    BY <1>1, <1>4, <1>9, <2>1 DEF StoreHeld
  <2> QED
    BY <1>1, <1>6, <1>7, <1>13, <2>1, <2>2, <2>3, <2>4, <2>5, <2>6 DEF StoreHeld
<1>15. ExchangeHeld(d)'
  BY <1>10 DEF ExchangeHeld, Replica!Idle
<1>16. LateHeld(d)'
  BY <1>2, <1>5, <1>9, <1>10, LateKept DEF DeviceHeld
<1>17. ASSUME NEW e \in Device, e # d
       PROVE  DeviceHeld(e)'
  BY <1>1, <1>5, <1>10, <1>17, DeviceKept DEF SyncInvariant, DeviceHeld, StoreHeld
<1>18. VisibleIsDurable'
  BY <1>5, <1>9, <1>10, VisibleKept DEF SyncInvariant
<1> QED
  BY <1>1, <1>11, <1>14, <1>15, <1>16, <1>17, <1>18 DEF SyncInvariant, DeviceHeld

\* The ways in which an exchange ends without a commit.
Ends(d) ==
    Refuse(d) \/ GiveUp(d) \/ Reject(d) \/ DetailsRefused(d) \/ Unreadable(d)

LEMMA EndsFacts ==
    ASSUME NEW d \in Device, Ends(d)
    PROVE  /\ \E s \in {"pending", "blocked"} : Replica!EndExchange(d, s)
           /\ UNCHANGED vars
           /\ late' \in Abandoned(d)
BY DEF Ends, Refuse, GiveUp, Reject, DetailsRefused, Unreadable, Abandoned, Replica!Refused,
       Replica!Fail, Replica!RejectResponse, Replica!DetailsRefused, Replica!Unreadable

LEMMA SyncInvariantStep == SyncInvariant /\ [SyncNext]_syncVars => SyncInvariant'
<1> SUFFICES ASSUME SyncInvariant, [SyncNext]_syncVars PROVE SyncInvariant'
  OBVIOUS
<1>1. ASSUME NEW t \in Tab, NEW u \in Update, Edit(t, u) PROVE SyncInvariant'
  BY <1>1, EditKeeps
<1>2. ASSUME NEW t \in Tab, Adopt(t) \/ Reload(t) PROVE SyncInvariant'
  BY <1>2, AdoptKeeps, ReloadKeeps
<1>3. ASSUME NEW d \in Device, Send(d) PROVE SyncInvariant'
  BY <1>3, SendKeeps
<1>4. ASSUME NEW d \in Device, Serve(d) \/ ServeLate(d) PROVE SyncInvariant'
  BY <1>4, ServeKeeps, ServeLateKeeps
<1>5. ASSUME NEW d \in Device, Ends(d) PROVE SyncInvariant'
  BY <1>5, EndsFacts, EndKeeps
<1>6. ASSUME NEW d \in Device, Commit(d) PROVE SyncInvariant'
  BY <1>6, CommitKeeps
<1>7. CASE ServerStep
  BY <1>7, ServerStepKeeps
<1>8. CASE UNCHANGED syncVars
  <2>1. UNCHANGED vars /\ UNCHANGED <<durable, queue, tabs, exchange, late>>
    BY <1>8 DEF syncVars, replicaVars
  <2>2. TypeOK' /\ LogGrows /\ Document' = Document
    BY <2>1, LogUntouched DEF SyncInvariant
  <2>3. \A d \in Device : DeviceHeld(d)'
    BY <2>1, <2>2, DeviceKept DEF SyncInvariant, DeviceHeld, StoreHeld
  <2>4. VisibleIsDurable' /\ DomainsHeld'
    BY <2>1, VisibleKept DEF SyncInvariant, DomainsHeld
  <2> QED
    BY <2>2, <2>3, <2>4 DEF SyncInvariant
<1> QED
  BY <1>1, <1>2, <1>3, <1>4, <1>5, <1>6, <1>7, <1>8 DEF SyncNext, Ends

-----------------------------------------------------------------------------
(* What a device may rely on.                                              *)

LEMMA SyncInvariantHolds == SyncSpec => []SyncInvariant
<1>1. SyncInit => SyncInvariant
  BY SyncInvariantInit
<1>2. SyncInvariant /\ [SyncNext]_syncVars => SyncInvariant'
  BY SyncInvariantStep
<1> QED
  BY <1>1, <1>2, PTL DEF SyncSpec

\* No interleaving of edits, exchanges, losses, late requests, reloads and
\* suspensions takes an update out of a queue before the server has it.
THEOREM NothingIsLost == SyncSpec => []NothingLost
<1>1. SyncInvariant => NothingLost
  BY DEF SyncInvariant, DeviceHeld, StoreHeld, NothingLost
<1> QED
  BY <1>1, SyncInvariantHolds, PTL

\* The commit of an answer never takes back what a tab already shows, whoever
\* wrote it and whenever the exchange began.
THEOREM TabsStayCovered == SyncSpec => []VisibleIsDurable
<1>1. SyncInvariant => VisibleIsDurable
  BY DEF SyncInvariant
<1> QED
  BY <1>1, SyncInvariantHolds, PTL

\* However answers are cut, lost or given twice, the cursor a device stores is
\* that of a prefix it holds.
THEOREM CursorsStayCovered == SyncSpec => []CursorCovered
<1>1. SyncInvariant => CursorCovered
  BY DEF SyncInvariant, DeviceHeld, StoreHeld, CursorCovered
<1> QED
  BY <1>1, SyncInvariantHolds, PTL

\* The frontier by which a device tells what is synchronized claims nothing
\* that the server or the device does not hold.
THEOREM ServerFrontiersHold == SyncSpec => []ServerFrontierHeld
<1>1. SyncInvariant => ServerFrontierHeld
  BY DEF SyncInvariant, DeviceHeld, StoreHeld, ServerFrontierHeld
<1> QED
  BY <1>1, SyncInvariantHolds, PTL

\* To the log, the devices are one more source of requests.
LEMMA SyncIsLogStep == SyncInvariant /\ [SyncNext]_syncVars => LogStep
<1> SUFFICES ASSUME SyncInvariant, [SyncNext]_syncVars, ~ UNCHANGED vars PROVE LogStep
  BY DEF LogStep
<1>1. ASSUME NEW d \in Device, Serve(d)
      PROVE  LogStep
  <2>1. RequestHeld(d, exchange[d].request)
    BY <1>1 DEF Serve, SyncInvariant, DeviceHeld, ExchangeHeld
  <2> QED
    BY <1>1, <2>1 DEF Serve, RequestHeld, Sync, LogStep
<1>2. ASSUME NEW d \in Device, ServeLate(d)
      PROVE  LogStep
  BY <1>2, ServeLateKeeps
<1>3. CASE ServerStep
  BY <1>3 DEF ServerStep, LogStep
<1> QED
  BY <1>1, <1>2, <1>3
  DEF SyncNext, Edit, Adopt, Reload, Send, Refuse, GiveUp, Commit, Reject, DetailsRefused, Unreadable,
      syncVars

\* The page reloads, whatever requests the devices make of the server.
THEOREM ServedPageReloads == SyncSpec => []Reloadable
<1>1. SyncInit => SyncInvariant /\ Rebuildable
  BY SyncInvariantInit, TypeInit, HeadInit, ReloadableInit DEF SyncInit, Rebuildable
<1>2. SyncInvariant /\ Rebuildable /\ [SyncNext]_syncVars
          => (SyncInvariant /\ Rebuildable)'
  BY SyncInvariantStep, SyncIsLogStep, ReloadableStep
<1>3. Rebuildable => Reloadable
  BY DEF Rebuildable
<1> QED
  BY <1>1, <1>2, <1>3, PTL DEF SyncSpec

\* To the log, the devices do not even forge the identities of the server.
LEMMA SyncIsHonest == SyncInvariant /\ [SyncNext]_syncVars => HonestStep
<1> SUFFICES ASSUME SyncInvariant, [SyncNext]_syncVars, ~ UNCHANGED vars PROVE HonestStep
  BY DEF HonestStep
<1>1. ASSUME NEW d \in Device, NEW r, RequestHeld(d, r)
      PROVE  r \in Honest
  BY <1>1, SyncAssumption DEF RequestHeld, Honest
<1>2. ASSUME NEW d \in Device, Serve(d)
      PROVE  HonestStep
  <2>1. RequestHeld(d, exchange[d].request)
    BY <1>2 DEF Serve, SyncInvariant, DeviceHeld, ExchangeHeld
  <2>2. exchange[d].request \in Honest
    BY <1>1, <2>1
  <2> QED
    BY <1>2, <2>2 DEF Serve, Sync, HonestStep
<1>3. ASSUME NEW d \in Device, ServeLate(d)
      PROVE  HonestStep
  <2>1. RequestHeld(d, late[d].request)
    BY <1>3 DEF ServeLate, SyncInvariant, DeviceHeld, LateHeld
  <2>2. late[d].request \in Honest
    BY <1>1, <2>1
  <2> QED
    BY <1>3, <2>2 DEF ServeLate, HonestStep
<1>4. CASE ServerStep
  BY <1>4 DEF ServerStep, HonestStep
<1> QED
  BY <1>2, <1>3, <1>4
  DEF SyncNext, Edit, Adopt, Reload, Send, Refuse, GiveUp, Commit, Reject, DetailsRefused, Unreadable,
      syncVars

\* Whatever is lost or late on the network and whatever is compacted meanwhile, a
\* device that is not revoked is answered from the frontier it confirmed.
THEOREM ServedDevicesCatchUp == SyncSpec => []CanCatchUp
<1> DEFINE Inv == SyncInvariant /\ Rebuildable /\ FrontierProven /\ HistoryWaits
<1>1. SyncInit => Inv
  BY SyncInvariantInit, TypeInit, HeadInit, ReloadableInit, HistoryWaitsInit
  DEF SyncInit, Rebuildable, Init, FrontierProven
<1>2. Inv /\ [SyncNext]_syncVars => Inv'
  BY SyncInvariantStep, SyncIsLogStep, SyncIsHonest, ReloadableStep, FrontierStep, HistoryWaitsStep
  DEF SyncInvariant
<1>3. Inv => CanCatchUp
  BY WaitsSoCatchesUp DEF Rebuildable
<1> HIDE DEF Inv
<1> QED
  BY <1>1, <1>2, <1>3, PTL DEF SyncSpec

-----------------------------------------------------------------------------
(* The devices, the network and the log implement one shared page.         *)

LEMMA SharedStutters ==
    ASSUME Document' = Document,
           \A d \in Device : durable'[d].version = durable[d].version
    PROVE  UNCHANGED Shared!pageVars
BY DEF Shared!pageVars

\* An update that is not yet durable on the device it belongs to is nowhere.
LEMMA WrittenOnce ==
    ASSUME SyncInvariant, NEW d \in Device, NEW u \in Writes[d],
           u \notin durable[d].version
    PROVE  u \notin Document /\ \A e \in Device : u \notin durable[e].version
<1>1. u \notin Document
  BY DEF SyncInvariant, DeviceHeld, StoreHeld
<1>2. ASSUME NEW e \in Device, u \in durable[e].version
      PROVE  FALSE
  <2>1. u \in Writes[e]
    BY <1>1, <1>2 DEF SyncInvariant, DeviceHeld, StoreHeld
  <2>2. e # d
    BY <1>2
  <2> QED
    BY <2>1, <2>2, SyncAssumption
<1> QED
  BY <1>1, <1>2

LEMMA EditWritesShared ==
    ASSUME SyncInvariant, NEW t \in Tab, NEW u \in Update, Edit(t, u)
    PROVE  Shared!Write(Owner[t], u)
<1> DEFINE d == Owner[t]
<1>1. d \in Device
  BY SyncAssumption
<1>2. u \in Writes[d] /\ u \notin durable[d].version
  BY DEF Edit, Replica!Edit
<1>3. durable' = [durable EXCEPT ![d].version = durable[d].version \cup {u}]
  BY DEF Edit, Replica!Edit, Replica!EditWrites
<1>4. Document' = Document
  BY DEF Edit, vars, Document
<1> HIDE DEF d
<1>5. u \notin Document /\ \A e \in Device : u \notin durable[e].version
  BY <1>1, <1>2, WrittenOnce
<1>6. /\ DOMAIN durable = Device
      /\ durable[d] \in Replica!State
  BY <1>1 DEF SyncInvariant, DomainsHeld, DeviceHeld, StoreHeld
<1>7. \A e \in Device : durable'[e].version =
          IF e = d THEN durable[d].version \cup {u} ELSE durable[e].version
  BY <1>1, <1>3, <1>6 DEF Replica!State
<1> QED
  BY <1>1, <1>4, <1>5, <1>7 DEF Shared!Write, d

LEMMA ServedIsContributed ==
    ASSUME SyncInvariant, NEW d \in Device, durable' = durable,
           Document \subseteq Document', Document' \subseteq Document \cup durable[d].version
    PROVE  \E updates \in SUBSET Update : Shared!Contribute(d, updates)
<1>1. Document' \ Document \subseteq durable[d].version
  OBVIOUS
<1>2. durable[d].version \subseteq Update
  BY DEF SyncInvariant, DeviceHeld, StoreHeld, Replica!State
<1>3. Document' = Document \cup (Document' \ Document)
  OBVIOUS
<1>4. Shared!Contribute(d, Document' \ Document)
  BY <1>1, <1>3 DEF Shared!Contribute
<1> QED
  BY <1>1, <1>2, <1>4

LEMMA CommitLearns ==
    ASSUME SyncInvariant, NEW d \in Device, Commit(d)
    PROVE  \E updates \in SUBSET Update : Shared!Learn(d, updates)
<1> DEFINE learned == {u.id : u \in exchange[d].response.remote}
<1>1. /\ exchange[d].stage = "answered"
      /\ durable' = [durable EXCEPT ![d] =
             [version |-> durable[d].version \cup learned,
              cursor |-> exchange[d].response.through,
              server |-> exchange[d].response.document,
              ambiguities |-> exchange[d].response.ambiguities]]
      /\ Document' = Document
  BY DEF Commit, Replica!CommitResponse, Replica!CommitWrites, Replica!Merged, vars, Document
<1>2. learned \subseteq Document
  <2>1. AnswerHeld(rows, exchange[d].response)
    BY <1>1 DEF SyncInvariant, DeviceHeld, ExchangeHeld
  <2> QED
    BY <2>1 DEF AnswerHeld, Document
<1>3. Document \subseteq Update
  <2>1. rows \in Seq(Row) /\ Len(rows) \in Nat
    BY DEF SyncInvariant, TypeOK
  <2> QED
    BY <2>1, PrefixType DEF Document
<1> HIDE DEF learned
<1>4. \A e \in Device : durable'[e].version =
          IF e = d THEN durable[d].version \cup learned ELSE durable[e].version
  BY <1>1 DEF SyncInvariant, DomainsHeld
<1>5. learned \in SUBSET Update
  BY <1>2, <1>3
<1> QED
  BY <1>1, <1>2, <1>4, <1>5 DEF Shared!Learn

LEMMA ServerAuthors ==
    ASSUME SyncInvariant, ServerStep
    PROVE  [Shared!Next]_(Shared!pageVars)
<1>1. durable' = durable
  BY DEF ServerStep, replicaVars
<1>2. CASE Document' = Document
  BY <1>1, <1>2, SharedStutters
<1>3. ASSUME NEW u \in ServerUpdate \ Document, Document' = Document \cup {u}
      PROVE  Shared!Next
  <2>1. \A e \in Device : u \notin durable[e].version
    BY SyncAssumption DEF SyncInvariant, DeviceHeld, StoreHeld
  <2>2. Shared!Author(u)
    BY <1>1, <1>3, <2>1 DEF Shared!Author
  <2> QED
    BY <2>2, RequestsAssumption DEF Shared!Next
<1> QED
  BY <1>2, <1>3, AuthoredByServer DEF ServerStep, SyncInvariant

LEMMA SharedStep ==
    SyncInvariant /\ [SyncNext]_syncVars => [Shared!Next]_(Shared!pageVars)
<1> SUFFICES ASSUME SyncInvariant, [SyncNext]_syncVars
             PROVE  [Shared!Next]_(Shared!pageVars)
  OBVIOUS
<1>1. ASSUME NEW t \in Tab, NEW u \in Update, Edit(t, u)
      PROVE  Shared!Next
  BY <1>1, EditWritesShared, SyncAssumption DEF Shared!Next
<1>2. ASSUME NEW d \in Device, Serve(d)
      PROVE  Shared!Next
  <2>1. PICK p \in Plans(exchange[d].request) : SyncBy(exchange[d].request, p)
    BY <1>2 DEF Serve
  <2>2. RequestHeld(d, exchange[d].request) /\ durable' = durable
    BY <1>2 DEF Serve, Replica!Receive, SyncInvariant, DeviceHeld, ExchangeHeld
  <2>3. LogStep
    BY <1>2, SyncIsLogStep DEF SyncNext
  <2>4. Document \subseteq Document' /\ Document' \subseteq Document \cup Ids(exchange[d].request)
    BY <2>1, <2>2, <2>3, TypeStep, AnswerFacts DEF SyncInvariant, RequestHeld
  <2>5. Document' \subseteq Document \cup durable[d].version
    BY <2>2, <2>4 DEF RequestHeld
  <2> QED
    BY <2>2, <2>4, <2>5, ServedIsContributed DEF Shared!Next
<1>3. ASSUME NEW d \in Device, ServeLate(d)
      PROVE  [Shared!Next]_(Shared!pageVars)
  <2>1. durable' = durable
    BY <1>3 DEF ServeLate, replicaVars
  <2>2. Document \subseteq Document'
    BY <1>3, ServeLateKeeps, LogGrowsStep DEF SyncInvariant, LogGrows
  <2>3. Document' \subseteq Document \cup durable[d].version
    BY <1>3, ServeLateKeeps
  <2> QED
    BY <2>1, <2>2, <2>3, ServedIsContributed DEF Shared!Next
<1>4. ASSUME NEW d \in Device, Commit(d)
      PROVE  Shared!Next
  BY <1>4, CommitLearns DEF Shared!Next
<1>5. CASE ServerStep
  BY <1>5, ServerAuthors
<1>6. ASSUME NEW d \in Device, Send(d) \/ Ends(d)
      PROVE  UNCHANGED Shared!pageVars
  <2>1. durable' = durable /\ Document' = Document
    BY <1>6, EndsFacts DEF Send, Replica!Send, Replica!EndExchange, vars, Document
  <2> QED
    BY <2>1, SharedStutters
<1>7. ASSUME NEW t \in Tab, Adopt(t) \/ Reload(t)
      PROVE  UNCHANGED Shared!pageVars
  <2>1. durable' = durable /\ Document' = Document
    BY <1>7 DEF Adopt, Replica!Adopt, Reload, Replica!Reload, vars, Document
  <2> QED
    BY <2>1, SharedStutters
<1>8. CASE UNCHANGED syncVars
  <2>1. durable' = durable /\ Document' = Document
    BY <1>8 DEF syncVars, replicaVars, vars, Document
  <2> QED
    BY <2>1, SharedStutters
<1> QED
  BY <1>1, <1>2, <1>3, <1>4, <1>5, <1>6, <1>7, <1>8 DEF SyncNext, Ends

\* Devices, network and log, with everything that is lost, late or repeated
\* between them, are one page that all add to and learn from.
THEOREM ImplementsSharedPage == SyncSpec => SharesOnePage
<1>1. SyncInit => Shared!Init
  <2> SUFFICES ASSUME SyncInit PROVE Shared!Init
    OBVIOUS
  <2>1. Document = {}
    BY DEF SyncInit, Init, Document, Prefix
  <2>2. \A d \in Device : durable[d].version = {}
    BY DEF SyncInit, Replica!Init
  <2> QED
    BY <2>1, <2>2 DEF Shared!Init
<1>2. SyncInvariant /\ [SyncNext]_syncVars => [Shared!Next]_(Shared!pageVars)
  BY SharedStep
<1> QED
  BY <1>1, <1>2, SyncInvariantHolds, PTL DEF SyncSpec, SharesOnePage, Shared!Spec

-----------------------------------------------------------------------------
(* Types.                                                                   *)

\* A finite set of numbers has a greatest one, or is empty.
LEMMA FiniteIsBounded ==
    ASSUME NEW S \in SUBSET Nat, IsFiniteSet(S)
    PROVE  \E n \in S \cup {0} : \A m \in S : m <= n
<1> DEFINE unbounded(T) == \A n \in T \cup {0} : \E m \in T : ~(m <= n)
           sizes == {k \in Nat : \E T \in SUBSET S : Cardinality(T) = k /\ unbounded(T)}
<1>1. ASSUME sizes # {} PROVE FALSE
  <2>1. PICK k \in sizes : \A j \in sizes : k <= j
    BY <1>1, LeastOf
  <2>2. PICK T \in SUBSET S : Cardinality(T) = k /\ unbounded(T)
    BY <2>1
  <2>3. IsFiniteSet(T)
    BY <2>2, FS_Subset
  <2>4. PICK x \in T : ~(x <= 0)
    BY <2>2
  <2>5. IsFiniteSet(T \ {x}) /\ Cardinality(T \ {x}) = k - 1 /\ k \in Nat
    BY <2>2, <2>3, <2>4, FS_RemoveElement, FS_CardinalityType
  <2>6. Cardinality(T \ {x}) \in Nat
    BY <2>5, FS_CardinalityType
  <2>7. ~ unbounded(T \ {x})
    <3>1. k - 1 \in Nat /\ ~(k <= k - 1)
      BY <2>5, <2>6
    <3>2. T \ {x} \in SUBSET S
      BY <2>2
    <3> HIDE DEF unbounded
    <3> QED
      BY <2>1, <2>5, <3>1, <3>2
  <2>8. PICK n \in (T \ {x}) \cup {0} : \A m \in T \ {x} : m <= n
    BY <2>7
  <2>9. n \in Nat /\ x \in Nat
    BY <2>2, <2>4, <2>8
  <2>10. CASE x <= n
    <3>1. \A m \in T : m <= n
      BY <2>8, <2>10
    <3> QED
      BY <2>2, <2>8, <3>1
  <2>11. CASE n <= x
    <3>1. \A m \in T : m \in Nat
      BY <2>2
    <3>2. \A m \in T : m <= x
      BY <2>8, <2>9, <2>11, <3>1
    <3> QED
      BY <2>2, <2>4, <3>2
  <2> QED
    BY <2>9, <2>10, <2>11
<1>2. S \in SUBSET S /\ Cardinality(S) \in Nat
  BY FS_CardinalityType
<1>3. ~ unbounded(S)
  BY <1>1, <1>2
<1> QED
  BY <1>3

LEMMA FollowingType ==
    ASSUME NEW S \in SUBSET Nat, IsFiniteSet(S)
    PROVE  Replica!Following(S) \in Nat
<1> DEFINE greatest == CHOOSE n \in S \cup {0} : \A m \in S : m <= n
<1>1. greatest \in S \cup {0}
  BY FiniteIsBounded
<1>2. Replica!Following(S) = 1 + greatest
  BY DEF Replica!Following
<1> HIDE DEF greatest
<1> QED
  BY <1>1, <1>2

\* What the devices keep, and that a queue never holds infinitely many rows: a
\* row is numbered after the greatest number of the others.
ReplicasTyped ==
    /\ durable \in [Device -> Replica!State]
    /\ \A d \in Device : queue[d] \in [Queued(d) -> Replica!QueueRow] /\ IsFiniteSet(Queued(d))
    /\ tabs \in [Tab -> Replica!Editor]
    /\ \A d \in Device : exchange[d].stage \in {"idle", "waiting", "answered"}

LEMMA QueueKept ==
    ASSUME NEW d \in Device, ReplicasTyped, queue'[d] = queue[d]
    PROVE  queue'[d] \in [Queued(d)' -> Replica!QueueRow] /\ IsFiniteSet(Queued(d)')
BY DEF ReplicasTyped, Queued, Replica!Queued

LEMMA StatusTyped ==
    ASSUME NEW d \in Device, ReplicasTyped, DomainsHeld, NEW status,
           \A u \in Queued(d) : status[u] \in {"pending", "sending", "blocked"},
           queue' = Replica!WithStatus(d, status)
    PROVE  \A e \in Device :
               queue'[e] \in [Queued(e)' -> Replica!QueueRow] /\ IsFiniteSet(Queued(e)')
<1>1. /\ \A e \in Device \ {d} : queue'[e] = queue[e]
      /\ queue'[d] = [u \in Queued(d) |-> [queue[d][u] EXCEPT !.status = status[u]]]
  BY DEF Replica!WithStatus, Queued, DomainsHeld
<1>2. Queued(d)' = Queued(d)
  BY <1>1 DEF Queued, Replica!Queued
<1>3. ASSUME NEW u \in Queued(d)
      PROVE  [queue[d][u] EXCEPT !.status = status[u]] \in Replica!QueueRow
  <2>1. queue[d][u] \in Replica!QueueRow
    BY DEF ReplicasTyped
  <2> QED
    BY <2>1 DEF Replica!QueueRow
<1>4. queue'[d] \in [Queued(d)' -> Replica!QueueRow] /\ IsFiniteSet(Queued(d)')
  <2>1. queue'[d] \in [Queued(d) -> Replica!QueueRow]
    BY <1>1, <1>3
  <2>2. IsFiniteSet(Queued(d))
    BY DEF ReplicasTyped
  <2> QED
    BY <1>2, <2>1, <2>2
<1> QED
  BY <1>1, <1>4, QueueKept

LEMMA NumbersTyped ==
    ASSUME NEW d \in Device, ReplicasTyped
    PROVE  /\ Replica!OrderAfter(d) \in Nat
           /\ Replica!Following({queue[d][u].age : u \in Queued(d)}) \in Nat
<1> DEFINE ages == {queue[d][u].age : u \in Queued(d)}
           orders == {queue[d][u].order : u \in Queued(d)}
           age == [u \in Queued(d) |-> queue[d][u].age]
           order == [u \in Queued(d) |-> queue[d][u].order]
<1>1. ASSUME NEW u \in Queued(d) PROVE queue[d][u].age \in Nat /\ queue[d][u].order \in Nat
  <2>1. queue[d][u] \in Replica!QueueRow
    BY DEF ReplicasTyped
  <2> QED
    BY <2>1 DEF Replica!QueueRow
<1>2. ages \subseteq Nat /\ orders \subseteq Nat
  BY <1>1
<1>3. age \in Surjection(Queued(d), ages) /\ order \in Surjection(Queued(d), orders)
  BY DEF Surjection
<1>4. IsFiniteSet(Queued(d))
  BY DEF ReplicasTyped
<1>5. Replica!OrderAfter(d) = Replica!Following(orders)
  BY DEF Replica!OrderAfter, Queued
<1> HIDE DEF ages, orders, age, order
<1>6. IsFiniteSet(ages) /\ IsFiniteSet(orders)
  BY <1>3, <1>4, FS_Surjection
<1>7. Replica!Following(ages) \in Nat /\ Replica!Following(orders) \in Nat
  BY <1>2, <1>6, FollowingType
<1> QED
  BY <1>5, <1>7 DEF ages

LEMMA NewRowTyped ==
    ASSUME NEW t \in Tab, ReplicasTyped
    PROVE  /\ Replica!NewRow(t) \in Replica!QueueRow
           /\ Replica!NewRow(t).base = tabs[t].visible
           /\ Replica!NewRow(t).status = "pending"
<1> DEFINE d == Owner[t]
           ages == {queue[d][u].age : u \in Queued(d)}
<1>1. d \in Device
  BY SyncAssumption
<1>2. tabs[t].visible \subseteq Update /\ tabs[t].next \in Nat
  BY DEF ReplicasTyped, Replica!Editor
<1>3. Replica!NewRow(t) = [base |-> tabs[t].visible, order |-> tabs[t].next,
                           age |-> Replica!Following(ages), status |-> "pending"]
  BY DEF Replica!NewRow, Queued
<1>4. Replica!Following(ages) \in Nat
  BY <1>1, NumbersTyped
<1> HIDE DEF ages
<1> QED
  BY <1>2, <1>3, <1>4 DEF Replica!QueueRow

LEMMA EditTyped ==
    ASSUME SyncInvariant, ReplicasTyped, NEW t \in Tab, NEW u \in Update, Edit(t, u)
    PROVE  ReplicasTyped'
<1> DEFINE d == Owner[t]
<1>1. d \in Device
  BY SyncAssumption
<1>2. PICK adopts \in BOOLEAN : Replica!EditWrites(t, u, adopts)
  BY DEF Edit, Replica!Edit
<1> DEFINE version == durable[d].version \cup {u}
           visible == IF adopts THEN version ELSE tabs[t].visible \cup {u}
<1>3. /\ durable' = [durable EXCEPT ![d].version = version]
      /\ queue' = [queue EXCEPT ![d] =
              [v \in Queued(d) \cup {u} |-> IF v = u THEN Replica!NewRow(t) ELSE queue[d][v]]]
      /\ exchange' = exchange
      /\ tabs' = [tabs EXCEPT ![t] = [visible |-> visible, next |-> tabs[t].next + 1]]
  BY <1>2 DEF Replica!EditWrites, Queued
<1>4. /\ durable[d] \in Replica!State
      /\ tabs[t].visible \subseteq Update /\ tabs[t].next \in Nat
  BY <1>1 DEF ReplicasTyped, Replica!Editor
<1>5. version \subseteq Update
  BY <1>4 DEF Replica!State
<1>6. visible \subseteq Update
  BY <1>4, <1>5
<1> HIDE DEF d, version, visible
<1>7. durable' \in [Device -> Replica!State]
  <2>1. [durable[d] EXCEPT !.version = version] \in Replica!State
    BY <1>4, <1>5 DEF Replica!State
  <2> QED
    BY <1>1, <1>3, <2>1 DEF ReplicasTyped
<1>8. tabs' \in [Tab -> Replica!Editor]
  <2>1. [visible |-> visible, next |-> tabs[t].next + 1] \in Replica!Editor
    BY <1>4, <1>6 DEF Replica!Editor
  <2> QED
    BY <1>3, <2>1 DEF ReplicasTyped
<1>9. /\ \A e \in Device \ {d} : queue'[e] = queue[e]
      /\ queue'[d] = [v \in Queued(d) \cup {u} |->
                         IF v = u THEN Replica!NewRow(t) ELSE queue[d][v]]
  BY <1>1, <1>3 DEF SyncInvariant, DomainsHeld
<1>10. Queued(d)' = Queued(d) \cup {u}
  BY <1>9 DEF Queued, Replica!Queued
<1>11. queue'[d] \in [Queued(d)' -> Replica!QueueRow]
  BY <1>1, <1>9, <1>10, NewRowTyped DEF ReplicasTyped
<1>12. IsFiniteSet(Queued(d)')
  <2>1. IsFiniteSet(Queued(d))
    BY <1>1 DEF ReplicasTyped
  <2> QED
    BY <1>10, <2>1, FS_AddElement
<1>13. \A e \in Device :
          queue'[e] \in [Queued(e)' -> Replica!QueueRow] /\ IsFiniteSet(Queued(e)')
  BY <1>9, <1>11, <1>12, QueueKept
<1> QED
  BY <1>3, <1>7, <1>8, <1>13 DEF ReplicasTyped

LEMMA OpenedTyped ==
    ASSUME SyncInvariant, ReplicasTyped, NEW t \in Tab, Adopt(t) \/ Reload(t)
    PROVE  ReplicasTyped'
<1> DEFINE d == Owner[t]
<1>1. d \in Device
  BY SyncAssumption
<1>2. /\ durable' = durable /\ queue' = queue
      /\ exchange' = exchange \/ exchange' = [exchange EXCEPT ![d] = Replica!Idle]
      /\ \E next \in {tabs[t].next, Replica!OrderAfter(d)} :
            tabs' = [tabs EXCEPT ![t] = [visible |-> durable[d].version, next |-> next]]
  BY DEF Adopt, Replica!Adopt, Reload, Replica!Reload
<1> HIDE DEF d
<1>3. Replica!OrderAfter(d) \in Nat /\ durable[d] \in Replica!State /\ tabs[t].next \in Nat
  BY <1>1, NumbersTyped DEF ReplicasTyped, Replica!Editor
<1>4. PICK next \in Nat :
         tabs' = [tabs EXCEPT ![t] = [visible |-> durable[d].version, next |-> next]]
  BY <1>2, <1>3
<1>5. tabs' \in [Tab -> Replica!Editor]
  <2>1. [visible |-> durable[d].version, next |-> next] \in Replica!Editor
    BY <1>3 DEF Replica!State, Replica!Editor
  <2> QED
    BY <1>4, <2>1 DEF ReplicasTyped
<1>6. \A e \in Device : exchange'[e] = exchange[e] \/ exchange'[e] = Replica!Idle
  BY <1>2 DEF SyncInvariant, DomainsHeld
<1>7. \A e \in Device : exchange'[e].stage \in {"idle", "waiting", "answered"}
  BY <1>6 DEF Replica!Idle, ReplicasTyped
<1> QED
  BY <1>2, <1>5, <1>7, QueueKept DEF ReplicasTyped

LEMMA ClaimTyped ==
    ASSUME SyncInvariant, ReplicasTyped, NEW d \in Device, NEW status, NEW x,
           UNCHANGED <<durable, tabs>>,
           \A u \in Queued(d) : status[u] \in {"pending", "sending", "blocked"},
           queue' = Replica!WithStatus(d, status),
           exchange' = [exchange EXCEPT ![d] = x],
           x.stage \in {"idle", "waiting"}
    PROVE  ReplicasTyped'
<1>1. DomainsHeld
  BY DEF SyncInvariant
<1>2. \A e \in Device :
         queue'[e] \in [Queued(e)' -> Replica!QueueRow] /\ IsFiniteSet(Queued(e)')
  BY <1>1, StatusTyped
<1>3. \A e \in Device : exchange'[e] = exchange[e] \/ exchange'[e] = x
  BY <1>1 DEF DomainsHeld
<1> QED
  BY <1>2, <1>3 DEF ReplicasTyped

LEMMA SendTyped ==
    ASSUME SyncInvariant, ReplicasTyped, NEW d \in Device, Send(d)
    PROVE  ReplicasTyped'
<1>1. PICK batch \in Replica!Batches(d) :
         /\ queue' = Replica!WithStatus(d, [u \in Queued(d) |->
                IF \E n \in DOMAIN batch : batch[n] = u THEN "sending"
                ELSE IF u \in Replica!Waiting(d) THEN "pending" ELSE "blocked"])
         /\ exchange' = [exchange EXCEPT ![d] =
                [stage |-> "waiting", request |-> Replica!Outgoing(d, batch)]]
  BY DEF Send, Replica!Send, Queued
<1> DEFINE status == [u \in Queued(d) |->
                IF \E n \in DOMAIN batch : batch[n] = u THEN "sending"
                ELSE IF u \in Replica!Waiting(d) THEN "pending" ELSE "blocked"]
           x == [stage |-> "waiting", request |-> Replica!Outgoing(d, batch)]
<1>2. \A u \in Queued(d) : status[u] \in {"pending", "sending", "blocked"}
  OBVIOUS
<1>3. x.stage \in {"idle", "waiting"}
  OBVIOUS
<1>4. queue' = Replica!WithStatus(d, status) /\ exchange' = [exchange EXCEPT ![d] = x]
  BY <1>1
<1>5. UNCHANGED <<durable, tabs>>
  BY DEF Send, Replica!Send
<1> HIDE DEF status, x
<1> QED
  BY <1>2, <1>3, <1>4, <1>5, ClaimTyped

LEMMA EndTyped ==
    ASSUME SyncInvariant, ReplicasTyped, NEW d \in Device, NEW s \in {"pending", "blocked"},
           Replica!EndExchange(d, s)
    PROVE  ReplicasTyped'
<1> DEFINE status == [u \in Queued(d) |->
                IF queue[d][u].status = "sending" THEN s ELSE queue[d][u].status]
<1>1. ASSUME NEW u \in Queued(d) PROVE status[u] \in {"pending", "sending", "blocked"}
  <2>1. queue[d][u] \in Replica!QueueRow
    BY DEF ReplicasTyped
  <2> QED
    BY <2>1 DEF Replica!QueueRow
<1>2. queue' = Replica!WithStatus(d, status)
  BY DEF Replica!EndExchange, Queued
<1>3. exchange' = [exchange EXCEPT ![d] = Replica!Idle] /\ UNCHANGED <<durable, tabs>>
  BY DEF Replica!EndExchange
<1>4. Replica!Idle.stage \in {"idle", "waiting"}
  BY DEF Replica!Idle
<1> HIDE DEF status
<1> QED
  BY <1>1, <1>2, <1>3, <1>4, ClaimTyped

LEMMA CommitTyped ==
    ASSUME SyncInvariant, SyncInvariant', ReplicasTyped, NEW d \in Device, Commit(d)
    PROVE  ReplicasTyped'
<1> DEFINE a == exchange[d].response
           kept == Queued(d) \ DOMAIN a.acknowledged
<1>1. /\ queue' = [queue EXCEPT ![d] = [u \in kept |-> queue[d][u]]]
      /\ exchange' = [exchange EXCEPT ![d] = Replica!Idle]
      /\ \E s : durable' = [durable EXCEPT ![d] = s]
      /\ tabs' = tabs
  BY DEF Commit, Replica!CommitResponse, Replica!CommitWrites, Queued, SyncInvariant, DomainsHeld
<1> HIDE DEF a, kept
<1>2. kept \subseteq Queued(d)
  BY DEF kept
<1>3. /\ queue'[d] = [u \in kept |-> queue[d][u]]
      /\ \A e \in Device \ {d} : queue'[e] = queue[e]
      /\ \A e \in Device : exchange'[e] = exchange[e] \/ exchange'[e] = Replica!Idle
  BY <1>1 DEF SyncInvariant, DomainsHeld
<1>4. Queued(d)' = kept
  BY <1>3 DEF Queued, Replica!Queued
<1>5. queue'[d] \in [Queued(d)' -> Replica!QueueRow] /\ IsFiniteSet(Queued(d)')
  BY <1>2, <1>3, <1>4, FS_Subset DEF ReplicasTyped
<1>6. durable' \in [Device -> Replica!State]
  <2>1. durable'[d] \in Replica!State
    BY DEF SyncInvariant, DeviceHeld, StoreHeld
  <2>2. PICK s : durable' = [durable EXCEPT ![d] = s]
    BY <1>1
  <2> QED
    BY <2>1, <2>2 DEF ReplicasTyped
<1>7. \A e \in Device : exchange'[e].stage \in {"idle", "waiting", "answered"}
  BY <1>3 DEF Replica!Idle, ReplicasTyped
<1> QED
  BY <1>1, <1>3, <1>5, <1>6, <1>7, QueueKept DEF ReplicasTyped

LEMMA ReplicasTypedStep ==
    SyncInvariant /\ ReplicasTyped /\ [SyncNext]_syncVars => ReplicasTyped'
<1> SUFFICES ASSUME SyncInvariant, ReplicasTyped, [SyncNext]_syncVars PROVE ReplicasTyped'
  OBVIOUS
<1>1. ASSUME NEW t \in Tab, NEW u \in Update, Edit(t, u) PROVE ReplicasTyped'
  BY <1>1, EditTyped
<1>2. ASSUME NEW t \in Tab, Adopt(t) \/ Reload(t) PROVE ReplicasTyped'
  BY <1>2, OpenedTyped
<1>3. ASSUME NEW d \in Device, Send(d) PROVE ReplicasTyped'
  BY <1>3, SendTyped
<1>4. ASSUME NEW d \in Device, Ends(d) PROVE ReplicasTyped'
  BY <1>4, EndsFacts, EndTyped
<1>5. ASSUME NEW d \in Device, Commit(d) PROVE ReplicasTyped'
  BY <1>5, SyncInvariantStep, CommitTyped
<1>6. ASSUME UNCHANGED <<durable, queue, tabs>>,
             \A e \in Device : exchange'[e] = exchange[e] \/ exchange'[e].stage = "answered"
      PROVE  ReplicasTyped'
  BY <1>6, QueueKept DEF ReplicasTyped
<1>7. ASSUME NEW d \in Device, Serve(d) PROVE ReplicasTyped'
  <2>1. PICK r, a : exchange' = [exchange EXCEPT ![d] =
                        [stage |-> "answered", request |-> r, response |-> a]]
    BY <1>7 DEF Serve, Replica!Receive
  <2>2. UNCHANGED <<durable, queue, tabs>>
    BY <1>7 DEF Serve, Replica!Receive
  <2>3. \A e \in Device : exchange'[e] = exchange[e] \/ exchange'[e].stage = "answered"
    BY <2>1 DEF SyncInvariant, DomainsHeld
  <2> QED
    BY <1>6, <2>2, <2>3
<1>8. CASE UNCHANGED replicaVars
  BY <1>6, <1>8 DEF replicaVars
<1> QED
  BY <1>1, <1>2, <1>3, <1>4, <1>5, <1>7, <1>8
  DEF SyncNext, Ends, ServeLate, ServerStep, syncVars

LEMMA ReplicasTypedInit == SyncInit => ReplicasTyped
<1> SUFFICES ASSUME SyncInit PROVE ReplicasTyped
  OBVIOUS
<1>1. /\ durable = [d \in Device |->
                      [version |-> {}, cursor |-> 0, server |-> {}, ambiguities |-> {}]]
      /\ queue = [d \in Device |-> [u \in {} |-> Replica!Idle]]
      /\ tabs = [t \in Tab |-> [visible |-> {}, next |-> 1]]
      /\ exchange = [d \in Device |-> Replica!Idle]
  BY DEF SyncInit, Replica!Init
<1>2. durable \in [Device -> Replica!State] /\ tabs \in [Tab -> Replica!Editor]
  BY <1>1 DEF Replica!State, Replica!Editor
<1>3. ASSUME NEW d \in Device
      PROVE  queue[d] \in [Queued(d) -> Replica!QueueRow] /\ IsFiniteSet(Queued(d))
  <2>1. Queued(d) = {}
    BY <1>1 DEF Queued, Replica!Queued
  <2> QED
    BY <1>1, <2>1, FS_EmptySet
<1>4. \A d \in Device : exchange[d].stage = "idle"
  BY <1>1 DEF Replica!Idle
<1> QED
  BY <1>2, <1>3, <1>4 DEF ReplicasTyped

\* Whatever is sent, answered, lost or reloaded, what a device stores, queues
\* and sends is well formed: its numbers are those of a queue that ends.
THEOREM SyncTypeCorrect == SyncSpec => []SyncTypeOK
<1>1. SyncInit => SyncInvariant /\ ReplicasTyped
  BY SyncInvariantInit, ReplicasTypedInit
<1>2. SyncInvariant /\ ReplicasTyped /\ [SyncNext]_syncVars => (SyncInvariant /\ ReplicasTyped)'
  BY SyncInvariantStep, ReplicasTypedStep
<1>3. SyncInvariant /\ ReplicasTyped => SyncTypeOK
  <2> SUFFICES ASSUME SyncInvariant, ReplicasTyped PROVE SyncTypeOK
    OBVIOUS
  <2>1. ASSUME NEW d \in Device
        PROVE  /\ Queued(d) \subseteq Update
               /\ exchange[d].stage # "idle" => exchange[d].request \in Request
               /\ late[d] # None => late[d].request \in Request
    BY DEF SyncInvariant, DeviceHeld, StoreHeld, ExchangeHeld, LateHeld, RequestHeld, Replica!State
  <2> QED
    BY <2>1 DEF SyncInvariant, ReplicasTyped, SyncTypeOK
<1> QED
  BY <1>1, <1>2, <1>3, PTL DEF SyncSpec

-----------------------------------------------------------------------------
(* Work: what was written, and what it was written on.                      *)

\* What was written, by now on the log or still queued: updates and their bases.
Work ==
    {<<rows[n].id, rows[n].base>> : n \in 1 .. Len(rows)}
        \cup UNION {{<<u, queue[d][u].base>> : u \in Queued(d)} : d \in Device}

\* A frontier that holds what its updates were written on.
Closed(frontier) == \A w \in Work : w[1] \in frontier => w[2] \subseteq frontier

\* An update is written once, on what a replica shows.
WorkWhole ==
    /\ \A v, w \in Work : v[1] = w[1] => v[2] = w[2]
    /\ \A w \in Work : Closed(w[2])
    /\ \A d \in Device : Closed(durable[d].version)
    /\ \A t \in Tab : Closed(tabs[t].visible)

QueueHeld(d) == \A u \in Queued(d) : queue[d][u].base \subseteq durable[d].version

\* A request tells of work as it was written, each update once.
RequestWhole(d, r) ==
    /\ r.persisted \subseteq durable[d].version
    /\ \A i \in DOMAIN r.updates : <<r.updates[i].id, r.updates[i].base>> \in Work
    /\ \A i, j \in DOMAIN r.updates : r.updates[i].id = r.updates[j].id => i = j

\* An answer tells of work as it was written.
AnswerWorks(a) == \A u \in a.remote : <<u.id, u.base>> \in Work

\* An answer the device will take, whatever it writes before it does.
AnswerTaken(d, r, a) ==
    LET merged == durable[d].version \cup {u.id : u \in a.remote}
    IN  /\ durable[d].cursor <= a.through
        /\ a.through <= a.latest
        /\ DOMAIN a.acknowledged = Ids(r)
        /\ durable[d].server \subseteq a.document
        /\ \A w \in Work : w[1] \in Ids(r) =>
              /\ w[2] \cup {w[1]} \subseteq a.acknowledged[w[1]]
              /\ a.acknowledged[w[1]] \subseteq a.document
        /\ \A u \in a.remote : u.base \subseteq merged
        /\ a.document \subseteq merged

\* An answer that announces the end of the log it reaches: no limit cut it.
Uncut(a) == a.through = a.latest

ExchangeWhole(d) ==
    /\ exchange[d].stage # "idle" => RequestWhole(d, exchange[d].request)
    /\ exchange[d].stage = "answered" =>
          /\ AnswerWorks(exchange[d].response)
          /\ Uncut(exchange[d].response) =>
                AnswerTaken(d, exchange[d].request, exchange[d].response)

LateWhole(d) == late[d] # None => RequestWhole(d, late[d].request)

RowsOwned ==
    \A n \in 1 .. Len(rows), d \in Device : rows[n].id \in Writes[d] => rows[n].device = d

Sound ==
    /\ WorkWhole
    /\ \A d \in Device : QueueHeld(d)
    /\ \A d \in Device : ExchangeWhole(d) /\ LateWhole(d)
    /\ RowsOwned

SoundLog == Rebuildable /\ CausalLog /\ Trimmed

\* The log a request would leave is a causal order of distinct updates.
LEMMA AppendedCausal ==
    ASSUME SoundLog, NEW r \in Request, NEW p \in Plans(r)
    PROVE  LET log == AppendBatch(r, p.order)
           IN  /\ Len(log) \in Nat
               /\ Len(rows) \in Nat /\ Len(rows) <= Len(log)
               /\ \A n \in 1 .. Len(log) :
                     /\ log[n].base \subseteq Prefix(log, n - 1)
                     /\ log[n].id \notin Prefix(log, n - 1)
                     /\ log[n].id \in Update
<1> DEFINE log == AppendBatch(r, p.order)
<1>1. rows \in Seq(Row) /\ CausalLog /\ Rebuildable /\ Trimmed
  BY DEF SoundLog, Rebuildable, TypeOK
<1>2. p.order \in ImportOrders(r) /\ IdentitiesHold(r)
  BY <1>1, PlanFacts
<1>3. /\ log \in Seq(Row)
      /\ Len(log) = Len(rows) + Len(p.order)
      /\ Len(rows) \in Nat /\ Len(p.order) \in Nat
      /\ \A n \in 1 .. Len(rows) : log[n] = rows[n]
  BY <1>1, <1>2, AppendBatchType
<1>4. \A n \in 1 .. Len(log) : log[n].base \subseteq Prefix(log, n - 1)
  BY <1>1, AppendedTrims DEF Trims
<1>5. \A n \in Len(rows) + 1 .. Len(log) : log[n].id \notin Prefix(log, n - 1)
  BY <1>1, <1>2, AppendedRows
<1>6. \A n \in 0 .. Len(rows) : Prefix(log, n) = Prefix(rows, n)
  BY <1>1, <1>2, PrefixAppended
<1> HIDE DEF log
<1>7. ASSUME NEW n \in 1 .. Len(log)
      PROVE  log[n].id \notin Prefix(log, n - 1) /\ log[n].id \in Update
  <2>1. log[n].id \in Update
    <3>1. log[n] \in Row
      BY <1>3
    <3> QED
      BY <3>1 DEF Row
  <2>2. CASE n \in 1 .. Len(rows)
    <3>1. Prefix(log, n - 1) = Prefix(rows, n - 1) /\ log[n] = rows[n]
      BY <1>3, <1>6, <2>2
    <3>2. n \in DOMAIN rows
      BY <1>1, <2>2
    <3> QED
      BY <1>1, <2>1, <3>1, <3>2 DEF CausalLog
  <2>3. CASE n \in Len(rows) + 1 .. Len(log)
    BY <1>5, <2>1, <2>3
  <2> QED
    BY <1>3, <2>2, <2>3
<1>8. Len(log) \in Nat /\ Len(rows) <= Len(log)
  BY <1>3
<1> QED
  BY <1>3, <1>4, <1>7, <1>8 DEF log

-----------------------------------------------------------------------------
(* What a step leaves of the work that was done.                           *)

LEMMA InWork ==
    \A w : w \in Work <=>
        \/ \E n \in 1 .. Len(rows) : w = <<rows[n].id, rows[n].base>>
        \/ \E d \in Device : \E u \in Queued(d) : w = <<u, queue[d][u].base>>
BY DEF Work

LEMMA InWorkNext ==
    \A w : w \in Work' <=>
        \/ \E n \in 1 .. Len(rows') : w = <<rows'[n].id, rows'[n].base>>
        \/ \E d \in Device : \E u \in Queued(d)' : w = <<u, queue'[d][u].base>>
BY DEF Work

\* The rows keep their identities and bases, whatever becomes of their payloads.
LEMMA WorkKept ==
    ASSUME Len(rows') = Len(rows),
           \A n \in 1 .. Len(rows) : SameRow(rows[n], rows'[n]),
           \A d \in Device : Queued(d)' = Queued(d),
           \A d \in Device : \A u \in Queued(d) : queue'[d][u].base = queue[d][u].base
    PROVE  Work' = Work
<1>1. \A w : w \in Work' <=> w \in Work
  BY InWork, InWorkNext DEF SameRow
<1> QED
  BY <1>1

\* A request brings to the log work its device had in its queue, or the log had.
LEMMA WorkServed ==
    ASSUME TypeOK, NEW r \in Request, NEW p \in Plans(r), rows' = AppendBatch(r, p.order),
           \A i \in DOMAIN r.updates : <<r.updates[i].id, r.updates[i].base>> \in Work,
           queue' = queue
    PROVE  Work' = Work
<1>1. rows \in Seq(Row)
  BY DEF TypeOK
<1>2. p.order \in ImportOrders(r)
  BY <1>1, PlanFacts
<1>3. /\ Len(rows') = Len(rows) + Len(p.order)
      /\ Len(rows) \in Nat /\ Len(p.order) \in Nat
      /\ \A n \in 1 .. Len(rows) : rows'[n] = rows[n]
      /\ \A k \in 1 .. Len(p.order) : rows'[Len(rows) + k] = BatchRow(r, p.order[k])
  BY <1>1, <1>2, AppendBatchType
<1>4. \A k \in 1 .. Len(p.order) : p.order[k] \in DOMAIN r.updates
  BY <1>2, OrderType DEF NewIndexes
<1>5. ASSUME NEW n \in 1 .. Len(rows')
      PROVE  <<rows'[n].id, rows'[n].base>> \in Work
  <2>1. CASE n \in 1 .. Len(rows)
    <3>1. rows'[n] = rows[n]
      BY <1>3, <2>1
    <3> QED
      BY <2>1, <3>1, InWork
  <2>2. CASE n \in Len(rows) + 1 .. Len(rows')
    <3>1. PICK k \in 1 .. Len(p.order) : n = Len(rows) + k
      <4>1. n - Len(rows) \in 1 .. Len(p.order) /\ n = Len(rows) + (n - Len(rows))
        BY <1>3, <2>2
      <4> QED
        BY <4>1
    <3>2. /\ BatchRow(r, p.order[k]).id = r.updates[p.order[k]].id
          /\ BatchRow(r, p.order[k]).base = r.updates[p.order[k]].base
      BY BatchRowFields
    <3>3. rows'[n] = BatchRow(r, p.order[k])
      BY <1>3, <3>1
    <3> QED
      BY <1>4, <3>2, <3>3
  <2> QED
    BY <1>3, <2>1, <2>2
<1>6. \A n \in 1 .. Len(rows) : n \in 1 .. Len(rows') /\ rows'[n] = rows[n]
  BY <1>3
<1>7. \A d \in Device : Queued(d)' = Queued(d)
  BY DEF Queued, Replica!Queued
<1>8. \A w : w \in Work' => w \in Work
  BY <1>5, <1>7, InWork, InWorkNext
<1>9. \A w : w \in Work => w \in Work'
  BY <1>6, <1>7, InWork, InWorkNext
<1> QED
  BY <1>8, <1>9

LEMMA RequestStaysWhole ==
    ASSUME NEW d \in Device, NEW r, RequestWhole(d, r), Work \subseteq Work',
           durable[d].version \subseteq durable'[d].version
    PROVE  RequestWhole(d, r)'
BY DEF RequestWhole

LEMMA AnswerStaysTaken ==
    ASSUME NEW d \in Device, NEW r, NEW a, AnswerTaken(d, r, a),
           Ids(r) \subseteq durable[d].version,
           durable[d].version \subseteq durable'[d].version,
           durable'[d].cursor = durable[d].cursor, durable'[d].server = durable[d].server,
           Work \subseteq Work',
           \A w \in Work' \ Work : w[1] \notin durable[d].version
    PROVE  AnswerTaken(d, r, a)'
<1>1. \A w \in Work' : w[1] \in Ids(r) => w \in Work
  OBVIOUS
<1>2. \A w \in Work' : w[1] \in Ids(r) =>
         /\ w[2] \cup {w[1]} \subseteq a.acknowledged[w[1]]
         /\ a.acknowledged[w[1]] \subseteq a.document
  BY <1>1 DEF AnswerTaken
<1> HIDE DEF Work
<1>3. /\ durable'[d].cursor <= a.through
      /\ a.through <= a.latest
      /\ DOMAIN a.acknowledged = Ids(r)
      /\ durable'[d].server \subseteq a.document
      /\ \A u \in a.remote : u.base \subseteq durable'[d].version \cup {v.id : v \in a.remote}
      /\ a.document \subseteq durable'[d].version \cup {v.id : v \in a.remote}
  BY DEF AnswerTaken
<1>4. Ids(r)' = Ids(r)
  BY DEF Ids
<1> QED
  BY <1>2, <1>3, <1>4 DEF AnswerTaken

\* A device that keeps its exchange, and whose store only gains updates.
LEMMA ExchangeStaysWhole ==
    ASSUME NEW d \in Device, ExchangeWhole(d), ExchangeHeld(d), exchange'[d] = exchange[d],
           durable[d].version \subseteq durable'[d].version,
           durable'[d].cursor = durable[d].cursor, durable'[d].server = durable[d].server,
           Work \subseteq Work',
           \A w \in Work' \ Work : w[1] \notin durable[d].version
    PROVE  ExchangeWhole(d)'
<1>1. PICK r : r = exchange[d].request
  OBVIOUS
<1>2. PICK a : a = exchange[d].response
  OBVIOUS
<1>3. /\ exchange'[d].request = r /\ exchange'[d].response = a
      /\ exchange'[d].stage = exchange[d].stage
  BY <1>1, <1>2
<1>4. exchange[d].stage # "idle" => RequestWhole(d, r)'
  BY <1>1, RequestStaysWhole DEF ExchangeWhole
<1>5. ASSUME exchange[d].stage = "answered", Uncut(a) PROVE AnswerTaken(d, r, a)'
  <2>1. Ids(r) \subseteq durable[d].version
    BY <1>1, <1>5 DEF ExchangeHeld, RequestHeld
  <2>2. AnswerTaken(d, r, a)
    BY <1>1, <1>2, <1>5 DEF ExchangeWhole
  <2> QED
    BY <2>1, <2>2, AnswerStaysTaken
<1>6. exchange[d].stage = "answered" => AnswerWorks(a)'
  BY <1>2 DEF ExchangeWhole, AnswerWorks
<1>7. Uncut(a)' = Uncut(a)
  BY DEF Uncut
<1> QED
  BY <1>3, <1>4, <1>5, <1>6, <1>7 DEF ExchangeWhole

LEMMA LateStaysWhole ==
    ASSUME NEW d \in Device, LateWhole(d), late'[d] = late[d] \/ late'[d] = None,
           durable[d].version \subseteq durable'[d].version, Work \subseteq Work'
    PROVE  LateWhole(d)'
<1>1. PICK r : r = late[d].request
  OBVIOUS
<1>2. late[d] # None => RequestWhole(d, r)'
  BY <1>1, RequestStaysWhole DEF LateWhole
<1>3. None' = None
  BY DEF None
<1> QED
  BY <1>1, <1>2, <1>3 DEF LateWhole

\* The request of an exchange that ends without an answer.
LEMMA AbandonedWhole ==
    ASSUME DomainsHeld, NEW d \in Device, ExchangeWhole(d), LateWhole(d),
           late' \in Abandoned(d), durable'[d].version = durable[d].version, Work' = Work
    PROVE  /\ LateWhole(d)'
           /\ \A e \in Device \ {d} : late'[e] = late[e]
<1>1. CASE late' = late
  BY <1>1, LateStaysWhole
<1>2. CASE /\ late' = [late EXCEPT ![d] = OnItsWay(exchange[d].request)]
           /\ exchange[d].stage = "waiting"
  <2>1. /\ \A e \in Device \ {d} : late'[e] = late[e]
        /\ late'[d] = OnItsWay(exchange[d].request)
    BY <1>2 DEF DomainsHeld
  <2>2. PICK r : r = exchange[d].request
    OBVIOUS
  <2>3. RequestWhole(d, r)
    BY <1>2, <2>2 DEF ExchangeWhole
  <2>4. RequestWhole(d, r)'
    BY <2>3, RequestStaysWhole
  <2>5. late'[d].request = r
    BY <2>1, <2>2 DEF OnItsWay
  <2> QED
    BY <2>1, <2>4, <2>5 DEF LateWhole
<1> QED
  BY <1>1, <1>2 DEF Abandoned

-----------------------------------------------------------------------------
(* The steps of a device.                                                   *)

\* Every update of the work is on the log or in the store of its author, and
\* was written on such updates.
LEMMA WorkIsHeld ==
    ASSUME SyncInvariant, CausalLog, Sound, NEW w \in Work
    PROVE  \/ w[1] \in Document /\ w[2] \subseteq Document
           \/ \E d \in Device : w[1] \in Queued(d) /\ w[2] \subseteq durable[d].version
<1>1. rows \in Seq(Row) /\ Len(rows) \in Nat /\ DOMAIN rows = 1 .. Len(rows)
  BY DEF SyncInvariant, TypeOK
<1>2. ASSUME NEW n \in 1 .. Len(rows), w = <<rows[n].id, rows[n].base>>
      PROVE  w[1] \in Document /\ w[2] \subseteq Document
  <2>1. rows[n].base \subseteq Prefix(rows, n - 1)
    BY <1>1 DEF CausalLog
  <2>2. Prefix(rows, n - 1) \subseteq Document /\ rows[n].id \in Document
    BY <1>1 DEF Prefix, Document
  <2> QED
    BY <1>2, <2>1, <2>2
<1>3. ASSUME NEW d \in Device, NEW u \in Queued(d), w = <<u, queue[d][u].base>>
      PROVE  w[1] \in Queued(d) /\ w[2] \subseteq durable[d].version
  BY <1>3 DEF Sound, QueueHeld
<1> QED
  BY <1>2, <1>3, InWork

\* A new update is in no store, on no log, and under no work.
LEMMA NewIsUnknown ==
    ASSUME SyncInvariant, CausalLog, Sound, NEW d \in Device,
           NEW u \in Writes[d] \ durable[d].version
    PROVE  /\ \A e \in Device : u \notin durable[e].version
           /\ u \notin Document
           /\ \A w \in Work : w[1] # u /\ u \notin w[2]
           /\ \A e \in Device : u \notin Queued(e)
<1>1. \A e \in Device : /\ durable[e].version \subseteq Document \cup Queued(e)
                        /\ Queued(e) \subseteq Writes[e] \cap durable[e].version
                        /\ Writes[e] \cap Document \subseteq durable[e].version
  BY DEF SyncInvariant, DeviceHeld, StoreHeld
<1>2. u \notin Document
  BY <1>1
<1>3. ASSUME NEW e \in Device PROVE u \notin Queued(e)
  <2>1. CASE e = d
    BY <1>1, <2>1
  <2>2. CASE e # d
    <3>1. Writes[d] \cap Writes[e] = {}
      BY <2>2, SyncAssumption
    <3> QED
      BY <1>1, <3>1
  <2> QED
    BY <2>1, <2>2
<1>4. \A e \in Device : u \notin durable[e].version
  BY <1>1, <1>2, <1>3
<1>5. ASSUME NEW w \in Work PROVE w[1] # u /\ u \notin w[2]
  BY <1>2, <1>3, <1>4, WorkIsHeld
<1> QED
  BY <1>2, <1>3, <1>4, <1>5

LEMMA SoundEdit ==
    ASSUME SyncInvariant, ReplicasTyped, CausalLog, Sound, NEW t \in Tab, NEW u \in Update, Edit(t, u)
    PROVE  Sound'
<1> DEFINE d == Owner[t]
           written == <<u, tabs[t].visible>>
<1>1. d \in Device
  BY SyncAssumption
<1>2. PICK adopts \in BOOLEAN : Replica!EditWrites(t, u, adopts)
  BY DEF Edit, Replica!Edit
<1>3. /\ u \in Writes[d] \ durable[d].version
      /\ tabs[t].visible \subseteq durable[d].version
      /\ late' = late /\ UNCHANGED vars
  BY DEF Edit, Replica!Edit
<1>4. /\ durable' = [durable EXCEPT ![d].version = durable[d].version \cup {u}]
      /\ queue' = [queue EXCEPT ![d] =
              [v \in Queued(d) \cup {u} |-> IF v = u THEN Replica!NewRow(t) ELSE queue[d][v]]]
      /\ exchange' = exchange
      /\ tabs' = [tabs EXCEPT ![t] =
              [visible |-> IF adopts THEN durable[d].version \cup {u} ELSE tabs[t].visible \cup {u},
               next |-> tabs[t].next + 1]]
  BY <1>2 DEF Replica!EditWrites, Queued
<1> HIDE DEF d
<1>5. DomainsHeld /\ durable[d] \in Replica!State
  BY <1>1 DEF SyncInvariant, DeviceHeld, StoreHeld
<1>6. /\ durable'[d].version = durable[d].version \cup {u}
      /\ durable'[d].cursor = durable[d].cursor
      /\ durable'[d].server = durable[d].server
      /\ \A e \in Device \ {d} : durable'[e] = durable[e] /\ queue'[e] = queue[e]
      /\ queue'[d] = [v \in Queued(d) \cup {u} |->
                         IF v = u THEN Replica!NewRow(t) ELSE queue[d][v]]
      /\ tabs'[t].visible \in {durable[d].version \cup {u}, tabs[t].visible \cup {u}}
      /\ tabs'[t].next = tabs[t].next + 1
      /\ \A s \in Tab \ {t} : tabs'[s] = tabs[s]
  BY <1>1, <1>4, <1>5 DEF DomainsHeld, Replica!State
<1>7. /\ Queued(d)' = Queued(d) \cup {u}
      /\ \A e \in Device \ {d} : Queued(e)' = Queued(e)
  BY <1>6 DEF Queued, Replica!Queued
<1>8. /\ \A e \in Device : u \notin durable[e].version
      /\ \A w \in Work : w[1] # u /\ u \notin w[2]
      /\ u \notin Queued(d)
  BY <1>1, <1>3, NewIsUnknown
<1>9. rows' = rows
  BY <1>3 DEF vars
<1>10. Replica!NewRow(t).base = tabs[t].visible
  BY NewRowTyped
<1>11. Work' = Work \cup {written}
  <2>1. ASSUME NEW w \in Work' PROVE w \in Work \cup {written}
    <3>1. ASSUME NEW n \in 1 .. Len(rows'), w = <<rows'[n].id, rows'[n].base>>
          PROVE  w \in Work
      BY <1>9, <3>1, InWork
    <3>2. ASSUME NEW e \in Device, NEW v \in Queued(e)', w = <<v, queue'[e][v].base>>
          PROVE  w \in Work \cup {written}
      <4>1. CASE e = d /\ v = u
        BY <1>6, <1>10, <3>2, <4>1
      <4>2. CASE e = d /\ v # u
        <5>1. v \in Queued(d) /\ queue'[d][v] = queue[d][v]
          BY <1>6, <1>7, <4>2
        <5> QED
          BY <1>1, <3>2, <4>2, <5>1, InWork
      <4>3. CASE e # d
        BY <1>6, <1>7, <3>2, <4>3, InWork
      <4> QED
        BY <4>1, <4>2, <4>3
    <3> QED
      BY <3>1, <3>2, InWorkNext
  <2>2. ASSUME NEW w \in Work PROVE w \in Work'
    <3>1. ASSUME NEW n \in 1 .. Len(rows), w = <<rows[n].id, rows[n].base>>
          PROVE  w \in Work'
      BY <1>9, <3>1, InWorkNext
    <3>2. ASSUME NEW e \in Device, NEW v \in Queued(e), w = <<v, queue[e][v].base>>
          PROVE  w \in Work'
      <4>1. v \in Queued(e)' /\ queue'[e][v] = queue[e][v]
        BY <1>6, <1>7, <1>8
      <4> QED
        BY <3>2, <4>1, InWorkNext
    <3> QED
      BY <3>1, <3>2, InWork
  <2>3. written \in Work'
    <3>1. u \in Queued(d)' /\ queue'[d][u].base = tabs[t].visible
      BY <1>6, <1>7, <1>10
    <3> QED
      BY <1>1, <3>1, InWorkNext
  <2> QED
    BY <2>1, <2>2, <2>3
<1>12. written[1] = u /\ written[2] = tabs[t].visible
  OBVIOUS
<1> HIDE DEF written
<1>13. ASSUME NEW frontier, u \notin frontier, Closed(frontier)
       PROVE  \A w \in Work' : w[1] \in frontier => w[2] \subseteq frontier
  BY <1>11, <1>12, <1>13 DEF Closed
<1>14. ASSUME NEW frontier, Closed(frontier), tabs[t].visible \subseteq frontier
       PROVE  \A w \in Work' : w[1] \in frontier \cup {u} => w[2] \subseteq frontier \cup {u}
  BY <1>8, <1>11, <1>12, <1>14 DEF Closed
<1>15. WorkWhole'
  <2>0. /\ \A v, w \in Work : v[1] = w[1] => v[2] = w[2]
        /\ \A w \in Work : Closed(w[2])
        /\ \A e \in Device : Closed(durable[e].version)
        /\ \A s \in Tab : Closed(tabs[s].visible)
    BY DEF Sound, WorkWhole
  <2>1. \A v, w \in Work' : v[1] = w[1] => v[2] = w[2]
    BY <1>8, <1>11, <1>12, <2>0
  <2>2. ASSUME NEW w \in Work' PROVE Closed(w[2])'
    <3>1. PICK frontier : frontier = w[2]
      OBVIOUS
    <3>2. u \notin frontier /\ Closed(frontier)
      BY <1>3, <1>8, <1>11, <1>12, <2>0, <3>1
    <3>3. Closed(frontier)'
      BY <1>13, <3>2 DEF Closed
    <3> QED
      BY <3>1, <3>3
  <2>3. ASSUME NEW e \in Device PROVE Closed(durable[e].version)'
    <3>1. PICK frontier : frontier = durable[e].version
      OBVIOUS
    <3>2. u \notin frontier /\ Closed(frontier)
      BY <1>8, <2>0, <3>1
    <3>3. CASE e = d
      <4>1. durable'[e].version = frontier \cup {u}
        BY <1>6, <3>1, <3>3
      <4>2. \A w \in Work' : w[1] \in frontier \cup {u} => w[2] \subseteq frontier \cup {u}
        BY <1>3, <1>14, <3>1, <3>2, <3>3
      <4> QED
        BY <4>1, <4>2 DEF Closed
    <3>4. CASE e # d
      <4>1. durable'[e].version = frontier
        BY <1>6, <3>1, <3>4
      <4>2. \A w \in Work' : w[1] \in frontier => w[2] \subseteq frontier
        BY <1>13, <3>2
      <4> QED
        BY <4>1, <4>2 DEF Closed
    <3> QED
      BY <3>3, <3>4
  <2>4. ASSUME NEW s \in Tab PROVE Closed(tabs[s].visible)'
    <3>1. CASE s # t
      <4>1. PICK frontier : frontier = tabs[s].visible
        OBVIOUS
      <4>2. Owner[s] \in Device /\ frontier \subseteq durable[Owner[s]].version
        BY <4>1, SyncAssumption DEF SyncInvariant, VisibleIsDurable
      <4>3. u \notin frontier /\ Closed(frontier)
        BY <1>8, <2>0, <4>1, <4>2
      <4>4. tabs'[s].visible = frontier
        BY <1>6, <3>1, <4>1
      <4>5. \A w \in Work' : w[1] \in frontier => w[2] \subseteq frontier
        BY <1>13, <4>3
      <4> QED
        BY <4>4, <4>5 DEF Closed
    <3>2. CASE s = t
      <4>1. PICK frontier : /\ tabs'[t].visible = frontier \cup {u}
                            /\ frontier \in {durable[d].version, tabs[t].visible}
        BY <1>6
      <4>2. Closed(frontier) /\ tabs[t].visible \subseteq frontier
        BY <1>1, <1>3, <2>0, <4>1
      <4>3. \A w \in Work' : w[1] \in frontier \cup {u} => w[2] \subseteq frontier \cup {u}
        BY <1>14, <4>2
      <4> QED
        BY <3>2, <4>1, <4>3 DEF Closed
    <3> QED
      BY <3>1, <3>2
  <2> QED
    BY <2>1, <2>2, <2>3, <2>4 DEF WorkWhole
<1>16. ASSUME NEW e \in Device PROVE QueueHeld(e)'
  <2>1. QueueHeld(e)
    BY DEF Sound
  <2>2. CASE e # d
    BY <1>6, <1>7, <2>1, <2>2 DEF QueueHeld
  <2>3. CASE e = d
    <3> SUFFICES ASSUME NEW v \in Queued(d)'
                 PROVE  queue'[d][v].base \subseteq durable'[d].version
      BY <2>3 DEF QueueHeld
    <3>1. CASE v = u
      BY <1>3, <1>6, <1>10, <3>1
    <3>2. CASE v # u
      <4>1. v \in Queued(d) /\ queue'[d][v] = queue[d][v]
        BY <1>6, <1>7, <3>2
      <4> QED
        BY <1>6, <2>1, <2>3, <4>1 DEF QueueHeld
    <3> QED
      BY <3>1, <3>2
  <2> QED
    BY <2>2, <2>3
<1>17. ASSUME NEW e \in Device PROVE ExchangeWhole(e)' /\ LateWhole(e)'
  <2>1. /\ durable[e].version \subseteq durable'[e].version
        /\ durable'[e].cursor = durable[e].cursor /\ durable'[e].server = durable[e].server
    BY <1>6
  <2>2. \A w \in Work' \ Work : w[1] \notin durable[e].version
    BY <1>8, <1>11, <1>12
  <2>3. ExchangeWhole(e) /\ LateWhole(e) /\ ExchangeHeld(e)
    BY DEF Sound, SyncInvariant, DeviceHeld
  <2>4. Work \subseteq Work' /\ exchange'[e] = exchange[e] /\ late'[e] = late[e]
    BY <1>3, <1>4, <1>11
  <2>5. ExchangeWhole(e)'
    BY <2>1, <2>2, <2>3, <2>4, ExchangeStaysWhole
  <2>6. LateWhole(e)'
    BY <2>1, <2>3, <2>4, LateStaysWhole
  <2> QED
    BY <2>5, <2>6
<1>18. RowsOwned'
  BY <1>9 DEF Sound, RowsOwned
<1> QED
  BY <1>15, <1>16, <1>17, <1>18 DEF Sound

\* A step that leaves the work where it is.
LEMMA SoundKept ==
    ASSUME SyncInvariant, Sound, Work' = Work, durable' = durable, RowsOwned',
           \A e \in Device : Queued(e)' = Queued(e),
           \A e \in Device : \A u \in Queued(e) : queue'[e][u].base = queue[e][u].base,
           \A t \in Tab : tabs'[t].visible \in {tabs[t].visible, durable[Owner[t]].version},
           \A e \in Device : exchange'[e] = exchange[e] \/ ExchangeWhole(e)',
           \A e \in Device : LateWhole(e)'
    PROVE  Sound'
<1>1. WorkWhole'
  <2>1. \A e \in Device : Closed(durable[e].version)'
    <3> SUFFICES ASSUME NEW e \in Device PROVE Closed(durable[e].version)'
      OBVIOUS
    <3>1. PICK frontier : frontier = durable[e].version
      OBVIOUS
    <3>2. Closed(frontier)'
      BY <3>1 DEF Sound, WorkWhole, Closed
    <3> QED
      BY <3>1, <3>2
  <2>2. \A t \in Tab : Closed(tabs[t].visible)'
    <3> SUFFICES ASSUME NEW t \in Tab PROVE Closed(tabs[t].visible)'
      OBVIOUS
    <3>1. PICK frontier : frontier = tabs'[t].visible
      OBVIOUS
    <3>2. Closed(frontier)
      BY <3>1, SyncAssumption DEF Sound, WorkWhole
    <3>3. \A w \in Work' : w[1] \in frontier => w[2] \subseteq frontier
      BY <3>2 DEF Closed
    <3> QED
      BY <3>1, <3>3 DEF Closed
  <2>3. /\ \A v, w \in Work' : v[1] = w[1] => v[2] = w[2]
        /\ \A w \in Work' : Closed(w[2])'
    BY DEF Sound, WorkWhole, Closed
  <2> QED
    BY <2>1, <2>2, <2>3 DEF WorkWhole
<1>2. \A e \in Device : QueueHeld(e)'
  BY DEF Sound, QueueHeld
<1>3. ASSUME NEW e \in Device PROVE ExchangeWhole(e)'
  <2>1. CASE exchange'[e] = exchange[e]
    <3>1. /\ durable'[e] = durable[e] /\ Work \subseteq Work'
          /\ \A w \in Work' \ Work : w[1] \notin durable[e].version
      OBVIOUS
    <3>2. ExchangeWhole(e) /\ ExchangeHeld(e)
      BY DEF Sound, SyncInvariant, DeviceHeld
    <3> QED
      BY <2>1, <3>1, <3>2, ExchangeStaysWhole
  <2> QED
    BY <2>1
<1> QED
  BY <1>1, <1>2, <1>3 DEF Sound

\* A step of a device alone: rows are claimed or released, an editor is opened,
\* an exchange begins or ends.
LEMMA SoundAlone ==
    ASSUME SyncInvariant, Sound, UNCHANGED <<vars, durable>>,
           \A e \in Device : Queued(e)' = Queued(e),
           \A e \in Device : \A u \in Queued(e) : queue'[e][u].base = queue[e][u].base,
           \A t \in Tab : tabs'[t].visible \in {tabs[t].visible, durable[Owner[t]].version},
           \A e \in Device :
               \/ exchange'[e] = exchange[e]
               \/ /\ exchange'[e].stage # "answered"
                  /\ exchange'[e].stage # "idle" => RequestWhole(e, exchange'[e].request),
           \A e \in Device : Work' = Work => LateWhole(e)'
    PROVE  Sound'
<1>1. rows' = rows /\ durable' = durable
  BY DEF vars
<1>2. Work' = Work
  <2>1. Len(rows') = Len(rows) /\ \A n \in 1 .. Len(rows) : SameRow(rows[n], rows'[n])
    BY <1>1 DEF SameRow
  <2> QED
    BY <2>1, WorkKept
<1>3. ASSUME NEW e \in Device PROVE exchange'[e] = exchange[e] \/ ExchangeWhole(e)'
  <2>1. PICK r : r = exchange'[e].request
    OBVIOUS
  <2>2. RequestWhole(e, r) => RequestWhole(e, r)'
    BY <1>1, <1>2, RequestStaysWhole
  <2> QED
    BY <2>1, <2>2 DEF ExchangeWhole
<1>4. RowsOwned'
  BY <1>1 DEF Sound, RowsOwned
<1>5. \A e \in Device : LateWhole(e)'
  BY <1>2
<1> QED
  BY <1>1, <1>2, <1>3, <1>4, <1>5, SoundKept

LEMMA SoundClaim ==
    ASSUME SyncInvariant, ReplicasTyped, Sound, NEW d \in Device, NEW status, NEW x,
           UNCHANGED <<vars, durable, tabs>>,
           queue' = Replica!WithStatus(d, status),
           exchange' = [exchange EXCEPT ![d] = x],
           x.stage # "answered",
           x.stage # "idle" => RequestWhole(d, x.request),
           late' \in Abandoned(d)
    PROVE  Sound'
<1>1. DomainsHeld /\ StoreHeld(d)
  BY DEF SyncInvariant, DeviceHeld
<1>2. /\ \A e \in Device \ {d} : queue'[e] = queue[e]
      /\ Queued(d)' = Queued(d)
      /\ \A u \in Queued(d) : queue'[d][u].base = queue[d][u].base
  BY <1>1, StatusKept
<1>4. /\ \A e \in Device : Queued(e)' = Queued(e)
      /\ \A e \in Device : \A u \in Queued(e) : queue'[e][u].base = queue[e][u].base
  BY <1>2 DEF Queued, Replica!Queued
<1>5. \A e \in Device : exchange'[e] = IF e = d THEN x ELSE exchange[e]
  BY <1>1 DEF DomainsHeld
<1>6. \A e \in Device :
         \/ exchange'[e] = exchange[e]
         \/ /\ exchange'[e].stage # "answered"
            /\ exchange'[e].stage # "idle" => RequestWhole(e, exchange'[e].request)
  BY <1>5
<1>7. ASSUME Work' = Work, NEW e \in Device PROVE LateWhole(e)'
  <2>1. LateWhole(d)' /\ \A f \in Device \ {d} : late'[f] = late[f]
    BY <1>1, <1>7, AbandonedWhole DEF Sound
  <2>2. CASE e # d
    <3>1. LateWhole(e) /\ late'[e] = late[e]
      BY <2>1, <2>2 DEF Sound
    <3> QED
      BY <1>7, <3>1, LateStaysWhole
  <2> QED
    BY <2>1, <2>2
<1>8. \A t \in Tab : tabs'[t].visible \in {tabs[t].visible, durable[Owner[t]].version}
  OBVIOUS
<1>9. UNCHANGED <<vars, durable>>
  OBVIOUS
<1> QED
  BY <1>4, <1>6, <1>7, <1>8, <1>9, SoundAlone

LEMMA OutgoingWhole ==
    ASSUME SyncInvariant, ReplicasTyped, Sound, NEW d \in Device, NEW batch \in Replica!Batches(d)
    PROVE  RequestWhole(d, Replica!Outgoing(d, batch))
<1> DEFINE r == Replica!Outgoing(d, batch)
           row(n) == [id |-> batch[n], base |-> queue[d][batch[n]].base]
<1>1. PICK k \in 0 .. MaxBatch : batch \in [1 .. k -> Replica!Waiting(d)]
  BY DEF Replica!Batches
<1>2. k \in Nat /\ DOMAIN batch = 1 .. k /\ Len(batch) = k
  BY <1>1, SyncAssumption
<1>3. \A n \in 1 .. k : batch[n] \in Queued(d)
  BY <1>1 DEF Replica!Waiting, Queued
<1>4. /\ r.updates = [n \in 1 .. k |-> row(n)]
      /\ r.persisted = IF batch = << >> THEN durable[d].version
                       ELSE Replica!Result(d, batch[k])
  BY <1>2 DEF Replica!Outgoing
<1>5. \A u \in Queued(d) : u \in durable[d].version /\ queue[d][u].base \subseteq durable[d].version
  BY DEF Sound, QueueHeld, SyncInvariant, DeviceHeld, StoreHeld
<1>6. r.persisted \subseteq durable[d].version
  <2>1. CASE batch = << >>
    BY <1>4, <2>1
  <2>2. CASE batch # << >>
    <3>1. k # 0
      BY <1>1, <2>2
    <3>2. batch[k] \in Queued(d)
      BY <1>2, <1>3, <3>1
    <3> QED
      BY <1>4, <1>5, <2>2, <3>2 DEF Replica!Result
  <2> QED
    BY <2>1, <2>2
<1>7. ASSUME NEW i \in 1 .. k, NEW j \in 1 .. k, i < j
      PROVE  batch[i] # batch[j]
  <2>1. Replica!Ahead(d, batch[i], batch[j])
    BY <1>2, <1>7 DEF Replica!Batches, Replica!IsBatch
  <2>2. queue[d][batch[j]] \in Replica!QueueRow
    BY <1>3 DEF ReplicasTyped
  <2>3. queue[d][batch[j]].order \in Nat /\ queue[d][batch[j]].age \in Nat
    BY <2>2 DEF Replica!QueueRow
  <2> QED
    BY <2>1, <2>3 DEF Replica!Ahead
<1> HIDE DEF r
<1>8. DOMAIN r.updates = 1 .. k
  BY <1>4
<1>9. \A n \in 1 .. k : r.updates[n].id = batch[n] /\ r.updates[n].base = queue[d][batch[n]].base
  BY <1>4
<1>10. \A n \in 1 .. k : <<r.updates[n].id, r.updates[n].base>> \in Work
  BY <1>3, <1>9, InWork
<1>11. \A i, j \in 1 .. k : r.updates[i].id = r.updates[j].id => i = j
  <2> TAKE i, j \in 1 .. k
  <2>1. batch[i] = batch[j] => ~(i < j) /\ ~(j < i)
    BY <1>7
  <2> QED
    BY <1>2, <1>9, <2>1
<1>12. RequestWhole(d, r)
  BY <1>6, <1>8, <1>10, <1>11 DEF RequestWhole
<1> QED
  BY <1>12 DEF r

LEMMA SoundSend ==
    ASSUME SyncInvariant, ReplicasTyped, Sound, NEW d \in Device, Send(d)
    PROVE  Sound'
<1>1. PICK batch \in Replica!Batches(d) :
         /\ queue' = Replica!WithStatus(d, [u \in Queued(d) |->
                IF \E n \in DOMAIN batch : batch[n] = u THEN "sending"
                ELSE IF u \in Replica!Waiting(d) THEN "pending" ELSE "blocked"])
         /\ exchange' = [exchange EXCEPT ![d] =
                [stage |-> "waiting", request |-> Replica!Outgoing(d, batch)]]
  BY DEF Send, Replica!Send, Queued
<1> DEFINE status == [u \in Queued(d) |->
                IF \E n \in DOMAIN batch : batch[n] = u THEN "sending"
                ELSE IF u \in Replica!Waiting(d) THEN "pending" ELSE "blocked"]
           x == [stage |-> "waiting", request |-> Replica!Outgoing(d, batch)]
<1>3. x.stage = "waiting" /\ RequestWhole(d, x.request)
  BY OutgoingWhole
<1>4. queue' = Replica!WithStatus(d, status) /\ exchange' = [exchange EXCEPT ![d] = x]
  BY <1>1
<1>5. UNCHANGED <<vars, durable, tabs>> /\ late' \in Abandoned(d)
  BY DEF Send, Replica!Send, Abandoned
<1> HIDE DEF status, x
<1> QED
  BY <1>3, <1>4, <1>5, SoundClaim

\* An exchange that ends without a commit.
LEMMA SoundEnd ==
    ASSUME SyncInvariant, ReplicasTyped, Sound, NEW d \in Device, NEW s, Replica!EndExchange(d, s),
           UNCHANGED vars, late' \in Abandoned(d)
    PROVE  Sound'
<1>1. PICK status : queue' = Replica!WithStatus(d, status)
  BY DEF Replica!EndExchange
<1>2. exchange' = [exchange EXCEPT ![d] = Replica!Idle] /\ UNCHANGED <<durable, tabs>>
  BY DEF Replica!EndExchange
<1>3. Replica!Idle.stage = "idle"
  BY DEF Replica!Idle
<1> QED
  BY <1>1, <1>2, <1>3, SoundClaim

LEMMA SoundOpened ==
    ASSUME SyncInvariant, Sound, NEW t \in Tab, Adopt(t) \/ Reload(t)
    PROVE  Sound'
<1> DEFINE d == Owner[t]
<1>1. d \in Device
  BY SyncAssumption
<1>2. /\ durable' = durable /\ queue' = queue /\ UNCHANGED vars
      /\ exchange' = exchange \/ exchange' = [exchange EXCEPT ![d] = Replica!Idle]
      /\ \E next :
            tabs' = [tabs EXCEPT ![t] = [visible |-> durable[d].version, next |-> next]]
      /\ late' \in Abandoned(d)
  BY DEF Adopt, Replica!Adopt, Reload, Replica!Reload, Abandoned
<1>3. \A s \in Tab : tabs'[s].visible \in {tabs[s].visible, durable[Owner[s]].version}
  BY <1>2 DEF SyncInvariant, DomainsHeld
<1> HIDE DEF d
<1>4. DomainsHeld
  BY DEF SyncInvariant
<1>5. \A e \in Device : exchange'[e] = exchange[e] \/ exchange'[e].stage = "idle"
  BY <1>2, <1>4 DEF DomainsHeld, Replica!Idle
<1>6. \A e \in Device : Queued(e)' = Queued(e)
  BY <1>2 DEF Queued, Replica!Queued
<1>7. \A e \in Device : \A u \in Queued(e) : queue'[e][u].base = queue[e][u].base
  BY <1>2
<1>8. ASSUME Work' = Work, NEW e \in Device PROVE LateWhole(e)'
  <2>1. LateWhole(d)' /\ \A f \in Device \ {d} : late'[f] = late[f]
    BY <1>1, <1>2, <1>4, <1>8, AbandonedWhole DEF Sound
  <2>2. CASE e # d
    <3>1. LateWhole(e) /\ late'[e] = late[e]
      BY <2>1, <2>2 DEF Sound
    <3> QED
      BY <1>2, <1>8, <3>1, LateStaysWhole
  <2> QED
    BY <2>1, <2>2
<1>9. UNCHANGED <<vars, durable>>
  BY <1>2
<1>10. \A e \in Device :
          \/ exchange'[e] = exchange[e]
          \/ /\ exchange'[e].stage # "answered"
             /\ exchange'[e].stage # "idle" => RequestWhole(e, exchange'[e].request)
  BY <1>5
<1> QED
  BY <1>3, <1>6, <1>7, <1>8, <1>9, <1>10, SoundAlone

-----------------------------------------------------------------------------
(* The answers of the server.                                               *)

LEMMA RowsAreOwned ==
    ASSUME SyncInvariant, Sound, NEW d \in Device, NEW r, RequestHeld(d, r), NEW p \in Plans(r),
           rows' = AppendBatch(r, p.order)
    PROVE  RowsOwned'
<1>1. rows \in Seq(Row) /\ r \in Request /\ r.device = d /\ Ids(r) \subseteq Writes[d]
  BY DEF SyncInvariant, TypeOK, RequestHeld
<1>2. p.order \in ImportOrders(r)
  BY <1>1, PlanFacts
<1>3. /\ Len(rows') = Len(rows) + Len(p.order)
      /\ Len(rows) \in Nat /\ Len(p.order) \in Nat
      /\ \A n \in 1 .. Len(rows) : rows'[n] = rows[n]
      /\ \A k \in 1 .. Len(p.order) : rows'[Len(rows) + k] = BatchRow(r, p.order[k])
  BY <1>1, <1>2, AppendBatchType
<1>4. \A k \in 1 .. Len(p.order) : p.order[k] \in DOMAIN r.updates
  BY <1>1, <1>2, OrderType DEF NewIndexes
<1>5. ASSUME NEW n \in 1 .. Len(rows'), NEW e \in Device, rows'[n].id \in Writes[e]
      PROVE  rows'[n].device = e
  <2>1. CASE n \in 1 .. Len(rows)
    BY <1>3, <1>5, <2>1 DEF Sound, RowsOwned
  <2>2. CASE n \in Len(rows) + 1 .. Len(rows')
    <3>1. PICK k \in 1 .. Len(p.order) : n = Len(rows) + k
      <4>1. n - Len(rows) \in 1 .. Len(p.order) /\ n = Len(rows) + (n - Len(rows))
        BY <1>3, <2>2
      <4> QED
        BY <4>1
    <3>2. rows'[n].id = r.updates[p.order[k]].id /\ rows'[n].device = r.device
      <4>1. rows'[n] = BatchRow(r, p.order[k])
        BY <1>3, <3>1
      <4>2. /\ BatchRow(r, p.order[k]).id = r.updates[p.order[k]].id
            /\ BatchRow(r, p.order[k]).device = r.device
        BY DEF BatchRow
      <4> QED
        BY <4>1, <4>2
    <3>3. rows'[n].id \in Writes[d]
      BY <1>1, <1>4, <3>2 DEF Ids
    <3>4. e = d
      BY <1>5, <3>3, SyncAssumption
    <3> QED
      BY <1>1, <3>2, <3>4
  <2> QED
    BY <1>3, <2>1, <2>2
<1> QED
  BY <1>5 DEF RowsOwned

\* An answer brings rows of the log its request leaves.
LEMMA AnswerBringsWork ==
    ASSUME SyncInvariant, NEW d \in Device, NEW r, RequestHeld(d, r), NEW p \in Plans(r),
           rows' = AppendBatch(r, p.order), NEW a, a = Answered(r, p)
    PROVE  AnswerWorks(a)'
<1> DEFINE log == AppendBatch(r, p.order)
           carried == {n \in Sendable(log, r, p.confirmed) : n <= p.through}
<1>1. rows \in Seq(Row) /\ r \in Request
  BY DEF SyncInvariant, TypeOK, RequestHeld
<1>2. a.remote = {[id |-> log[n].id, base |-> log[n].base] : n \in carried}
  BY DEF Answered, Response
<1>3. Len(log) \in Nat
  BY <1>1, RemoteIsLogged
<1>4. p.confirmed \in Nat /\ p.confirmed <= Len(log)
  BY <1>1, PlanFacts
<1>5. rows' = log
  OBVIOUS
<1> HIDE DEF log
<1>6. carried \subseteq 1 .. Len(log)
  <2>1. WindowEnd(log, p.confirmed) <= Len(log) /\ WindowEnd(log, p.confirmed) \in Nat
    BY <1>3, <1>4, LimitsAssumption DEF WindowEnd
  <2> QED
    BY <1>3, <1>4, <2>1 DEF Sendable, NeedPayload
<1>7. \A n \in 1 .. Len(log) : <<log[n].id, log[n].base>> \in Work'
  BY <1>5, InWorkNext
<1> HIDE DEF carried
<1>8. ASSUME NEW u \in a.remote PROVE <<u.id, u.base>> \in Work'
  <2>1. PICK n \in carried : u = [id |-> log[n].id, base |-> log[n].base]
    BY <1>2, <1>8
  <2>2. u.id = log[n].id /\ u.base = log[n].base /\ n \in 1 .. Len(log)
    BY <1>6, <2>1
  <2> QED
    BY <1>7, <2>2
<1> QED
  BY <1>8 DEF AnswerWorks

\* An answer that reaches the end of the log is one its device will take.
LEMMA AnswerWhole ==
    ASSUME SyncInvariant, SoundLog, Sound, NEW d \in Device,
           NEW r, RequestHeld(d, r), RequestWhole(d, r), NEW p \in Plans(r), SyncBy(r, p),
           p.through = Len(AppendBatch(r, p.order)),
           durable' = durable, Work' = Work, NEW a, a = Answered(r, p)
    PROVE  AnswerTaken(d, r, a)'
<1> DEFINE log == AppendBatch(r, p.order)
           carried == {n \in Sendable(log, r, p.confirmed) : n <= p.through}
           merged == durable[d].version \cup {u.id : u \in a.remote}
<1>1. /\ rows \in Seq(Row) /\ r \in Request /\ Ids(r) \subseteq durable[d].version
      /\ r.persisted \subseteq durable[d].version
      /\ durable[d].cursor \in Nat /\ durable[d].cursor <= Len(rows)
      /\ durable[d].server \subseteq Document
  BY DEF SyncInvariant, TypeOK, RequestHeld, RequestWhole, DeviceHeld, StoreHeld, Replica!State
<1>2. /\ p.through = Len(log)
      /\ Len(log) \in Nat
      /\ Len(rows) <= Len(log) /\ Len(rows) \in Nat
      /\ \A n \in 1 .. Len(log) : log[n].base \subseteq Prefix(log, n - 1)
  BY <1>1, AppendedCausal
<1>3. /\ Document \subseteq Prefix(log, Len(log))
      /\ Ids(r) \subseteq Prefix(log, Len(log))
  BY <1>1, BatchImported
<1>4. rows' = log
  BY DEF SyncBy, SyncWrites
<1>5. /\ a.acknowledged = [u \in Ids(r) |->
             Prefix(log, CHOOSE n \in DOMAIN log : log[n].id = u)]
      /\ a.remote = {[id |-> log[n].id, base |-> log[n].base] : n \in carried}
      /\ a.document = Prefix(log, Len(log))
      /\ a.through = Len(log)
      /\ a.latest = Len(log)
  BY <1>2 DEF Answered, Response
<1>6. a.document \subseteq merged
  <2>1. Prefix(log, p.through)
            \subseteq r.persisted \cup Ids(r) \cup {u.id : u \in Response(r, p).remote}
    BY <1>1, AnswersHaveNoGap
  <2>2. Response(r, p).remote = a.remote
    BY DEF Answered
  <2> QED
    BY <1>1, <1>2, <1>5, <2>1, <2>2
<1>7. p.confirmed \in Nat /\ p.confirmed <= Len(log)
  BY <1>1, PlanFacts
<1>8. DOMAIN log = 1 .. Len(log)
  BY <1>1, PlanFacts, AppendBatchType
<1> HIDE DEF log
<1>9. carried \subseteq 1 .. Len(log)
  <2>1. WindowEnd(log, p.confirmed) <= Len(log) /\ WindowEnd(log, p.confirmed) \in Nat
    BY <1>2, <1>7, LimitsAssumption DEF WindowEnd
  <2> QED
    BY <1>2, <1>7, <2>1 DEF Sendable, NeedPayload
<1>10. \A n \in 1 .. Len(log) : <<log[n].id, log[n].base>> \in Work
  BY <1>4, InWorkNext
<1>11. \A n \in 0 .. Len(log) : Prefix(log, n) \subseteq Prefix(log, Len(log))
  BY <1>2, PrefixGrows
<1>12. ASSUME NEW u \in a.remote
       PROVE  u.base \subseteq merged
  <2>1. PICK n \in carried : u = [id |-> log[n].id, base |-> log[n].base]
    BY <1>5, <1>12
  <2>2. u.id = log[n].id /\ u.base = log[n].base /\ n \in 1 .. Len(log)
    BY <1>9, <2>1
  <2>3. log[n].base \subseteq Prefix(log, Len(log))
    <3>1. n - 1 \in 0 .. Len(log)
      BY <1>2, <2>2
    <3>2. Prefix(log, n - 1) \subseteq Prefix(log, Len(log))
      BY <1>11, <3>1
    <3> QED
      BY <1>2, <2>2, <3>2
  <2> HIDE DEF carried, merged
  <2> QED
    BY <1>5, <1>6, <2>2, <2>3
<1>13. ASSUME NEW w \in Work, w[1] \in Ids(r)
       PROVE  /\ w[2] \cup {w[1]} \subseteq a.acknowledged[w[1]]
              /\ a.acknowledged[w[1]] \subseteq a.document
  <2> DEFINE n == CHOOSE m \in DOMAIN log : log[m].id = w[1]
  <2>1. \E m \in 1 .. Len(log) : log[m].id = w[1]
    BY <1>3, <1>13 DEF Prefix
  <2>2. n \in 1 .. Len(log) /\ log[n].id = w[1]
    BY <1>8, <2>1
  <2>3. a.acknowledged[w[1]] = Prefix(log, n)
    BY <1>5, <1>13
  <2> HIDE DEF n
  <2>4. log[n].base = w[2]
    <3>1. PICK v : v = <<log[n].id, log[n].base>>
      OBVIOUS
    <3>2. v \in Work /\ v[1] = log[n].id /\ v[2] = log[n].base
      BY <1>10, <2>2, <3>1
    <3> QED
      BY <2>2, <3>2 DEF Sound, WorkWhole
  <2>5. Prefix(log, n - 1) \subseteq Prefix(log, n) /\ log[n].id \in Prefix(log, n)
    BY <2>2 DEF Prefix
  <2>6. log[n].base \subseteq Prefix(log, n - 1)
    BY <1>2, <2>2
  <2>7. Prefix(log, n) \subseteq a.document
    <3>1. n \in 0 .. Len(log)
      BY <2>2
    <3> QED
      BY <1>5, <1>11, <3>1
  <2> QED
    BY <2>2, <2>3, <2>4, <2>5, <2>6, <2>7
<1>14. /\ durable[d].cursor <= a.through
       /\ a.through <= a.latest
       /\ DOMAIN a.acknowledged = Ids(r)
       /\ durable[d].server \subseteq a.document
  BY <1>1, <1>2, <1>3, <1>5
<1>15. Ids(r)' = Ids(r)
  BY DEF Ids
<1> HIDE DEF carried, Work
<1> QED
  BY <1>6, <1>12, <1>13, <1>14, <1>15 DEF AnswerTaken, merged

\* A request that is served, in time or late.
LEMMA SoundServed ==
    ASSUME SyncInvariant, Sound, NEW d \in Device, NEW r, RequestHeld(d, r), RequestWhole(d, r),
           NEW p \in Plans(r), SyncBy(r, p), UNCHANGED <<durable, queue, tabs>>,
           \A e \in Device :
               \/ exchange'[e] = exchange[e]
               \/ Work' = Work => ExchangeWhole(e)',
           \A e \in Device : late'[e] = late[e] \/ late'[e] = None
    PROVE  Sound' /\ Work' = Work
<1>1. rows' = AppendBatch(r, p.order)
  BY DEF SyncBy, SyncWrites
<1>2. Work' = Work
  <2>1. r \in Request /\ TypeOK
    BY DEF RequestHeld, SyncInvariant
  <2>2. \A i \in DOMAIN r.updates : <<r.updates[i].id, r.updates[i].base>> \in Work
    BY DEF RequestWhole
  <2> QED
    BY <1>1, <2>1, <2>2, WorkServed
<1>3. RowsOwned'
  BY <1>1, RowsAreOwned
<1>5. /\ \A e \in Device : Queued(e)' = Queued(e)
      /\ \A e \in Device : \A u \in Queued(e) : queue'[e][u].base = queue[e][u].base
  BY DEF Queued, Replica!Queued
<1>6. \A e \in Device : LateWhole(e)'
  BY <1>2, LateStaysWhole DEF Sound
<1>7. \A e \in Device : exchange'[e] = exchange[e] \/ ExchangeWhole(e)'
  BY <1>2
<1>8. \A t \in Tab : tabs'[t].visible \in {tabs[t].visible, durable[Owner[t]].version}
  OBVIOUS
<1> QED
  BY <1>1, <1>2, <1>3, <1>5, <1>6, <1>7, <1>8, SoundKept

LEMMA SoundServe ==
    ASSUME SyncInvariant, SoundLog, Sound, NEW d \in Device, Serve(d)
    PROVE  Sound'
<1>1. PICK r : r = exchange[d].request
  OBVIOUS
<1>2. PICK p \in Plans(r) :
         SyncBy(r, p) /\ Replica!Receive(d, Answered(r, p)) /\ UNCHANGED late
  BY <1>1 DEF Serve
<1>3. PICK a : a = Answered(r, p)
  OBVIOUS
<1>4. /\ exchange[d].stage = "waiting"
      /\ exchange' = [exchange EXCEPT ![d] =
             [stage |-> "answered", request |-> r, response |-> a]]
      /\ UNCHANGED <<durable, queue, tabs>>
  BY <1>1, <1>2, <1>3 DEF Replica!Receive
<1>5. RequestHeld(d, r) /\ RequestWhole(d, r) /\ DomainsHeld
  BY <1>1, <1>4 DEF SyncInvariant, DeviceHeld, ExchangeHeld, Sound, ExchangeWhole
<1>6. /\ exchange'[d].request = r /\ exchange'[d].response = a
      /\ \A e \in Device \ {d} : exchange'[e] = exchange[e]
  BY <1>4, <1>5 DEF DomainsHeld
<1>7. ASSUME Work' = Work PROVE ExchangeWhole(d)'
  <2>1. ASSUME Uncut(a) PROVE AnswerTaken(d, r, a)'
    <3>1. p.through = Len(AppendBatch(r, p.order))
      BY <1>3, <2>1 DEF Uncut, Answered, Response
    <3> QED
      BY <1>2, <1>3, <1>4, <1>5, <1>7, <3>1, AnswerWhole
  <2>2. RequestWhole(d, r)'
    BY <1>4, <1>5, <1>7, RequestStaysWhole
  <2>3. AnswerWorks(a)'
    <3>1. rows' = AppendBatch(r, p.order)
      BY <1>2 DEF SyncBy, SyncWrites
    <3> QED
      BY <1>3, <1>5, <3>1, AnswerBringsWork
  <2>4. Uncut(a)' = Uncut(a)
    BY DEF Uncut
  <2> QED
    BY <1>6, <2>1, <2>2, <2>3, <2>4 DEF ExchangeWhole
<1>8. \A e \in Device :
         \/ exchange'[e] = exchange[e]
         \/ Work' = Work => ExchangeWhole(e)'
  BY <1>6, <1>7
<1>9. \A e \in Device : late'[e] = late[e] \/ late'[e] = None
  BY <1>2
<1> QED
  BY <1>2, <1>4, <1>5, <1>8, <1>9, SoundServed

LEMMA SoundServeLate ==
    ASSUME SyncInvariant, Sound, NEW d \in Device, ServeLate(d)
    PROVE  Sound'
<1>1. PICK r : r = late[d].request
  OBVIOUS
<1>2. /\ late[d] # None
      /\ UNCHANGED <<durable, queue, tabs, exchange>>
      /\ late' = [late EXCEPT ![d] = None]
      /\ Sync(r) \/ UNCHANGED vars
  BY <1>1 DEF ServeLate, replicaVars
<1>3. RequestHeld(d, r) /\ RequestWhole(d, r) /\ DomainsHeld
  BY <1>1, <1>2 DEF SyncInvariant, DeviceHeld, LateHeld, Sound, LateWhole
<1>4. \A e \in Device : late'[e] = late[e] \/ late'[e] = None
  BY <1>2, <1>3 DEF DomainsHeld
<1>5. CASE Sync(r)
  <2>1. PICK p \in Plans(r) : SyncBy(r, p)
    BY <1>5 DEF Sync
  <2> QED
    BY <1>2, <1>3, <1>4, <2>1, SoundServed
<1>6. CASE UNCHANGED vars
  <2>1. \A e \in Device : Work' = Work => LateWhole(e)'
    BY <1>2, <1>4, LateStaysWhole DEF Sound
  <2>2. /\ \A e \in Device : Queued(e)' = Queued(e)
        /\ \A e \in Device : \A u \in Queued(e) : queue'[e][u].base = queue[e][u].base
    BY <1>2 DEF Queued, Replica!Queued
  <2>3. \A t \in Tab : tabs'[t].visible \in {tabs[t].visible, durable[Owner[t]].version}
    BY <1>2
  <2> QED
    BY <1>2, <1>6, <2>1, <2>2, <2>3, SoundAlone
<1> QED
  BY <1>2, <1>5, <1>6

\* A command of the server on top of the page: what it writes is new.
LEMMA SoundAuthored ==
    ASSUME SyncInvariant, CausalLog, Sound, NEW u \in ServerUpdate, NEW e \in Device,
           ApplyServerCommands(u, e), UNCHANGED <<durable, queue, tabs, exchange, late>>
    PROVE  Sound'
<1> DEFINE row == [id |-> u, device |-> e, base |-> Document, compacted |-> FALSE]
<1>1. rows \in Seq(Row) /\ Len(rows) \in Nat /\ DOMAIN rows = 1 .. Len(rows)
  BY DEF SyncInvariant, TypeOK
<1>2. rows' = Append(rows, row) /\ u \notin Document
  BY DEF ApplyServerCommands
<1>3. row.id = u /\ row.base = Document /\ row.device = e
  OBVIOUS
<1> HIDE DEF row
<1>4. /\ Len(rows') = Len(rows) + 1
      /\ \A n \in 1 .. Len(rows) : rows'[n] = rows[n]
      /\ rows'[Len(rows) + 1] = row
  BY <1>1, <1>2
<1>5. \A d \in Device : Queued(d)' = Queued(d)
  BY DEF Queued, Replica!Queued
<1>6. ASSUME NEW d \in Device
      PROVE  u \notin Queued(d) /\ u \notin durable[d].version /\ u \notin Writes[d]
  <2>1. /\ Queued(d) \subseteq Writes[d]
        /\ durable[d].version \subseteq Document \cup Queued(d)
    BY DEF SyncInvariant, DeviceHeld, StoreHeld
  <2>2. Writes[d] \cap ServerUpdate = {}
    BY SyncAssumption
  <2> QED
    BY <1>2, <2>1, <2>2
<1>7. \A w \in Work : w[1] # u /\ u \notin w[2]
  BY <1>2, <1>6, WorkIsHeld
<1>8. /\ \A v, w \in Work : v[1] = w[1] => v[2] = w[2]
      /\ \A w \in Work : Closed(w[2])
      /\ \A d \in Device : Closed(durable[d].version)
      /\ \A t \in Tab : Closed(tabs[t].visible)
  BY DEF Sound, WorkWhole
<1>9. Closed(Document)
  <2>1. ASSUME NEW w \in Work, w[1] \in Document PROVE w[2] \subseteq Document
    <3>1. PICK n \in 1 .. Len(rows) : rows[n].id = w[1]
      BY <2>1 DEF Document, Prefix
    <3>2. PICK v : v = <<rows[n].id, rows[n].base>>
      OBVIOUS
    <3>3. v \in Work /\ v[1] = w[1] /\ v[2] = rows[n].base
      BY <3>1, <3>2, InWork
    <3>4. w[2] = rows[n].base
      BY <1>8, <3>3
    <3>5. rows[n].base \subseteq Prefix(rows, n - 1)
      BY <1>1 DEF CausalLog
    <3>6. Prefix(rows, n - 1) \subseteq Document
      BY <1>1 DEF Prefix, Document
    <3> QED
      BY <3>4, <3>5, <3>6
  <2> QED
    BY <2>1 DEF Closed
<1>10. PICK written : written = <<u, Document>>
  OBVIOUS
<1>11. written[1] = u /\ written[2] = Document
  BY <1>10
<1>12. Work' = Work \cup {written}
  <2>1. ASSUME NEW w \in Work' PROVE w \in Work \cup {written}
    <3>1. ASSUME NEW n \in 1 .. Len(rows'), w = <<rows'[n].id, rows'[n].base>>
          PROVE  w \in Work \cup {written}
      <4>1. CASE n \in 1 .. Len(rows)
        BY <1>4, <3>1, <4>1, InWork
      <4>2. CASE n = Len(rows) + 1
        BY <1>3, <1>4, <1>10, <3>1, <4>2
      <4> QED
        BY <1>1, <1>4, <4>1, <4>2
    <3>2. ASSUME NEW d \in Device, NEW v \in Queued(d)', w = <<v, queue'[d][v].base>>
          PROVE  w \in Work
      BY <1>5, <3>2, InWork
    <3> QED
      BY <3>1, <3>2, InWorkNext
  <2>2. ASSUME NEW w \in Work PROVE w \in Work'
    <3>1. ASSUME NEW n \in 1 .. Len(rows), w = <<rows[n].id, rows[n].base>>
          PROVE  w \in Work'
      <4>1. n \in 1 .. Len(rows') /\ rows'[n] = rows[n]
        BY <1>1, <1>4
      <4> QED
        BY <3>1, <4>1, InWorkNext
    <3>2. ASSUME NEW d \in Device, NEW v \in Queued(d), w = <<v, queue[d][v].base>>
          PROVE  w \in Work'
      BY <1>5, <3>2, InWorkNext
    <3> QED
      BY <3>1, <3>2, InWork
  <2>3. written \in Work'
    <3>1. Len(rows) + 1 \in 1 .. Len(rows')
      BY <1>1, <1>4
    <3> QED
      BY <1>3, <1>4, <1>10, <3>1, InWorkNext
  <2> QED
    BY <2>1, <2>2, <2>3
<1>13. ASSUME NEW frontier, u \notin frontier, Closed(frontier)
       PROVE  \A w \in Work' : w[1] \in frontier => w[2] \subseteq frontier
  BY <1>11, <1>12, <1>13 DEF Closed
<1>14. WorkWhole'
  <2>1. \A v, w \in Work' : v[1] = w[1] => v[2] = w[2]
    BY <1>7, <1>8, <1>11, <1>12
  <2>2. ASSUME NEW w \in Work' PROVE Closed(w[2])'
    <3>1. PICK frontier : frontier = w[2]
      OBVIOUS
    <3>2. u \notin frontier /\ Closed(frontier)
      BY <1>2, <1>7, <1>8, <1>9, <1>11, <1>12, <3>1
    <3>3. Closed(frontier)'
      BY <1>13, <3>2 DEF Closed
    <3> QED
      BY <3>1, <3>3
  <2>3. ASSUME NEW d \in Device PROVE Closed(durable[d].version)'
    <3>1. PICK frontier : frontier = durable[d].version
      OBVIOUS
    <3>2. \A w \in Work' : w[1] \in frontier => w[2] \subseteq frontier
      BY <1>6, <1>8, <1>13, <3>1
    <3> QED
      BY <3>1, <3>2 DEF Closed
  <2>4. ASSUME NEW t \in Tab PROVE Closed(tabs[t].visible)'
    <3>1. PICK frontier : frontier = tabs[t].visible
      OBVIOUS
    <3>2. Owner[t] \in Device /\ frontier \subseteq durable[Owner[t]].version
      BY <3>1, SyncAssumption DEF SyncInvariant, VisibleIsDurable
    <3>3. \A w \in Work' : w[1] \in frontier => w[2] \subseteq frontier
      BY <1>6, <1>8, <1>13, <3>1, <3>2
    <3> QED
      BY <3>1, <3>3 DEF Closed
  <2> QED
    BY <2>1, <2>2, <2>3, <2>4 DEF WorkWhole
<1>15. \A d \in Device : QueueHeld(d)'
  BY <1>5 DEF Sound, QueueHeld
<1>16. ASSUME NEW d \in Device PROVE ExchangeWhole(d)' /\ LateWhole(d)'
  <2>1. /\ durable'[d] = durable[d] /\ exchange'[d] = exchange[d] /\ late'[d] = late[d]
        /\ Work \subseteq Work' /\ \A w \in Work' \ Work : w[1] \notin durable[d].version
    BY <1>6, <1>11, <1>12
  <2>2. ExchangeWhole(d) /\ LateWhole(d) /\ ExchangeHeld(d)
    BY DEF Sound, SyncInvariant, DeviceHeld
  <2> QED
    BY <2>1, <2>2, ExchangeStaysWhole, LateStaysWhole
<1>17. RowsOwned'
  <2> SUFFICES ASSUME NEW n \in 1 .. Len(rows'), NEW d \in Device, rows'[n].id \in Writes[d]
               PROVE  rows'[n].device = d
    BY DEF RowsOwned
  <2>1. n \in 1 .. Len(rows)
    <3>1. n # Len(rows) + 1
      BY <1>3, <1>4, <1>6
    <3> QED
      BY <1>1, <1>4, <3>1
  <2> QED
    BY <1>4, <2>1 DEF Sound, RowsOwned
<1> QED
  BY <1>14, <1>15, <1>16, <1>17 DEF Sound

\* The maintenance of the server, and the account of a device: no row is written.
LEMMA SoundMaintained ==
    ASSUME SyncInvariant, Sound, UNCHANGED <<durable, queue, tabs, exchange, late>>,
           rows' = rows \/ \E c \in DOMAIN checkpoints : Compact(c)
    PROVE  Sound'
<1>1. rows \in Seq(Row) /\ Len(rows) \in Nat /\ DOMAIN rows = 1 .. Len(rows)
  BY DEF SyncInvariant, TypeOK
<1>2. /\ Len(rows') = Len(rows)
      /\ \A n \in 1 .. Len(rows) :
            SameRow(rows[n], rows'[n]) /\ rows'[n].device = rows[n].device
  <2>1. CASE rows' = rows
    BY <2>1 DEF SameRow
  <2>2. ASSUME NEW c \in DOMAIN checkpoints, Compact(c)
        PROVE  /\ Len(rows') = Len(rows)
               /\ \A n \in 1 .. Len(rows) :
                     SameRow(rows[n], rows'[n]) /\ rows'[n].device = rows[n].device
    <3>1. rows' = [n \in DOMAIN rows |->
                     IF n <= c THEN [rows[n] EXCEPT !.compacted = TRUE] ELSE rows[n]]
      BY <2>2 DEF Compact
    <3>2. Len(rows') = Len(rows)
      BY <1>1, <3>1
    <3>3. ASSUME NEW n \in 1 .. Len(rows)
          PROVE  SameRow(rows[n], rows'[n]) /\ rows'[n].device = rows[n].device
      <4>1. rows[n] \in Row
        BY <1>1
      <4>2. rows'[n] = rows[n] \/ rows'[n] = [rows[n] EXCEPT !.compacted = TRUE]
        BY <1>1, <3>1
      <4> QED
        BY <4>1, <4>2 DEF Row, SameRow
    <3> QED
      BY <3>2, <3>3
  <2> QED
    BY <2>1, <2>2
<1>3. /\ \A e \in Device : Queued(e)' = Queued(e)
      /\ \A e \in Device : \A u \in Queued(e) : queue'[e][u].base = queue[e][u].base
  BY DEF Queued, Replica!Queued
<1>4. Work' = Work
  BY <1>2, <1>3, WorkKept
<1>5. RowsOwned'
  BY <1>2 DEF Sound, RowsOwned, SameRow
<1>6. \A e \in Device : LateWhole(e)'
  BY <1>4, LateStaysWhole DEF Sound
<1>8. /\ \A t \in Tab : tabs'[t].visible \in {tabs[t].visible, durable[Owner[t]].version}
       /\ \A e \in Device : exchange'[e] = exchange[e] \/ ExchangeWhole(e)'
  OBVIOUS
<1>9. durable' = durable
  OBVIOUS
<1> QED
  BY <1>3, <1>4, <1>5, <1>6, <1>8, <1>9, SoundKept

LEMMA SoundServerStep ==
    ASSUME SyncInvariant, SoundLog, Sound, ServerStep
    PROVE  Sound'
<1>1. UNCHANGED <<durable, queue, tabs, exchange, late>>
  BY DEF ServerStep, replicaVars
<1>2. ASSUME NEW u \in ServerUpdate, NEW d \in Device, ApplyServerCommands(u, d)
      PROVE  Sound'
  BY <1>1, <1>2, SoundAuthored DEF SoundLog
<1>3. CASE rows' = rows \/ \E c \in DOMAIN checkpoints : Compact(c)
  BY <1>1, <1>3, SoundMaintained
<1> QED
  BY <1>2, <1>3, SyncAssumption
  DEF ServerStep, Next, RestoreRevision, ResolveAmbiguity, ConsolidateDue, CreateCandidate,
      VerifiedBackup, VerifyCandidate, CompactionBlocked, RequireDeviceReauthorization,
      Reauthorize, RevokeDevice, Authorize

\* The commit of an answer: the rows it acknowledges are on the log as they
\* were queued.
LEMMA SoundCommit ==
    ASSUME SyncInvariant, Sound, NEW d \in Device, Commit(d)
    PROVE  Sound'
<1>1. PICK a : a = exchange[d].response
  OBVIOUS
<1>3. PICK merged : merged = durable[d].version \cup {u.id : u \in a.remote}
  OBVIOUS
<1>4. DomainsHeld /\ rows' = rows
  BY DEF SyncInvariant, Commit, vars
<1>5. exchange[d].stage = "answered"
  BY DEF Commit, Replica!CommitResponse
<1>6. /\ durable' = [durable EXCEPT ![d] =
             [version |-> merged, cursor |-> a.through,
              server |-> a.document, ambiguities |-> a.ambiguities]]
      /\ queue' = [queue EXCEPT ![d] =
             [u \in Queued(d) \ DOMAIN a.acknowledged |-> queue[d][u]]]
      /\ exchange' = [exchange EXCEPT ![d] = Replica!Idle]
      /\ UNCHANGED <<tabs, late>>
  BY <1>1, <1>3, <1>4 DEF Commit, Replica!CommitResponse, Replica!CommitWrites, Replica!Merged,
              Queued, DomainsHeld
<1>7. /\ durable'[d].version = merged
      /\ queue'[d] = [u \in Queued(d) \ DOMAIN a.acknowledged |-> queue[d][u]]
      /\ exchange'[d] = Replica!Idle
      /\ \A e \in Device \ {d} : /\ durable'[e] = durable[e]
                                 /\ queue'[e] = queue[e]
                                 /\ exchange'[e] = exchange[e]
  BY <1>4, <1>6 DEF DomainsHeld
<1>8. /\ AnswerWorks(a) /\ AnswerHeld(rows, a)
      /\ \A u \in a.remote : u.base \subseteq merged
  <2>1. AnswerWorks(a) /\ AnswerHeld(rows, a)
    BY <1>1, <1>5 DEF Sound, ExchangeWhole, SyncInvariant, DeviceHeld, ExchangeHeld
  <2>2. Replica!Importable(d, a)
    BY <1>1 DEF Commit, Replica!CommitResponse, Replica!Acceptable
  <2> QED
    BY <1>3, <2>1, <2>2 DEF Replica!Importable, Replica!Merged
<1>9. /\ Queued(d)' = Queued(d) \ DOMAIN a.acknowledged
      /\ \A e \in Device \ {d} : Queued(e)' = Queued(e)
      /\ \A e \in Device : \A u \in Queued(e)' : u \in Queued(e) /\ queue'[e][u] = queue[e][u]
  BY <1>7 DEF Queued, Replica!Queued
<1>10. /\ \A v, w \in Work : v[1] = w[1] => v[2] = w[2]
       /\ \A w \in Work : Closed(w[2])
       /\ \A e \in Device : Closed(durable[e].version)
       /\ \A t \in Tab : Closed(tabs[t].visible)
  BY DEF Sound, WorkWhole
<1>11. Work' = Work
  <2>1. ASSUME NEW w \in Work' PROVE w \in Work
    BY <1>4, <1>9, <2>1, InWork, InWorkNext
  <2>2. ASSUME NEW w \in Work PROVE w \in Work'
    <3>1. ASSUME NEW n \in 1 .. Len(rows), w = <<rows[n].id, rows[n].base>>
          PROVE  w \in Work'
      BY <1>4, <3>1, InWorkNext
    <3>2. ASSUME NEW e \in Device, NEW u \in Queued(e), w = <<u, queue[e][u].base>>
          PROVE  w \in Work'
      <4>1. CASE u \in Queued(e)'
        BY <1>9, <3>2, <4>1, InWorkNext
      <4>2. CASE u \notin Queued(e)'
        <5>1. u \in DOMAIN a.acknowledged
          BY <1>9, <3>2, <4>2
        <5>2. PICK n \in 1 .. Len(rows) : rows[n].id = u
          BY <1>8, <5>1 DEF AnswerHeld, Prefix
        <5>3. PICK v : v = <<rows[n].id, rows[n].base>>
          OBVIOUS
        <5>4. v \in Work /\ v[1] = w[1]
          BY <3>2, <5>2, <5>3, InWork
        <5>5. v = w
          <6>1. v[2] = w[2]
            BY <1>10, <5>4
          <6> QED
            BY <3>2, <5>3, <5>4, <6>1
        <5> QED
          BY <3>1, <5>3, <5>5
      <4> QED
        BY <4>1, <4>2
    <3> QED
      BY <3>1, <3>2, InWork
  <2> QED
    BY <2>1, <2>2
<1>12. \A frontier : Closed(frontier)' <=> Closed(frontier)
  BY <1>11 DEF Closed
<1>13. Closed(merged)
  <2>1. ASSUME NEW w \in Work, w[1] \in merged PROVE w[2] \subseteq merged
    <3>1. CASE w[1] \in durable[d].version
      BY <1>3, <1>10, <3>1 DEF Closed
    <3>2. ASSUME NEW u \in a.remote, w[1] = u.id
          PROVE  w[2] \subseteq merged
      <4>1. PICK v : v = <<u.id, u.base>>
        OBVIOUS
      <4>2. v \in Work /\ v[1] = u.id /\ v[2] = u.base /\ u.base \subseteq merged
        BY <1>8, <4>1 DEF AnswerWorks
      <4>3. v[2] = w[2]
        BY <1>10, <3>2, <4>2
      <4> QED
        BY <4>2, <4>3
    <3> QED
      BY <1>3, <2>1, <3>1, <3>2
  <2> QED
    BY <2>1 DEF Closed
<1>14. WorkWhole'
  <2>1. ASSUME NEW e \in Device PROVE Closed(durable[e].version)'
    <3>1. PICK frontier : frontier = durable'[e].version
      OBVIOUS
    <3>2. Closed(frontier)
      BY <1>7, <1>10, <1>13, <3>1
    <3>3. \A w \in Work' : w[1] \in frontier => w[2] \subseteq frontier
      BY <1>11, <3>2 DEF Closed
    <3> QED
      BY <3>1, <3>3 DEF Closed
  <2>2. ASSUME NEW t \in Tab PROVE Closed(tabs[t].visible)'
    <3>1. tabs' = tabs
      BY <1>6
    <3> QED
      BY <1>10, <1>11, <3>1 DEF Closed
  <2>3. ASSUME NEW w \in Work' PROVE Closed(w[2])'
    BY <1>10, <1>11, <2>3 DEF Closed
  <2> QED
    BY <1>10, <1>11, <2>1, <2>2, <2>3 DEF WorkWhole
<1>15. ASSUME NEW e \in Device PROVE durable[e].version \subseteq durable'[e].version
  BY <1>3, <1>7
<1>16. \A e \in Device : QueueHeld(e)'
  BY <1>9, <1>15 DEF Sound, QueueHeld
<1>17. ASSUME NEW e \in Device PROVE ExchangeWhole(e)'
  <2>1. CASE e = d
    BY <1>7, <2>1 DEF ExchangeWhole, Replica!Idle
  <2>2. CASE e # d
    <3>1. /\ durable'[e] = durable[e] /\ exchange'[e] = exchange[e]
          /\ Work \subseteq Work' /\ \A w \in Work' \ Work : w[1] \notin durable[e].version
      BY <1>4, <1>7, <1>11, <2>2
    <3>2. ExchangeWhole(e) /\ ExchangeHeld(e)
      BY DEF Sound, SyncInvariant, DeviceHeld
    <3> QED
      BY <3>1, <3>2, ExchangeStaysWhole
  <2> QED
    BY <2>1, <2>2
<1>18. ASSUME NEW e \in Device PROVE LateWhole(e)'
  <2>1. LateWhole(e) /\ late'[e] = late[e] /\ Work \subseteq Work'
    BY <1>6, <1>11 DEF Sound
  <2> QED
    BY <1>15, <2>1, LateStaysWhole
<1>19. RowsOwned'
  BY <1>4 DEF Sound, RowsOwned
<1> QED
  BY <1>14, <1>16, <1>17, <1>18, <1>19 DEF Sound

-----------------------------------------------------------------------------
(* Nothing is refused for good.                                             *)

\* The log a request would leave is one of whole frontiers.
LEMMA WorkIsWhole ==
    ASSUME SyncInvariant, Sound, NEW d \in Device, NEW r, RequestHeld(d, r), RequestWhole(d, r),
           NEW p \in Plans(r)
    PROVE  Whole(AppendBatch(r, p.order))
<1> DEFINE log == AppendBatch(r, p.order)
<1>1. rows \in Seq(Row) /\ r \in Request
  BY DEF SyncInvariant, TypeOK, RequestHeld
<1>2. p.order \in ImportOrders(r)
  BY <1>1, PlanFacts
<1>3. /\ Len(log) = Len(rows) + Len(p.order)
      /\ Len(rows) \in Nat /\ Len(p.order) \in Nat
      /\ \A n \in 1 .. Len(rows) : log[n] = rows[n]
      /\ \A k \in 1 .. Len(p.order) : log[Len(rows) + k] = BatchRow(r, p.order[k])
  BY <1>1, <1>2, AppendBatchType
<1>4. \A k \in 1 .. Len(p.order) : p.order[k] \in DOMAIN r.updates
  BY <1>1, <1>2, OrderType DEF NewIndexes
<1> HIDE DEF log
<1>5. ASSUME NEW n \in 1 .. Len(log)
      PROVE  <<log[n].id, log[n].base>> \in Work
  <2>1. CASE n \in 1 .. Len(rows)
    BY <1>3, <2>1, InWork
  <2>2. CASE n \in Len(rows) + 1 .. Len(log)
    <3>1. PICK k \in 1 .. Len(p.order) : n = Len(rows) + k
      <4>1. n - Len(rows) \in 1 .. Len(p.order) /\ n = Len(rows) + (n - Len(rows))
        BY <1>3, <2>2
      <4> QED
        BY <4>1
    <3>2. log[n] = BatchRow(r, p.order[k])
      BY <1>3, <3>1
    <3>3. /\ BatchRow(r, p.order[k]).id = r.updates[p.order[k]].id
          /\ BatchRow(r, p.order[k]).base = r.updates[p.order[k]].base
      BY BatchRowFields
    <3> QED
      BY <1>4, <3>2, <3>3 DEF RequestWhole
  <2> QED
    BY <1>3, <2>1, <2>2
<1>6. ASSUME NEW n \in 1 .. Len(log), NEW m \in 1 .. n - 1, log[m].id \in log[n].base
      PROVE  log[m].base \subseteq log[n].base
  <2>1. m \in 1 .. Len(log)
    BY <1>3
  <2>2. PICK v : v = <<log[m].id, log[m].base>>
    OBVIOUS
  <2>3. PICK w : w = <<log[n].id, log[n].base>>
    OBVIOUS
  <2>4. v \in Work /\ w \in Work
    BY <1>5, <2>1, <2>2, <2>3
  <2>5. Closed(w[2])
    BY <2>4 DEF Sound, WorkWhole
  <2> QED
    BY <1>6, <2>2, <2>3, <2>4, <2>5 DEF Closed
<1> QED
  BY <1>6 DEF Whole, log

\* Nor does a request reuse the identity of a row for something else.
LEMMA IdentitiesWhole ==
    ASSUME SyncInvariant, Sound, NEW d \in Device, NEW r, RequestHeld(d, r), RequestWhole(d, r)
    PROVE  IdentitiesHold(r)
<1>1. DOMAIN rows = 1 .. Len(rows)
  BY DEF SyncInvariant, TypeOK
<1>2. ASSUME NEW i \in DOMAIN r.updates, NEW n \in DOMAIN rows, rows[n].id = r.updates[i].id
      PROVE  rows[n].device = r.device /\ rows[n].base = r.updates[i].base
  <2>1. PICK v : v = <<rows[n].id, rows[n].base>>
    OBVIOUS
  <2>2. PICK w : w = <<r.updates[i].id, r.updates[i].base>>
    OBVIOUS
  <2>3. v \in Work /\ w \in Work
    BY <1>1, <2>1, <2>2, InWork DEF RequestWhole
  <2>4. rows[n].base = r.updates[i].base
    BY <1>2, <2>1, <2>2, <2>3 DEF Sound, WorkWhole
  <2>5. rows[n].id \in Writes[d] /\ r.device = d
    BY <1>2 DEF RequestHeld, Ids
  <2> QED
    BY <1>1, <2>4, <2>5 DEF Sound, RowsOwned
<1> QED
  BY <1>2 DEF IdentitiesHold, RequestWhole

AllActive == \A d \in Device : authorization[d] = "active"

LEMMA NeverRefusedForGood ==
    ASSUME AllActive, SyncInvariant, SoundLog, Sound, NEW d \in Device, Refuse(d)
    PROVE  Replica!Refused(d, FALSE)
<1>1. PICK r : r = exchange[d].request
  OBVIOUS
<1>2. exchange[d].stage = "waiting"
  BY DEF Refuse
<1>3. RequestHeld(d, r) /\ RequestWhole(d, r)
  BY <1>1, <1>2 DEF SyncInvariant, DeviceHeld, ExchangeHeld, Sound, ExchangeWhole
<1>4. Loadable /\ Rebuildable /\ CausalLog /\ Trimmed
  BY DEF SoundLog, Rebuildable, Reloadable
<1>5. IdentitiesHold(r)
  BY <1>3, IdentitiesWhole
<1>6. authorization[r.device] = "active" /\ r \in Request
  BY <1>3 DEF AllActive, RequestHeld
<1>7. \A p \in Plans(r) : Detections(r, p) # {}
  BY <1>3, <1>4, <1>6, WorkIsWhole, BranchesCompare
<1>8. TRUE \notin Refusals(r)
  <2>1. CASE Plans(r) = {}
    BY <1>4, <1>5, <1>6, <2>1 DEF Refusals
  <2>2. CASE Plans(r) # {}
    <3>1. Refusals(r) = {TRUE} \cap {Detections(r, p) = {} : p \in Plans(r)}
      BY <1>4, <1>5, <1>6, <2>2 DEF Refusals
    <3>2. TRUE \notin {Detections(r, p) = {} : p \in Plans(r)}
      BY <1>7
    <3> QED
      BY <3>1, <3>2
  <2> QED
    BY <2>1, <2>2
<1>9. PICK blocking \in Refusals(r) : Replica!Refused(d, blocking)
  BY <1>1 DEF Refuse
<1>10. blocking \in BOOLEAN
  BY <1>9 DEF Refusals
<1> QED
  BY <1>8, <1>9, <1>10

\* Every check of the commit but that of the details is passed.
Taken(d, a) ==
    /\ Replica!CursorAdvances(d, a)
    /\ Replica!Acknowledges(d, a)
    /\ Replica!Importable(d, a)
    /\ Replica!Complete(d, a)

LEMMA UncutIsTaken ==
    ASSUME Sound, NEW d \in Device, exchange[d].stage = "answered", Uncut(exchange[d].response)
    PROVE  Taken(d, exchange[d].response)
<1>1. PICK a : a = exchange[d].response
  OBVIOUS
<1>2. PICK r : r = exchange[d].request
  OBVIOUS
<1>5. AnswerTaken(d, r, a)
  BY <1>1, <1>2 DEF Sound, ExchangeWhole
<1>6. Replica!CursorAdvances(d, a)
  BY <1>5 DEF AnswerTaken, Replica!CursorAdvances
<1>7. Replica!Importable(d, a) /\ Replica!Complete(d, a)
  BY <1>5 DEF AnswerTaken, Replica!Importable, Replica!Complete, Replica!Merged
<1>8. Replica!Acknowledges(d, a)
  <2>1. DOMAIN a.acknowledged = Ids(r) /\ durable[d].server \subseteq a.document
    BY <1>5 DEF AnswerTaken
  <2>2. ASSUME NEW u \in Queued(d), u \in DOMAIN a.acknowledged
        PROVE  /\ Replica!Result(d, u) \subseteq a.acknowledged[u]
               /\ a.acknowledged[u] \subseteq a.document
    <3>1. PICK w : w = <<u, queue[d][u].base>>
      OBVIOUS
    <3>2. w \in Work /\ w[1] = u /\ w[2] = queue[d][u].base
      BY <3>1, InWork
    <3> QED
      BY <1>5, <2>1, <2>2, <3>2 DEF AnswerTaken, Replica!Result
  <2> QED
    BY <1>2, <2>1, <2>2 DEF Replica!Acknowledges, Ids, Queued
<1> QED
  BY <1>1, <1>6, <1>7, <1>8 DEF Taken

LEMMA SoundInit == SyncInit => Sound
<1> SUFFICES ASSUME SyncInit PROVE Sound
  OBVIOUS
<1>1. /\ rows = << >>
      /\ queue = [d \in Device |-> [u \in {} |-> Replica!Idle]]
      /\ exchange = [d \in Device |-> Replica!Idle]
      /\ late = [d \in Device |-> None]
  BY DEF SyncInit, Init, Replica!Init
<1>2. \A d \in Device : Queued(d) = {}
  BY <1>1 DEF Queued, Replica!Queued
<1>3. Work = {}
  BY <1>1, <1>2 DEF Work
<1>4. WorkWhole
  BY <1>3 DEF WorkWhole, Closed
<1>5. \A d \in Device : QueueHeld(d) /\ ExchangeWhole(d) /\ LateWhole(d)
  BY <1>1, <1>2 DEF QueueHeld, ExchangeWhole, LateWhole, Replica!Idle
<1>6. RowsOwned
  BY <1>1 DEF RowsOwned
<1> QED
  BY <1>4, <1>5, <1>6 DEF Sound

LEMMA SoundStep ==
    ASSUME SyncInvariant, ReplicasTyped, SoundLog, Sound, [SyncNext]_syncVars
    PROVE  Sound'
<1>1. ASSUME NEW t \in Tab, NEW u \in Update, Edit(t, u) PROVE Sound'
  BY <1>1, SoundEdit DEF SoundLog
<1>2. ASSUME NEW t \in Tab, Adopt(t) \/ Reload(t) PROVE Sound'
  BY <1>2, SoundOpened
<1>3. ASSUME NEW d \in Device, Send(d) PROVE Sound'
  BY <1>3, SoundSend
<1>4. ASSUME NEW d \in Device, Serve(d) \/ ServeLate(d) PROVE Sound'
  BY <1>4, SoundServe, SoundServeLate
<1>5. ASSUME NEW d \in Device, Ends(d) PROVE Sound'
  BY <1>5, EndsFacts, SoundEnd
<1>6. ASSUME NEW d \in Device, Commit(d) PROVE Sound'
  BY <1>6, SoundCommit
<1>8. CASE ServerStep
  BY <1>8, SoundServerStep
<1>9. CASE UNCHANGED syncVars
  <2>1. UNCHANGED <<vars, durable>> /\ UNCHANGED <<queue, tabs, exchange, late>>
    BY <1>9 DEF syncVars, replicaVars
  <2>2. /\ \A e \in Device : Queued(e)' = Queued(e)
        /\ \A e \in Device : \A u \in Queued(e) : queue'[e][u].base = queue[e][u].base
    BY <2>1 DEF Queued, Replica!Queued
  <2>3. \A e \in Device : Work' = Work => LateWhole(e)'
    BY <2>1, LateStaysWhole DEF Sound
  <2>4. \A t \in Tab : tabs'[t].visible \in {tabs[t].visible, durable[Owner[t]].version}
    BY <2>1
  <2> QED
    BY <2>1, <2>2, <2>3, <2>4, SoundAlone
<1> QED
  BY <1>1, <1>2, <1>3, <1>4, <1>5, <1>6, <1>8, <1>9 DEF SyncNext, Ends

SoundInvariant == SyncInvariant /\ ReplicasTyped /\ SoundLog /\ Sound

LEMMA SoundInvariantInit == SyncInit => SoundInvariant
BY SyncInvariantInit, ReplicasTypedInit, SoundInit, TypeInit, HeadInit, ReloadableInit,
   CausalInit, TrimmedInit DEF SyncInit, Rebuildable, SoundLog, SoundInvariant

LEMMA SoundLogStep ==
    ASSUME SyncInvariant, SoundLog, [SyncNext]_syncVars
    PROVE  SoundLog'
<1>1. LogStep
  BY SyncIsLogStep
<1> QED
  BY <1>1, ReloadableStep, CausalStep, TrimmedStep DEF SoundLog, Rebuildable

LEMMA SoundInvariantStep == SoundInvariant /\ [SyncNext]_syncVars => SoundInvariant'
BY SyncInvariantStep, ReplicasTypedStep, SoundStep, SoundLogStep DEF SoundInvariant

-----------------------------------------------------------------------------
(* What is set aside has been accepted.                                     *)

\* A device claims the rows of its request and no others; when it has an answer
\* they are on the log.
ClaimsHeld(d) ==
    /\ \A u \in Queued(d) : queue[d][u].status = "blocked" => u \in Document
    /\ exchange[d].stage # "idle" =>
          \A u \in Queued(d) : queue[d][u].status = "sending" => u \in Ids(exchange[d].request)
    /\ exchange[d].stage = "answered" => Ids(exchange[d].request) \subseteq Document

\* A device that claims and answers for nothing new.
LEMMA ClaimsKept ==
    ASSUME NEW d \in Device, ClaimsHeld(d), Document \subseteq Document',
           exchange'[d] = exchange[d] \/ exchange'[d] = Replica!Idle,
           \A u \in Queued(d)' :
               \/ queue'[d][u].status = "pending"
               \/ u \in Queued(d) /\ queue'[d][u].status = queue[d][u].status
    PROVE  ClaimsHeld(d)'
<1>1. ASSUME NEW u \in Queued(d)', queue'[d][u].status = "blocked"
      PROVE  u \in Document'
  BY <1>1 DEF ClaimsHeld
<1>2. ASSUME exchange'[d] = exchange[d]
      PROVE  /\ exchange'[d].stage # "idle" =>
                    \A u \in Queued(d)' :
                        queue'[d][u].status = "sending" => u \in Ids(exchange'[d].request)
             /\ exchange'[d].stage = "answered" => Ids(exchange'[d].request) \subseteq Document'
  BY <1>2 DEF ClaimsHeld
<1>3. Replica!Idle.stage = "idle"
  BY DEF Replica!Idle
<1>4. Ids(exchange[d].request)' = Ids(exchange'[d].request)
  BY DEF Ids
<1> QED
  BY <1>1, <1>2, <1>3, <1>4 DEF ClaimsHeld

\* The other devices, and a device whose rows keep their status.
LEMMA ClaimsAlone ==
    ASSUME NEW d \in Device, ClaimsHeld(d), Document \subseteq Document',
           queue'[d] = queue[d], exchange'[d] = exchange[d] \/ exchange'[d] = Replica!Idle
    PROVE  ClaimsHeld(d)'
<1>1. \A u \in Queued(d)' : u \in Queued(d) /\ queue'[d][u].status = queue[d][u].status
  BY DEF Queued, Replica!Queued
<1> QED
  BY <1>1, ClaimsKept

LEMMA ClaimsEdit ==
    ASSUME SyncInvariant, NEW t \in Tab, NEW u \in Update, Edit(t, u),
           NEW d \in Device, ClaimsHeld(d)
    PROVE  ClaimsHeld(d)'
<1>1. PICK e : e = Owner[t]
  OBVIOUS
<1>2. /\ queue' = [queue EXCEPT ![e] =
              [v \in Queued(e) \cup {u} |-> IF v = u THEN Replica!NewRow(t) ELSE queue[e][v]]]
      /\ exchange' = exchange /\ UNCHANGED vars
  BY <1>1 DEF Edit, Replica!Edit, Replica!EditWrites, Queued
<1>3. Document' = Document /\ DomainsHeld /\ exchange'[d] = exchange[d]
  BY <1>2, LogUntouched DEF SyncInvariant
<1>4. CASE d = e
  <2>1. queue'[d] =
            [v \in Queued(d) \cup {u} |-> IF v = u THEN Replica!NewRow(t) ELSE queue[d][v]]
    BY <1>2, <1>3, <1>4 DEF DomainsHeld
  <2>2. Replica!NewRow(t).status = "pending"
    BY DEF Replica!NewRow
  <2>3. Queued(d)' = Queued(d) \cup {u}
    BY <2>1 DEF Queued, Replica!Queued
  <2>4. \A v \in Queued(d)' :
           \/ queue'[d][v].status = "pending"
           \/ v \in Queued(d) /\ queue'[d][v].status = queue[d][v].status
    BY <2>1, <2>2, <2>3
  <2> QED
    BY <1>3, <2>4, ClaimsKept
<1>5. CASE d # e
  <2>1. queue'[d] = queue[d]
    BY <1>2, <1>3, <1>5 DEF DomainsHeld
  <2> QED
    BY <1>3, <2>1, ClaimsAlone
<1> QED
  BY <1>4, <1>5

LEMMA ClaimsSend ==
    ASSUME SyncInvariant, ReplicasTyped, NEW e \in Device, Send(e),
           NEW d \in Device, ClaimsHeld(d)
    PROVE  ClaimsHeld(d)'
<1>1. PICK batch \in Replica!Batches(e) :
         /\ queue' = Replica!WithStatus(e, [u \in Queued(e) |->
                IF \E n \in DOMAIN batch : batch[n] = u THEN "sending"
                ELSE IF u \in Replica!Waiting(e) THEN "pending" ELSE "blocked"])
         /\ exchange' = [exchange EXCEPT ![e] =
                [stage |-> "waiting", request |-> Replica!Outgoing(e, batch)]]
  BY DEF Send, Replica!Send, Queued
<1>2. Document' = Document /\ DomainsHeld
  BY LogUntouched DEF Send, SyncInvariant
<1>3. CASE d = e
  <2> DEFINE status == [u \in Queued(d) |->
                IF \E n \in DOMAIN batch : batch[n] = u THEN "sending"
                ELSE IF u \in Replica!Waiting(d) THEN "pending" ELSE "blocked"]
  <2>1. queue'[d] = [u \in Queued(d) |-> [queue[d][u] EXCEPT !.status = status[u]]]
    BY <1>1, <1>2, <1>3 DEF Replica!WithStatus, Queued, DomainsHeld
  <2>2. Queued(d)' = Queued(d)
    BY <2>1 DEF Queued, Replica!Queued
  <2>3. ASSUME NEW u \in Queued(d) PROVE queue'[d][u].status = status[u]
    <3>1. queue[d][u] \in Replica!QueueRow
      BY DEF ReplicasTyped
    <3>2. queue'[d][u] = [queue[d][u] EXCEPT !.status = status[u]]
      BY <2>1
    <3> HIDE DEF status
    <3> QED
      BY <3>1, <3>2 DEF Replica!QueueRow
  <2>4. PICK r : r = Replica!Outgoing(d, batch)
    OBVIOUS
  <2>5. exchange'[d].stage = "waiting" /\ exchange'[d].request = r
    BY <1>1, <1>2, <1>3, <2>4 DEF DomainsHeld
  <2>6. r.updates = [n \in DOMAIN batch |->
                        [id |-> batch[n], base |-> queue[d][batch[n]].base]]
    BY <2>4 DEF Replica!Outgoing
  <2>7. \A n \in DOMAIN batch : batch[n] \in Ids(r)
    BY <2>6 DEF Ids
  <2>8. \A u \in Queued(d) : status[u] = "sending" => u \in Ids(r)
    BY <2>7
  <2>9. \A u \in Queued(d) : status[u] = "blocked" => u \in Document
    BY DEF ClaimsHeld, Replica!Waiting, Queued
  <2> HIDE DEF status
  <2>10. Ids(exchange[d].request)' = Ids(r)
    BY <2>5 DEF Ids
  <2> QED
    BY <1>2, <2>2, <2>3, <2>5, <2>8, <2>9, <2>10 DEF ClaimsHeld
<1>4. CASE d # e
  <2>1. queue'[d] = queue[d] /\ exchange'[d] = exchange[d]
    BY <1>1, <1>2, <1>4 DEF Replica!WithStatus, DomainsHeld
  <2> QED
    BY <1>2, <2>1, ClaimsAlone
<1> QED
  BY <1>3, <1>4

\* An exchange that sets its rows aside has had an answer.
LEMMA ClaimsEnd ==
    ASSUME SyncInvariant, ReplicasTyped, NEW e \in Device, NEW s \in {"pending", "blocked"},
           Replica!EndExchange(e, s), UNCHANGED vars,
           s = "pending" \/ exchange[e].stage = "answered",
           NEW d \in Device, ClaimsHeld(d)
    PROVE  ClaimsHeld(d)'
<1>1. /\ queue' = Replica!WithStatus(e, [u \in Queued(e) |->
             IF queue[e][u].status = "sending" THEN s ELSE queue[e][u].status])
      /\ exchange' = [exchange EXCEPT ![e] = Replica!Idle]
  BY DEF Replica!EndExchange, Queued
<1>2. Document' = Document /\ DomainsHeld
  BY LogUntouched DEF SyncInvariant
<1>3. CASE d = e
  <2> DEFINE status == [u \in Queued(d) |->
                IF queue[d][u].status = "sending" THEN s ELSE queue[d][u].status]
  <2>1. queue'[d] = [u \in Queued(d) |-> [queue[d][u] EXCEPT !.status = status[u]]]
    BY <1>1, <1>2, <1>3 DEF Replica!WithStatus, Queued, DomainsHeld
  <2>2. Queued(d)' = Queued(d)
    BY <2>1 DEF Queued, Replica!Queued
  <2>3. ASSUME NEW u \in Queued(d) PROVE queue'[d][u].status = status[u]
    <3>1. queue[d][u] \in Replica!QueueRow
      BY DEF ReplicasTyped
    <3>2. queue'[d][u] = [queue[d][u] EXCEPT !.status = status[u]]
      BY <2>1
    <3> HIDE DEF status
    <3> QED
      BY <3>1, <3>2 DEF Replica!QueueRow
  <2>4. \A u \in Queued(d) : status[u] = "blocked" => u \in Document
    BY <1>3 DEF ClaimsHeld
  <2>5. exchange'[d] = Replica!Idle /\ Replica!Idle.stage = "idle"
    BY <1>1, <1>2, <1>3 DEF DomainsHeld, Replica!Idle
  <2> HIDE DEF status
  <2> QED
    BY <1>2, <2>2, <2>3, <2>4, <2>5 DEF ClaimsHeld
<1>4. CASE d # e
  <2>1. queue'[d] = queue[d] /\ exchange'[d] = exchange[d]
    BY <1>1, <1>2, <1>4 DEF Replica!WithStatus, DomainsHeld
  <2> QED
    BY <1>2, <2>1, ClaimsAlone
<1> QED
  BY <1>3, <1>4

LEMMA ClaimsServe ==
    ASSUME SyncInvariant, NEW e \in Device, Serve(e), NEW d \in Device, ClaimsHeld(d)
    PROVE  ClaimsHeld(d)'
<1>1. PICK r : r = exchange[e].request
  OBVIOUS
<1>2. PICK p \in Plans(r) : SyncBy(r, p) /\ Replica!Receive(e, Answered(r, p))
  BY <1>1 DEF Serve
<1>3. PICK a : a = Answered(r, p)
  OBVIOUS
<1>4. /\ exchange[e].stage = "waiting" /\ queue' = queue
      /\ exchange' = [exchange EXCEPT ![e] =
             [stage |-> "answered", request |-> r, response |-> a]]
  BY <1>1, <1>2, <1>3 DEF Replica!Receive
<1>5. rows \in Seq(Row) /\ DomainsHeld /\ r \in Request
  BY <1>1, <1>4 DEF SyncInvariant, TypeOK, DeviceHeld, ExchangeHeld, RequestHeld
<1>6. rows' = AppendBatch(r, p.order)
  BY <1>2 DEF SyncBy, SyncWrites
<1>7. Document \subseteq Document' /\ Ids(r) \subseteq Document'
  BY <1>5, <1>6, BatchImported DEF Document
<1>8. CASE d = e
  <2>1. exchange'[d].request = r /\ exchange'[d].stage = "answered"
    BY <1>4, <1>5, <1>8 DEF DomainsHeld
  <2>2. /\ \A u \in Queued(d) : queue[d][u].status = "blocked" => u \in Document
        /\ \A u \in Queued(d) : queue[d][u].status = "sending" => u \in Ids(r)
    BY <1>1, <1>4, <1>8 DEF ClaimsHeld
  <2>3. Queued(d)' = Queued(d)
    BY <1>4 DEF Queued, Replica!Queued
  <2>4. Ids(exchange[d].request)' = Ids(r)
    BY <2>1 DEF Ids
  <2> QED
    BY <1>4, <1>7, <2>1, <2>2, <2>3, <2>4 DEF ClaimsHeld
<1>9. CASE d # e
  <2>1. queue'[d] = queue[d] /\ exchange'[d] = exchange[d]
    BY <1>4, <1>5, <1>9 DEF DomainsHeld
  <2> QED
    BY <1>7, <2>1, ClaimsAlone
<1> QED
  BY <1>8, <1>9

LEMMA ClaimsCommit ==
    ASSUME SyncInvariant, NEW e \in Device, Commit(e), NEW d \in Device, ClaimsHeld(d)
    PROVE  ClaimsHeld(d)'
<1>1. PICK kept : /\ queue' = [queue EXCEPT ![e] = [u \in kept |-> queue[e][u]]]
                  /\ kept \subseteq Queued(e)
                  /\ exchange' = [exchange EXCEPT ![e] = Replica!Idle]
  <2>1. PICK a : a = exchange[e].response
    OBVIOUS
  <2>2. PICK kept : kept = Queued(e) \ DOMAIN a.acknowledged
    OBVIOUS
  <2>3. queue' = [queue EXCEPT ![e] = [u \in kept |-> @[u]]]
    BY <2>1, <2>2 DEF Commit, Replica!CommitResponse, Replica!CommitWrites, Queued
  <2>4. queue' = [queue EXCEPT ![e] = [u \in kept |-> queue[e][u]]]
    BY <2>3 DEF SyncInvariant, DomainsHeld
  <2>5. exchange' = [exchange EXCEPT ![e] = Replica!Idle]
    BY DEF Commit, Replica!CommitResponse, Replica!CommitWrites
  <2> QED
    BY <2>2, <2>4, <2>5
<1>2. Document' = Document /\ DomainsHeld
  BY LogUntouched DEF Commit, SyncInvariant
<1>3. CASE d = e
  <2>1. queue'[d] = [u \in kept |-> queue[d][u]] /\ exchange'[d] = Replica!Idle
    BY <1>1, <1>2, <1>3 DEF DomainsHeld
  <2>2. \A u \in Queued(d)' : u \in Queued(d) /\ queue'[d][u].status = queue[d][u].status
    BY <1>1, <1>3, <2>1 DEF Queued, Replica!Queued
  <2> QED
    BY <1>2, <2>1, <2>2, ClaimsKept
<1>4. CASE d # e
  <2>1. queue'[d] = queue[d] /\ exchange'[d] = exchange[d]
    BY <1>1, <1>2, <1>4 DEF DomainsHeld
  <2> QED
    BY <1>2, <2>1, ClaimsAlone
<1> QED
  BY <1>3, <1>4

LEMMA ClaimsStep ==
    ASSUME SoundInvariant, AllActive, [SyncNext]_syncVars, NEW d \in Device, ClaimsHeld(d)
    PROVE  ClaimsHeld(d)'
<1>1. SyncInvariant /\ ReplicasTyped /\ SoundLog /\ Sound /\ TypeOK
  BY DEF SoundInvariant, SyncInvariant
<1>2. ASSUME NEW t \in Tab, NEW u \in Update, Edit(t, u) PROVE ClaimsHeld(d)'
  BY <1>1, <1>2, ClaimsEdit
<1>3. ASSUME NEW e \in Device, Send(e) PROVE ClaimsHeld(d)'
  BY <1>1, <1>3, ClaimsSend
<1>4. ASSUME NEW e \in Device, Serve(e) PROVE ClaimsHeld(d)'
  BY <1>1, <1>4, ClaimsServe
<1>5. ASSUME NEW e \in Device, Commit(e) PROVE ClaimsHeld(d)'
  BY <1>1, <1>5, ClaimsCommit
<1>6. ASSUME NEW e \in Device, Refuse(e) \/ GiveUp(e) PROVE ClaimsHeld(d)'
  <2>1. Replica!EndExchange(e, "pending") /\ UNCHANGED vars
    BY <1>1, <1>6, NeverRefusedForGood DEF Refuse, GiveUp, Replica!Refused, Replica!Fail
  <2> QED
    BY <1>1, <2>1, ClaimsEnd
<1>7. ASSUME NEW e \in Device, Reject(e) \/ DetailsRefused(e) \/ Unreadable(e)
      PROVE  ClaimsHeld(d)'
  <2>1. /\ Replica!EndExchange(e, "blocked") /\ UNCHANGED vars
        /\ exchange[e].stage = "answered"
    BY <1>7 DEF Reject, DetailsRefused, Unreadable, Replica!RejectResponse,
                Replica!DetailsRefused, Replica!Unreadable
  <2> QED
    BY <1>1, <2>1, ClaimsEnd
<1>8. ASSUME NEW t \in Tab, Adopt(t) \/ Reload(t) PROVE ClaimsHeld(d)'
  <2>1. /\ queue' = queue /\ UNCHANGED vars
        /\ exchange' = exchange \/ exchange' = [exchange EXCEPT ![Owner[t]] = Replica!Idle]
    BY <1>8 DEF Adopt, Replica!Adopt, Reload, Replica!Reload
  <2>2. exchange'[d] = exchange[d] \/ exchange'[d] = Replica!Idle
    BY <1>1, <2>1 DEF SyncInvariant, DomainsHeld
  <2> QED
    BY <1>1, <2>1, <2>2, LogUntouched, ClaimsAlone
<1>9. ASSUME UNCHANGED <<queue, exchange>> PROVE ClaimsHeld(d)'
  <2>1. Document \subseteq Document'
    BY <1>1, SyncIsLogStep, LogGrowsStep DEF LogGrows
  <2> QED
    BY <1>9, <2>1, ClaimsAlone
<1> QED
  BY <1>2, <1>3, <1>4, <1>5, <1>6, <1>7, <1>8, <1>9
  DEF SyncNext, ServeLate, ServerStep, replicaVars, syncVars

\* As long as no device is suspended or revoked, a row is set aside only once the
\* server holds its update: whatever is lost, late, cut short, refused or sent
\* again, whatever the owner restores or settles and the server rolls or
\* compacts, no work is left behind by a device that will not send it any more.
THEOREM OnlyAcceptedIsSetAside ==
    SyncSpec /\ []AllActive => []SetAsideIsAccepted
<1> DEFINE Inv == SoundInvariant /\ \A d \in Device : ClaimsHeld(d)
<1>1. SyncInit => Inv
  <2>1. SyncInit => \A d \in Device : ClaimsHeld(d)
    <3> SUFFICES ASSUME SyncInit, NEW d \in Device PROVE ClaimsHeld(d)
      OBVIOUS
    <3>1. Queued(d) = {} /\ exchange[d].stage = "idle"
      BY DEF SyncInit, Replica!Init, Replica!Idle, Queued, Replica!Queued
    <3> QED
      BY <3>1 DEF ClaimsHeld
  <2> QED
    BY <2>1, SoundInvariantInit
<1>2. Inv /\ AllActive /\ [SyncNext]_syncVars => Inv'
  BY SoundInvariantStep, ClaimsStep
<1>3. Inv => SetAsideIsAccepted
  BY DEF ClaimsHeld, SetAsideIsAccepted
<1> HIDE DEF Inv
<1> QED
  BY <1>1, <1>2, <1>3, PTL DEF SyncSpec

\* An account that suspends and revokes nobody leaves every device active.
LEMMA ActiveStep ==
    ASSUME Managed = {}, AllActive, [SyncNext]_syncVars
    PROVE  AllActive'
<1>1. ASSUME NEW r, NEW p \in Plans(r), SyncBy(r, p) PROVE authorization' = authorization
  BY <1>1 DEF SyncBy
<1>2. ASSUME ServerStep PROVE authorization' = authorization
  BY <1>2, SyncAssumption
  DEF ServerStep, Next, ApplyServerCommands, RestoreRevision, ResolveAmbiguity, ConsolidateDue,
      CreateCandidate, VerifiedBackup, VerifyCandidate, Compact, CompactionBlocked,
      RequireDeviceReauthorization, Reauthorize, RevokeDevice, Authorize
<1>3. authorization' = authorization
  BY <1>1, <1>2
  DEF SyncNext, syncVars, vars, Edit, Adopt, Reload, Send, Serve, Refuse, GiveUp, ServeLate, Sync,
      Commit, Reject, DetailsRefused, Unreadable
<1> QED
  BY <1>3 DEF AllActive

\* The theorem above, from the constants alone.
THEOREM EditorsStrandNothing ==
    ASSUME Managed = {}
    PROVE  SyncSpec => []SetAsideIsAccepted
<1>1. SyncInit => AllActive
  BY DEF SyncInit, Init, AllActive
<1>2. AllActive /\ [SyncNext]_syncVars => AllActive'
  BY ActiveStep
<1>3. SyncSpec => []AllActive
  BY <1>1, <1>2, PTL DEF SyncSpec
<1> QED
  BY <1>3, OnlyAcceptedIsSetAside, PTL
-----------------------------------------------------------------------------
(* Limits no answer reaches.                                                *)

\* The limits of an answer are not below the number of updates.
AnswersFit ==
    /\ IsFiniteSet(Update)
    /\ Cardinality(Update) <= MaxRows
    /\ Cardinality(Update) <= MaxRemote

AnswersUncut ==
    \A d \in Device : exchange[d].stage = "answered" => Uncut(exchange[d].response)

LEMMA FirstNumbers ==
    ASSUME NEW n \in Nat
    PROVE  IsFiniteSet(1 .. n) /\ Cardinality(1 .. n) = n
<1>1. /\ IsFiniteSet(1 .. n)
      /\ Cardinality(1 .. n) = IF 1 > n THEN 0 ELSE n - 1 + 1
  BY FS_Interval
<1> QED
  BY <1>1

\* No log is longer than there are updates, so an answer reaches its end.
LEMMA AnswerFits ==
    ASSUME AnswersFit, SoundLog, NEW r \in Request, NEW p \in Plans(r)
    PROVE  p.through = Len(AppendBatch(r, p.order))
<1> DEFINE log == AppendBatch(r, p.order)
<1>1. /\ Len(log) \in Nat
      /\ \A n \in 1 .. Len(log) : log[n].id \notin Prefix(log, n - 1) /\ log[n].id \in Update
  BY AppendedCausal
<1>2. PICK order \in ImportOrders(r) : p \in PlansFor(r, order)
  BY DEF Plans
<1>3. /\ p.confirmed \in 0 .. Len(log) /\ p.through \in 0 .. Len(log)
      /\ p.confirmed <= p.through
      /\ p.through <= WindowEnd(log, p.confirmed)
      /\ IsThrough(log, r, p.confirmed, p.through)
  BY <1>2 DEF PlansFor
<1> HIDE DEF log
<1>4. Len(log) <= Cardinality(Update) /\ Cardinality(Update) \in Nat
  <2> DEFINE f == [n \in 1 .. Len(log) |-> log[n].id]
  <2>1. ASSUME NEW m \in 1 .. Len(log), NEW n \in 1 .. Len(log), m < n
        PROVE  f[m] # f[n]
    <3>1. m \in 1 .. n - 1
      BY <1>1, <2>1
    <3> QED
      BY <1>1, <3>1 DEF Prefix
  <2>2. f \in [1 .. Len(log) -> Update]
    BY <1>1
  <2>3. \A m, n \in 1 .. Len(log) : f[m] = f[n] => m = n
    <3> SUFFICES ASSUME NEW m \in 1 .. Len(log), NEW n \in 1 .. Len(log), f[m] = f[n] PROVE m = n
      OBVIOUS
    <3>1. ~(m < n) /\ ~(n < m)
      <4> HIDE DEF f
      <4> QED
        BY <2>1
    <3> QED
      BY <1>1, <3>1
  <2> HIDE DEF f
  <2>4. f \in Injection(1 .. Len(log), Update)
    BY <2>2, <2>3 DEF Injection, IsInjective
  <2>5. Cardinality(1 .. Len(log)) <= Cardinality(Update)
    BY <2>4, FS_Injection DEF AnswersFit
  <2>6. Cardinality(1 .. Len(log)) = Len(log)
    <3>1. Len(log) \in Nat
      BY <1>1
    <3> HIDE DEF f
    <3> QED
      BY <3>1, FirstNumbers
  <2> QED
    BY <2>5, <2>6, FS_CardinalityType DEF AnswersFit
<1>5. WindowEnd(log, p.confirmed) = Len(log)
  BY <1>1, <1>3, <1>4, LimitsAssumption DEF WindowEnd, AnswersFit
<1>6. ASSUME p.through < Len(log) PROVE FALSE
  <2> DEFINE sent == {n \in Sendable(log, r, p.confirmed) : n <= Len(log)}
  <2>1. Len(log) \in p.through + 1 .. WindowEnd(log, p.confirmed)
    BY <1>1, <1>3, <1>5, <1>6
  <2>2. Cardinality(sent) > MaxRemote
    BY <1>3, <2>1 DEF IsThrough
  <2>3. sent \subseteq 1 .. Len(log)
    <3>1. sent \subseteq p.confirmed + 1 .. WindowEnd(log, p.confirmed)
      BY DEF Sendable, NeedPayload
    <3> QED
      BY <1>1, <1>3, <1>5, <3>1
  <2> HIDE DEF sent
  <2>4. IsFiniteSet(1 .. Len(log)) /\ Cardinality(1 .. Len(log)) = Len(log)
    <3>1. Len(log) \in Nat
      BY <1>1
    <3> QED
      BY <3>1, FirstNumbers
  <2>5. IsFiniteSet(sent) /\ Cardinality(sent) <= Len(log)
    BY <2>3, <2>4, FS_Subset
  <2>6. Cardinality(sent) \in Nat
    BY <2>5, FS_CardinalityType
  <2> QED
    BY <1>1, <1>4, <2>2, <2>5, <2>6, LimitsAssumption DEF AnswersFit
<1> QED
  BY <1>1, <1>3, <1>6 DEF log

\* An answer announces the end of a log it reaches.
LEMMA UncutStep ==
    ASSUME AnswersFit, SyncInvariant, SoundLog, AnswersUncut, [SyncNext]_syncVars
    PROVE  AnswersUncut'
<1>1. ASSUME \A d \in Device : exchange'[d] = exchange[d] \/ exchange'[d].stage # "answered"
      PROVE  AnswersUncut'
  BY <1>1 DEF AnswersUncut
<1>2. ASSUME NEW d \in Device, NEW x, x.stage # "answered", exchange' = [exchange EXCEPT ![d] = x]
      PROVE  AnswersUncut'
  BY <1>1, <1>2 DEF SyncInvariant, DomainsHeld
<1>3. ASSUME NEW d \in Device, Serve(d) PROVE AnswersUncut'
  <2>1. PICK r : r = exchange[d].request
    OBVIOUS
  <2>2. PICK p \in Plans(r) : Replica!Receive(d, Answered(r, p))
    BY <1>3, <2>1 DEF Serve
  <2>3. PICK a : a = Answered(r, p)
    OBVIOUS
  <2>4. /\ exchange[d].stage = "waiting"
        /\ exchange' = [exchange EXCEPT ![d] =
               [stage |-> "answered", request |-> r, response |-> a]]
    BY <2>1, <2>2, <2>3 DEF Replica!Receive
  <2>5. /\ exchange'[d].response = a
        /\ \A e \in Device \ {d} : exchange'[e] = exchange[e]
    BY <2>4 DEF SyncInvariant, DomainsHeld
  <2>6. r \in Request
    BY <2>1, <2>4 DEF SyncInvariant, DeviceHeld, ExchangeHeld, RequestHeld
  <2>7. a.through = a.latest
    BY <2>3, <2>6, AnswerFits DEF Answered, Response
  <2> QED
    BY <2>5, <2>7 DEF AnswersUncut, Uncut
<1>4. Replica!Idle.stage # "answered"
  BY DEF Replica!Idle
<1>5. ASSUME NEW d \in Device, Ends(d) \/ Commit(d)
      PROVE  AnswersUncut'
  <2>1. exchange' = [exchange EXCEPT ![d] = Replica!Idle]
    BY <1>5, EndsFacts DEF Commit, Replica!EndExchange, Replica!CommitResponse,
                           Replica!CommitWrites
  <2> QED
    BY <1>2, <1>4, <2>1
<1>6. ASSUME NEW d \in Device, Send(d) PROVE AnswersUncut'
  <2>1. PICK r : exchange' = [exchange EXCEPT ![d] = [stage |-> "waiting", request |-> r]]
    BY <1>6 DEF Send, Replica!Send
  <2>2. [stage |-> "waiting", request |-> r].stage # "answered"
    OBVIOUS
  <2> QED
    BY <1>2, <2>1, <2>2
<1>7. ASSUME NEW t \in Tab, Adopt(t) \/ Reload(t) PROVE AnswersUncut'
  <2>1. exchange' = exchange \/ exchange' = [exchange EXCEPT ![Owner[t]] = Replica!Idle]
    BY <1>7 DEF Adopt, Reload, Replica!Adopt, Replica!Reload
  <2> QED
    BY <1>1, <1>2, <1>4, <2>1, SyncAssumption
<1>8. CASE exchange' = exchange
  BY <1>1, <1>8
<1>9. ASSUME NEW t \in Tab, NEW u \in Update, Edit(t, u) PROVE exchange' = exchange
  BY <1>9 DEF Edit, Replica!Edit, Replica!EditWrites
<1> QED
  BY <1>3, <1>5, <1>6, <1>7, <1>8, <1>9
  DEF SyncNext, Ends, ServeLate, ServerStep, replicaVars, syncVars

AnswersTaken ==
    \A d \in Device : exchange[d].stage = "answered" => Taken(d, exchange[d].response)

\* With limits no answer reaches, an answer that arrives whole passes every check
\* of its commit but the details of the ambiguities it tells of: the cursor
\* advances, the receipts fit the rows, no update is without its dependencies
\* and the frontier announced is reached.
THEOREM FittingAnswersAreTaken ==
    ASSUME AnswersFit
    PROVE  SyncSpec => []AnswersTaken
<1> DEFINE Inv == SoundInvariant /\ AnswersUncut
<1>1. SyncInit => Inv
  BY SoundInvariantInit DEF SyncInit, Replica!Init, Replica!Idle, AnswersUncut
<1>2. Inv /\ [SyncNext]_syncVars => Inv'
  BY SoundInvariantStep, UncutStep DEF SoundInvariant
<1>3. Inv => AnswersTaken
  BY UncutIsTaken DEF SoundInvariant, AnswersUncut, AnswersTaken
<1> HIDE DEF Inv
<1> QED
  BY <1>1, <1>2, <1>3, PTL DEF SyncSpec

=============================================================================
