----------------------------- MODULE AdminReads ------------------------------
(***************************************************************************)
(* The read side of the administrative API (internal/handlers/admin*.go)   *)
(* over the audit store, the approvals queue and the captured responses:   *)
(* handlers that answer from one query, and handlers that page over a      *)
(* store other requests keep writing to.                                   *)
(***************************************************************************)
EXTENDS AdminAuth, Integers, Sequences, FiniteSets, Functions

CONSTANTS
  AdminToken, TenantAdmins,   \* the superadmin's token; tenant -> its admin's token
  PageSize, ExportMaxRows, AgentsMaxEvents, DryRunLimits,
  MemoryCapacity,             \* slots of the memory store's ring
  LexRank,                    \* place of each time in the order of its RFC3339Nano text
  PayloadTTL, PayloadIds,
  WindowStarts,               \* from= of a request; 0 is none
  MaxEvents, MaxReaderTime    \* bounds of the model

ASSUME PagesAssumption ==
  /\ PageSize \in Nat /\ ExportMaxRows \in Nat /\ AgentsMaxEvents \in Nat
  /\ DryRunLimits \subseteq Nat

VARIABLES
  auditKind,   \* "memory" or "postgres"
  events,      \* stored audit events [n, ts, tenant], oldest insert first
  inserted,    \* how many events were ever inserted
  evicted,     \* did the ring drop an event since the reader began?
  reader,      \* a request that pages over the store
  held,        \* pending approvals: a function from tenants to a row's status
  deciding,    \* a decide request between its two calls to the queue
  captured,    \* captured responses [tenant, id, expires]
  readerTime,
  reply        \* the last answer: who asked, whose rows it holds

pageVars == <<auditKind, events, inserted, evicted, reader>>
rowVars == <<held, deciding, captured, readerTime>>
adminVars == <<pageVars, rowVars, reply>>

EventTimes == DOMAIN LexRank
Tokens == {AdminToken, None} \cup {TenantAdmins[t] : t \in DOMAIN TenantAdmins}
Auth(tok) == resolveAdminAuth(tok, AdminToken, TenantAdmins)

(***************************************************************************)
(* The audit store.  tenant stands for every column that is compared for   *)
(* equality; events of one time come back in no particular order.          *)
(***************************************************************************)
matchesFilter(e, f) ==
  /\ f.from # 0 => e.ts >= f.from
  /\ f.to # 0 => e.ts <= f.to
  /\ f.tenant # None => e.tenant = f.tenant

\* Postgres orders by time, the memory store by the text of the time.
SortKey(e) == IF auditKind = "memory" THEN LexRank[e.ts] ELSE e.ts

Matching(f) == {e \in Range(events) : matchesFilter(e, f)}

Count(f) == Cardinality(Matching(f))

Newest(f) ==
  {q \in Injection(1..Count(f), Matching(f)) :
     \A i, j \in DOMAIN q : i < j => SortKey(q[i]) >= SortKey(q[j])}

Page(q, offset, limit) ==
  SubSeq(q, offset + 1, IF offset + limit > Len(q) THEN Len(q) ELSE offset + limit)

Query(f, offset, limit) == {Page(q, offset, limit) : q \in Newest(f)}

Insert(ts, tenant) ==
  LET e == [n |-> inserted + 1, ts |-> ts, tenant |-> tenant]
      full == auditKind = "memory" /\ Len(events) = MemoryCapacity
  IN /\ inserted < MaxEvents
     /\ inserted' = inserted + 1
     /\ events' = Append(IF full THEN Tail(events) ELSE events, e)
     /\ evicted' = (evicted \/ (full /\ reader.pc # "idle"))
     /\ UNCHANGED <<auditKind, reader, rowVars, reply>>

StoreMayFail == auditKind = "postgres"

(***************************************************************************)
(* Paging: the export, the agent discovery and the policy dry run.         *)
(***************************************************************************)
IdleReader == [op |-> "none", admin |-> None, filter |-> [tenant |-> None, from |-> 0, to |-> 0],
               limit |-> 0, offset |-> 0, got |-> <<>>, present |-> {}, cut |-> FALSE,
               pc |-> "idle"]

Answer(op, admin, tenants) == reply' = [op |-> op, admin |-> admin, tenants |-> tenants]
TenantsOf(S) == {e.tenant : e \in S}

Begin(op, tok, asked, from, limit) ==
  \E admin \in Auth(tok) :
    LET f == [tenant |-> Scope(admin, asked), from |-> from, to |-> 0] IN
    /\ reader.pc = "idle" /\ MayScope(admin, asked)
    /\ reader' = [IdleReader EXCEPT !.op = op, !.admin = admin, !.filter = f, !.limit = limit,
                                    !.present = IF op = "export" THEN Matching(f) ELSE {},
                                    !.pc = "page"]
    /\ evicted' = FALSE
    /\ UNCHANGED <<auditKind, events, inserted, rowVars, reply>>

Room(r) == r.limit - Len(r.got)

\* The rows a page may hold: the dry run asks for no more than it still needs.
PageLimit(r) == IF r.op = "dryrun" /\ Room(r) < PageSize THEN Room(r) ELSE PageSize

\* The rows of a page the request keeps: an export stops at its cap.
Kept(r, page) == IF r.op = "export" THEN SubSeq(page, 1, IF Room(r) < Len(page) THEN Room(r) ELSE Len(page))
                 ELSE page

\* A full page taken for the last one.
LastPageEarly(r, page) == Len(page) <= PageLimit(r)

LastPage(r, page) ==
  \/ Len(page) < PageLimit(r)
  \/ r.op = "export" /\ Len(page) > Room(r)
  \/ r.op # "export" /\ Len(r.got) + Len(page) >= r.limit

NextPage ==
  /\ reader.pc = "page"
  /\ \E page \in Query(reader.filter, reader.offset, PageLimit(reader)) :
       LET got == reader.got \o Kept(reader, page)
           last == LastPage(reader, page)
       IN /\ reader' = [reader EXCEPT !.got = got,
                          !.offset = @ + (IF reader.op = "dryrun" THEN Len(page) ELSE PageSize),
                          !.cut = Len(Kept(reader, page)) < Len(page),
                          !.pc = IF last THEN "done" ELSE "page"]
          /\ IF last \/ reader.op = "export"
             THEN Answer(reader.op, reader.admin, TenantsOf(Range(got))) ELSE UNCHANGED reply
  /\ UNCHANGED <<auditKind, events, inserted, evicted, rowVars>>

\* The export's file ends early, the others answer 503.
PageFails ==
  /\ reader.pc = "page" /\ StoreMayFail
  /\ reader' = [reader EXCEPT !.pc = "failed"]
  /\ UNCHANGED <<auditKind, events, inserted, evicted, rowVars, reply>>

NoReply == [op |-> "none", admin |-> None, tenants |-> {}]

Hangup == reader.pc \in {"done", "failed"} /\ reader' = IdleReader
          /\ evicted' = FALSE /\ reply' = NoReply
          /\ UNCHANGED <<auditKind, events, inserted, rowVars>>

AuditExport(tok, asked, from) == Begin("export", tok, asked, from, ExportMaxRows)
AgentsList(tok, asked, from) == Begin("agents", tok, asked, from, AgentsMaxEvents)
PoliciesDryRun(tok, asked, from) == \E limit \in DryRunLimits : Begin("dryrun", tok, asked, from, limit)

PagesNext ==
  \/ \E ts \in EventTimes, t \in Tenants : Insert(ts, t)
  \/ \E tok \in Tokens, asked \in Admins, from \in WindowStarts :
       AuditExport(tok, asked, from) \/ AgentsList(tok, asked, from) \/ PoliciesDryRun(tok, asked, from)
  \/ NextPage \/ PageFails \/ Hangup

(***************************************************************************)
(* Handlers that answer from one query.                                    *)
(***************************************************************************)
\* Shown are the events of the page with a number in wanted.
OneQuery(op, tok, asked, limit, wanted) ==
  \E admin \in Auth(tok) :
    /\ MayScope(admin, asked)
    /\ \E page \in Query([tenant |-> Scope(admin, asked), from |-> 0, to |-> 0], 0, limit) :
         LET shown == {e \in Range(page) : e.n \in wanted} IN
         /\ op = "proof" => shown # {}
         /\ Answer(op, admin, TenantsOf(shown))
    /\ UNCHANGED <<pageVars, rowVars>>

AuditQuery(tok, asked, limit) == OneQuery("query", tok, asked, limit, 1..inserted)
FlowMapEvents(tok, asked, limit) == OneQuery("flowmap", tok, asked, limit, 1..inserted)

\* The newest page only, searched for the session or event.
ProofOfIntent(tok, asked, n) == OneQuery("proof", tok, asked, PageSize, {n})

AuditVerify(tok, asked) ==
  \E admin \in Auth(tok) :
    /\ MayScope(admin, asked)
    /\ Answer("verify", admin, {Scope(admin, asked)})
    /\ UNCHANGED <<pageVars, rowVars>>

TenantsList(tok) ==
  \E admin \in Auth(tok) :
    /\ Answer("tenants", admin,
              IF admin # None THEN {admin} ELSE {t \in DOMAIN TenantAdmins : TenantAdmins[t] # None})
    /\ UNCHANGED <<pageVars, rowVars>>

\* The status of every audit sink: for the superadmin only.
Integrations(tok) == checkAdminToken(tok, AdminToken) /\ Answer("integrations", None, {})
                     /\ UNCHANGED <<pageVars, rowVars>>

ApprovalsList(tok, status) ==
  \E admin \in Auth(tok) :
    /\ Answer("approvals", admin, {t \in Tenants : /\ status = None \/ held[t] = status
                                                   /\ admin = None \/ t = admin})
    /\ UNCHANGED <<pageVars, rowVars>>

(***************************************************************************)
(* Deciding a pending approval: a tenant's administrator looks the row up  *)
(* first, and any failure of that look-up reads as "not found".            *)
(***************************************************************************)
\* A look-up that forgets whose row it found.
LookupAnyTenant(admin, t) == t \in Tenants

OwnRow(admin, t) == admin = None \/ t = admin

DecideLookup(tok, t, verdict) ==
  \E admin \in Auth(tok) :
    /\ deciding.admin = "idle" /\ OwnRow(admin, t)
    /\ deciding' = [admin |-> admin, tenant |-> t, verdict |-> verdict]
    /\ UNCHANGED <<pageVars, held, captured, readerTime, reply>>

NoDecision == [admin |-> "idle", tenant |-> None, verdict |-> None]

\* The row is decided, or it was decided meanwhile and is shown as it is.
DecideRow ==
  /\ deciding.admin # "idle"
  /\ held' = IF held[deciding.tenant] = "pending"
             THEN [held EXCEPT ![deciding.tenant] = deciding.verdict] ELSE held
  /\ Answer("decide", deciding.admin, {deciding.tenant})
  /\ deciding' = NoDecision
  /\ UNCHANGED <<pageVars, captured, readerTime>>

\* The agent's wait gives up.
HoldTimesOut(t) == held[t] = "pending" /\ held' = [held EXCEPT ![t] = "timeout"]
                   /\ UNCHANGED <<pageVars, deciding, captured, readerTime, reply>>

(***************************************************************************)
(* Captured responses: kept for a while, read under the reader's tenant.   *)
(***************************************************************************)
Put(tenant, id) ==
  /\ ~\E c \in captured : c.tenant = tenant /\ c.id = id
  /\ captured' = captured \cup {[tenant |-> tenant, id |-> id, expires |-> readerTime + PayloadTTL]}
  /\ UNCHANGED <<pageVars, held, deciding, readerTime, reply>>

Get(tenant, id) == {c \in captured : c.tenant = tenant /\ c.id = id /\ readerTime < c.expires}

\* The superadmin names the tenant wherever tenants have administrators.
PayloadRead(tok, asked, id) ==
  \E admin \in Auth(tok) :
    /\ MayScope(admin, asked)
    /\ Scope(admin, asked) # None \/ DOMAIN TenantAdmins = {}
    /\ Answer("payload", admin, TenantsOf(Get(Scope(admin, asked), id)))
    /\ UNCHANGED <<pageVars, rowVars>>

Purge == captured' = {c \in captured : readerTime < c.expires}
         /\ UNCHANGED <<pageVars, held, deciding, readerTime, reply>>

ReaderTick == readerTime < MaxReaderTime /\ readerTime' = readerTime + 1
              /\ UNCHANGED <<pageVars, held, deciding, captured, reply>>

Statuses == {"pending", "approved", "rejected", "timeout"}

QueriesNext ==
  \/ \E ts \in EventTimes, t \in Tenants : Insert(ts, t)
  \/ \E tok \in Tokens, asked \in Admins :
       \/ \E limit \in 1..PageSize : AuditQuery(tok, asked, limit) \/ FlowMapEvents(tok, asked, limit)
       \/ \E n \in 1..MaxEvents : ProofOfIntent(tok, asked, n)
       \/ AuditVerify(tok, asked)
  \/ \E tok \in Tokens : TenantsList(tok) \/ Integrations(tok)

HoldsNext ==
  \/ \E tok \in Tokens :
       \/ \E status \in Statuses \cup {None} : ApprovalsList(tok, status)
       \/ \E t \in Tenants, verdict \in {"approved", "rejected"} : DecideLookup(tok, t, verdict)
  \/ DecideRow \/ \E t \in Tenants : HoldTimesOut(t)
  \/ \E tok \in Tokens, asked \in Admins, id \in PayloadIds : PayloadRead(tok, asked, id)
  \/ \E t \in Tenants, id \in PayloadIds : Put(t, id)
  \/ Purge \/ ReaderTick

AdminInit ==
  /\ auditKind \in {"memory", "postgres"}
  /\ events = <<>> /\ inserted = 0 /\ evicted = FALSE /\ reader = IdleReader
  /\ held = [t \in Tenants |-> "pending"] /\ deciding = NoDecision
  /\ captured = {} /\ readerTime = 1
  /\ reply = NoReply

AdminNext == PagesNext \/ QueriesNext \/ HoldsNext

AdminSpec == AdminInit /\ [][AdminNext]_adminVars

(***************************************************************************)
(* Properties.                                                             *)
(***************************************************************************)
\* Whatever handler a tenant's administrator calls, and whatever other
\* requests do between its store calls, the answer holds (and the decision
\* touches) rows of that tenant only (the scoping every admin handler repeats).
AnswersWithinTenant == reply.admin # None => reply.tenants \subseteq {reply.admin}

Alone(e) == \A d \in Range(events) : SortKey(d) = SortKey(e) => d = e

\* An export that ran to its end below the row cap holds every event that
\* matched when it began, though events arrive between its pages; only events
\* that share their time with another, and pages shifted by the memory ring
\* dropping a row, are excused (NewAdminAuditExportHandler over Query's
\* newest-first order).
ExportMissesNothing ==
  reader.op = "export" /\ reader.pc = "done" /\ ~reader.cut /\ ~evicted =>
    \A e \in reader.present : Alone(e) => e \in Range(reader.got)
=============================================================================
