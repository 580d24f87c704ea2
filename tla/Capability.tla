----------------------------- MODULE Capability ------------------------------
(***************************************************************************)
(* Capability tokens: minting, delegation, revocation and the capability   *)
(* check of a call (internal/capability, internal/revocation, the mint,    *)
(* exception and revoke handlers of internal/handlers, cmd/igctl).         *)
(*                                                                         *)
(* HMAC is symbolic: a signature is the record of everything its chain     *)
(* absorbed, so two signatures are equal exactly when payload and caveats  *)
(* are, and a signature can be extended by whoever holds it but made from  *)
(* nothing only with the master key.                                       *)
(***************************************************************************)
EXTENDS AdminAuth, Integers, Sequences, FiniteSets

CONSTANTS
  Names,                    \* names of tenants, agents, zones, tools, servers, tokens
  Agents, Zones,            \* "" is never one of them
  Jtis,                     \* token identifiers
  Tools,                    \* tool names
  Glob,                     \* the tools a wildcard pattern matches
  ServerOf,                 \* the MCP server a tool's prefix names
  MintBodies,               \* bodies of POST /v1/admin/mint
  ExceptionBodies,          \* bodies of POST /v1/admin/exceptions
  IgctlFlags,               \* flags of igctl mint
  HolderCaveats,            \* caveats a holder appends
  MaxTTL,                   \* longest exception
  MaxChain, MaxKnown, MaxRevocations, MaxNow   \* bounds of the model

VARIABLES
  minted,    \* the tokens the master key signed
  known,     \* the signatures that left the gateway, and their extensions
  revoked,   \* rows <<jti, tenant>> of the revocation store; "" is global
  stopped,   \* minted tokens an administrator responsible for them revoked
  trail,     \* audit events of the administrative handlers
  now        \* unix time

capabilityVars == <<minted, known, revoked, stopped, trail, now>>

SchemaVersion == 4
DefaultTenant == "default"
DefaultZone == "default"

CaveatTypes == {"exp", "agent_lock", "tool_allow", "tool_deny", "mcp_allow", "step_up",
                "rate_limit", "max_cost", "risk_max", "max_calls", "callee_allow",
                "unknown"}

NameSets == SUBSET Names

CaveatSet == [type : CaveatTypes, names : NameSets, zones : NameSets, value : Int]

ASSUME CapabilityAssumption ==
  /\ {None, DefaultTenant, DefaultZone} \cup Tenants \cup Jtis \subseteq Names
  /\ MintBodies \subseteq
       [sub : Names, tenant : Names, zone : Names, ttl : Int, tools : NameSets,
        maxCalls : Int, servers : NameSets, rate : Int, cents : Int, risk : Int,
        stepUp : BOOLEAN, callees : NameSets, calleeZones : NameSets]
  /\ ExceptionBodies \subseteq
       [sub : Names, tenant : Names, zone : Names, ttl : Int, tools : NameSets,
        ref : Names]
  /\ IgctlFlags \subseteq
       [sub : Names, zone : Names, ttl : Int, tools : NameSets,
        forbidden : NameSets, maxCalls : Int, callees : NameSets,
        calleeZones : NameSets]
  /\ HolderCaveats \subseteq CaveatSet

Caveat(type, names, zones, value) ==
  [type |-> type, names |-> names, zones |-> zones, value |-> value]

(***************************************************************************)
(* Evaluation.                                                             *)
(***************************************************************************)
matchAnyTool(patterns, tool) ==
  \E p \in patterns : p = tool \/ (p \in DOMAIN Glob /\ tool \in Glob[p])

matchAnyServer(servers, tool) ==
  \E s \in servers : s # None /\ (tool = s \/ ServerOf[tool] = s)

evalCaveat(c, ctx) ==
  CASE c.type = "exp" -> c.value # 0 /\ ctx.now < c.value
    [] c.type = "agent_lock" -> ctx.agent \in c.names
    [] c.type = "tool_allow" -> ctx.eastWest \/ matchAnyTool(c.names, ctx.tool)
    [] c.type = "tool_deny" -> ctx.eastWest \/ ~matchAnyTool(c.names, ctx.tool)
    [] c.type = "mcp_allow" -> ctx.eastWest \/ matchAnyServer(c.names, ctx.tool)
    [] c.type \in {"step_up", "rate_limit", "max_cost"} -> c.value >= 0
    [] c.type = "risk_max" -> c.value >= 0 /\ (c.value > 0 => ctx.risk <= c.value)
    [] c.type \in {"max_calls", "callee_allow"} -> TRUE
    [] OTHER -> FALSE

Check(t, ctx) ==
  /\ t.payload.nbf # 0 => ctx.now >= t.payload.nbf
  /\ \A i \in DOMAIN t.caveats : evalCaveat(t.caveats[i], ctx)

CanCall(t, callee, zone) ==
  \A i \in DOMAIN t.caveats :
    LET c == t.caveats[i] IN
    c.type = "callee_allow" => callee \in c.names \/ zone \in c.zones

(***************************************************************************)
(* Signatures.                                                             *)
(***************************************************************************)
hmacOnce(sig, c) == [payload |-> sig.payload, chain |-> Append(sig.chain, c)]

\* A chain that absorbs the payload and the last caveat only.
SignLastOnly(t) ==
  [payload |-> t.payload,
   chain |-> IF t.caveats = <<>> THEN <<>> ELSE <<t.caveats[Len(t.caveats)]>>]

computeSignature(t) == [payload |-> t.payload, chain |-> t.caveats]

Validate(p) ==
  /\ p.v = SchemaVersion
  /\ p.id # None /\ p.root # None /\ p.sub # None /\ p.tenant # None /\ p.zone # None
  /\ p.iat # 0

Verify(t) == Validate(t.payload) /\ t.sig = computeSignature(t)

\* The token as Mint assembles it: the agent lock first, then the expiry.
NewToken(id, opts) ==
  [payload |-> [v |-> SchemaVersion, id |-> id, root |-> id,
                tenant |-> IF opts.tenant = None THEN DefaultTenant ELSE opts.tenant,
                zone |-> IF opts.zone = None THEN DefaultZone ELSE opts.zone,
                sub |-> opts.sub, iat |-> now, nbf |-> 0],
   caveats |-> <<Caveat("agent_lock", {opts.sub}, {}, 0)>>
               \o (IF opts.expiry = 0 THEN <<>> ELSE <<Caveat("exp", {}, {}, opts.expiry)>>)
               \o opts.caveats]

Opt(present, c) == IF present THEN <<c>> ELSE <<>>

Expiry(ttl) == IF ttl > 0 THEN now + ttl ELSE 0

PayloadSet == [v : Nat, id : Names, root : Names, tenant : Names, zone : Names,
               sub : Names, iat : Nat, nbf : Nat]

CapabilityTypeOK ==
  /\ minted \subseteq [payload : PayloadSet, caveats : Seq(CaveatSet)]
  /\ known \subseteq [payload : PayloadSet, chain : Seq(CaveatSet)]
  /\ stopped \subseteq minted
  /\ now \in Nat

CapabilityInit ==
  /\ minted = {} /\ known = {} /\ revoked = {} /\ stopped = {} /\ trail = {}
  /\ now = 1

(***************************************************************************)
(* Minting.  newTokenID draws an identifier no other token has.            *)
(***************************************************************************)
Mint(opts, event) ==
  \E id \in Jtis \ {m.payload.id : m \in minted} :
    LET t == NewToken(id, opts) IN
    /\ minted' = minted \cup {t}
    /\ known' = known \cup {computeSignature(t)}
    /\ trail' = trail \cup {[event |-> e, jti |-> id, tenant |-> t.payload.tenant] : e \in event}
    /\ UNCHANGED <<revoked, stopped, now>>

AdminOptions(admin, b) ==
  [sub |-> b.sub, tenant |-> Scope(admin, b.tenant), zone |-> b.zone,
   expiry |-> Expiry(b.ttl),
   caveats |-> Opt(b.tools # {}, Caveat("tool_allow", b.tools, {}, 0))
               \o Opt(b.maxCalls > 0, Caveat("max_calls", {}, {}, b.maxCalls))
               \o Opt(b.servers # {}, Caveat("mcp_allow", b.servers, {}, 0))
               \o Opt(b.rate > 0, Caveat("rate_limit", {}, {}, b.rate))
               \o Opt(b.cents > 0, Caveat("max_cost", {}, {}, b.cents))
               \o Opt(b.risk > 0, Caveat("risk_max", {}, {}, b.risk))
               \o Opt(b.stepUp, Caveat("step_up", {}, {}, now))
               \o Opt(b.callees # {} \/ b.calleeZones # {},
                      Caveat("callee_allow", b.callees, b.calleeZones, 0))]

AdminMint(admin, b) ==
  /\ b.sub # None /\ b.ttl >= 0 /\ b.maxCalls >= 0
  /\ MayScope(admin, b.tenant)
  /\ Mint(AdminOptions(admin, b), {"admin/mint"})

ExceptionOptions(admin, b) ==
  [sub |-> b.sub, tenant |-> Scope(admin, b.tenant), zone |-> b.zone,
   expiry |-> Expiry(b.ttl), caveats |-> <<Caveat("tool_allow", b.tools, {}, 0)>>]

ExceptionGrant(admin, b) ==
  /\ b.sub # None /\ b.ref # None /\ b.ttl > 0 /\ b.ttl <= MaxTTL /\ b.tools # {}
  /\ MayScope(admin, b.tenant)
  /\ Mint(ExceptionOptions(admin, b), {"admin/exception-grant"})

\* igctl signs with the master key itself: no tenant, and no audit event.
IgctlOptions(b) ==
  [sub |-> b.sub, tenant |-> None, zone |-> b.zone, expiry |-> Expiry(b.ttl),
   caveats |-> Opt(b.tools # {}, Caveat("tool_allow", b.tools, {}, 0))
               \o Opt(b.forbidden # {}, Caveat("tool_deny", b.forbidden, {}, 0))
               \o Opt(b.maxCalls > 0, Caveat("max_calls", {}, {}, b.maxCalls))
               \o Opt(b.callees # {} \/ b.calleeZones # {},
                      Caveat("callee_allow", b.callees, b.calleeZones, 0))]

cmdMint(b) == b.sub # None /\ Mint(IgctlOptions(b), {})

(***************************************************************************)
(* Delegation.  The child keeps the identifier of its parent.              *)
(***************************************************************************)
Attenuate(parent, c) ==
  /\ parent.payload.root # None /\ parent.payload.tenant # None /\ parent.payload.zone # None
  /\ Len(parent.chain) < MaxChain /\ Cardinality(known) < MaxKnown
  /\ known' = known \cup {hmacOnce(parent, c)}
  /\ UNCHANGED <<minted, revoked, stopped, trail, now>>

(***************************************************************************)
(* Revocation, by an administrator or by igctl with the superadmin token.  *)
(* Revoking twice only changes the reason of the row.                      *)
(***************************************************************************)
Revoke(admin, jti) ==
  /\ Cardinality(revoked) < MaxRevocations
  /\ revoked' = revoked \cup {<<jti, admin>>}
  /\ stopped' = stopped \cup {m \in minted : m.payload.id = jti
                                            /\ admin \in {None, m.payload.tenant}}
  /\ trail' = trail \cup {[event |-> "admin/revoke", jti |-> jti, tenant |-> admin]}
  /\ UNCHANGED <<minted, known, now>>

\* Mutant of IsRevoked: the rows of the superadmin are not looked at.
IsRevokedHere(jti, tenant) == <<jti, tenant>> \in revoked

IsRevoked(jti, tenant) == \E row \in revoked : row[1] = jti /\ row[2] \in {tenant, None}

CapabilityTick == now < MaxNow /\ now' = now + 1
                  /\ UNCHANGED <<minted, known, revoked, stopped, trail>>

CapabilityNext ==
  \/ \E a \in Admins, b \in MintBodies : AdminMint(a, b)
  \/ \E a \in Admins, b \in ExceptionBodies : ExceptionGrant(a, b)
  \/ \E b \in IgctlFlags : cmdMint(b)
  \/ \E s \in known, c \in HolderCaveats : Attenuate(s, c)
  \/ \E a \in Admins, m \in minted : Revoke(a, m.payload.id)
  \/ CapabilityTick

CapabilitySpec == CapabilityInit /\ [][CapabilityNext]_capabilityVars

(***************************************************************************)
(* The capability check of a call that presents a token.  The request      *)
(* context names the token's own subject and no risk score.                *)
(***************************************************************************)
runCapabilityCheck(t, tool, eastWest) ==
  IF ~Verify(t) THEN "invalid"
  ELSE IF IsRevoked(t.payload.id, t.payload.tenant) THEN "revoked"
  ELSE IF Check(t, [agent |-> t.payload.sub, tool |-> tool, now |-> now,
                    eastWest |-> eastWest, risk |-> 0]) THEN "ok" ELSE "denied"

\* What a client can put together: a signature it has, the payload as it was
\* signed or with one field changed, and the caveats of some signature it has,
\* all of them or all but one.
Altered(p) ==
  {p} \cup {[p EXCEPT !.tenant = x] : x \in Tenants} \cup {[p EXCEPT !.zone = x] : x \in Zones}
      \cup {[p EXCEPT !.sub = x] : x \in Agents} \cup {[p EXCEPT !.id = x] : x \in Jtis}

AllButOne(q) ==
  {q} \cup {[i \in 1..(Len(q) - 1) |-> IF i < k THEN q[i] ELSE q[i + 1]] : k \in 1..Len(q)}

OtherChains == UNION {AllButOne(s.chain) : s \in known}

Token(p, q, s) == [payload |-> p, caveats |-> q, sig |-> s]

(***************************************************************************)
(* Properties.                                                             *)
(***************************************************************************)
Grants(t, tool, eastWest, callee, zone) ==
  /\ Check(t, [agent |-> t.payload.sub, tool |-> tool, now |-> now,
               eastWest |-> eastWest, risk |-> 0])
  /\ eastWest => CanCall(t, callee, zone)

\* Delegation never widens: whatever a client presents, a token that verifies
\* grants only calls that a token minted with the same payload grants, however
\* many times it was attenuated in between (token.Verify, Attenuate, Check and
\* CanCall).
DelegationOnlyNarrows ==
  \A s \in known : \A p \in Altered(s.payload), q \in OtherChains :
    LET t == Token(p, q, s) IN
    Verify(t) => \E m \in minted :
      /\ m.payload = t.payload
      /\ \A tool \in Tools, eastWest \in BOOLEAN, callee \in Agents, zone \in Zones :
           Grants(t, tool, eastWest, callee, zone) => Grants(m, tool, eastWest, callee, zone)

\* A revocation reaches every delegate and no other tenant: a verified token
\* is refused as revoked exactly when the token it descends from was revoked
\* by the superadmin or by an administrator of its own tenant (Revoke and
\* IsRevoked, with the identifier Attenuate hands down).
RevocationReachesDelegates ==
  \A s \in known : \A p \in Altered(s.payload), q \in OtherChains, m \in minted :
    LET t == Token(p, q, s) IN
    Verify(t) /\ m.payload = p =>
      \A tool \in Tools, eastWest \in BOOLEAN :
        (runCapabilityCheck(t, tool, eastWest) = "revoked") <=> m \in stopped
=============================================================================
