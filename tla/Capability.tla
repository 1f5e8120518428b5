----------------------------- MODULE Capability -----------------------------
(***************************************************************************)
(* How capabilities come to exist: the registry with its administrator     *)
(* policy (capability/registry.rs, capability/policy.rs), the loading of   *)
(* an MCP server's manifest and tools (adapters/mcp/manifest.rs), and the  *)
(* start-up that runs the two (runtime/bootstrap.rs).                      *)
(*                                                                         *)
(* An identifier is the sequence of its slash-separated segments, because  *)
(* the loader builds "mcp/<server>/<capability>" by concatenation and both *)
(* parts may contain slashes. Texts, sizes and schemas are reduced to      *)
(* whether they pass the check the code makes of them.                     *)
(***************************************************************************)
EXTENDS Naturals, Sequences, FiniteSets, SequencesExt

CONSTANTS
  LocalMetas,        \* what build_local_registry registers, in order
  Servers,           \* the enabled servers of the configuration, in order
  McpEnabled,
  Policy,            \* [allowed, denied]: allowed = {} admits every capability
  Manifests,         \* the manifests a server may publish
  Pages,             \* the tools/list pages a server may answer
  MaxToolPages, MaxTools, MaxCapabilities, MaxRegistered

ASSUME CapabilityAssumption ==
  /\ McpEnabled \in BOOLEAN
  /\ {MaxToolPages, MaxTools, MaxCapabilities, MaxRegistered} \subseteq Nat \ {0}

Kinds   == {"Probe", "Mutation", "Measurement", "Comparison"}
Effects == {"PureComputation", "ReadOnly", "ManagedObservation", "ReversibleMutation",
            "IrreversibleMutation"}

TrustedGuardrail == <<"builtin", "measurement.core-system.v1">>

VARIABLES
  stage,       \* "local", "connect", "tools", "register" or "ready"
  locals,      \* local metadata still to register
  servers,     \* servers still to load, the current one first
  registry,    \* the registered metadata by identifier
  generation,
  failures,    \* what went wrong, as <<component, identifier>>
  manifest,    \* the manifest the current server published
  tools,       \* the tools discovered so far, name |-> schemas compile
  pages, seen, \* pages read, cursors seen
  queue,       \* capabilities loaded from the current server and not yet registered
  skipped,     \* identifiers left out with a notice
  declared     \* history: <<identifier, server>> of every manifest that was accepted

capVars == <<stage, locals, servers, registry, generation, failures, manifest, tools,
             pages, seen, queue, skipped, declared>>

----------------------------------------------------------------------------
(* The registry.                                                           *)

RequiredEffect(kind) ==
  CASE kind \in {"Probe", "Measurement"} -> "ReadOnly"
    [] kind = "Comparison"               -> "PureComputation"
    [] kind = "Mutation"                 -> "ReversibleMutation"

ValidPhases(kind) ==
  IF kind \in {"Probe", "Mutation"} THEN {"Clean", "Experimenting"} ELSE {"CommitPending"}

ProviderClasses == {"Builtin", "Local"} \union (IF McpEnabled THEN {"Mcp"} ELSE {})

AllowedEffects == {"PureComputation", "ReadOnly", "ReversibleMutation"}

PolicyAdmits(meta, count) ==
  /\ count < MaxRegistered
  /\ meta.class \in ProviderClasses
  /\ Policy.allowed = {} \/ meta.id \in Policy.allowed
  /\ meta.id \notin Policy.denied
  /\ meta.effect \in AllowedEffects

\* The checks of validate_registration that concern the metadata alone.
WellFormed(meta) ==
  /\ meta.effect = RequiredEffect(meta.kind)
  /\ meta.role = "RuntimeSystemGuardrail" => meta.kind = "Measurement" /\ meta.class = "Builtin"
  /\ meta.described
  /\ meta.phases # {} /\ meta.phases \subseteq ValidPhases(meta.kind)
  /\ meta.kind = "Mutation" => meta.idempotent
  /\ meta.kind = "Comparison" => meta.deterministic
  /\ meta.schemas
  /\ meta.limits

\* Variant: a second registration replaces the first.
RegistersAnew(meta) == WellFormed(meta) /\ PolicyAdmits(meta, Cardinality(DOMAIN registry))

Registers(meta) ==
  /\ meta.id \notin DOMAIN registry
  /\ WellFormed(meta)
  /\ PolicyAdmits(meta, Cardinality(DOMAIN registry))

\* register_* of one capability; a refusal becomes a bootstrap failure.
Register(meta, component) ==
  IF Registers(meta)
    THEN /\ registry' = [i \in DOMAIN registry \union {meta.id} |->
                           IF i = meta.id THEN meta ELSE registry[i]]
         /\ generation' = generation + 1
         /\ UNCHANGED failures
    ELSE /\ failures' = failures \union {<<component, meta.id>>}
         /\ UNCHANGED <<registry, generation>>

\* The driver of a local mutation may fail to bind to its target.
RegisterLocal ==
  /\ stage = "local" /\ locals # <<>>
  /\ locals' = Tail(locals)
  /\ \/ Register(Head(locals), "local")
     \/ /\ Head(locals).class = "Local"
        /\ failures' = failures \union {<<"local", Head(locals).id>>}
        /\ UNCHANGED <<registry, generation>>
  /\ UNCHANGED <<stage, servers, manifest, tools, pages, seen, queue, skipped, declared>>

----------------------------------------------------------------------------
(* Loading one server.                                                     *)

Operations(kind) ==
  CASE kind = "Probe"       -> {"probe"}
    [] kind = "Measurement" -> {"validate", "open", "sample", "close"}
    [] kind = "Comparison"  -> {"validate", "compare"}
    [] kind = "Mutation"    -> {"prepare", "apply", "status", "verify", "restore", "finalize"}

NormalizedId(config, id) == <<"mcp">> \o config.id \o id

\* Variant: the declaration that makes a kind safe is not looked at.
DeclaresSafelyByEffect(raw) == raw.effect = RequiredEffect(raw.kind)

\* validate_security_contract
DeclaresSafely(raw) ==
  /\ raw.effect = RequiredEffect(raw.kind)
  /\ raw.kind = "Comparison" => raw.deterministic
  /\ raw.kind = "Mutation" => raw.idempotent

\* validate_capability; raw.phases is a sequence and may repeat a phase.
ValidCapability(raw) ==
  /\ raw.described
  /\ DeclaresSafely(raw)
  /\ Range(raw.phases) = ValidPhases(raw.kind) /\ IsInjective(raw.phases)
  /\ raw.limits
  /\ DOMAIN raw.operations = Operations(raw.kind)
  /\ raw.schemas

\* build_capability: every declared operation names a discovered tool whose
\* schemas compile.
Resolves(raw, found) ==
  \A op \in DOMAIN raw.operations :
    raw.operations[op] \in DOMAIN found /\ found[raw.operations[op]]

MetaOf(config, raw) ==
  [id |-> NormalizedId(config, raw.id), kind |-> raw.kind, effect |-> raw.effect,
   class |-> "Mcp", provider |-> config.id, role |-> "AgentSelectable",
   described |-> TRUE, phases |-> Range(raw.phases), idempotent |-> raw.idempotent,
   deterministic |-> raw.deterministic, schemas |-> TRUE, limits |-> TRUE]

\* The parts of build_server that refuse a whole server.
AcceptsManifest(config, m, found) ==
  /\ m.version = 1 /\ Len(m.capabilities) <= MaxCapabilities
  /\ IsInjective([i \in DOMAIN m.capabilities |-> m.capabilities[i].id])
  /\ config.allowed \subseteq {m.capabilities[i].id : i \in DOMAIN m.capabilities}
  /\ \A i \in DOMAIN m.capabilities :
       ValidCapability(m.capabilities[i]) /\ Resolves(m.capabilities[i], found)

\* Variant: an opt-in is needed only where there is no allowlist.
SelectsListed(config, raw) ==
  IF config.allowed = {} THEN raw.kind # "Mutation" \/ config.mutations
  ELSE raw.id \in config.allowed

\* The filters of build_server: allowlist first, then the mutation opt-in.
Selects(config, raw) ==
  /\ config.allowed = {} \/ raw.id \in config.allowed
  /\ raw.kind = "Mutation" => config.mutations

Current == Head(servers)

LeaveServer ==
  /\ servers' = Tail(servers)
  /\ stage' = IF Len(servers) = 1 THEN "ready" ELSE "connect"

\* load_server fails: the server is reported, the next one is loaded.
FailServer ==
  /\ failures' = failures \union {<<"server", Current.id>>}
  /\ LeaveServer

LoadServers ==
  /\ stage = "local" /\ locals = <<>>
  /\ stage' = IF McpEnabled /\ servers # <<>> THEN "connect" ELSE "ready"
  /\ UNCHANGED <<locals, servers, registry, generation, failures, manifest, tools, pages,
                 seen, queue, skipped, declared>>

Connect ==
  /\ stage = "connect"
  /\ \/ FailServer /\ UNCHANGED <<manifest, tools, pages, seen>>
     \/ \E m \in Manifests :
          /\ manifest' = m
          /\ tools' = <<>> /\ pages' = 0 /\ seen' = {}
          /\ stage' = "tools"
          /\ UNCHANGED <<failures, servers>>
  /\ UNCHANGED <<locals, registry, generation, queue, skipped, declared>>

\* What discover_tools refuses in a page.
PageFaulty(page) ==
  \/ \E i \in DOMAIN page.tools : page.tools[i].fault
  \/ ~IsInjective([i \in DOMAIN page.tools |-> page.tools[i].name])
  \/ \E i \in DOMAIN page.tools : page.tools[i].name \in DOMAIN tools
  \/ Cardinality(DOMAIN tools) + Len(page.tools) > MaxTools
  \/ page.next = "bad"

Extended(page) ==
  LET names == {page.tools[i].name : i \in DOMAIN page.tools}
  IN [n \in DOMAIN tools \union names |->
        IF n \in DOMAIN tools THEN tools[n]
        ELSE page.tools[CHOOSE i \in DOMAIN page.tools : page.tools[i].name = n].compiles]

\* build_server: the capabilities that are loaded and the ones left out.
Build(found) ==
  IF ~AcceptsManifest(Current, manifest, found) THEN FailServer /\ UNCHANGED <<queue, skipped, declared>>
  ELSE LET all   == manifest.capabilities
           taken == SelectSeq(all, LAMBDA raw : Selects(Current, raw))
           ids   == {NormalizedId(Current, all[i].id) : i \in DOMAIN all}
       IN /\ queue' = [i \in DOMAIN taken |-> MetaOf(Current, taken[i])]
          /\ skipped' = skipped \union (ids \ {queue'[i].id : i \in DOMAIN queue'})
          /\ declared' = declared \union {<<i, Current.id>> : i \in ids}
          /\ stage' = "register"
          /\ UNCHANGED <<servers, failures>>

\* Variant: only the last cursor is remembered, and pages are not counted.
ReadPageAgain ==
  /\ stage = "tools"
  /\ \/ FailServer /\ UNCHANGED <<tools, pages, seen, queue, skipped, declared>>
     \/ \E page \in Pages :
          IF PageFaulty(page) \/ page.next \in seen
            THEN FailServer /\ UNCHANGED <<tools, pages, seen, queue, skipped, declared>>
          ELSE /\ tools' = Extended(page)
               /\ seen' = {page.next} \ {"none"}
               /\ UNCHANGED pages
               /\ IF page.next = "none" THEN Build(tools')
                  ELSE UNCHANGED <<stage, servers, failures, queue, skipped, declared>>
  /\ UNCHANGED <<locals, registry, generation, manifest>>

\* One round of discover_tools; the last page is followed by build_server. A
\* request that fails, a faulty page, a repeated cursor and one page too many
\* all end the loading of this server.
ReadPage ==
  /\ stage = "tools"
  /\ \/ FailServer /\ UNCHANGED <<tools, pages, seen, queue, skipped, declared>>
     \/ \E page \in Pages :
          IF \/ PageFaulty(page)
             \/ page.next \in seen
             \/ page.next # "none" /\ pages + 1 = MaxToolPages
            THEN FailServer /\ UNCHANGED <<tools, pages, seen, queue, skipped, declared>>
          ELSE /\ tools' = Extended(page)
               /\ pages' = pages + 1
               /\ seen' = seen \union ({page.next} \ {"none"})
               /\ IF page.next = "none" THEN Build(tools')
                  ELSE UNCHANGED <<stage, servers, failures, queue, skipped, declared>>
  /\ UNCHANGED <<locals, registry, generation, manifest>>

\* Variant: the first capability that is refused ends the loop.
RegisterUntilRefused ==
  /\ stage = "register"
  /\ \/ /\ queue = <<>>
        /\ LeaveServer
        /\ UNCHANGED <<queue, registry, generation, failures>>
     \/ /\ queue # <<>>
        /\ queue' = IF Registers(Head(queue)) THEN Tail(queue) ELSE <<>>
        /\ Register(Head(queue), "capability")
        /\ UNCHANGED <<servers, stage>>
  /\ UNCHANGED <<locals, manifest, tools, pages, seen, skipped, declared>>

\* extend_registry_with_mcp: a capability that is refused does not stop the rest.
RegisterLoaded ==
  /\ stage = "register"
  /\ \/ /\ queue = <<>>
        /\ LeaveServer
        /\ UNCHANGED <<queue, registry, generation, failures>>
     \/ /\ queue # <<>>
        /\ queue' = Tail(queue)
        /\ Register(Head(queue), "capability")
        /\ UNCHANGED <<servers, stage>>
  /\ UNCHANGED <<locals, manifest, tools, pages, seen, skipped, declared>>

----------------------------------------------------------------------------
CapInit ==
  /\ stage = "local" /\ locals = LocalMetas /\ servers = Servers
  /\ registry = <<>> /\ generation = 0 /\ failures = {}
  /\ manifest = [version |-> 0, capabilities |-> <<>>]
  /\ tools = <<>> /\ pages = 0 /\ seen = {}
  /\ queue = <<>> /\ skipped = {} /\ declared = {}

CapNext == RegisterLocal \/ LoadServers \/ Connect \/ ReadPage \/ RegisterLoaded

CapSpec == CapInit /\ [][CapNext]_capVars

----------------------------------------------------------------------------
\* A loaded server loses nothing silently: each capability of its manifest is
\* registered as its own, left out with a notice, or reported as a failure,
\* even where two servers or a local mutation make the same identifier.
EveryCapabilityAccountedFor ==
  \A d \in declared :
    \/ d[1] \in DOMAIN registry /\ registry[d[1]].provider = d[2]
    \/ d[1] \in skipped
    \/ <<"capability", d[1]>> \in failures
    \/ \E i \in DOMAIN queue : queue[i].id = d[1]

\* The loader and the registry check the same declarations independently: what
\* the loader lets through is refused by the registry only because the
\* identifier is taken or the administrator's policy says no.
LoadedIsWellFormed ==
  \A i \in DOMAIN queue : WellFormed(queue[i])

\* The identifier of the trusted guardrail measurement never names anything but
\* the builtin provider, whatever servers and local mutations are configured.
GuardrailIsBuiltin ==
  TrustedGuardrail \in DOMAIN registry =>
    LET meta == registry[TrustedGuardrail]
    IN meta.class = "Builtin" /\ meta.kind = "Measurement" /\ meta.role = "RuntimeSystemGuardrail"

\* A server gets a mutation registered only with its opt-in, and only what its
\* allowlist and the administrator's lists admit.
ServerStaysInItsBounds ==
  \A i \in DOMAIN registry : registry[i].class = "Mcp" =>
    \E k \in DOMAIN Servers :
      /\ Servers[k].id = registry[i].provider
      /\ registry[i].kind = "Mutation" => Servers[k].mutations
      /\ Servers[k].allowed # {} =>
           \E raw \in Servers[k].allowed : i = NormalizedId(Servers[k], raw)
      /\ i \notin Policy.denied /\ (Policy.allowed = {} \/ i \in Policy.allowed)

\* The registry after any start-up: nothing is lost silently or taken over, what a
\* server may not register is not there, and the guardrail is the builtin one
\* (register, load_server, PolicyEngine).
RegistryIsSound ==
  /\ EveryCapabilityAccountedFor /\ LoadedIsWellFormed
  /\ GuardrailIsBuiltin /\ ServerStaysInItsBounds

\* Start-up ends whatever a server answers: pages that go on for ever, point back
\* or fail end the loading of that server only.
StartupEnds == <>(stage = "ready")
=============================================================================
