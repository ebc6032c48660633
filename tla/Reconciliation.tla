---------------------------- MODULE Reconciliation ----------------------------
(***************************************************************************)
(* reconcile_device: what the adapters of the three capabilities find when *)
(* they compare a manifest and the catalog with opencode.json and with     *)
(* what the network answers.  No state: module Converge runs it.           *)
(*                                                                         *)
(* An entry of opencode.json is its URL; a plan is its action, the kind    *)
(* and the name of its target.                                             *)
(***************************************************************************)
EXTENDS Documents

CONSTANTS
  Unset,  \* opencode.json has no entry of that name
  Broken, \* it reads as empty but cannot be merged into: no JSON, null blocks
  Odd     \* it is JSON of another shape than opencode's

Configs == [entries : [Ids -> Urls \cup {NoUrl, Unset}], env_refs : SUBSET Envs]

ASSUME ContentSentinels == {Broken, Odd} \cap Configs = {} /\ Unset \notin Urls \cup {NoUrl}

\* An MCP server answers with an error, with no name, with the name of one, or
\* as the gateway that aggregates them.
McpAnswers == {"error", "unnamed", "aggregate"} \cup McpServers

\* What the network would answer, what cannot be reached, and the device's key.
Worlds == [down : SUBSET ({"dns", "gateway"} \cup Urls), dns : BOOLEAN, mcp : [Urls -> McpAnswers],
           gateway : {"ok", "error", "odd"}, live : SUBSET Models, key : BOOLEAN]

-----------------------------------------------------------------------------
(* OpencodeAdapter *)

EmptyConfig == [entries |-> [i \in Ids |-> Unset], env_refs |-> {}]

\* load_current_opencode_state: what cannot be parsed reads as empty.
Summary(content) == IF content \in Configs THEN content ELSE EmptyConfig

SameKind(i, k) == i \in Providers <=> k \in Providers

\* Mutant: names are compared as they are spelled.
MatchedAsSpelled(i, config, catalog) ==
  \/ config.entries[i] # Unset
  \/ \E k \in Providers : i \in Providers /\ config.entries[k] = catalog.url[i]

\* Matched by normalized id, a provider also by its URL; "" equals "".
Matched(i, config, catalog) ==
  \E k \in Ids :
    /\ SameKind(i, k)
    /\ config.entries[k] # Unset
    /\ \/ Norm[k] = Norm[i]
       \/ i \in Providers /\ config.entries[k] = catalog.url[i]

\* What the manifest asks for and the catalog lists, but for the providers
\* that are built in.
Desired(manifest, catalog) ==
  (((manifest.providers \ catalog.builtin) \cup manifest.mcp_servers) \cap catalog.listed)

\* The plans that apply can carry out.
Missing(manifest, catalog, config) ==
  {i \in Desired(manifest, catalog) : ~Matched(i, config, catalog)}

AsksFor(manifest) == {manifest.credentials[k].inject_as : k \in DOMAIN manifest.credentials}

\* generate_opencode_plan
OpencodePlans(manifest, catalog, config) ==
  LET kind(i) == IF i \in Providers THEN "provider" ELSE "mcp_server" IN
    {<<"add", kind(i), i>> : i \in Missing(manifest, catalog, config)}
    \cup {<<"add", "env", e>> : e \in AsksFor(manifest) \ config.env_refs}

\* What a probe returns; transport failures are None, here {}.
Probe(world, place, answer) == IF place \in world.down THEN {} ELSE {answer}

\* default_mcp_probe and _server_name_from_response.
McpProbe(world, url) == Probe(world, url, world.mcp[url])

WrongServer(k, answer) ==
  answer \in {"error", "aggregate"} \/ (answer \in McpServers /\ Norm[answer] # Norm[k])

\* Mutant: a probe that fails counts as a wrong answer.
McpUrlPlansOrFailed(config, world) ==
  {<<"repair", "mcp_server_url", k>> :
     k \in {s \in McpServers : /\ config.entries[s] \in Urls
                               /\ \/ \E answer \in McpProbe(world, config.entries[s]) :
                                       WrongServer(s, answer)
                                  \/ McpProbe(world, config.entries[s]) = {}}}

\* _probe_mcp_urls: every configured server, asked for or not.
McpUrlPlans(config, world) ==
  {<<"repair", "mcp_server_url", k>> :
     k \in {s \in McpServers : /\ config.entries[s] \in Urls
                               /\ \E answer \in McpProbe(world, config.entries[s]) :
                                    WrongServer(s, answer)}}

-----------------------------------------------------------------------------
(* NetworkAdapter and GatewayAccessAdapter *)

\* default_resolve_host of a name that can be encoded: any OSError, a resolver
\* that cannot be reached as well, is "does not resolve".
Resolves(world) == Probe(world, "dns", world.dns) = {TRUE}

\* A gateway that answers anything at all is reachable.
NetworkPlans(manifest, world) ==
  (IF Resolves(world) THEN {} ELSE {<<"repair", "dns", "fqdn">>})
  \cup
  (IF manifest.gateway_url /\ Probe(world, "gateway", world.gateway) = {}
   THEN {<<"repair", "gateway", "url">>} ELSE {})

\* The scope can be read: 200 with an object that lists objects under "data".
ScopeKnown(world) == Probe(world, "gateway", world.gateway) = {"ok"}

GatewayPlans(manifest, world) ==
  IF ~world.key THEN {<<"add", "gateway_key", "env">>}
  ELSE IF ScopeKnown(world)
       THEN {<<"grant", "model", x>> : x \in manifest.models \ world.live}
       ELSE {<<"unknown", "gateway", "scope">>}

-----------------------------------------------------------------------------
(* reconcile_device *)

\* The manifest is a mapping of mappings or empty, the capabilities pass their
\* schemas.
DocumentRaises(manifest) ==
  \/ manifest.form = "list"
  \/ manifest.device = "scalar"
  \/ manifest.shape = "bad_capabilities"
  \/ ~CapabilitiesAccepted(manifest)

\* OpencodeAdapter: the catalog is no mapping, or has an entry without id or a
\* block that is there and empty (None is not iterable); a credential is no
\* mapping; opencode.json has another shape.
OpencodeRaises(manifest, catalog, content) ==
  \/ catalog.form = "list"
  \/ catalog.form = "mapping" /\ (catalog.null_block \/ catalog.entries = "no_id")
  \/ manifest.shape = "bad_credentials"
  \/ content = Odd

\* default_resolve_host: gethostbyname raises UnicodeError, no OSError, for an
\* empty label (an empty device id, a zone that begins with a dot) or a label
\* of more than 63 characters, before it asks anybody.
NetworkRaises(manifest) == ~manifest.encodable

\* GatewayAccessAdapter: 200 with any other body, as text, a list, or null or
\* strings under "data".
GatewayRaises(world) == world.key /\ Probe(world, "gateway", world.gateway) = {"odd"}

\* One adapter that raises takes the plans of all with it.
ReconcileRaises(manifest, catalog, content, world) ==
  \/ DocumentRaises(manifest)
  \/ "opencode" \in manifest.declares /\ OpencodeRaises(manifest, catalog, content)
  \/ "network" \in manifest.declares /\ NetworkRaises(manifest)
  \/ "gateway_access" \in manifest.declares /\ GatewayRaises(world)

CapabilityPlans(name, manifest, catalog, content, world) ==
  CASE name = "opencode" -> OpencodePlans(manifest, catalog, Summary(content))
                            \cup McpUrlPlans(Summary(content), world)
    [] name = "network" -> NetworkPlans(manifest, world)
    [] name = "gateway_access" -> GatewayPlans(manifest, world)

AllPlans(manifest, catalog, content, world) ==
  UNION {CapabilityPlans(name, manifest, catalog, content, world) : name \in manifest.declares \cap Adapters}

\* apply carries out the add actions for entries; all others are advisory.
ToApply(plans) == {p[3] : p \in {q \in plans : q[1] = "add" /\ q[2] \in {"provider", "mcp_server"}}}

\* Mutant: the entry is written, what the file held before is not.
MergeOnly(config, i, catalog) ==
  [EmptyConfig EXCEPT !.entries[i] = catalog.url[i]]

\* OpencodeAdapter.apply: an entry named like the id, with the catalog's URL.
Merge(config, i, catalog) ==
  [config EXCEPT !.entries[i] =
     IF catalog.url[i] # NoUrl THEN catalog.url[i]
     ELSE IF @ = Unset THEN NoUrl ELSE @]
=============================================================================
