------------------------------ MODULE Documents ------------------------------
(***************************************************************************)
(* A device manifest and the catalog, as far as validate and the adapters  *)
(* tell documents apart, and what `holdfastctl validate` says of them.     *)
(* A document is what yaml.safe_load makes of it.                          *)
(***************************************************************************)
EXTENDS Naturals, Sequences

CONSTANTS
  Ids,       \* names of providers and of MCP servers, in all spellings
  Providers, \* those of providers; the others name MCP servers
  Norm,      \* normalize_id: spellings with hyphens and underscores agree
  Urls,
  NoUrl,     \* "": the entry has no URL
  Envs,      \* strings given as names of environment variables
  EnvNames,  \* those that are such names
  Models

McpServers == Ids \ Providers

ASSUME KindsAndNames == Providers \subseteq Ids /\ DOMAIN Norm = Ids /\ EnvNames \subseteq Envs
ASSUME NoUrlIsNoUrl == NoUrl \notin Urls

Adapters     == {"opencode", "network", "gateway_access"}
Capabilities == Adapters \cup {"managed_paths", "skills"}

Credentials == [id : Nat, inject_as : Envs, op : BOOLEAN]

Manifests ==
  [form : {"mapping", "list", "empty"}, suffix : {"yaml", "yml"},
   device : {"none", "ok", "bad", "scalar"}, \* the block DeviceInfo
   profile : BOOLEAN,                   \* there is a block "profile"
   shape : {"ok", "extra_key", "bad_credentials", "bad_capabilities"},
   declares : SUBSET Capabilities, refused : SUBSET Capabilities, \* by their schema
   providers : SUBSET Providers, mcp_servers : SUBSET McpServers,
   encodable : BOOLEAN,                 \* no label of its host name is empty or over-long
   gateway_url : BOOLEAN, models : SUBSET Models,
   credentials : Seq(Credentials), managed_paths : {"none", "inside", "outside"},
   command : BOOLEAN, secret : BOOLEAN] \* the scans for them find one

Catalogs ==
  [form : {"mapping", "list", "empty"}, place : {"catalogs", "elsewhere", "yml"},
   null_block : BOOLEAN,                \* a block is there, with nothing in it
   entries : {"ok", "extra_key", "no_id"},
   listed : SUBSET Ids, url : [Ids -> Urls \cup {NoUrl}], builtin : SUBSET Providers,
   paths : {"inside", "outside"},       \* seen from where validate is run
   command : BOOLEAN,
   secret : {"none", "entry", "top"}]   \* in an entry, or directly under a key of the file

-----------------------------------------------------------------------------
\* validate_capabilities.  managed_paths has no schema, skills no adapter.
CapabilitiesAccepted(m) ==
  /\ m.declares \subseteq Adapters \cup {"managed_paths"}
  /\ (m.declares \ {"managed_paths"}) \cap m.refused = {}

\* validate_duplicate_ids
NoDuplicates(credentials) ==
  \A j, k \in DOMAIN credentials : j # k =>
    /\ credentials[j].id # credentials[k].id
    /\ credentials[j].inject_as # credentials[k].inject_as

\* Mutant: pydantic's default, which ignores or coerces what it does not know.
StructureLoose(m) == m.device = "ok" /\ ~m.profile

\* DeviceManifest.  A manifest with "profile" is taken for a ProfileManifest,
\* which has no "device" and accepts no other keys.
StructureAccepted(m) == m.device = "ok" /\ ~m.profile /\ m.shape = "ok"

\* What is asked of a manifest with a device block only.
DeviceAccepted(m) ==
  /\ ~m.command
  /\ StructureAccepted(m)
  /\ CapabilitiesAccepted(m)
  /\ NoDuplicates(m.credentials)
  /\ \A k \in DOMAIN m.credentials : m.credentials[k].inject_as \in EnvNames /\ m.credentials[k].op
  /\ "managed_paths" \in m.declares => m.managed_paths # "outside"

\* validate_manifest_file finds no error, and nothing it does not catch.
ManifestAccepted(m) ==
  /\ m.form # "empty"
  /\ m.form = "mapping" /\ m.device # "none" => DeviceAccepted(m)
  /\ ~m.secret

\* validate_catalog_file.  Secrets are looked for in the entries only, commands
\* everywhere: a command key is allowed here, exec, run and shell are not.
CatalogAccepted(c) ==
  /\ c.form = "mapping"
  /\ c.entries = "ok"
  /\ c.paths = "inside"
  /\ ~c.command
  /\ c.secret # "entry"

\* validate on a directory: only *.yaml is collected, and a file is a catalog
\* by the name of its directory; elsewhere a catalog is a manifest without a
\* device.
Validated(m, c) ==
  /\ m.suffix = "yaml" => ManifestAccepted(m)
  /\ c.place = "catalogs" => CatalogAccepted(c)
  /\ c.place = "elsewhere" => c.form # "empty" /\ c.secret = "none"

\* Both documents were held against their schema.
Examined(m, c) ==
  m.suffix = "yaml" /\ m.form = "mapping" /\ m.device # "none" /\ c.place = "catalogs"
=============================================================================
