------------------------------ MODULE MCConverge ------------------------------
(* One device, its documents deviating from good ones in one respect at a    *)
(* time; documents, files and networks vary together where commands write.   *)
EXTENDS Converge, TLC

CONSTANTS halo, halo_, zen, github, u1, u2, e1, e2, m1, Shared

Spelling == [i \in Ids |-> IF i = halo_ THEN halo ELSE i]

FileContents == Configs \cup {Broken, Odd}

GoodManifest ==
  [form |-> "mapping", suffix |-> "yaml", device |-> "ok", profile |-> FALSE, shape |-> "ok",
   declares |-> Adapters, refused |-> {}, providers |-> {halo, zen}, mcp_servers |-> {github},
   encodable |-> TRUE, gateway_url |-> TRUE, models |-> {m1},
   credentials |-> <<[id |-> 1, inject_as |-> e1, op |-> TRUE]>>,
   managed_paths |-> "none", command |-> FALSE, secret |-> FALSE]

GoodCatalog ==
  [form |-> "mapping", place |-> "catalogs", null_block |-> FALSE, entries |-> "ok",
   listed |-> Ids, url |-> [i \in Ids |-> IF i = zen THEN NoUrl ELSE IF i = github THEN u2 ELSE u1],
   builtin |-> {zen}, paths |-> "inside", command |-> FALSE, secret |-> "none"]

Up == [down |-> {}, dns |-> TRUE, mcp |-> [u \in Urls |-> IF u = u2 THEN github ELSE "error"],
       gateway |-> "ok", live |-> {m1}, key |-> TRUE]

File(content) == [content |-> content, mode |-> Shared]
Has(entries) == File([entries |-> entries @@ EmptyConfig.entries, env_refs |-> {e1}])
Whole == Has(halo :> u1 @@ github :> u2)

Case(manifest, catalog, file, world) ==
  [manifest |-> manifest, catalog |-> catalog, file |-> file, world |-> world]

\* Manifests one key away from the good one.
DeviantManifests ==
  {[GoodManifest EXCEPT !.form = x] : x \in {"list", "empty"}}
  \cup {[GoodManifest EXCEPT !.suffix = "yml", !.refused = r] : r \in {{}, {"network"}}}
  \cup {[GoodManifest EXCEPT !.device = x] : x \in {"none", "bad", "scalar"}}
  \cup {[GoodManifest EXCEPT !.device = "none", !.refused = {"network"}],
        [GoodManifest EXCEPT !.profile = TRUE]}
  \cup {[GoodManifest EXCEPT !.shape = x] : x \in {"extra_key", "bad_credentials", "bad_capabilities"}}
  \cup {[GoodManifest EXCEPT !.declares = x] : x \in {{}, {"network"}, Adapters \cup {"skills"}}}
  \cup {[GoodManifest EXCEPT !.declares = Adapters \cup {"managed_paths"}, !.managed_paths = x] :
          x \in {"inside", "outside"}}
  \cup {[GoodManifest EXCEPT !.refused = {x}] : x \in Adapters}
  \cup {[GoodManifest EXCEPT !.credentials = x] :
          x \in {<<>>, <<[id |-> 1, inject_as |-> e2, op |-> TRUE]>>,
                 <<[id |-> 1, inject_as |-> e1, op |-> FALSE]>>,
                 <<[id |-> 1, inject_as |-> e1, op |-> TRUE], [id |-> 2, inject_as |-> e1, op |-> TRUE]>>}}
  \cup {[GoodManifest EXCEPT !.command = TRUE], [GoodManifest EXCEPT !.secret = TRUE]}
  \cup {[GoodManifest EXCEPT !.encodable = FALSE, !.declares = x] : x \in {Adapters, {"opencode"}}}

DeviantCatalogs ==
  {[GoodCatalog EXCEPT !.form = x] : x \in {"list", "empty"}}
  \cup {[GoodCatalog EXCEPT !.place = x, !.entries = y] : x \in {"elsewhere", "yml"}, y \in {"ok", "no_id"}}
  \cup {[GoodCatalog EXCEPT !.null_block = TRUE], [GoodCatalog EXCEPT !.paths = "outside"],
        [GoodCatalog EXCEPT !.listed = {halo}]}
  \cup {[GoodCatalog EXCEPT !.entries = x] : x \in {"extra_key", "no_id"}}
  \cup {[GoodCatalog EXCEPT !.command = TRUE]}
  \cup {[GoodCatalog EXCEPT !.secret = x, !.place = y] : x \in {"entry", "top"}, y \in {"catalogs", "elsewhere"}}

DeviantWorlds ==
  {[Up EXCEPT !.down = d] : d \in SUBSET {"dns", "gateway", u2}}
  \cup {[Up EXCEPT !.mcp[u2] = x] : x \in McpAnswers}
  \cup {[Up EXCEPT !.dns = FALSE], [Up EXCEPT !.key = FALSE], [Up EXCEPT !.live = {}],
        [Up EXCEPT !.live = {}, !.down = {"gateway"}]}
  \cup {[Up EXCEPT !.gateway = x, !.down = d] : x \in {"error", "odd"}, d \in {{}, {"gateway"}}}

\* A manifest that asks for one provider in two spellings.
TwoSpellings == [GoodManifest EXCEPT !.providers = {halo, halo_}, !.mcp_servers = {}]

\* Files that a user or an earlier apply may have left.
FirstFiles == {Absent, File(Broken), File(Odd), Has(halo_ :> u2),
               Has(halo :> NoUrl @@ github :> u1), Has(zen :> u1)}

DeviceCases ==
  {Case(m, GoodCatalog, Whole, Up) : m \in DeviantManifests}
  \cup {Case(GoodManifest, c, Whole, Up) : c \in DeviantCatalogs}
  \cup {Case(GoodManifest, GoodCatalog, Whole, w) : w \in DeviantWorlds}
  \cup {Case(m, GoodCatalog, f, Up) : m \in {GoodManifest, [GoodManifest EXCEPT !.providers = {halo_}]}, f \in FirstFiles}
  \cup {Case(TwoSpellings, GoodCatalog, f, Up) : f \in {Absent, File(EmptyConfig), Has(halo_ :> u2)}}
=============================================================================
