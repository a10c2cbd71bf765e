-------------------------------- MODULE Router --------------------------------
(***************************************************************************)
(* app/core/router.py: from the `model` field of a request to the ordered  *)
(* candidate list, under whatever configuration and registry are loaded;   *)
(* and the model list of app/api/routes.py, which is computed apart from   *)
(* it.  Entries and keys are reduced to the fields that routing looks at.  *)
(***************************************************************************)
EXTENDS Integers, SequencesExt

CONSTANTS
    Configs,     \* configurations: values of config._config
    Registries,  \* values of registry._registry
    ModelNames,  \* values of the request's `model` field
    NoLimit      \* Python's None

LimitKinds == {"rpm", "rpd", "tpm", "tpd"}

Limits == [LimitKinds -> Int \cup {NoLimit}]

\* What routing reads of KeyConfig, PolicyConfig and RegistryEntry
Key == [provider : STRING, label : STRING, enabled : BOOLEAN, override : Limits \cup {NoLimit}]

Policy == [prefer : Seq(STRING), avoid : SUBSET STRING, capabilities : SUBSET STRING,
           min_context : Int \cup {NoLimit}]

Entry == [provider : STRING, model : STRING, capabilities : SUBSET STRING,
          context_window : Int, limits : Limits]

\* What load_config and load_registry validate
ASSUME RouterAssumption ==
    /\ \A c \in Configs : /\ c.keys \in Seq(Key)
                          /\ \A name \in DOMAIN c.policies : c.policies[name] \in Policy
    /\ Registries \subseteq Seq(Entry)

VARIABLES cfg, registry

routerVars == <<cfg, registry>>

RouterInit == cfg \in Configs /\ registry \in Registries

\* load_config and load_registry, by the hot reloader or by /admin/reload
LoadConfig   == cfg' \in Configs \ {cfg} /\ UNCHANGED registry
LoadRegistry == registry' \in Registries \ {registry} /\ UNCHANGED cfg

RouterNext == LoadConfig \/ LoadRegistry

RouterSpec == RouterInit /\ [][RouterNext]_routerVars

-----------------------------------------------------------------------------
(* Keys *)

\* [x for x in s if x in X]
Kept(s, X) ==
    LET kept[n \in 0..Len(s)] ==
            IF n = 0 THEN <<>>
            ELSE IF s[n] \in X THEN Append(kept[n - 1], s[n]) ELSE kept[n - 1]
    IN  kept[Len(s)]

EnabledKeys == Kept(cfg.keys, {k \in ToSet(cfg.keys) : k.enabled})

\* key_by_provider
KeysOf(provider) == Kept(EnabledKeys, {k \in ToSet(EnabledKeys) : k.provider = provider})

\* The limits of an override alone.
Mut_OverrideOnly(e, k) == k.override

\* A limit of 0 in an override taken for none, as `or` would.
Mut_ZeroIsNone(e, k) ==
    [l \in LimitKinds |-> IF k.override # NoLimit /\ k.override[l] \notin {NoLimit, 0}
                          THEN k.override[l] ELSE e.limits[l]]

\* The limits of entry e for key k: the key's override, limit by limit
Effective(e, k) ==
    [l \in LimitKinds |-> IF k.override # NoLimit /\ k.override[l] # NoLimit
                          THEN k.override[l] ELSE e.limits[l]]

Route(e, k, limits) ==
    [provider |-> e.provider, model |-> e.model, key_label |-> k.label, limits |-> limits]

\* The limits of each entry for each key, with and without the override
Overridable == [e \in ToSet(registry) |-> [k \in ToSet(EnabledKeys) |-> Effective(e, k)]]
Registered  == [e \in ToSet(registry) |-> [k \in ToSet(EnabledKeys) |-> e.limits]]

\* The nested loops over the entries and the keys of their providers
Routes(entries, limits) ==
    FlattenSeq([i \in 1..Len(entries) |->
        LET ks == KeysOf(entries[i].provider)
        IN  [j \in 1..Len(ks) |-> Route(entries[i], ks[j], limits[entries[i]][ks[j]])]])

-----------------------------------------------------------------------------
(* resolve_candidates *)

NoPolicy == [prefer |-> <<>>, avoid |-> {}, capabilities |-> {}, min_context |-> NoLimit]

PolicyOf(name) ==
    IF name \in DOMAIN cfg.policies THEN cfg.policies[name]
    ELSE IF "auto" \in DOMAIN cfg.policies THEN cfg.policies["auto"]
    ELSE NoPolicy

\* _filter_by_capability, _filter_by_context and the avoid list
Admits(policy, e) ==
    /\ policy.capabilities \subseteq e.capabilities
    /\ policy.min_context # NoLimit => e.context_window >= policy.min_context
    /\ e.provider \notin policy.avoid

\* prefer_order: the last mention of a provider counts.
PreferRank(policy, e) ==
    LET mentions == {i \in DOMAIN policy.prefer : policy.prefer[i] = e.provider}
    IN  IF mentions = {} THEN Len(policy.prefer) + 1 ELSE Max(mentions)

\* Preferred entries first, without regard to the order of the preferences.
Mut_PreferredFirst(policy, entries) ==
    LET preferred == {e \in ToSet(entries) : PreferRank(policy, e) <= Len(policy.prefer)}
    IN  Kept(entries, preferred) \o Kept(entries, ToSet(entries) \ preferred)

\* sorted(entries, key=sort_key) is stable: the entries of one rank stay in order.
ByPreference(policy, entries) ==
    FlattenSeq([rank \in 1..(Len(policy.prefer) + 1) |->
        Kept(entries, {e \in ToSet(entries) : PreferRank(policy, e) = rank})])

ResolveCandidates(name) ==
    LET policy   == PolicyOf(name)
        admitted == Kept(registry, {e \in ToSet(registry) : Admits(policy, e)})
    IN  Routes(ByPreference(policy, admitted), Overridable)

-----------------------------------------------------------------------------
(* resolve_for_physical_model, _get_candidates, list_models *)

ResolvePhysical(name) ==
    Routes(Kept(registry, {e \in ToSet(registry) : e.model = name}), Registered)

GetCandidates(name) ==
    IF name \in DOMAIN cfg.policies \/ name = "auto"
    THEN ResolveCandidates(name) ELSE ResolvePhysical(name)

\* Providers with any key, enabled or not.
Mut_AnyKey ==
    {e.model : e \in {x \in ToSet(registry) : \E k \in ToSet(cfg.keys) : k.provider = x.provider}}

\* The ids of GET /v1/models that are no policies
PhysicalModels ==
    {e.model : e \in {x \in ToSet(registry) : \E k \in ToSet(EnabledKeys) : k.provider = x.provider}}

-----------------------------------------------------------------------------
(* Properties *)

RouterTypeOK == \A name \in ModelNames : \A c \in ToSet(GetCandidates(name)) : c.limits \in Limits

\* The reference: all pairs of an admitted entry and an enabled key of its
\* provider, by the rank of the provider, then the place of the entry in the
\* registry, then that of the key in the configuration.
Pairs(policy) ==
    {p \in (DOMAIN registry) \X (DOMAIN cfg.keys) :
        /\ Admits(policy, registry[p[1]])
        /\ cfg.keys[p[2]].enabled
        /\ cfg.keys[p[2]].provider = registry[p[1]].provider}

Before(policy, p, q) ==
    LET rank(x) == PreferRank(policy, registry[x[1]]) IN
    \/ rank(p) < rank(q)
    \/ /\ rank(p) = rank(q)
       /\ (p[1] < q[1] \/ (p[1] = q[1] /\ p[2] < q[2]))

\* A logical model is routed to every eligible pair exactly once, in the order of
\* the reference: filtering, the stable sort and the grouping of the keys by
\* provider neither lose nor repeat nor reorder a candidate.  (A pair's place is one
\* more than the number of pairs before it.)
RankedAndComplete == \A name \in (DOMAIN cfg.policies) \cup {"auto"} :
    LET policy   == PolicyOf(name)
        pairs    == Pairs(policy)
        place(p) == 1 + Cardinality({q \in pairs : Before(policy, q, p)})
    IN  /\ Len(GetCandidates(name)) = Cardinality(pairs)
        /\ \A p \in pairs :
              LET e == registry[p[1]]
                  k == cfg.keys[p[2]]
              IN  GetCandidates(name)[place(p)] = Route(e, k, Effective(e, k))

\* "Limits sourced from registry, overridable per-key in config"
\* (TECH_DESIGN.md:116): a request by a logical name is never routed with a limit
\* other than the one that an enabled key's override sets, a limit of 0 included.
OverridesApply == \A name \in (DOMAIN cfg.policies) \cup {"auto"} :
    \A c \in ToSet(GetCandidates(name)) : \E k \in ToSet(EnabledKeys) :
        /\ k.provider = c.provider
        /\ k.label = c.key_label
        /\ k.override # NoLimit =>
             \A l \in LimitKinds : k.override[l] # NoLimit => c.limits[l] = k.override[l]

\* GET /v1/models and the routing agree although they are computed apart: a
\* physical model is listed if and only if a request for it finds a candidate.
ListedIffServed == \A name \in ModelNames \ (DOMAIN cfg.policies \cup {"auto"}) :
    name \in PhysicalModels <=> GetCandidates(name) # <<>>
=============================================================================
