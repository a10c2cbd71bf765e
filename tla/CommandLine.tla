------------------------------ MODULE CommandLine ------------------------------
(***************************************************************************)
(* What an operator is told of the routing: the commands doctor and models *)
(* of app/cli.py, and GET /admin/quota of app/api/admin.py.  Each goes     *)
(* through keys and registry in its own way.  (The command route prints    *)
(* ResolveCandidates of Router; the command health is an operator of       *)
(* HealthProbe.)                                                           *)
(***************************************************************************)
EXTENDS Router

\* No candidate of the kind looked for
Nothing == <<>>

EntriesOf(provider) == Kept(registry, {e \in ToSet(registry) : e.provider = provider})

-----------------------------------------------------------------------------
(* doctor *)

\* _get_first_model_for_provider: the candidates that its name resolves to, of any
\* provider that offers a model of that name
FirstModelCandidates(provider) ==
    IF EntriesOf(provider) = <<>> THEN Nothing
    ELSE ResolvePhysical(EntriesOf(provider)[1].model)

\* The first candidate, whatever its key.
Mut_FirstCandidate(k) ==
    LET found == FirstModelCandidates(k.provider)
    IN  IF found = <<>> THEN Nothing ELSE Head(found)

\* The candidate that enabled key k is tested with: the first of its label
Tested(k) ==
    LET all   == FirstModelCandidates(k.provider)
        found == Kept(all, {c \in ToSet(all) : c.key_label = k.label})
    IN  IF found = <<>> THEN Nothing ELSE Head(found)

KeyId(provider, label) == <<provider, label>>

\* "NO MODEL IN REGISTRY" and "DISABLED" are no failures.  working: the keys that
\* their providers accept
Fails(k, working) ==
    /\ k.enabled
    /\ Tested(k) # Nothing
    /\ KeyId(Tested(k).provider, Tested(k).key_label) \notin working

DoctorExit(working) ==
    IF cfg.keys = <<>> \/ \E k \in ToSet(cfg.keys) : Fails(k, working) THEN 1 ELSE 0

-----------------------------------------------------------------------------
(* models, /admin/quota *)

\* The physical models listed by the command models
ModelsListed ==
    LET served == {k.provider : k \in ToSet(EnabledKeys)}
    IN  Kept(registry, {e \in ToSet(registry) : e.provider \in served})

\* The rows of all keys, disabled ones included.
Mut_QuotaOfAll ==
    UNION { {Route(e, k, e.limits) : e \in ToSet(EntriesOf(k.provider))} : k \in ToSet(cfg.keys) }

\* The rows of /admin/quota: what check_quota is asked for
QuotaRows ==
    UNION { {Route(e, k, e.limits) : e \in ToSet(EntriesOf(k.provider))} : k \in ToSet(EnabledKeys) }

-----------------------------------------------------------------------------
(* Properties *)

\* No two providers that offer models of one name have enabled keys of one label.
Unambiguous == \A k, l \in ToSet(EnabledKeys) :
    /\ k.label = l.label
    /\ \E a \in ToSet(EntriesOf(k.provider)), b \in ToSet(EntriesOf(l.provider)) : a.model = b.model
    => k.provider = l.provider

\* "Verify configured keys against providers" (cli.py:25): doctor fails exactly when
\* there are no keys, or an enabled one whose provider has a model does not work,
\* although it looks a key's candidate up by the name of a model, which other
\* providers may share, and then by the label alone.  Only where both are shared may
\* another provider's key be tested instead.
DoctorFindsBadKeys == Unambiguous =>
    \A working \in SUBSET {KeyId(k.provider, k.label) : k \in ToSet(cfg.keys)} :
        DoctorExit(working) = 1 <=>
            \/ cfg.keys = <<>>
            \/ \E k \in ToSet(EnabledKeys) :
                  EntriesOf(k.provider) # <<>> /\ KeyId(k.provider, k.label) \notin working

\* What an operator sees is what is served.  Every candidate that a request can be
\* routed to, by whatever name, is a row of /admin/quota; where a limit that it is
\* routed with is not the limit shown, the name is logical and the limit is the one
\* that the key's override sets.  The other way round, every row is a candidate of a
\* request for its model, limits included, unless a policy has the model's name.  And
\* the command models lists the models of the rows.
ShownIsServed ==
    LET logical == DOMAIN cfg.policies \cup {"auto"} IN
    /\ \A name \in ModelNames \cup logical : \A c \in ToSet(GetCandidates(name)) :
          \E row \in QuotaRows, k \in ToSet(EnabledKeys) :
             /\ row.provider = c.provider /\ row.key_label = c.key_label /\ row.model = c.model
             /\ k.provider = c.provider /\ k.label = c.key_label
             /\ \A l \in LimitKinds : c.limits[l] # row.limits[l] =>
                   name \in logical /\ k.override # NoLimit /\ c.limits[l] = k.override[l]
    /\ \A row \in QuotaRows : row.model \notin logical => row \in ToSet(GetCandidates(row.model))
    /\ {e.model : e \in ToSet(ModelsListed)} = {row.model : row \in QuotaRows}
=============================================================================
