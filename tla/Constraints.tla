----------------------------- MODULE Constraints -----------------------------
(***************************************************************************)
(* Routing constraints: what a `restrict` resolves to (ppe-apl-core,       *)
(* constraint.rs), how the constraints of one request fold into one        *)
(* (ppe-apl-runtime, candidate_constraint.rs) and which backends the fold  *)
(* accepts (ppe-core, extensions/routing.rs).                              *)
(*                                                                         *)
(* An allow list is <<>> when the author wrote none and <<S>> otherwise.   *)
(* A model pattern is a sequence of characters, "*" being the wildcard.    *)
(***************************************************************************)
EXTENDS Attributes

-----------------------------------------------------------------------------
(* Resolution.  A list is <<"literal", S>> or <<"ref", key parts>>.        *)

ResolveSet(spec, bag) ==
    LET key == ResolveKey(bag, spec[2])
    IN IF spec[1] = "literal" THEN <<spec[2]>>
       ELSE IF key = <<>> THEN <<>>
       ELSE IF Is(bag, key[1], "string") THEN <<{bag[key[1]][2]}>>
       ELSE GetStringSet(bag, key[1])

RestrictIsEmpty(spec) ==
    /\ \A f \in {"allow_models", "deny_models", "allow_regions", "allow_sites", "max_cost_tier"} :
          spec[f] = <<>>
    /\ DOMAIN spec.custom = {}

(* An unresolved allow list admits nobody.  An unresolved deny list has no *)
(* such value: <<>>, and the request is denied.                            *)
ResolveRestrict(spec, bag) ==
    LET allow(list) == IF list = <<>> THEN <<>>
                       ELSE IF ResolveSet(list[1], bag) = <<>> THEN <<{}>>
                       ELSE ResolveSet(list[1], bag)
        deny == IF spec.deny_models = <<>> THEN <<{}>> ELSE ResolveSet(spec.deny_models[1], bag)
    IN IF deny = <<>> THEN <<>>
       ELSE <<[allow_models |-> allow(spec.allow_models), deny_models |-> deny[1],
               allow_regions |-> allow(spec.allow_regions), allow_sites |-> allow(spec.allow_sites),
               max_cost_tier |-> spec.max_cost_tier, custom |-> spec.custom,
               on_empty |-> spec.on_empty]>>

-----------------------------------------------------------------------------
(* Folding. *)

(* Mutant: the last list replaces the earlier ones. *)
LastList(acc, incoming) == IF incoming = <<>> THEN acc ELSE incoming

IntersectInto(acc, incoming) ==
    IF incoming = <<>> THEN acc ELSE IF acc = <<>> THEN incoming ELSE <<acc[1] \cap incoming[1]>>

Strictest(a, b) == IF a = "fallback" /\ b = "fallback" THEN "fallback" ELSE "deny"

Unrestricted ==
    [allow_models |-> <<>>, deny_models |-> {}, allow_regions |-> <<>>, allow_sites |-> <<>>,
     max_cost_tiers |-> {}, custom |-> [k \in {} |-> ""], on_empty |-> "fallback"]

IsEmptyConstraint(c) ==
    /\ c.allow_models = <<>> /\ c.allow_regions = <<>> /\ c.allow_sites = <<>>
    /\ c.deny_models = {} /\ c.max_cost_tiers = {} /\ DOMAIN c.custom = {}

(* Two different values for one custom label cannot both hold. *)
Conflicts(a, b) == \E k \in DOMAIN a \cap DOMAIN b : a[k] # b[k]

FoldOne(acc, c) ==
    [allow_models |-> IntersectInto(acc.allow_models, c.allow_models),
     allow_regions |-> IntersectInto(acc.allow_regions, c.allow_regions),
     allow_sites |-> IntersectInto(acc.allow_sites, c.allow_sites),
     deny_models |-> acc.deny_models \cup c.deny_models,
     max_cost_tiers |-> acc.max_cost_tiers \cup ToSet(c.max_cost_tier),
     custom |-> [k \in DOMAIN acc.custom \cup DOMAIN c.custom |->
                    IF k \in DOMAIN c.custom THEN c.custom[k] ELSE acc.custom[k]],
     on_empty |-> Strictest(acc.on_empty, c.on_empty)]

(* [conflict, folded]: folded is <<>> when nothing is restricted. *)
FoldCandidateConstraints(constraints) ==
    LET conflict == \E i, j \in DOMAIN constraints :
                        Conflicts(constraints[i].custom, constraints[j].custom)
        all == FoldLeft(LAMBDA acc, c : FoldOne(acc, c), Unrestricted, constraints)
    IN [conflict |-> conflict,
        folded |-> IF conflict \/ constraints = <<>> \/ IsEmptyConstraint(all) THEN <<>> ELSE <<all>>]

-----------------------------------------------------------------------------
(* Matching. *)

(* One scan with a single backtrack point: the last star passed, and the   *)
(* text position to resume from.  Positions count from 1, star 0 is none.  *)
RECURSIVE Scan(_, _, _, _, _, _)
Scan(p, t, pi, ti, star, resume) ==
    IF ti > Len(t) THEN \A i \in pi..Len(p) : p[i] = "*"
    ELSE IF pi <= Len(p) /\ p[pi] = t[ti] THEN Scan(p, t, pi + 1, ti + 1, star, resume)
    ELSE IF pi <= Len(p) /\ p[pi] = "*" THEN Scan(p, t, pi + 1, ti, pi, ti)
    ELSE star # 0 /\ Scan(p, t, star + 1, resume + 1, star, resume + 1)

GlobMatch(pattern, text) == Scan(pattern, text, 1, 1, 0, 1)

(* A backend is a function from label to value; a label the constraint     *)
(* asks about and the backend lacks excludes it.  The host ranks tiers.    *)
Accepts(c, backend, rank) ==
    LET listed(list, label) ==
            list # <<>> => label \in DOMAIN backend /\ backend[label] \in list[1]
        ranked(tier) == tier \in DOMAIN rank
    IN /\ c.allow_models # <<>> =>
             "model" \in DOMAIN backend /\ \E p \in c.allow_models[1] : GlobMatch(p, backend["model"])
       /\ "model" \in DOMAIN backend => ~\E p \in c.deny_models : GlobMatch(p, backend["model"])
       /\ listed(c.allow_regions, "region") /\ listed(c.allow_sites, "site")
       /\ c.max_cost_tiers # {} =>
             /\ "cost_tier" \in DOMAIN backend /\ ranked(backend["cost_tier"])
             /\ \A t \in c.max_cost_tiers : ranked(t) /\ rank[backend["cost_tier"]] <= rank[t]
       /\ \A k \in DOMAIN c.custom : k \in DOMAIN backend /\ backend[k] = c.custom[k]

=============================================================================
