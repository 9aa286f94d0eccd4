------------------------------- MODULE Access -------------------------------
(***************************************************************************)
(* Who may do what: the policy decision point (apps/policy/pdp.py, with    *)
(* its rules from parser.py and store.py), the scopes of command line      *)
(* tools (pep.py), the RBAC map in front of the ops API (rbac_enforce.py;  *)
(* its reloading is RbacReload) and the tenant a request is for.           *)
(***************************************************************************)
EXTENDS Integers, FiniteSets, Sequences

\* A parsed rule. What 'when' and 'unless' come to depends on the request: they
\* hold, do not hold, or cannot be evaluated. "absent" is a rule without 'unless'.
Conditions == {"holds", "fails", "raises"}
PolicyRule == [effect : {"allow", "deny"}, action : STRING, priority : Int,
               when : Conditions, unless : Conditions \cup {"absent"}]

\* _candidate_policies: bundle by bundle, rule by rule, those for the action.
Candidates(bundles, action) ==
  {c \in UNION {{b} \X DOMAIN bundles[b] : b \in DOMAIN bundles} :
     bundles[c[1]][c[2]].action \in {action, "*"}}

\* Variant of SortKey: by priority and place only.
SortKeyByPlace(bundles, c) == <<-bundles[c[1]][c[2]].priority, 0, c[2], c[1]>>

\* The key the candidates are sorted by: priority, denials first, place in the
\* bundle. The sort is stable: of two bundles the one applied first.
SortKey(bundles, c) ==
  LET rule == bundles[c[1]][c[2]]
  IN  <<-rule.priority, IF rule.effect = "deny" THEN 0 ELSE 1, c[2], c[1]>>

Before(bundles, c, d) ==
  LET k == SortKey(bundles, c)
      l == SortKey(bundles, d)
  IN  \E i \in 1..4 : k[i] < l[i] /\ \A j \in 1..(i - 1) : k[j] = l[j]

\* A rule whose condition cannot be evaluated is passed over, denials too.
Matched(rule) == rule.when = "holds" /\ rule.unless \in {"absent", "fails"}

\* evaluate: the first candidate that matches decides; none is a denial.
Decision(bundles, action) ==
  LET hits == {c \in Candidates(bundles, action) : Matched(bundles[c[1]][c[2]])}
  IN  IF hits = {} THEN "deny"
      ELSE LET first == CHOOSE c \in hits : \A d \in hits \ {c} : Before(bundles, c, d)
           IN  bundles[first[1]][first[2]].effect

\* pep: a scope is <<service, verb>>; a grant may leave the verb, or both, open.
Enforce(grants, scope) ==
  \E g \in grants : g \in {<<"*", "*">>, <<scope[1], "*">>, scope}

-----------------------------------------------------------------------------
\* A request: its path, method, and the scopes of the session, of the legacy
\* header and of the header that counts in test mode, which production never is.
Request == [path : STRING, method : STRING, session : SUBSET STRING,
            legacy : SUBSET STRING, test : SUBSET STRING]

\* _parse_scopes
Scopes(req, prod, testMode) ==
  LET all == req.session \cup req.legacy \cup (IF testMode /\ ~prod THEN req.test ELSE {})
  IN  IF "*" \in all THEN {"*"} ELSE all

\* A route of the map: the paths its pattern fits, the length of the pattern.
Route == [paths : SUBSET STRING, length : Nat, method : STRING, scopes : SUBSET STRING]
NoRoute == [paths |-> {}, length |-> 0, method |-> "", scopes |-> {}]

\* _route_match: the longest pattern, of equals the first in the map.
RouteMatch(routes, req) ==
  LET fits == {i \in DOMAIN routes : /\ req.path \in routes[i].paths
                                     /\ routes[i].method \in {"*", req.method}}
  IN  IF fits = {} THEN NoRoute
      ELSE routes[CHOOSE i \in fits :
                    \A j \in fits : \/ routes[i].length > routes[j].length
                                    \/ routes[i].length = routes[j].length /\ i <= j]

\* _allowed
Allowed(have, need, all) ==
  \/ "*" \in have
  \/ need = {}
  \/ IF all THEN need \subseteq have ELSE need \cap have # {}

\* RbacMapMiddleware.dispatch: bypassed, unmapped, or as the map says.
Admits(routes, req, bypass, defaultDeny, all, prod, testMode) ==
  \/ req.path \in bypass
  \/ LET route == RouteMatch(routes, req)
     IN  IF route = NoRoute THEN ~defaultDeny
         ELSE Allowed(Scopes(req, prod, testMode), route.scopes, all)

\* require_scopes, the dependency of single routes. It takes "*" for a scope.
RequireScopes(required, req, all, prod, testMode) ==
  LET have == Scopes(req, prod, testMode)
  IN  IF all THEN required \subseteq have ELSE required \cap have # {}

-----------------------------------------------------------------------------
\* A file of a tenant (apps/tenants/config.py): the limits it gives, the skew it allows.
TenantConfig == [id : STRING, wellFormed : BOOLEAN, status : STRING, limits : SUBSET Int, skew : Int]

\* _validate
TenantValid(config) ==
  /\ config.wellFormed /\ config.status \in {"active", "suspended"}
  /\ config.skew >= 0 /\ \A l \in config.limits : l > 0

\* _load_all: files that are not valid are passed over; of two, the one read last.
TenantFiles(files, id) == {i \in DOMAIN files : TenantValid(files[i]) /\ files[i].id = id}

\* require
TenantActive(files, id) ==
  \E i \in TenantFiles(files, id) :
    files[i].status = "active" /\ \A j \in TenantFiles(files, id) : j <= i

\* TenantContext: who is not known or not active is nobody.
Nobody == ""
TenantContext(files, id) == IF TenantActive(files, id) THEN id ELSE Nobody

\* require_tenant_context: the first of the sources that names a tenant decides.
RequireTenant(files, sources) ==
  LET named == {i \in DOMAIN sources : sources[i] # ""}
  IN  IF named = {} THEN Nobody
      ELSE TenantContext(files, sources[CHOOSE i \in named : \A j \in named : i <= j])
=============================================================================
