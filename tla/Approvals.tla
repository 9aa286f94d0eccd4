----------------------------- MODULE Approvals ------------------------------
(***************************************************************************)
(* Who has to agree to a change: reviewers of a pull request               *)
(* (scripts/ci/check_multisig.py, policy_diff_guard.py), the change        *)
(* advisory board (scripts/change/require_cab_multisig.py) and whoever is  *)
(* on call (require_oncall_ack.py), under policies that are signed         *)
(* (apps/common/policy_loader.py).                                         *)
(***************************************************************************)
EXTENDS Naturals, FiniteSets

\* A rule of the approval policy: the kinds of files its glob matches, the number
\* of reviewers, the teams and the reviewers wanted of each.
ReviewRule == [files : SUBSET STRING, approvers : Nat, teams : SUBSET STRING, perTeam : Nat]

\* The rules that are built in, for kinds of files, and which those of a file replace.
Two(files, teams) == [files |-> files, approvers |-> 2, teams |-> teams, perTeam |-> 1]
DefaultRules == {Two({"rbac"}, {"security"}), Two({"slo"}, {"platform"}), Two({"canary"}, {"platform", "service"}),
                 Two({"freeze"}, {"platform"}), Two({"rbac", "slo", "canary", "policy"}, {})}
ApprovalRules(file) == IF file.there THEN file.rules ELSE DefaultRules

\* get_changed_files: those since the fork; if git does not find it, the difference of the
\* two heads; if it does not find these, none.
ChangedFiles(sinceFork, ofHeads) ==
  IF sinceFork.found THEN sinceFork.files ELSE IF ofHeads.found THEN ofHeads.files ELSE {}

\* get_user_teams: what a name has in it tells the team.
TeamOfWord == [sec |-> "security", platform |-> "platform", infra |-> "platform",
               service |-> "service", svc |-> "service"]
UserTeams(words) == {TeamOfWord[w] : w \in words}

\* get_pr_reviewers: whoever has approved, whatever else they said before or after.
Reviewers(reviews) == {r[1] : r \in {x \in reviews : x[2] = "APPROVED"}}

\* check_rule. A reviewer counts for every team they are taken to be in.
RuleHolds(rule, changed, approved, wordsOf) ==
  rule.files \cap changed # {} =>
    /\ Cardinality(approved) >= rule.approvers
    /\ \A t \in rule.teams : Cardinality({u \in approved : t \in UserTeams(wordsOf[u])}) >= rule.perTeam

\* check_multisig.main: nothing to check is success, and so is a diff that cannot
\* be had. Reviews that cannot be had are none.
MultisigOk(env, rules, changed, reviews, wordsOf) ==
  env => \A rule \in rules : RuleHolds(rule, changed, Reviewers(reviews), wordsOf)

\* policy_diff_guard.main: two approvals, or the label, for a change of a signed
\* policy; without the context of a pull request, nothing.
DiffGuardOk(env, policies, changed, byApproval, reviews, labels) ==
  env /\ policies \cap changed # {} =>
    IF byApproval THEN Cardinality(Reviewers(reviews)) >= 2 ELSE "review/2-approvers" \in labels

\* A signature beside a policy: the key it names, and whether the HMAC is right.
Signature == [key : STRING, right : BOOLEAN]
NoSignature == [key |-> "", right |-> FALSE]

\* PolicyLoader: a key that is still listed and, if there is an allow list, on it.
\* An unsigned policy loads in fail-open mode only.
PolicyLoads(sig, keys, allowlist, failOpen) ==
  IF sig = NoSignature THEN failOpen
  ELSE sig.key \in keys /\ sig.right /\ (allowlist = {} \/ sig.key \in allowlist)

\* verify.py: the keys are those active or in grace; a signature is right if the hash in
\* it is the file's and the key made it. The allow list warns, unless it is strict.
SignatureHolds(sig, keys) == sig.key \in keys /\ sig.right
FileVerdict(sig, keys, allowlist, strict, failOpen) ==
  CASE sig = NoSignature -> IF failOpen THEN "warning" ELSE "failed"
    [] sig # NoSignature /\ ~SignatureHolds(sig, keys) -> "failed"
    [] sig # NoSignature /\ SignatureHolds(sig, keys) ->
         IF allowlist = {} \/ sig.key \in allowlist THEN "verified"
         ELSE IF strict THEN "failed" ELSE "warning"

\* Its exit status for several files, or none; what runs it takes 0 for success.
VerifyExit(verdicts) ==
  IF verdicts = {} \/ "failed" \in verdicts THEN 1 ELSE IF "warning" \in verdicts THEN 8 ELSE 0

\* A rule of the board: services it is for ({} and "*": all), number of signatures,
\* signers who have to be among them, and members of the service's own board.
BoardRule == [services : SUBSET STRING, signatures : Nat, signers : SUBSET STRING, fromBoard : Nat]
DefaultRule == [services |-> {}, signatures |-> 1, signers |-> {}, fromBoard |-> 0]

\* _match_rule: the first in the order of the file
MatchRule(rules, service) ==
  LET fits == {i \in DOMAIN rules : \/ rules[i].services = {}
                                    \/ rules[i].services \cap {"*", service} # {}}
  IN  IF fits = {} THEN DefaultRule ELSE rules[CHOOSE i \in fits : \A j \in fits : i <= j]

\* require_cab_multisig.main; it loads two policies, and dies if one does not load.
CabOk(loaded, rules, service, boardOf, signers) ==
  LET rule == MatchRule(rules, service)
  IN  /\ loaded
      /\ Cardinality(signers) >= rule.signatures
      /\ rule.signers \subseteq signers
      /\ Cardinality(signers \cap boardOf[service]) >= rule.fromBoard

\* require_oncall_ack.main: nobody on call is nobody to ask
OncallOk(loaded, oncall, acks) == loaded /\ (oncall = {} \/ acks \cap oncall # {})
=============================================================================
