------------------------------ MODULE SloJudge ------------------------------
(***************************************************************************)
(* apps/judge/slo_judge.py: the verdict on a release from its evidence and *)
(* the SLO. Both come as functions from names to numbers: a limit of the   *)
(* SLO bears the name of the measure it bounds; yes and no are 1 and 0; a  *)
(* field that is not there is None.                                        *)
(***************************************************************************)
EXTENDS Integers

None == -1

\* .get(field, 0)
OrZero(v) == IF v = None THEN 0 ELSE v

\* REQUIRED_BLOCKS; those under 'signed' may be absent, and count if present.
RequiredBlocks == {"meta", "witness", "usage", "rating", "quota", "budget", "anomaly", "integrity"}
OptionalBlocks == {"perf", "perf_judge", "canary"}

\* Measures with an upper limit, by the part of the SLO that states it.
PerfMeasures  == {"p95", "p99", "error_rate"}
InfraLatency  == {"infra_p95", "infra_p99"}
CanaryDeltas  == {"p95_rel", "error_delta", "sig_error_delta"}
DriftMeasures == {"abs_diff", "kl"}
Saturation    == {"cpu", "mem", "qps"}
UpperBounded  == PerfMeasures \cup InfraLatency \cup CanaryDeltas \cup DriftMeasures
                 \cup Saturation \cup {"spent", "infra_sig"}

\* Least numbers of samples, by the measure that must reach them.
MinSamples == [latency |-> "count", error |-> "count",
               infra_latency |-> "infra_count", infra_sig_min |-> "infra_count",
               canary_min |-> "canary_count"]
PerfMinima  == {"latency", "error"}
InfraMinima == {"infra_latency", "infra_sig_min"}

\* What an SLO may state and evaluate never reads: witness.min_rows, the minutes of
\* canary.guardband_minutes, witness.require_signature and saturation.fail_closed.
\* (Nor quorum, which is apps/judge/pool.py's, and infra.window_sec, which only says
\* what was measured.)
UnreadLimits  == {"min_rows", "guardband"}
UnreadDemands == {"witness_signed", "fail_closed"}

Limits == UpperBounded \cup DOMAIN MinSamples \cup {"availability"} \cup UnreadLimits

\* What else evidence says, and the demands of the SLO that concern it.
YesNo == RequiredBlocks \cup OptionalBlocks
         \cup {"csv", "signed", "level", "action", "spike", "drift_file", "severity", "witness_signed"}
Facts == YesNo \cup UpperBounded \cup {"count", "infra_count", "canary_count", "availability", "rows"}
Reported(x) == IF x \in YesNo THEN {0, 1} ELSE Nat \cup {None}
Sections == {"judge_infra", "canary", "drift", "saturation"}
Demands == {"csv", "signed", "level", "action", "spike", "severity"} \cup UnreadDemands

\* The demands evaluate looks at itself; the severity is looked at with the drift.
ReadDemands == Demands \ (UnreadDemands \cup {"severity"})

\* An SLO: whether it parses, the sections it has, its limits, the demands it
\* makes, and the factor 1 + grace_burst.
SLOSpec == [parses : BOOLEAN, sections : SUBSET Sections, limit : [Limits -> Nat \cup {None}],
            demands : SUBSET Demands, burst : Nat \ {0}]

Over(slo, e, x) == slo.limit[x] # None /\ OrZero(e[x]) > slo.limit[x]

\* "if min_samples and count < min_samples"
TooFew(slo, e, m) ==
  slo.limit[m] \notin {None, 0} /\ OrZero(e[MinSamples[m]]) < slo.limit[m]

\* A demand is missed by a 0, a forbidden level, action or severity included.
Missed(slo, e, d) == d \in slo.demands /\ e[d] = 0

\* Variant of PerfReasons: too few samples end the check without a word.
PerfReasonsSilent(slo, e) ==
  IF \A x \in PerfMeasures \cup PerfMinima : slo.limit[x] = None THEN {}
  ELSE IF e["perf"] = 0 THEN {"perf"}
  ELSE IF \E m \in PerfMinima : TooFew(slo, e, m) THEN {}
  ELSE {x \in PerfMeasures : Over(slo, e, x)}

\* A count that is not there is not compared with anything.
PerfReasons(slo, e) ==
  LET few == {m \in PerfMinima : e["count"] # None /\ TooFew(slo, e, m)}
  IN  IF \A x \in PerfMeasures \cup PerfMinima : slo.limit[x] = None THEN {}
      ELSE IF e["perf"] = 0 THEN {"perf"}
      ELSE IF few # {} THEN few
      ELSE {x \in PerfMeasures : Over(slo, e, x)}

\* _evaluate_infra: the first shortage of samples ends it.
InfraReasons(slo, e) ==
  LET late == {x \in InfraLatency : /\ slo.limit[x] # None
                                    /\ OrZero(e[x]) > slo.limit[x] * slo.burst}
      down == {x \in {"availability"} : /\ slo.limit[x] # None
                                        /\ OrZero(e[x]) < slo.limit[x]}
  IN  IF "judge_infra" \notin slo.sections THEN {}
      ELSE IF e["perf_judge"] = 0 THEN {"perf_judge"}
      ELSE IF TooFew(slo, e, "infra_latency") THEN {"infra_latency"}
      ELSE IF TooFew(slo, e, "infra_sig_min") THEN {"infra_sig_min"}
      ELSE late \cup down \cup {x \in {"infra_sig"} : Over(slo, e, x)}

\* Variant of CanaryReasons: a canary that is not reported is not looked at.
CanaryReasonsLenient(slo, e) ==
  IF "canary" \notin slo.sections \/ e["canary"] = 0 THEN {}
  ELSE {m \in {"canary_min"} : TooFew(slo, e, m)} \cup {x \in CanaryDeltas : Over(slo, e, x)}

CanaryReasons(slo, e) ==
  IF "canary" \notin slo.sections THEN {}
  ELSE IF e["canary"] = 0 THEN {"canary"}
  ELSE {m \in {"canary_min"} : TooFew(slo, e, m)} \cup {x \in CanaryDeltas : Over(slo, e, x)}

\* The drift report is a file of its own: missing and unreadable are alike.
DriftReasons(slo, e) ==
  IF "drift" \notin slo.sections THEN {}
  ELSE IF e["drift_file"] = 0 THEN {"drift_file"}
  ELSE {x \in {"severity"} : Missed(slo, e, x)} \cup {x \in DriftMeasures : Over(slo, e, x)}

SaturationReasons(slo, e) ==
  IF "saturation" \notin slo.sections THEN {} ELSE {x \in Saturation : Over(slo, e, x)}

\* evaluate
Reasons(slo, e) ==
  IF ~slo.parses THEN {"slo"}
  ELSE IF \E b \in RequiredBlocks : e[b] = 0 THEN {b \in RequiredBlocks : e[b] = 0}
  ELSE {d \in ReadDemands : Missed(slo, e, d)}
       \cup {x \in {"spent"} : Over(slo, e, x)}
       \cup PerfReasons(slo, e) \cup InfraReasons(slo, e) \cup CanaryReasons(slo, e)
       \cup DriftReasons(slo, e) \cup SaturationReasons(slo, e)

Passes(slo, e) == Reasons(slo, e) = {}

-----------------------------------------------------------------------------
\* What a limit needs to be there in order to be compared with anything.
BlockOf(x) == CASE x \in PerfMeasures \cup PerfMinima -> "perf"
                [] x \in InfraLatency \cup InfraMinima \cup {"infra_sig", "availability"} -> "perf_judge"
                [] x \in CanaryDeltas \cup {"canary_min"} -> "canary"
                [] x \in DriftMeasures -> "drift_file"
                [] x \in Saturation -> "usage"
                [] x = "min_rows" -> "witness"
                [] x = "guardband" -> "canary"
                [] OTHER -> "budget"

SectionOf(x) == CASE BlockOf(x) = "perf_judge" -> {"judge_infra"}
                  [] BlockOf(x) = "canary"     -> {"canary"}
                  [] BlockOf(x) = "drift_file" -> {"drift"}
                  [] BlockOf(x) = "usage"      -> {"saturation"}
                  [] OTHER -> {}

\* The limits in force that are read, and whether evidence that reports a measure keeps to one.
Stated(slo) ==
  {x \in Limits \ UnreadLimits : slo.limit[x] # None /\ SectionOf(x) \subseteq slo.sections}

Within(slo, e, x) ==
  CASE x \in DOMAIN MinSamples -> e[MinSamples[x]] = None \/ e[MinSamples[x]] >= slo.limit[x]
    [] x \in InfraLatency      -> e[x] <= slo.limit[x] * slo.burst
    [] x = "availability"      -> e[x] = None \/ e[x] >= slo.limit[x]
    [] OTHER                   -> e[x] <= slo.limit[x]

\* A release passes only if every block that a limit in force or the contract of
\* evidence asks for is there, every measure reported in it keeps to every limit
\* stated for it, and nothing demanded is missed - whichever of the early returns
\* and skipped comparisons of the evaluation were taken on the way. UnreadLimits
\* and UnreadDemands are exempt: a pass says nothing of the rows and the signature
\* of the witness, of the guard band, or of saturation that was not measured.
PassIsEarned(slo, e) ==
  Passes(slo, e) =>
    /\ \A b \in RequiredBlocks : e[b] = 1
    /\ \A x \in Stated(slo) : e[BlockOf(x)] = 1 /\ Within(slo, e, x)
    /\ \A d \in slo.demands \cap ReadDemands : e[d] = 1
    /\ "drift" \in slo.sections /\ "severity" \in slo.demands => e["severity"] = 1

\* w is worse than v for fact x: a measure up, or samples, availability, a block
\* or a demand down. A measure that appears or goes away is neither.
WorseFact(x, v, w) == None \notin {v, w} /\ IF x \in UpperBounded THEN w > v ELSE w < v
=============================================================================
