------------------------------- MODULE Gates --------------------------------
(***************************************************************************)
(* The post-deploy gates of a rollout (engine.runGates): health with its     *)
(* retries, the smoke test, and metric analysis with its sampling loop       *)
(* (internal/analysis).  The auto path reads them from the config, manual    *)
(* Verify and Promote from the descriptors the rollout captured.  Targets,   *)
(* commands and metric backends answer as they like; what they answered is   *)
(* kept in `seen', which nothing of the code reads.                          *)
(***************************************************************************)
EXTENDS Integers, Sequences, FiniteSetsExt, SequencesExt

CONSTANTS Templates,   \* analysis settings: [count, limit, metrics]
          Answers,     \* what a metrics backend may answer: the samples of its series
          Threshold    \* the condition: every metric is below it

NaN == -2   \* a sample too: the backends' values are parsed as floats

ASSUME GatesAssumption ==
  /\ \A t \in Templates : t.count \in Int /\ t.limit \in Int
  /\ \A a \in Answers : a \in Seq(Nat \cup {NaN})
  /\ Threshold \in Int

VARIABLES gs,       \* the resolved gate set and the path it came from
          gate,     \* the gate being run, and its attempt or streak
          results,  \* one [gate, status] per gate reached
          seen      \* history: gate -> the answers it was given, in order

gatesVars == <<gs, gate, results, seen>>

GateNames     == <<"health", "smoke", "analysis">>
HealthAnswers == {"healthy", "degraded", "unknown", "unhealthy", "error"}
SmokeAnswers  == {"expected", "otherExit", "error"}
healthAttempts == 3

(***************************************************************************)
(* Metrics.  A query's answer is the samples of its series, none when the   *)
(* backend is down, has no data or answers with an error; Err is the error  *)
(* every failure turns into.                                                *)
(***************************************************************************)
Err == -1

ValidAggregation == {"max", "min", "sum", "any"}

Numbers(samples) == Range(samples) \ {NaN}
Total(samples) == IF NaN \in Range(samples) THEN NaN ELSE FoldSeq(+, 0, samples)

\* max and min start from the first sample and compare the others with it: no
\* comparison with a NaN holds, so a NaN stays if it is first and is lost if not.
Aggregate(samples, agg) ==
  IF samples = <<>> THEN Err
  ELSE CASE agg = "any" -> samples[1]
         [] agg = "max" -> IF samples[1] = NaN THEN NaN ELSE Max(Numbers(samples))
         [] agg = "min" -> IF samples[1] = NaN THEN NaN ELSE Min(Numbers(samples))
         [] agg = "sum" -> Total(samples)
         [] OTHER       -> Err

\* Prometheus: a query without aggregation must have exactly one series.
Query(answer) == IF Len(answer) = 1 THEN answer[1] ELSE Err

\* A plugin answers one value and is not series-capable.
queryMetric(m, answer) ==
  IF m.aggregation = "" THEN Query(answer)
  ELSE IF m.provider = "plugin" THEN Err ELSE Aggregate(answer, m.aggregation)

\* One sampling of every metric: the first error ends it.  A NaN cannot be ordered
\* and makes the condition an error, unless another metric makes it false.
measure(t, answers) ==
  LET values == [i \in DOMAIN t.metrics |-> queryMetric(t.metrics[i], answers[i])]
  IN  IF \E i \in DOMAIN values : values[i] = Err THEN "error"
      ELSE IF \E i \in DOMAIN values : values[i] # NaN /\ values[i] >= Threshold THEN "fail"
      ELSE IF \E i \in DOMAIN values : values[i] = NaN THEN "error" ELSE "pass"

Count(t) == IF t.count <= 0 THEN 1 ELSE t.count

\* analysis.New: an analysis that could never fail is refused.
NewAnalyzer(t) == /\ t.metrics # <<>>
                  /\ t.limit < Count(t)
                  /\ \A i \in DOMAIN t.metrics : t.metrics[i].aggregation \in ValidAggregation \cup {""}

(***************************************************************************)
(* The gate set.  NoTemplate: no analysis configured, or not enabled.       *)
(***************************************************************************)
NoTemplate == [count |-> 0, limit |-> 0, metrics |-> <<>>]

\* config: [healthCheck, auto, smoke, analysis, enabled]
gatesFromConfig(c) == [path |-> "auto", health |-> c.healthCheck \/ c.auto, smoke |-> c.smoke,
                       analysis |-> IF c.enabled THEN c.analysis ELSE NoTemplate]

\* The rollout captured what the config said; health always runs.  (A descriptor
\* that cannot be decoded ends the call before any gate.)
gatesFromRollout(c) == [path |-> "manual", health |-> TRUE, smoke |-> c.smoke,
                        analysis |-> IF c.enabled THEN c.analysis ELSE NoTemplate]

Configs == [healthCheck : BOOLEAN, auto : BOOLEAN, smoke : BOOLEAN,
            analysis : Templates \cup {NoTemplate}, enabled : BOOLEAN]

Enabled(g) == CASE g = "health"   -> gs.health
                [] g = "smoke"    -> gs.smoke
                [] OTHER          -> gs.analysis # NoTemplate

AtGate(i) == [at |-> i, try |-> 0, streak |-> 0]

GatesInit == /\ gs \in {gatesFromConfig(c) : c \in Configs} \cup {gatesFromRollout(c) : c \in Configs}
             /\ gate = AtGate(1)
             /\ results = <<>>
             /\ seen = [health |-> <<>>, smoke |-> <<>>, analysis |-> <<>>]

Failed == \E i \in DOMAIN results : results[i].status = "fail"
Finished == Len(results) = Len(GateNames)
Name == GateNames[gate.at]

Conclude(status) ==
  /\ results' = Append(results, [gate |-> Name, status |-> status])
  /\ gate' = AtGate(gate.at + 1)

See(a) == seen' = [seen EXCEPT ![Name] = Append(@, a)]

Running(g) == ~ Finished /\ Name = g /\ ~ Failed /\ Enabled(g)

\* A gate after a failed one is not run, one that is not configured is skipped.
PassOver ==
  /\ ~ Finished
  /\ \/ Failed /\ Conclude("not-run")
     \/ ~ Failed /\ ~ Enabled(Name) /\ Conclude("skipped")
  /\ UNCHANGED <<gs, seen>>

(***************************************************************************)
(* gateHealth: only an error is tried again.  A target that cannot be built *)
(* fails the gate, as the last error does, and so does a call cancelled      *)
(* while it waits for its next try.  `seen' notes both.                      *)
(***************************************************************************)
GateHealth ==
  /\ Running("health")
  /\ \/ gate.try = 0 /\ See("unbuilt") /\ Conclude("fail")
     \/ gate.try > 0 /\ See("cancelled") /\ Conclude("fail")
     \/ \E a \in HealthAnswers :
          /\ See(a)
          /\ IF a = "error" /\ gate.try + 1 < healthAttempts
               THEN gate' = [gate EXCEPT !.try = @ + 1] /\ UNCHANGED results
               ELSE Conclude(IF a \in {"unhealthy", "error"} THEN "fail" ELSE "pass")
  /\ UNCHANGED gs

GateSmoke ==
  /\ Running("smoke")
  /\ \E a \in SmokeAnswers : See(a) /\ Conclude(IF a = "expected" THEN "pass" ELSE "fail")
  /\ UNCHANGED gs

(***************************************************************************)
(* gateAnalysis: Analyzer.Run measures Count times, fails once more than    *)
(* FailureLimit measurements in a row failed, and fails when the last one   *)
(* could not be taken.                                                      *)
(***************************************************************************)
RefuseAnalysis ==
  /\ Running("analysis") /\ gate.try = 0
  /\ \/ See([answer |-> "unbuilt", series |-> <<>>])   \* no provider: plugin not built, name unknown
     \/ ~ NewAnalyzer(gs.analysis) /\ UNCHANGED seen
  /\ Conclude("fail")
  /\ UNCHANGED gs

\* Mutant of AfterSample: an error of the last measurement is forgotten.
AfterSampleLax(m, streak, taken) ==
  IF m # "pass" /\ streak > gs.analysis.limit THEN "fail"
  ELSE IF taken < Count(gs.analysis) THEN "more" ELSE "pass"

\* Verdict of the loop after a measurement: the run goes on, passes or fails.
AfterSample(m, streak, taken) ==
  IF m # "pass" /\ streak > gs.analysis.limit THEN "fail"
  ELSE IF taken < Count(gs.analysis) THEN "more"
  ELSE IF m = "error" THEN "fail" ELSE "pass"

Measure ==
  /\ Running("analysis")
  /\ NewAnalyzer(gs.analysis)
  /\ \E answers \in [DOMAIN gs.analysis.metrics -> Answers] :
       LET m      == measure(gs.analysis, answers)
           streak == IF m = "pass" THEN 0 ELSE gate.streak + 1
           next   == AfterSample(m, streak, gate.try + 1)
       IN  /\ See([answer |-> m, series |-> answers])
           /\ IF next = "more"
                THEN gate' = [gate EXCEPT !.try = @ + 1, !.streak = streak] /\ UNCHANGED results
                ELSE Conclude(next)
  /\ UNCHANGED gs

GatesNext == PassOver \/ GateHealth \/ GateSmoke \/ RefuseAnalysis \/ Measure

GatesSpec == GatesInit /\ [][GatesNext]_gatesVars

-----------------------------------------------------------------------------
Bad(e) == e.answer # "pass"

\* n + 1 measurements in a row that did not pass
BadRun(s, n) == \E i \in DOMAIN s : i + n <= Len(s) /\ \A j \in i..(i + n) : Bad(s[j])

\* A negative FailureLimit, which nothing refuses, tolerates as little as zero.
Tolerated(t) == IF t.limit < 0 THEN 0 ELSE t.limit

\* A rollout goes through its gates only on evidence: the target answered last
\* without an error and not unhealthy, the smoke test exited as expected, every
\* measurement was taken or a later one was, and there was no run of
\* failures longer than the limit (engine.go:1170, analysis.go:186).
PassHasEvidence ==
  Finished /\ ~ Failed =>
    /\ gs.health => seen.health # <<>> /\ Last(seen.health) \in {"healthy", "degraded", "unknown"}
    /\ gs.smoke => seen.smoke = <<"expected">>
    /\ gs.analysis # NoTemplate =>
         /\ Len(seen.analysis) = Count(gs.analysis)
         /\ Last(seen.analysis).answer # "error"
         /\ ~ BadRun(seen.analysis, Tolerated(gs.analysis))

\* A gate fails, and so rolls the rollout back, only for a cause of its own: a
\* transient health error alone never does it, unless the call was cancelled before
\* the next try, nor a number of failed measurements the limit tolerates
\* (engine.go:1237, analysis.go:201).
HealthCause == \/ seen.health # <<>> /\ Last(seen.health) \in {"unhealthy", "unbuilt", "cancelled"}
               \/ Len(seen.health) = healthAttempts /\ \A i \in 1..healthAttempts : seen.health[i] = "error"
SmokeCause == seen.smoke \in {<<"otherExit">>, <<"error">>}
AnalysisCause == \/ ~ NewAnalyzer(gs.analysis)
                 \/ BadRun(seen.analysis, Tolerated(gs.analysis))
                 \/ seen.analysis # <<>> /\ Last(seen.analysis).answer \in {"error", "unbuilt"}

FailHasCause ==
  \A i \in DOMAIN results : results[i].status = "fail" =>
    \/ results[i].gate = "health" /\ HealthCause
    \/ results[i].gate = "smoke" /\ SmokeCause
    \/ results[i].gate = "analysis" /\ AnalysisCause

\* A measurement passes only if every series that is a number is healthy, or the
\* config chose an aggregation that may hide one (min, any, sum): no series is
\* dropped because a backend listed it second (prometheus.go:46).
SeriesHealthy(e, metrics) ==
  e.answer = "pass" =>
    \A k \in DOMAIN metrics :
      metrics[k].aggregation \notin {"min", "any", "sum"} =>
        /\ e.series[k] # <<>> /\ e.series[k][1] # NaN
        /\ \A s \in DOMAIN e.series[k] : e.series[k][s] # NaN => e.series[k][s] < Threshold

NoHiddenSeries == \A i \in DOMAIN seen.analysis : SeriesHealthy(seen.analysis[i], gs.analysis.metrics)

\* What the code does not give, and no run checks: a measurement that passes under
\* max saw a number for every series.  A NaN behind the first sample is lost
\* (analysis.go:55-62).
EverySeriesMeasured ==
  \A i \in DOMAIN seen.analysis :
    LET e == seen.analysis[i]
    IN  e.answer = "pass" => \A k \in DOMAIN e.series :
          gs.analysis.metrics[k].aggregation = "max" => NaN \notin Range(e.series[k])

\* The verdict of the gates is earned, whichever way it goes, by what the target,
\* the smoke test and every series of the metric backends answered.
VerdictIsEarned == PassHasEvidence /\ FailHasCause /\ NoHiddenSeries
=============================================================================
