----------------------------- MODULE QuotaAlerts ------------------------------
(***************************************************************************)
(* The severity of one repository quota alert rule, advanced by samples of *)
(* the repository's usage.  internal/quotaalert/state.go,                  *)
(* internal/repository/postgres_quota_evaluation.go, quota_transition.go.  *)
(*                                                                         *)
(* Evaluation is a transaction under the rule's row lock, so samples come  *)
(* one after the other.  Only a failed read works without the lock: its    *)
(* transaction is over when it writes.  Time counts periods of 15 seconds, *)
(* usage is one of four bands.  Where the mail goes is in EmailDeliveries. *)
(***************************************************************************)
EXTENDS Naturals, Sequences

CONSTANTS
    WarningFor, CriticalFor, RecoveryFor,   \* the policy's holds, in periods
    Intervals,          \* periods that may lie between two samples
    QuotaBudgets        \* where behaviours start, and bounds: quotas, samples,
                        \* failed reads and clearings of the evidence

Severities == {"normal", "warning", "critical"}
QuotaBudget == [start : Severities, quotas : Nat, samples : Nat, failures : Nat,
                clearings : Nat]

ASSUME QuotaAssumption ==
    /\ {WarningFor, CriticalFor, RecoveryFor} \subseteq Nat \ {0}
    /\ Intervals \subseteq Nat \ {0}
    /\ QuotaBudgets \subseteq QuotaBudget

VARIABLES
    rule,           \* the rule's state, state_version and active episode
    failedReads,    \* evaluations whose read failed, with what they read
    alerts,         \* repository_quota_alert_events
    timeline,       \* what was observed, in order
    quotaBudget     \* the start, and what is left of the bounds

quotaVars == <<rule, failedReads, alerts, timeline, quotaBudget>>

\* Below recovery, below warning, from warning and from critical on.
Bands == 0..3
MaxGap == 2     \* 30 seconds

None == 0       \* the zero time

Evidence == [severity : Severities, quota : Nat,
             last : Nat, warning : Nat, critical : Nat, recovery : Nat]

\* An observation of the timeline: a sample, or a break of the evidence.
Observation == [at : Nat, band : Bands, quota : Nat]
Break == [at |-> None, band |-> 0, quota |-> 0]

QuotaTypeOK ==
    /\ rule \in [state : Evidence, version : Nat, episode : Nat, active : BOOLEAN]
    /\ failedReads \subseteq [state : Evidence, version : Nat]
    /\ alerts \in Seq([scenario : {"warning", "critical", "resolved"}, episode : Nat])
    /\ timeline \in Seq(Observation)
    /\ quotaBudget \in QuotaBudget

-----------------------------------------------------------------------------
(* quotaalert.Advance                                                      *)

ResetState(s) == [s EXCEPT !.warning = None, !.critical = None, !.recovery = None]

continuousSince(since, condition, at) ==
    IF ~condition THEN None ELSE IF since = None THEN at ELSE since

matured(since, at, hold) == since # None /\ at - since >= hold

\* Mutant: downtime between two samples counts as evidence.
FreshIgnoringGap(s, o) ==
    IF s.quota # 0 /\ s.quota # o.quota THEN ResetState(s) ELSE s

\* Evidence survives neither a gap nor a change of the quota.
Fresh(s, o) ==
    IF \/ s.last # None /\ o.at - s.last > MaxGap
       \/ s.quota # 0 /\ s.quota # o.quota
      THEN ResetState(s) ELSE s

\* The evidence after sample o.
Sampled(s, o) ==
    LET f == Fresh(s, o) IN
    [f EXCEPT !.quota = o.quota, !.last = o.at,
              !.warning = continuousSince(@, o.band >= 2, o.at),
              !.critical = continuousSince(@, o.band = 3, o.at),
              !.recovery = continuousSince(@, f.severity # "normal" /\ o.band = 0, o.at)]

\* What the evidence s after sample o calls for.
Scenario(s, o) ==
    CASE s.severity # "critical" /\ matured(s.critical, o.at, CriticalFor) -> "critical"
      [] s.severity = "normal" /\ ~matured(s.critical, o.at, CriticalFor)
           /\ matured(s.warning, o.at, WarningFor) -> "warning"
      [] s.severity # "normal" /\ matured(s.recovery, o.at, RecoveryFor) -> "resolved"
      [] OTHER -> "none"

Advance(s, o) ==
    LET e == Sampled(s, o) IN
    CASE Scenario(e, o) = "none" -> e
      [] Scenario(e, o) = "resolved" -> ResetState([e EXCEPT !.severity = "normal"])
      [] OTHER -> [e EXCEPT !.severity = Scenario(e, o)]

-----------------------------------------------------------------------------
(* The rule                                                                *)

\* A rule that is new, or has been firing when its evidence was last cleared.
QuotaInit ==
    /\ quotaBudget \in QuotaBudgets
    /\ LET firing == quotaBudget.start # "normal" IN
         /\ rule = [state |-> [severity |-> quotaBudget.start, quota |-> 0,
                               last |-> None, warning |-> None,
                               critical |-> None, recovery |-> None],
                    version |-> 1, episode |-> IF firing THEN 1 ELSE 0,
                    active |-> firing]
         /\ alerts = IF firing
                       THEN <<[scenario |-> quotaBudget.start, episode |-> 1]>>
                       ELSE <<>>
    /\ failedReads = {} /\ timeline = <<>>

SpendQuota(what) ==
    /\ quotaBudget[what] > 0
    /\ quotaBudget' = [quotaBudget EXCEPT ![what] = @ - 1]

\* A sample, the transition it makes and the event of that transition, in one
\* transaction; an episode begins with its first event and ends when resolved.
EvaluateNextRepositoryQuotaAlert(band, interval, quota) ==
    LET o == [at |-> rule.state.last + interval, band |-> band, quota |-> quota]
        scenario == Scenario(Sampled(rule.state, o), o)
        episode == IF rule.active THEN rule.episode ELSE rule.episode + 1
    IN
    /\ SpendQuota("samples")
    /\ timeline' = Append(timeline, o)
    /\ rule' = [state |-> Advance(rule.state, o),
                version |-> rule.version + 1,
                episode |-> IF scenario = "none" THEN rule.episode ELSE episode,
                active |-> CASE scenario = "none" -> rule.active
                             [] OTHER -> scenario # "resolved"]
    /\ alerts' = IF scenario = "none" THEN alerts
                   ELSE Append(alerts, [scenario |-> scenario, episode |-> episode])
    /\ UNCHANGED failedReads

\* The repository is gone, inactive or unlimited, the sample stale, out of
\* order or from the future: the evidence is cleared, the severity stays.  So
\* does a change of the configuration, of which a disabled rule is one.
ClearEvidence ==
    /\ SpendQuota("clearings")
    /\ rule' = [rule EXCEPT !.state = ResetState(@), !.version = @ + 1]
    /\ timeline' = Append(timeline, Break)
    /\ UNCHANGED <<failedReads, alerts>>

\* The read fails and the transaction is rolled back, ...
ReadFails ==
    /\ SpendQuota("failures")
    /\ failedReads' = failedReads \union {[state |-> rule.state, version |-> rule.version]}
    /\ UNCHANGED <<rule, alerts, timeline>>

\* Mutant: ... and whatever happened since is overwritten.
WriteUnknownUnfenced(f) ==
    /\ failedReads' = failedReads \ {f}
    /\ rule' = [rule EXCEPT !.state = ResetState(f.state), !.version = @ + 1]
    /\ timeline' = Append(timeline, Break)
    /\ UNCHANGED <<alerts, quotaBudget>>

\* ... and the unknown state is written on its own, unless the rule moved on.
WriteUnknown(f) ==
    /\ failedReads' = failedReads \ {f}
    /\ IF rule.version = f.version
         THEN /\ rule' = [rule EXCEPT !.state = ResetState(f.state), !.version = @ + 1]
              /\ timeline' = Append(timeline, Break)
         ELSE UNCHANGED <<rule, timeline>>
    /\ UNCHANGED <<alerts, quotaBudget>>

QuotaNext ==
    \/ \E band \in Bands, interval \in Intervals, quota \in 1..quotaBudget.quotas :
         EvaluateNextRepositoryQuotaAlert(band, interval, quota)
    \/ ClearEvidence
    \/ ReadFails
    \/ \E f \in failedReads : WriteUnknown(f)

QuotaSpec == QuotaInit /\ [][QuotaNext]_quotaVars

-----------------------------------------------------------------------------
(* Properties                                                              *)

\* Usage in these bands from observation m to n of the timeline t, without a
\* break, a gap or another quota.
Continuous(t, bands, m, n) ==
    /\ \A k \in m..n : t[k] # Break /\ t[k].band \in bands
    /\ \A k \in m..(n - 1) : t[k + 1].at - t[k].at <= MaxGap /\ t[k + 1].quota = t[k].quota

Sustained(t, bands, hold, n) ==
    \E m \in 1..n : Continuous(t, bands, m, n) /\ t[n].at - t[m].at >= hold

\* The severity the documentation defines after observation n of the timeline
\* t, by the severity before it.
Documented(t, before, n) ==
    CASE before # "critical" /\ Sustained(t, {3}, CriticalFor, n) -> "critical"
      [] before = "normal" /\ ~Sustained(t, {3}, CriticalFor, n)
           /\ Sustained(t, {2, 3}, WarningFor, n) -> "warning"
      [] before # "normal" /\ Sustained(t, {0}, RecoveryFor, n) -> "normal"
      [] OTHER -> before

\* The severity kept from sample to sample is the one the whole timeline of
\* samples, gaps, failed reads and configuration changes calls for: no alert
\* on downtime or on evidence of two quotas, and none missed.
SeverityIsDocumented ==
    \E severity \in [0..Len(timeline) -> Severities] :
        /\ severity[0] = quotaBudget.start
        /\ severity[Len(timeline)] = rule.state.severity
        /\ \A n \in 1..Len(timeline) :
             severity[n] = Documented(timeline, severity[n - 1], n)

\* Each scenario occurs at most once per episode, and an episode ends with the
\* alert resolved, however reads fail and whenever their resets arrive.
OncePerEpisode ==
    /\ \A i, j \in DOMAIN alerts :
         alerts[i] = alerts[j] => i = j
    /\ rule.active <=> (rule.state.severity # "normal")
    /\ rule.active => /\ alerts # <<>>
                      /\ alerts[Len(alerts)] = [scenario |-> rule.state.severity,
                                                episode |-> rule.episode]
=============================================================================
