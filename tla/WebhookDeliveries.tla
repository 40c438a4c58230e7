-------------------------- MODULE WebhookDeliveries ---------------------------
(***************************************************************************)
(* Quarantine transitions, the webhook events they commit, and the         *)
(* delivery of those events.  internal/repository/postgres_webhooks.go,    *)
(* internal/repository/postgres_artifact_quarantine.go,                    *)
(* internal/app/webhook_worker.go.                                         *)
(*                                                                         *)
(* One artifact is quarantined and released; every transition is an event, *)
(* and event n is the n-th.  A delivery is an event and a subscription.  A *)
(* lease token is the number of the claim that issued it.                  *)
(***************************************************************************)
EXTENDS Naturals, Sequences, FiniteSets

CONSTANTS
    Hooks,              \* webhook subscriptions
    HookAttempts,       \* webhookDeliveryMaxAttempts
    MaxHookEvents,      \* bound: transitions
    HookBudgets         \* bounds: workers, and what a behaviour may spend in
                        \* requests, replays and updates of subscriptions

ASSUME HookBoundsAssumption ==
    /\ HookAttempts \in Nat \ {0} /\ MaxHookEvents \in Nat
    /\ HookBudgets \subseteq [workers : Nat, requests : 0..MaxHookEvents,
                              replays : Nat, changes : Nat]

VARIABLES
    quarantine,     \* the artifact_quarantines row: its state and version
    requests,       \* requests of operators, with the version they expect
    events,         \* webhook_events, in the order of their commits
    hook,           \* event types each enabled subscription asks for
    delivery,       \* webhook_deliveries
    posting,        \* claims workers have in hand
    posts,          \* requests sent to the endpoint for each delivery
    hookReplays,    \* replays of each delivery
    hookBudget      \* what is left

hookVars == <<quarantine, requests, events, hook, delivery, posting, posts,
              hookReplays, hookBudget>>

EventTypes == {"quarantined", "released"}
Deliveries == (1..MaxHookEvents) \X Hooks

DeliveryRow == [state : {"absent", "pending", "retrying", "delivering",
                         "succeeded", "dead"},
                attempts : Nat, claims : Nat, live : BOOLEAN]
Posting == [delivery : Deliveries, token : Nat,
            result : {"none", "ok", "failed", "permanent"}]

HookTypeOK ==
    /\ quarantine \in [state : {"absent"} \union EventTypes, version : Nat]
    /\ requests \subseteq [state : EventTypes, version : Nat]
    /\ events \in Seq(EventTypes) /\ Len(events) <= MaxHookEvents
    /\ hook \in [Hooks -> SUBSET EventTypes]
    /\ delivery \in [Deliveries -> DeliveryRow]
    /\ posting \subseteq Posting
    /\ posts \in [Deliveries -> Nat]
    /\ hookReplays \in [Deliveries -> Nat]
    /\ hookBudget \in [workers : Nat, requests : Nat, replays : Nat, changes : Nat]

NoDelivery == [state |-> "absent", attempts |-> 0, claims |-> 0, live |-> FALSE]

HookInit ==
    /\ quarantine = [state |-> "absent", version |-> 0]
    /\ requests = {} /\ events = <<>>
    /\ hook \in [Hooks -> {{}, {"quarantined"}, EventTypes}]
    /\ delivery = [d \in Deliveries |-> NoDelivery]
    /\ posting = {}
    /\ posts = [d \in Deliveries |-> 0]
    /\ hookReplays = [d \in Deliveries |-> 0]
    /\ hookBudget \in HookBudgets

-----------------------------------------------------------------------------
(* Transitions and their events                                            *)

\* An operator decides on the version it reads.
ReadArtifactQuarantine(state) ==
    /\ hookBudget.requests > 0
    /\ hookBudget' = [hookBudget EXCEPT !.requests = @ - 1]
    /\ requests' = requests \union {[state |-> state, version |-> quarantine.version]}
    /\ UNCHANGED <<quarantine, events, hook, delivery, posting, posts, hookReplays>>

\* The event, and one delivery for each subscription that asks for its type.
enqueueWebhookEvent(type) ==
    /\ events' = Append(events, type)
    /\ delivery' = [d \in Deliveries |->
                      IF d[1] = Len(events) + 1 /\ type \in hook[d[2]]
                        THEN [NoDelivery EXCEPT !.state = "pending"]
                        ELSE delivery[d]]

\* Mutant: the event is written before the row is found to have moved on.
ReplaceAfterEvent(r) ==
    /\ requests' = requests \ {r}
    /\ enqueueWebhookEvent(r.state)
    /\ quarantine' = IF r.version = quarantine.version
                       THEN [state |-> r.state, version |-> r.version + 1]
                       ELSE quarantine
    /\ UNCHANGED <<hook, posting, posts, hookReplays, hookBudget>>

\* Row and event commit together, or the expected version has passed (or there
\* is nothing to release) and nothing is written.
ReplaceArtifactQuarantine(r) ==
    /\ requests' = requests \ {r}
    /\ IF r.version = quarantine.version /\ (r.version = 0 => r.state = "quarantined")
         THEN /\ quarantine' = [state |-> r.state, version |-> r.version + 1]
              /\ enqueueWebhookEvent(r.state)
         ELSE UNCHANGED <<quarantine, events, delivery>>
    /\ UNCHANGED <<hook, posting, posts, hookReplays, hookBudget>>

\* Created, enabled, disabled or asked for other types: deliveries stay.
UpdateWebhookSubscription(s) ==
    /\ hookBudget.changes > 0
    /\ hookBudget' = [hookBudget EXCEPT !.changes = @ - 1]
    /\ \E types \in {{}, {"quarantined"}, EventTypes} \ {hook[s]} :
          hook' = [hook EXCEPT ![s] = types]
    /\ UNCHANGED <<quarantine, requests, events, delivery, posting, posts,
                   hookReplays>>

-----------------------------------------------------------------------------
(* Deliveries                                                              *)

\* Mutant: the limit applies to retries only, not to expired leases.
CandidateRetried(d) ==
    \/ /\ delivery[d].state \in {"pending", "retrying"}
       /\ delivery[d].attempts < HookAttempts
    \/ delivery[d].state = "delivering" /\ ~delivery[d].live

\* What a claim may take; the database's clock judges leases.
HookCandidate(d) ==
    /\ \/ delivery[d].state \in {"pending", "retrying"}
       \/ delivery[d].state = "delivering" /\ ~delivery[d].live
    /\ delivery[d].attempts < HookAttempts

\* Mutant: an exhausted delivery is left to its worker.
ExhaustedNever(d) == FALSE

Exhausted(d) ==
    /\ delivery[d].state = "delivering" /\ ~delivery[d].live
    /\ delivery[d].attempts >= HookAttempts

SettledDelivery(row, state) == [row EXCEPT !.state = state, !.live = FALSE]

\* One statement: exhausted deliveries die and at most one is claimed.
ClaimWebhookDeliveries ==
    \E chosen \in SUBSET {d \in Deliveries : HookCandidate(d)} :
      /\ \A d, e \in chosen : d = e
      /\ chosen # {} => Cardinality(posting) < hookBudget.workers
      /\ chosen = {} => \A d \in Deliveries : ~HookCandidate(d)
      /\ delivery' = [d \in Deliveries |->
            IF d \in chosen
              THEN [delivery[d] EXCEPT !.state = "delivering", !.live = TRUE,
                                       !.attempts = @ + 1, !.claims = @ + 1]
              ELSE IF Exhausted(d) THEN SettledDelivery(delivery[d], "dead")
              ELSE delivery[d]]
      /\ posting' = posting \union
            {[delivery |-> d, token |-> delivery[d].claims + 1,
              result |-> "none"] : d \in chosen}
      /\ UNCHANGED <<quarantine, requests, events, hook, posts, hookReplays,
                     hookBudget>>

HookLeaseExpires(d) ==
    /\ delivery[d].state = "delivering" /\ delivery[d].live
    /\ delivery' = [delivery EXCEPT ![d].live = FALSE]
    /\ UNCHANGED <<quarantine, requests, events, hook, posting, posts,
                   hookReplays, hookBudget>>

\* The request reaches the endpoint with any outcome, or is never sent.
deliverWebhook(a) ==
    /\ a.result = "none"
    /\ \/ \E result \in {"ok", "failed"} :
            /\ posting' = (posting \ {a}) \union {[a EXCEPT !.result = result]}
            /\ posts' = [posts EXCEPT ![a.delivery] = @ + 1]
       \/ \E result \in {"failed", "permanent"} :
            /\ posting' = (posting \ {a}) \union {[a EXCEPT !.result = result]}
            /\ UNCHANGED posts
    /\ UNCHANGED <<quarantine, requests, events, hook, delivery, hookReplays,
                   hookBudget>>

HoldsHook(a) ==
    /\ delivery[a.delivery].state = "delivering"
    /\ delivery[a.delivery].live
    /\ delivery[a.delivery].claims = a.token

\* What CompleteWebhookDelivery and FailWebhookDelivery make of a result.
HookOutcome(a) ==
    CASE a.result = "ok" -> "succeeded"
      [] a.result = "permanent" \/ delivery[a.delivery].attempts >= HookAttempts -> "dead"
      [] OTHER -> "retrying"

\* Mutant: recorded by the delivery alone.
FinishHookUnfenced(a) ==
    /\ a.result # "none"
    /\ posting' = posting \ {a}
    /\ delivery' = [delivery EXCEPT ![a.delivery] = SettledDelivery(@, HookOutcome(a))]
    /\ UNCHANGED <<quarantine, requests, events, hook, posts, hookReplays,
                   hookBudget>>

\* The result is recorded under the lease, or refused and forgotten.
FinishWebhookDelivery(a) ==
    /\ a.result # "none"
    /\ posting' = posting \ {a}
    /\ delivery' = IF HoldsHook(a)
                     THEN [delivery EXCEPT ![a.delivery] = SettledDelivery(@, HookOutcome(a))]
                     ELSE delivery
    /\ UNCHANGED <<quarantine, requests, events, hook, posts, hookReplays,
                   hookBudget>>

\* The process stops with a claim in hand, before or after its request.
DropHook(a) ==
    /\ posting' = posting \ {a}
    /\ UNCHANGED <<quarantine, requests, events, hook, delivery, posts,
                   hookReplays, hookBudget>>

ReplayWebhookDelivery(d) ==
    /\ delivery[d].state = "dead"
    /\ hookBudget.replays > 0
    /\ hookBudget' = [hookBudget EXCEPT !.replays = @ - 1]
    /\ hookReplays' = [hookReplays EXCEPT ![d] = @ + 1]
    /\ delivery' = [delivery EXCEPT ![d].state = "pending", ![d].attempts = 0]
    /\ UNCHANGED <<quarantine, requests, events, hook, posting, posts>>

-----------------------------------------------------------------------------

WorksOnHook ==
    \E a \in posting : deliverWebhook(a) \/ FinishWebhookDelivery(a) \/ DropHook(a)

HookNext ==
    \/ \E state \in EventTypes : ReadArtifactQuarantine(state)
    \/ \E r \in requests : ReplaceArtifactQuarantine(r)
    \/ \E s \in Hooks : UpdateWebhookSubscription(s)
    \/ ClaimWebhookDeliveries
    \/ WorksOnHook
    \/ \E d \in Deliveries : HookLeaseExpires(d) \/ ReplayWebhookDelivery(d)

HookSpec == HookInit /\ [][HookNext]_hookVars

-----------------------------------------------------------------------------
(* Properties                                                              *)

\* However operators race on one artifact, the events tell its history: one
\* per version, the last one its state, deliveries only of what happened.
EventsTellHistory ==
    /\ Len(events) = quarantine.version
    /\ events # <<>> => events[Len(events)] = quarantine.state
    /\ \A d \in Deliveries : delivery[d].state # "absent" => d[1] <= Len(events)

\* Crashes, expired leases and replays included, an endpoint gets at most the
\* documented eight requests for a delivery and its every replay.
PostsBounded ==
    \A d \in Deliveries : posts[d] <= HookAttempts * (1 + hookReplays[d])

HookPhase(row) ==
    CASE row.state \in {"pending", "retrying"} -> "open"
      [] row.state = "delivering" -> "held"
      [] row.state = "succeeded" -> "done"
      [] row.state = "dead" -> "parked"
      [] OTHER -> "absent"

HookWork == INSTANCE LeasedWork WITH
    Items <- Deliveries,
    Timely <- TRUE,
    phase <- [d \in Deliveries |-> HookPhase(delivery[d])],
    lease <- [d \in Deliveries |-> IF delivery[d].state = "delivering"
                                     THEN delivery[d].claims ELSE 0],
    live <- [d \in Deliveries |-> delivery[d].live],
    hands <- {<<a.delivery, a.token>> : a \in posting}

\* Webhook deliveries are leased work: the late answer of a worker that lost
\* its delivery changes nothing.
HooksAreLeasedWork == HookWork!Spec

ActiveDeliveries ==
    {d \in Deliveries : delivery[d].state \in {"pending", "retrying", "delivering"}}

\* Workers claim on every tick and finish or lose what they hold, and leases
\* run out.
HookFairness ==
    WF_hookVars(\/ ClaimWebhookDeliveries \/ WorksOnHook
                \/ \E d \in Deliveries : HookLeaseExpires(d))

\* Every delivery ends, succeeded or dead, whatever crashes: under a bounded
\* load the queue drains.
EveryHookSettles ==
    HookFairness => ((ActiveDeliveries # {}) ~> (ActiveDeliveries = {}))
=============================================================================
