--------------------------- MODULE EmailDeliveries ---------------------------
(***************************************************************************)
(* The durable e-mail queue and its workers: test mails, quota-alert mails *)
(* and the rules and target they depend on.                                *)
(* internal/repository/postgres_email.go, postgres_quota_alert.go,         *)
(* postgres_quota_evaluation.go, quota_transition.go,                      *)
(* quota_delivery_cancel.go, internal/app/email_notification_worker.go and *)
(* internal/emailnotification/smtp.go.                                     *)
(*                                                                         *)
(* A row's lease is unexpired (live) or not.  Its lease token is the       *)
(* number of the claim that issued it: claims counts the claims of a row,  *)
(* and the row has a token only while it is delivering.  Whether a retry   *)
(* is due is a choice of the claim.  When an alert rule has an event is a  *)
(* choice too (module QuotaAlerts says when); relayed counts, up to two,    *)
(* what the SMTP relay has really accepted, which no table records.        *)
(***************************************************************************)
EXTENDS Naturals, FiniteSets

CONSTANTS
    MailTests,      \* request keys of test mails
    MailRules,      \* quota-alert rules
    MailAttempts,   \* attempts of one mail (8)
    MaxMailEvents,  \* bound: events of one rule
    MailBudgets     \* bounds: the active mails the queue takes (cap, 1000),
                    \* the worker loops, and how many tests, events, replays
                    \* and changes of target and rules a behaviour may have

MailBudget == [cap : Nat, workers : Nat, tests : Nat, events : Nat,
               replays : Nat, targets : Nat, rules : Nat]
Mail == MailTests \union (MailRules \X (1..MaxMailEvents))

ASSUME MailBoundsAssumption ==
    /\ MailAttempts \in Nat \ {0}
    /\ MaxMailEvents \in Nat
    /\ MailBudgets \subseteq MailBudget
ASSUME MailNamesAssumption ==
    MailTests \intersect (MailRules \X (1..MaxMailEvents)) = {}

VARIABLES
    mail,       \* the email_test_deliveries table
    sending,    \* the claims that worker loops work for
    target,     \* the e-mail target: its version, and whether it is enabled
    alertRule,  \* the repository_quota_alert_rules table
    relayed,    \* how often the relay accepted each mail: 0, 1 or more
    replayed,   \* mails an operator has replayed
    mailBudget  \* the cap, and what is left of the bounds

mailVars == <<mail, sending, target, alertRule, relayed, replayed, mailBudget>>

Waiting == {"pending", "retrying"}
ActiveMail == Waiting \union {"delivering"}
MailRow == [state : ActiveMail \union {"absent", "accepted", "dead"},
            attempts : Nat, claims : Nat, version : Nat,
            dup : BOOLEAN, revoked : BOOLEAN, live : BOOLEAN]
Sending == [mail : Mail, token : Nat, live : BOOLEAN,
            at : {"claimed", "cleared", "sent"},
            result : {"", "accepted", "refused", "rejected", "unknown"}]

MailTypeOK ==
    /\ mail \in [Mail -> MailRow]
    /\ sending \subseteq Sending
    /\ target \in [version : Nat, enabled : BOOLEAN]
    /\ alertRule \in [MailRules -> [enabled : BOOLEAN, deleted : BOOLEAN,
                                    version : Nat, sequence : Nat]]
    /\ relayed \in [Mail -> 0..2]
    /\ replayed \subseteq Mail
    /\ mailBudget \in MailBudget

MailInit ==
    /\ mail = [d \in Mail |-> [state |-> "absent", attempts |-> 0, claims |-> 0,
                               version |-> 0, dup |-> FALSE, revoked |-> FALSE,
                               live |-> FALSE]]
    /\ sending = {}
    /\ target = [version |-> 1, enabled |-> TRUE]
    /\ alertRule = [r \in MailRules |-> [enabled |-> TRUE, deleted |-> FALSE,
                                         version |-> 1, sequence |-> 0]]
    /\ relayed = [d \in Mail |-> 0]
    /\ replayed = {}
    /\ mailBudget \in MailBudgets

-----------------------------------------------------------------------------
(* Entering the queue                                                      *)

Spend(what) ==
    /\ mailBudget[what] > 0
    /\ mailBudget' = [mailBudget EXCEPT ![what] = @ - 1]

ActiveMails == {d \in Mail : mail[d].state \in ActiveMail}
QueueFull == Cardinality(ActiveMails) >= mailBudget.cap

NewMail(d, state) ==
    mail' = [mail EXCEPT ![d] =
                [mail[d] EXCEPT !.state = state, !.version = target.version]]

\* A request key that has a row already returns it unchanged.
EnqueueEmailTest(d) ==
    /\ mail[d].state = "absent"
    /\ target.enabled
    /\ ~QueueFull
    /\ NewMail(d, "pending")
    /\ Spend("tests")
    /\ UNCHANGED <<sending, target, alertRule, relayed, replayed>>

\* A full queue still gets the row, as a dead one.
quotaDelivery(d) == NewMail(d, IF QueueFull THEN "dead" ELSE "pending")

\* quotaRouteCode: only a rule that routes to the target's present version
\* gets a mail.
Routed(r) == target.enabled /\ target.version = alertRule[r].version

\* EvaluateNextRepositoryQuotaAlert, when its transition yields an event.
EvaluationYieldsEvent(r) ==
    /\ alertRule[r].enabled /\ ~alertRule[r].deleted
    /\ alertRule[r].sequence < MaxMailEvents
    /\ alertRule' = [alertRule EXCEPT ![r].sequence = @ + 1]
    /\ IF Routed(r)
         THEN quotaDelivery(<<r, alertRule[r].sequence + 1>>)
         ELSE mail' = mail
    /\ Spend("events")
    /\ UNCHANGED <<sending, target, relayed, replayed>>

-----------------------------------------------------------------------------
(* Operators                                                               *)

\* A mail in flight keeps its state: its token may still finish.
Revoked(row) ==
    [row EXCEPT !.revoked = TRUE,
                !.state = IF row.state = "delivering" THEN "delivering" ELSE "dead"]

cancelQuotaDeliveries(r) ==
    mail' = [d \in Mail |->
        IF d \notin MailTests /\ d[1] = r /\ mail[d].state \in ActiveMail
          THEN Revoked(mail[d]) ELSE mail[d]]

ChangeConfiguration(what) ==
    /\ Spend(what)
    /\ UNCHANGED <<sending, relayed, replayed>>

UpdateRepositoryQuotaAlertRule(r, enabled) ==
    /\ ~alertRule[r].deleted
    /\ enabled => target.enabled
    /\ alertRule' = [alertRule EXCEPT ![r].enabled = enabled,
                                      ![r].version = target.version]
    /\ cancelQuotaDeliveries(r)
    /\ ChangeConfiguration("rules")
    /\ UNCHANGED target

DeleteRepositoryQuotaAlertRule(r) ==
    /\ ~alertRule[r].deleted
    /\ alertRule' = [alertRule EXCEPT ![r].enabled = FALSE, ![r].deleted = TRUE]
    /\ cancelQuotaDeliveries(r)
    /\ ChangeConfiguration("rules")
    /\ UNCHANGED target

UpdateEmailTarget(enabled) ==
    /\ target' = [version |-> target.version + 1, enabled |-> enabled]
    /\ ChangeConfiguration("targets")
    /\ UNCHANGED <<mail, alertRule>>

ReplayEmailDelivery(d) ==
    /\ mail[d].state = "dead"
    /\ target = [version |-> mail[d].version, enabled |-> TRUE]
    /\ ~QueueFull
    /\ mail' = [mail EXCEPT ![d] =
                   [mail[d] EXCEPT !.state = "pending", !.attempts = 0, !.revoked = FALSE]]
    /\ replayed' = replayed \union {d}
    /\ Spend("replays")
    /\ UNCHANGED <<sending, target, alertRule, relayed>>

-----------------------------------------------------------------------------
(* The worker                                                              *)

Lost(row) == row.state = "delivering" /\ ~row.live

\* Mutant: only mails that wait die; a lost lease is left to the claim.
SweptWaitingOnly(row) ==
    IF /\ row.revoked \/ row.attempts >= MailAttempts
       /\ row.state \in Waiting
      THEN [row EXCEPT !.state = "dead", !.live = FALSE]
      ELSE row

\* The first two statements of a claim: revoked and exhausted mails die.
Swept(row) ==
    IF /\ row.revoked \/ row.attempts >= MailAttempts
       /\ Lost(row) \/ row.state \in Waiting
      THEN [row EXCEPT !.state = "dead", !.dup = row.dup \/ Lost(row), !.live = FALSE]
      ELSE row

SweptMail == [d \in Mail |-> Swept(mail[d])]

\* An earlier mail of the same rule is still active.
Overtaken(table, d) ==
    /\ d \notin MailTests
    /\ \E n \in 1..(d[2] - 1) : table[<<d[1], n>>].state \in ActiveMail

MailCandidate(table, d) ==
    /\ table[d].state \in Waiting \/ Lost(table[d])
    /\ table[d].attempts < MailAttempts
    /\ ~table[d].revoked
    /\ ~Overtaken(table, d)

ClaimedMail(row) ==
    [row EXCEPT !.state = "delivering", !.dup = row.dup \/ Lost(row),
                !.attempts = row.attempts + 1, !.claims = row.claims + 1, !.live = TRUE]

\* One transaction: the sweep, then the claim of one due candidate.
ClaimEmailDelivery ==
    /\ Cardinality(sending) < mailBudget.workers
    /\ \E d \in Mail :
         /\ MailCandidate(SweptMail, d)
         /\ mail' = [SweptMail EXCEPT ![d] = ClaimedMail(@)]
         /\ sending' = sending \union
                {[mail |-> d, token |-> mail[d].claims + 1, live |-> TRUE,
                  at |-> "claimed", result |-> ""]}
    /\ UNCHANGED <<target, alertRule, relayed, replayed, mailBudget>>

\* No candidate is due: the transaction commits its sweep alone.
ClaimNothing ==
    /\ Cardinality(sending) < mailBudget.workers
    /\ SweptMail # mail
    /\ mail' = SweptMail
    /\ UNCHANGED <<sending, target, alertRule, relayed, replayed, mailBudget>>

\* What the finishing statement matches: token, state and expiry of the row.
HoldsMail(a) ==
    /\ mail[a.mail].state = "delivering"
    /\ mail[a.mail].claims = a.token
    /\ mail[a.mail].live

Proceed(a, at, result) ==
    /\ sending' = (sending \ {a}) \union {[a EXCEPT !.at = at, !.result = result]}
    /\ UNCHANGED <<mail, target, alertRule, replayed, mailBudget>>

\* The worker reads the target and sends by its own clock, before the
\* attempt's deadline, which lies before the end of its lease.
GetEmailTarget(a) ==
    /\ a.at = "claimed" /\ a.live
    /\ IF target = [version |-> mail[a.mail].version, enabled |-> TRUE]
         THEN Proceed(a, "cleared", "")
         ELSE Proceed(a, "sent", "rejected")
    /\ UNCHANGED relayed

\* Mutant: a reply lost after the data was written is an ordinary failure.
SmtpResultsForgetful(accepted) ==
    IF accepted THEN {"accepted", "refused"} ELSE {"refused", "rejected", "unknown"}

\* What Send may report, by whether the relay has accepted the mail: after
\* the data only a reply tells, and a missing one is "unknown".
smtpResult(accepted) ==
    IF accepted THEN {"accepted", "unknown"} ELSE {"refused", "rejected", "unknown"}

Send(a) ==
    /\ a.at = "cleared" /\ a.live
    /\ \E accepted \in BOOLEAN : \E result \in smtpResult(accepted) :
         /\ Proceed(a, "sent", result)
         /\ relayed' = [relayed EXCEPT ![a.mail] =
                            IF accepted /\ @ < 2 THEN @ + 1 ELSE @]

Ended(a, row) ==
    [row EXCEPT
        !.state = IF a.result = "accepted" THEN "accepted"
                  ELSE IF \/ row.revoked \/ a.result = "rejected"
                          \/ row.attempts >= MailAttempts THEN "dead"
                  ELSE "retrying",
        !.dup = row.dup \/ a.result = "unknown", !.live = FALSE]

\* Mutant: whoever reports on a mail in flight ends the attempt.
FinishUnfenced(a) ==
    IF mail[a.mail].state = "delivering"
      THEN mail' = [mail EXCEPT ![a.mail] = Ended(a, @)]
      ELSE mail' = mail

\* A worker whose lease has ended or has been replaced changes nothing.
FinishEmailDelivery(a) ==
    IF HoldsMail(a)
      THEN mail' = [mail EXCEPT ![a.mail] = Ended(a, @)]
      ELSE mail' = mail

Report(a) ==
    /\ a.at = "sent"
    /\ FinishEmailDelivery(a)
    /\ sending' = sending \ {a}
    /\ UNCHANGED <<target, alertRule, relayed, replayed, mailBudget>>

\* The process stops, the store fails or the deadline passes: the claim is
\* forgotten without a report.
DropMail(a) ==
    /\ sending' = sending \ {a}
    /\ UNCHANGED <<mail, target, alertRule, relayed, replayed, mailBudget>>

\* Thirty seconds pass: the lease and its holder's deadline are over.
MailLeaseExpires(d) ==
    /\ mail[d].state = "delivering" /\ mail[d].live
    /\ mail' = [mail EXCEPT ![d] = [mail[d] EXCEPT !.live = FALSE]]
    /\ sending' = {IF a.mail = d /\ a.token = mail[d].claims
                      THEN [a EXCEPT !.live = FALSE] ELSE a : a \in sending}
    /\ UNCHANGED <<target, alertRule, relayed, replayed, mailBudget>>

-----------------------------------------------------------------------------

ClaimsMail == ClaimEmailDelivery \/ ClaimNothing
WorksOnMail ==
    \E a \in sending : GetEmailTarget(a) \/ Send(a) \/ Report(a) \/ DropMail(a)

MailNext ==
    \/ \E d \in MailTests : EnqueueEmailTest(d)
    \/ \E r \in MailRules :
         \/ EvaluationYieldsEvent(r)
         \/ \E enabled \in BOOLEAN : UpdateRepositoryQuotaAlertRule(r, enabled)
         \/ DeleteRepositoryQuotaAlertRule(r)
    \/ \E enabled \in BOOLEAN : UpdateEmailTarget(enabled)
    \/ \E d \in Mail : ReplayEmailDelivery(d) \/ MailLeaseExpires(d)
    \/ ClaimsMail \/ WorksOnMail

MailSpec == MailInit /\ [][MailNext]_mailVars

-----------------------------------------------------------------------------
(* Properties                                                              *)

\* The queue as leased work: an accepted mail is done, a dead one parked.
MailPhase(row) ==
    CASE row.state \in Waiting -> "open"
      [] row.state = "delivering" -> "held"
      [] row.state = "accepted" -> "done"
      [] row.state = "dead" -> "parked"
      [] OTHER -> "absent"

MailWork == INSTANCE LeasedWork WITH
    Items <- Mail,
    Timely <- TRUE,
    phase <- [d \in Mail |-> MailPhase(mail[d])],
    lease <- [d \in Mail |-> IF mail[d].state = "delivering"
                                THEN mail[d].claims ELSE 0],
    live <- [d \in Mail |-> mail[d].live],
    hands <- {<<a.mail, a.token>> : a \in sending}

\* The e-mail queue is leased work: a mail in flight is settled by the report
\* of the worker that holds its current, unexpired lease, or taken from one
\* whose lease is over, and an accepted mail is never touched again.
MailIsLeasedWork == MailWork!Spec

CanSend(d) == \E a \in sending : a.mail = d /\ a.live /\ a.at # "sent"

\* A recipient may get a mail twice, never unannounced: once the relay has
\* accepted a mail more than once, or has accepted one whose row does not
\* say so and is no longer in flight, possible_duplicate is set.
\* (FinishEmailDelivery, ClaimEmailDelivery and ReplayEmailDelivery: a lost
\* reply, a crash after the send, an expired lease, a late report.)
DuplicatesFlagged ==
    \A d \in Mail :
        \/ relayed[d] = 0
        \/ relayed[d] = 1 /\ mail[d].state \in {"delivering", "accepted"}
        \/ mail[d].dup

\* The alerts of one rule reach the relay in the order of their events:
\* while a worker can still send a mail, no earlier mail of its rule is
\* active or in the hands of a worker that can still send it, unless an
\* operator replayed the earlier one.  (The NOT EXISTS of the claim, the
\* revocation that leaves a mail in flight alone, the fenced report.)
QuotaMailInOrder ==
    \A r \in MailRules : \A n \in 1..MaxMailEvents : \A k \in 1..(n - 1) :
        CanSend(<<r, n>>) =>
            \/ mail[<<r, k>>].state \notin ActiveMail /\ ~CanSend(<<r, k>>)
            \/ <<r, k>> \in replayed

\* A claim loop polls, a claimed mail is sent, reported or dropped within its
\* timeouts, and leases run out.
MailFairness ==
    WF_mailVars(ClaimsMail \/ WorksOnMail \/ \E d \in Mail : MailLeaseExpires(d))

\* Every mail that is queued comes to rest, accepted or dead, whatever
\* workers crash and leases expire: under a bounded load the queue drains.
EveryMailSettles == MailFairness => ((ActiveMails # {}) ~> (ActiveMails = {}))
=============================================================================
