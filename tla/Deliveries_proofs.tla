--------------------------- MODULE Deliveries_proofs ---------------------------
(***************************************************************************)
(* Safety of the two delivery queues.                                      *)
(*                                                                         *)
(* E-mail, for any number of tests, rules, events, worker loops and        *)
(* attempts: possible duplicates are flagged, the alerts of a rule are     *)
(* sent in order, and the queue implements LeasedWork.                     *)
(*                                                                         *)
(* Webhooks, for any number of subscriptions, events, workers, attempts    *)
(* and replays: the events tell the artifact's history, the endpoint gets  *)
(* a bounded number of requests, and the queue implements LeasedWork.      *)
(***************************************************************************)
EXTENDS EmailDeliveries, WebhookDeliveries, FiniteSetTheorems, TLAPS

-----------------------------------------------------------------------------
(* E-mail: the inductive invariant                                         *)

MailRows == /\ mail \in [Mail -> MailRow]
            /\ \A d \in Mail : mail[d].live => mail[d].state = "delivering"

\* The token of a claim identifies it, and has been issued.
SendingKeys ==
    /\ sending \subseteq Sending
    /\ \A a, b \in sending : a.mail = b.mail /\ a.token = b.token => a = b
    /\ \A a \in sending : a.token > 0 /\ a.token <= mail[a.mail].claims

MailRest ==
    /\ target \in [version : Nat, enabled : BOOLEAN]
    /\ alertRule \in [MailRules -> [enabled : BOOLEAN, deleted : BOOLEAN,
                                    version : Nat, sequence : Nat]]
    /\ relayed \in [Mail -> 0..2]
    /\ replayed \subseteq Mail
    /\ mailBudget \in MailBudget

\* A rule has mails for the events it has had.
Issued == \A r \in MailRules : \A n \in 1..MaxMailEvents :
            n > alertRule[r].sequence => mail[<<r, n>>].state = "absent"

\* A worker inside its deadline holds the row.
DeadlineInLease == \A a \in sending : a.live => HoldsMail(a)

\* What the relay has taken and nothing says yet, the holder is about to say.
HolderKnows ==
    \A a \in sending :
        \/ ~(mail[a.mail].state = "delivering" /\ mail[a.mail].claims = a.token)
        \/ relayed[a.mail] = 0
        \/ mail[a.mail].dup
        \/ a.at = "sent" /\ a.result \in {"accepted", "unknown"}

\* No mail is in flight, inside its lease, before an active earlier one.
InFlightInOrder ==
    \A r \in MailRules : \A n \in 1..MaxMailEvents : \A k \in 1..(n - 1) :
        mail[<<r, n>>].live =>
            mail[<<r, k>>].state \notin ActiveMail \/ <<r, k>> \in replayed

MInv == /\ MailRows /\ SendingKeys /\ MailRest /\ Issued /\ DeadlineInLease
        /\ HolderKnows /\ DuplicatesFlagged /\ InFlightInOrder

-----------------------------------------------------------------------------
(* What a step may do to a row                                             *)

MailHands == {<<a.mail, a.token>> : a \in sending}

Keeps(d) == /\ mail'[d].state = mail[d].state /\ mail'[d].claims = mail[d].claims
            /\ mail'[d].live = mail[d].live /\ mail'[d].dup = mail[d].dup
Sets(d) == /\ mail[d].state \in Waiting \union {"absent", "dead"}
           /\ mail'[d].state \in Waiting \union {"dead"}
           /\ mail'[d].claims = mail[d].claims /\ mail'[d].dup = mail[d].dup
Loses(d) == /\ mail[d].state = "delivering" /\ ~mail[d].live
            /\ mail'[d].state = "dead"
            /\ mail'[d].claims = mail[d].claims /\ mail'[d].dup
Expires(d) == /\ mail[d].state = "delivering" /\ mail'[d].state = "delivering"
              /\ ~mail'[d].live
              /\ mail'[d].claims = mail[d].claims /\ mail'[d].dup = mail[d].dup
EndsMail(d) == /\ mail[d].state = "delivering" /\ mail[d].live
           /\ <<d, mail[d].claims>> \in MailHands \ MailHands'
           /\ mail'[d].state \in {"accepted", "retrying", "dead"}
           /\ mail'[d].claims = mail[d].claims /\ (mail[d].dup => mail'[d].dup)
Takes(d) == /\ mail[d].state \in Waiting \/ (mail[d].state = "delivering" /\ ~mail[d].live)
            /\ mail'[d].state = "delivering" /\ mail'[d].live
            /\ mail'[d].claims = mail[d].claims + 1
            /\ <<d, mail'[d].claims>> \in MailHands' \ MailHands
            /\ (mail[d].dup \/ mail[d].state = "delivering") => mail'[d].dup
MailMove(d) == Keeps(d) \/ Sets(d) \/ Loses(d) \/ Expires(d) \/ EndsMail(d) \/ Takes(d)

-----------------------------------------------------------------------------
(* Rows                                                                    *)

\* The sweep kills a waiting or lost mail and flags the lost one.
LEMMA SweptRow ==
    ASSUME NEW r \in MailRow
    PROVE  /\ Swept(r) \in MailRow
           /\ \/ Swept(r) = r
              \/ /\ Lost(r) \/ r.state \in Waiting
                 /\ Swept(r).state = "dead" /\ Swept(r).live = FALSE
                 /\ Swept(r).claims = r.claims /\ Swept(r).dup = (r.dup \/ Lost(r))
<1> DEFINE s == [r EXCEPT !.state = "dead", !.dup = r.dup \/ Lost(r), !.live = FALSE]
<1>1. Swept(r) = r \/ (Swept(r) = s /\ (Lost(r) \/ r.state \in Waiting))
  BY Zenon DEF Swept
<1>2. /\ s \in MailRow /\ s.state = "dead" /\ s.live = FALSE /\ s.claims = r.claims
      /\ s.dup = (r.dup \/ Lost(r))
  BY Zenon DEF MailRow
<1> QED
  BY Zenon, <1>1, <1>2

\* The claim issues the next token and flags the lost mail it takes over.
LEMMA ClaimedMailRow ==
    ASSUME NEW r \in MailRow
    PROVE  /\ ClaimedMail(r) \in MailRow
           /\ ClaimedMail(r).state = "delivering" /\ ClaimedMail(r).live = TRUE
           /\ ClaimedMail(r).claims = r.claims + 1
           /\ ClaimedMail(r).dup = (r.dup \/ Lost(r))
<1>1. r.attempts + 1 \in Nat /\ r.claims + 1 \in Nat
  BY DEF MailRow
<1>2. ClaimedMail(r) \in MailRow
  BY Zenon, <1>1 DEF ClaimedMail, MailRow, ActiveMail
<1> QED
  BY Zenon, <1>2 DEF ClaimedMail, MailRow

\* The report ends the attempt and flags what it does not know.
LEMMA EndedRow ==
    ASSUME NEW r \in MailRow, NEW a
    PROVE  /\ Ended(a, r) \in MailRow /\ Ended(a, r).live = FALSE
           /\ Ended(a, r).claims = r.claims
           /\ Ended(a, r).state \in {"accepted", "retrying", "dead"}
           /\ Ended(a, r).state # "accepted" => a.result # "accepted"
           /\ Ended(a, r).dup = (r.dup \/ a.result = "unknown")
<1> DEFINE st == IF a.result = "accepted" THEN "accepted"
                 ELSE IF \/ r.revoked \/ a.result = "rejected"
                         \/ r.attempts >= MailAttempts THEN "dead"
                 ELSE "retrying"
<1>1. st \in {"accepted", "retrying", "dead"} /\ (st # "accepted" => a.result # "accepted")
  BY Zenon
<1>2. Ended(a, r) = [r EXCEPT !.state = st, !.dup = r.dup \/ a.result = "unknown",
                              !.live = FALSE]
  BY Zenon DEF Ended
<1> HIDE DEF st
<1>3. /\ Ended(a, r).state = st /\ Ended(a, r).live = FALSE /\ Ended(a, r).claims = r.claims
      /\ Ended(a, r).dup = (r.dup \/ a.result = "unknown")
  BY Zenon, <1>2 DEF MailRow
<1>4. Ended(a, r) \in MailRow
  BY Zenon, <1>1, <1>2 DEF MailRow, ActiveMail, Waiting
<1> QED
  BY Zenon, <1>1, <1>3, <1>4

\* The revocation leaves a mail in flight in flight.
LEMMA RevokedRow ==
    ASSUME NEW r \in MailRow
    PROVE  /\ Revoked(r) \in MailRow /\ Revoked(r).claims = r.claims
           /\ Revoked(r).live = r.live /\ Revoked(r).dup = r.dup
           /\ Revoked(r).state = IF r.state = "delivering" THEN "delivering" ELSE "dead"
  BY Zenon DEF Revoked, MailRow, ActiveMail
\* The replay queues a mail with its history.
LEMMA ReplayedRow ==
    ASSUME NEW r \in MailRow
    PROVE  LET s == [r EXCEPT !.state = "pending", !.attempts = 0, !.revoked = FALSE]
           IN  /\ s \in MailRow /\ s.state = "pending" /\ s.claims = r.claims
               /\ s.live = r.live /\ s.dup = r.dup
<1>1. 0 \in Nat
  OBVIOUS
<1> QED
  BY Zenon, <1>1 DEF MailRow, ActiveMail, Waiting
\* The end of a lease leaves the rest of the row.
LEMMA ExpiredRow ==
    ASSUME NEW r \in MailRow
    PROVE  LET s == [r EXCEPT !.live = FALSE]
           IN  /\ s \in MailRow /\ s.state = r.state /\ s.claims = r.claims
               /\ s.live = FALSE /\ s.dup = r.dup
  BY Zenon DEF MailRow

-----------------------------------------------------------------------------
(* Steps of the table that leave the workers alone                         *)

Quiet(d) == Keeps(d) \/ Sets(d) \/ Loses(d)

\* What becomes active was replayed, or has no later mail in flight.
Orderly ==
    \A r \in MailRules : \A n \in 1..MaxMailEvents : \A k \in 1..(n - 1) :
        /\ mail'[<<r, n>>].live
        /\ mail'[<<r, k>>].state \in ActiveMail
        => <<r, k>> \in replayed' \/ mail[<<r, k>>].state \in ActiveMail

\* A mail of a rule is a mail.
LEMMA RuleMail ==
    ASSUME NEW r \in MailRules, NEW n \in 1..MaxMailEvents
    PROVE  <<r, n>> \in Mail /\ \A k \in 1..(n - 1) : <<r, k>> \in Mail
  BY MailBoundsAssumption DEF Mail

\* What a quiet step leaves of a row.
LEMMA QuietRow ==
    ASSUME MailRows, MailRows', NEW d \in Mail, Quiet(d)
    PROVE  /\ mail'[d].claims = mail[d].claims
           /\ mail[d].dup => mail'[d].dup
           /\ mail'[d].live <=> mail[d].live
           /\ mail'[d].state = "delivering" => mail[d].state = "delivering"
           /\ mail[d].state = "delivering" /\ mail[d].live => mail'[d].state = "delivering"
           /\ mail[d].state = "accepted" => mail'[d].state = "accepted"
           /\ mail[d].state = "delivering" => mail'[d].state = "delivering" \/ mail'[d].dup
<1>1. /\ mail[d].live => mail[d].state = "delivering"
      /\ mail'[d].live => mail'[d].state = "delivering"
  BY Zenon DEF MailRows
<1>2. CASE Keeps(d)
  BY Zenon, <1>2 DEF Keeps
<1>3. CASE Sets(d)
  BY <1>1, <1>3 DEF Sets, Waiting
<1>4. CASE Loses(d)
  BY <1>1, <1>4 DEF Loses
<1> QED
  BY Zenon, <1>2, <1>3, <1>4 DEF Quiet

\* A quiet step keeps the invariant.
LEMMA QuietMailInv ==
    ASSUME MInv, MailRows', MailRest', Issued', sending' = sending, relayed' = relayed,
           replayed \subseteq replayed', \A d \in Mail : Quiet(d), Orderly
    PROVE  MInv'
<1>0. \A a \in sending : a.mail \in Mail
  BY Zenon DEF MInv, SendingKeys, Sending
<1>1. SendingKeys'
  BY Zenon, <1>0, QuietRow DEF MInv, SendingKeys
<1>2. DeadlineInLease'
  BY Zenon, <1>0, QuietRow DEF MInv, DeadlineInLease, HoldsMail
<1>3. HolderKnows'
  BY Zenon, <1>0, QuietRow DEF MInv, HolderKnows
<1>4. DuplicatesFlagged'
  BY Zenon, QuietRow DEF MInv, DuplicatesFlagged
<1>5. InFlightInOrder'
  <2> SUFFICES ASSUME NEW r \in MailRules, NEW n \in 1..MaxMailEvents, NEW k \in 1..(n - 1),
                      mail'[<<r, n>>].live, mail'[<<r, k>>].state \in ActiveMail
               PROVE  <<r, k>> \in replayed'
    BY Zenon DEF InFlightInOrder
  <2>1. <<r, n>> \in Mail
    BY Zenon, RuleMail
  <2>2. mail[<<r, n>>].live
    BY Zenon, <2>1, QuietRow DEF MInv
  <2> QED
    BY Zenon, <2>2 DEF Orderly, MInv, InFlightInOrder
<1> QED
  BY Zenon, <1>1, <1>2, <1>3, <1>4, <1>5 DEF MInv

\* One row is written; the others keep what they have.
LEMMA OneQuietRow ==
    ASSUME MInv, NEW d \in Mail, NEW s \in MailRow, mail' = [mail EXCEPT ![d] = s],
           s.claims = mail[d].claims, s.live = mail[d].live, s.dup = mail[d].dup,
           mail[d].state \in {"absent", "dead"}, s.state \in {"pending", "dead"}
    PROVE  /\ MailRows' /\ mail'[d] = s /\ \A c \in Mail : Quiet(c)
           /\ \A c \in Mail \ {d} : mail'[c] = mail[c]
<1>1. mail'[d] = s /\ \A c \in Mail \ {d} : mail'[c] = mail[c]
  BY Zenon DEF MInv, MailRows
<1>2. ~s.live
  <2>1. mail[d].state # "delivering"
    OBVIOUS
  <2> QED
    BY Zenon, <2>1 DEF MInv, MailRows
<1>3. MailRows'
  BY Zenon, <1>1, <1>2 DEF MInv, MailRows
<1>4. Sets(d)
  BY Zenon, <1>1 DEF Sets, Waiting
<1> QED
  BY Zenon, <1>1, <1>3, <1>4 DEF Quiet, Keeps

\* A mail enters the queue, or the graveyard.
LEMMA NewMailRows ==
    ASSUME MInv, NEW d \in Mail, mail[d].state = "absent",
           NEW st \in {"pending", "dead"}, NewMail(d, st)
    PROVE  /\ MailRows' /\ \A c \in Mail : Quiet(c)
           /\ \A c \in Mail \ {d} : mail'[c] = mail[c]
<1> DEFINE s == [mail[d] EXCEPT !.state = st, !.version = target.version]
<1>0. mail[d] \in MailRow /\ target.version \in Nat
  BY DEF MInv, MailRows, MailRest
<1>1. mail' = [mail EXCEPT ![d] = s]
  BY Zenon DEF NewMail
<1>2. /\ s \in MailRow /\ s.state = st /\ s.claims = mail[d].claims
      /\ s.live = mail[d].live /\ s.dup = mail[d].dup
  BY Zenon, <1>0 DEF MailRow, ActiveMail, Waiting
<1> HIDE DEF s
<1> QED
  BY Zenon, <1>1, <1>2, OneQuietRow

\* Spending keeps the budget a budget.
LEMMA SpendType ==
    ASSUME mailBudget \in MailBudget,
           NEW what \in {"tests", "events", "replays", "targets", "rules"}, Spend(what)
    PROVE  mailBudget' \in MailBudget
<1>1. mailBudget[what] \in Nat
  BY DEF MailBudget
<1>2. mailBudget[what] - 1 \in Nat
  BY <1>1 DEF Spend
<1>3. mailBudget' = [mailBudget EXCEPT ![what] = mailBudget[what] - 1]
  BY Zenon DEF Spend
<1> QED
  BY Zenon, <1>2, <1>3 DEF MailBudget

\* What the steps below are shown to do.
QuietMailStep == MInv' /\ sending' = sending /\ \A d \in Mail : Quiet(d)

\* A test mail enters the queue.
LEMMA EnqueueStep ==
    ASSUME MInv, NEW d \in MailTests, EnqueueEmailTest(d)
    PROVE  QuietMailStep
<1>0. d \in Mail
  BY DEF Mail
<1>1. /\ mail[d].state = "absent" /\ NewMail(d, "pending")
      /\ sending' = sending /\ relayed' = relayed /\ replayed' = replayed
      /\ UNCHANGED <<target, alertRule>> /\ Spend("tests")
  BY Zenon DEF EnqueueEmailTest
<1>3. /\ MailRows' /\ \A c \in Mail : Quiet(c)
      /\ \A c \in Mail \ {d} : mail'[c] = mail[c]
  BY Zenon, <1>0, <1>1, NewMailRows
<1>4. MailRest'
  BY Zenon, <1>1, SpendType DEF MInv, MailRest
<1>5. \A r \in MailRules : \A n \in 1..MaxMailEvents : mail'[<<r, n>>] = mail[<<r, n>>]
  <2>1. \A r \in MailRules : \A n \in 1..MaxMailEvents : <<r, n>> \in Mail /\ <<r, n>> # d
    BY MailNamesAssumption DEF Mail
  <2> QED
    BY Zenon, <1>3, <2>1
<1>6. Issued'
  BY Zenon, <1>1, <1>5 DEF MInv, Issued
<1>7. \A n \in 1..MaxMailEvents : \A k \in 1..(n - 1) : k \in 1..MaxMailEvents
  BY MailBoundsAssumption
<1>8. Orderly
  BY Zenon, <1>5, <1>7 DEF Orderly
<1> QED
  BY Zenon, <1>1, <1>3, <1>4, <1>6, <1>8, QuietMailInv DEF QuietMailStep

\* A rule's event enters the queue, or dies at its door.
LEMMA EvaluationStep ==
    ASSUME MInv, NEW r \in MailRules, EvaluationYieldsEvent(r)
    PROVE  QuietMailStep
<1> DEFINE e == alertRule[r].sequence + 1
           d == <<r, e>>
<1>0. /\ alertRule[r] \in [enabled : BOOLEAN, deleted : BOOLEAN, version : Nat, sequence : Nat]
      /\ target.version \in Nat
  BY DEF MInv, MailRest
<1>1. e \in 1..MaxMailEvents /\ e > alertRule[r].sequence /\ alertRule[r].sequence \in Nat
  BY <1>0, MailBoundsAssumption DEF EvaluationYieldsEvent
<1>2. d \in Mail /\ mail[d].state = "absent" /\ mail[d] \in MailRow
  BY Zenon, <1>1, RuleMail DEF MInv, Issued, MailRows
<1>3. /\ alertRule' = [alertRule EXCEPT ![r].sequence = e]
      /\ sending' = sending /\ relayed' = relayed /\ replayed' = replayed
      /\ UNCHANGED target /\ Spend("events")
  BY Zenon DEF EvaluationYieldsEvent
<1>4. /\ alertRule'[r].sequence = e
      /\ \A q \in MailRules \ {r} : alertRule'[q] = alertRule[q]
  BY Zenon, <1>3 DEF MInv, MailRest
<1>5. alertRule' \in [MailRules -> [enabled : BOOLEAN, deleted : BOOLEAN,
                                    version : Nat, sequence : Nat]]
  <2>1. e \in Nat
    BY <1>1
  <2>2. alertRule' = [alertRule EXCEPT ![r] = [alertRule[r] EXCEPT !.sequence = e]]
    BY Zenon, <1>3
  <2>3. [alertRule[r] EXCEPT !.sequence = e] \in
          [enabled : BOOLEAN, deleted : BOOLEAN, version : Nat, sequence : Nat]
    BY Zenon, <1>0, <2>1
  <2> QED
    BY Zenon, <2>2, <2>3 DEF MInv, MailRest
<1>6. MailRest'
  BY Zenon, <1>3, <1>5, SpendType DEF MInv, MailRest
<1>7. /\ MailRows' /\ \A c \in Mail : Quiet(c)
      /\ \A c \in Mail \ {d} : mail'[c] = mail[c]
  <2>1. CASE mail' = mail
    BY Zenon, <2>1 DEF MInv, MailRows, Quiet, Keeps
  <2>2. ASSUME NEW st \in {"pending", "dead"}, NewMail(d, st)
        PROVE  /\ MailRows' /\ \A c \in Mail : Quiet(c)
               /\ \A c \in Mail \ {d} : mail'[c] = mail[c]
    <3> HIDE DEF d
    <3> QED
      BY Zenon, <1>2, <2>2, NewMailRows
  <2> QED
    BY Zenon, <2>1, <2>2 DEF EvaluationYieldsEvent, quotaDelivery
<1>8. ASSUME NEW q \in MailRules, NEW n \in 1..MaxMailEvents, <<q, n>> # d
      PROVE  mail'[<<q, n>>] = mail[<<q, n>>]
  BY Zenon, <1>7, <1>8, RuleMail
<1>9. Issued'
  <2> SUFFICES ASSUME NEW q \in MailRules, NEW n \in 1..MaxMailEvents,
                      n > alertRule'[q].sequence
               PROVE  mail'[<<q, n>>].state = "absent"
    BY Zenon DEF Issued
  <2>1. CASE q = r
    <3>1. n > alertRule[r].sequence /\ <<q, n>> # d
      BY <1>1, <1>4, <2>1
    <3> QED
      BY Zenon, <1>8, <2>1, <3>1 DEF MInv, Issued
  <2>2. CASE q # r
    <3>1. <<q, n>> # d
      BY <2>2
    <3> QED
      BY Zenon, <1>4, <1>8, <2>2, <3>1 DEF MInv, Issued
  <2> QED
    BY Zenon, <2>1, <2>2
<1>10. Orderly
  <2> SUFFICES ASSUME NEW q \in MailRules, NEW n \in 1..MaxMailEvents, NEW k \in 1..(n - 1),
                      mail'[<<q, n>>].live, mail'[<<q, k>>].state \in ActiveMail
               PROVE  mail[<<q, k>>].state \in ActiveMail
    BY Zenon DEF Orderly
  <2>0. k \in 1..MaxMailEvents /\ <<q, n>> \in Mail
    BY RuleMail, MailBoundsAssumption
  <2>1. CASE <<q, k>> # d
    BY Zenon, <1>8, <2>0, <2>1
  <2>2. CASE <<q, k>> = d
    <3>1. q = r /\ n > alertRule[r].sequence
      BY <1>1, <2>2
    <3>2. mail[<<q, n>>].state = "absent"
      BY Zenon, <3>1 DEF MInv, Issued
    <3>3. mail[<<q, n>>].live
      BY Zenon, <1>7, <2>0, QuietRow DEF MInv
    <3>4. mail[<<q, n>>].state = "delivering"
      BY Zenon, <2>0, <3>3 DEF MInv, MailRows
    <3> QED
      BY <3>2, <3>4
  <2> QED
    BY Zenon, <2>1, <2>2
<1> QED
  BY Zenon, <1>3, <1>6, <1>7, <1>9, <1>10, QuietMailInv DEF QuietMailStep

\* A change of a rule revokes its mails; one in flight stays in flight.
LEMMA CancelMailStep ==
    ASSUME MInv, NEW r \in MailRules, cancelQuotaDeliveries(r), MailRest',
           \A q \in MailRules : alertRule'[q].sequence = alertRule[q].sequence,
           UNCHANGED <<sending, relayed, replayed>>
    PROVE  QuietMailStep
<1>1. \A d \in Mail : /\ mail'[d] = mail[d] \/ (mail'[d] = Revoked(mail[d])
                                                /\ mail[d].state \in ActiveMail)
                      /\ mail[d] \in MailRow
  BY Zenon DEF cancelQuotaDeliveries, MInv, MailRows
<1>2. ASSUME NEW d \in Mail
      PROVE  /\ mail'[d] \in MailRow
             /\ Keeps(d) \/ (mail[d].state \in Waiting /\ Sets(d) /\ mail'[d].state = "dead")
             /\ mail'[d].live => mail'[d].state = "delivering"
  <2>1. CASE mail'[d] = mail[d]
    BY Zenon, <1>1, <2>1 DEF Keeps, MInv, MailRows
  <2>2. CASE mail'[d] = Revoked(mail[d]) /\ mail[d].state \in ActiveMail
    <3>1. /\ mail'[d] \in MailRow /\ mail'[d].claims = mail[d].claims
          /\ mail'[d].live = mail[d].live /\ mail'[d].dup = mail[d].dup
          /\ mail'[d].state = IF mail[d].state = "delivering" THEN "delivering" ELSE "dead"
      BY ZenonT(40), <1>1, <2>2, RevokedRow
    <3>2. mail[d].live => mail[d].state = "delivering"
      BY Zenon DEF MInv, MailRows
    <3> QED
      BY Zenon, <2>2, <3>1, <3>2 DEF Keeps, Sets, ActiveMail
  <2> QED
    BY Zenon, <1>1, <2>1, <2>2
<1>3. MailRows'
  <2>1. mail' \in [Mail -> MailRow]
    BY Zenon, <1>2 DEF cancelQuotaDeliveries
  <2> QED
    BY Zenon, <1>2, <2>1 DEF MailRows
<1>4. \A d \in Mail : Quiet(d)
  BY Zenon, <1>2 DEF Quiet
<1>5. \A d \in Mail : mail'[d].state \in ActiveMail => mail[d].state \in ActiveMail
  BY Zenon, <1>2 DEF Keeps, ActiveMail
<1>6. \A d \in Mail : mail[d].state = "absent" => mail'[d].state = "absent"
  <2>1. \A d \in Mail : mail[d].state \in Waiting => mail[d].state # "absent"
    BY DEF Waiting
  <2> QED
    BY Zenon, <1>2, <2>1 DEF Keeps
<1>7. Issued'
  BY Zenon, <1>6, RuleMail DEF MInv, Issued
<1>8. Orderly
  BY Zenon, <1>5, RuleMail DEF Orderly
<1> QED
  BY Zenon, <1>3, <1>4, <1>7, <1>8, QuietMailInv DEF QuietMailStep

\* What a change of a rule leaves of the rest.
LEMMA RuleStep ==
    ASSUME MInv, NEW r \in MailRules,
           \/ \E enabled \in BOOLEAN : UpdateRepositoryQuotaAlertRule(r, enabled)
           \/ DeleteRepositoryQuotaAlertRule(r)
    PROVE  QuietMailStep
<1> DEFINE Rule == [enabled : BOOLEAN, deleted : BOOLEAN, version : Nat, sequence : Nat]
<1>0. alertRule \in [MailRules -> Rule] /\ alertRule[r] \in Rule /\ target.version \in Nat
  BY DEF MInv, MailRest
<1>1. ASSUME NEW e \in BOOLEAN, UpdateRepositoryQuotaAlertRule(r, e)
      PROVE  /\ alertRule' \in [MailRules -> Rule]
             /\ \A q \in MailRules : alertRule'[q].sequence = alertRule[q].sequence
  <2> DEFINE s == [alertRule[r] EXCEPT !.enabled = e, !.version = target.version]
  <2>1. alertRule' = [alertRule EXCEPT ![r] = s]
    BY Zenon, <1>1 DEF UpdateRepositoryQuotaAlertRule
  <2>2. s \in Rule /\ s.sequence = alertRule[r].sequence
    BY Zenon, <1>0
  <2> HIDE DEF s
  <2> QED
    BY Zenon, <1>0, <2>1, <2>2
<1>2. ASSUME DeleteRepositoryQuotaAlertRule(r)
      PROVE  /\ alertRule' \in [MailRules -> Rule]
             /\ \A q \in MailRules : alertRule'[q].sequence = alertRule[q].sequence
  <2> DEFINE s == [alertRule[r] EXCEPT !.enabled = FALSE, !.deleted = TRUE]
  <2>1. alertRule' = [alertRule EXCEPT ![r] = s]
    BY Zenon, <1>2 DEF DeleteRepositoryQuotaAlertRule
  <2>2. s \in Rule /\ s.sequence = alertRule[r].sequence
    BY Zenon, <1>0
  <2> HIDE DEF s
  <2> QED
    BY Zenon, <1>0, <2>1, <2>2
<1>3. /\ cancelQuotaDeliveries(r) /\ Spend("rules")
      /\ UNCHANGED <<target, sending, relayed, replayed>>
  BY Zenon DEF UpdateRepositoryQuotaAlertRule, DeleteRepositoryQuotaAlertRule,
               ChangeConfiguration
<1>4. MailRest'
  BY Zenon, <1>1, <1>2, <1>3, SpendType DEF MInv, MailRest
<1> QED
  BY Zenon, <1>1, <1>2, <1>3, <1>4, CancelMailStep

\* A new version of the target touches no mail.
LEMMA TargetStep ==
    ASSUME MInv, NEW e \in BOOLEAN, UpdateEmailTarget(e)
    PROVE  QuietMailStep
<1>1. /\ UNCHANGED <<mail, alertRule, sending, relayed, replayed>> /\ Spend("targets")
      /\ target' = [version |-> target.version + 1, enabled |-> e]
  BY Zenon DEF UpdateEmailTarget, ChangeConfiguration
<1>2. target' \in [version : Nat, enabled : BOOLEAN]
  BY <1>1 DEF MInv, MailRest
<1>3. MailRest'
  BY Zenon, <1>1, <1>2, SpendType DEF MInv, MailRest
<1>4. MailRows' /\ Issued' /\ Orderly /\ \A d \in Mail : Quiet(d)
  BY Zenon, <1>1 DEF MInv, MailRows, Issued, Orderly, Quiet, Keeps
<1> QED
  BY Zenon, <1>1, <1>3, <1>4, QuietMailInv DEF QuietMailStep

\* A dead mail is queued again, and known to be a replay.
LEMMA ReplayStep ==
    ASSUME MInv, NEW d \in Mail, ReplayEmailDelivery(d)
    PROVE  QuietMailStep
<1> DEFINE s == [mail[d] EXCEPT !.state = "pending", !.attempts = 0, !.revoked = FALSE]
<1>1. /\ mail[d].state = "dead" /\ mail' = [mail EXCEPT ![d] = s] /\ Spend("replays")
      /\ replayed' = replayed \union {d}
      /\ UNCHANGED <<sending, target, alertRule, relayed>>
  BY Zenon DEF ReplayEmailDelivery
<1>2. mail[d] \in MailRow
  BY Zenon DEF MInv, MailRows
<1>3. /\ s \in MailRow /\ s.state = "pending" /\ s.claims = mail[d].claims
      /\ s.live = mail[d].live /\ s.dup = mail[d].dup
  BY Zenon, <1>2, ReplayedRow
<1> HIDE DEF s
<1>4. /\ MailRows' /\ \A c \in Mail : Quiet(c)
      /\ \A c \in Mail \ {d} : mail'[c] = mail[c]
  BY Zenon, <1>1, <1>3, OneQuietRow
<1>5. MailRest'
  BY Zenon, <1>1, SpendType DEF MInv, MailRest
<1>6. mail[d].state # "absent"
  BY <1>1
<1>7. Issued'
  BY Zenon, <1>1, <1>4, <1>6, RuleMail DEF MInv, Issued
<1>8. Orderly
  BY Zenon, <1>1, <1>4, RuleMail DEF Orderly
<1> QED
  BY Zenon, <1>1, <1>4, <1>5, <1>7, <1>8, QuietMailInv DEF QuietMailStep

\* What the sweep does to a row.
LEMMA SweepMoves ==
    ASSUME MInv, NEW d \in Mail
    PROVE  /\ SweptMail[d] \in MailRow
           /\ SweptMail[d] = mail[d] \/ SweptMail[d].state = "dead"
           /\ SweptMail[d].live => SweptMail[d].state = "delivering"
           /\ mail'[d] = SweptMail[d] => Quiet(d)
<1>0. SweptMail[d] = Swept(mail[d]) /\ mail[d] \in MailRow
  BY Zenon DEF SweptMail, MInv, MailRows
<1>1. CASE Swept(mail[d]) = mail[d]
  BY Zenon, <1>0, <1>1 DEF Quiet, Keeps, MInv, MailRows
<1>2. CASE /\ Lost(mail[d]) \/ mail[d].state \in Waiting
           /\ Swept(mail[d]).state = "dead" /\ Swept(mail[d]).live = FALSE
           /\ Swept(mail[d]).claims = mail[d].claims
           /\ Swept(mail[d]).dup = (mail[d].dup \/ Lost(mail[d]))
  <2>1. mail[d].dup \in BOOLEAN /\ (mail[d].state \in Waiting => mail[d].state # "delivering")
    BY <1>0 DEF MailRow, Waiting
  <2>2. CASE Lost(mail[d])
    <3>1. Swept(mail[d]) \in MailRow
      BY Zenon, <1>0, SweptRow
    <3>2. Swept(mail[d]).dup /\ ~Swept(mail[d]).live
      BY Zenon, <1>2, <2>2
    <3>3. mail'[d] = SweptMail[d] => Loses(d)
      BY Zenon, <1>0, <1>2, <2>2, <3>2 DEF Loses, Lost
    <3> QED
      BY Zenon, <1>0, <1>2, <3>1, <3>2, <3>3 DEF Quiet
  <2>3. CASE mail[d].state \in Waiting
    <3>1. ~Lost(mail[d])
      BY Zenon, <2>1, <2>3 DEF Lost
    <3>2. Swept(mail[d]).dup = mail[d].dup
      BY Zenon, <1>2, <2>1, <3>1
    <3> QED
      BY Zenon, <1>0, <1>2, <2>3, <3>2, SweptRow DEF Quiet, Sets
  <2> QED
    BY Zenon, <1>2, <2>2, <2>3
<1> QED
  BY Zenon, <1>0, <1>1, <1>2, SweptRow

\* A claim that finds nothing due commits its sweep.
LEMMA SweepStep ==
    ASSUME MInv, ClaimNothing
    PROVE  QuietMailStep
<1>1. /\ mail' = SweptMail
      /\ UNCHANGED <<sending, target, alertRule, relayed, replayed, mailBudget>>
  BY Zenon DEF ClaimNothing
<1>2. MailRows' /\ \A d \in Mail : Quiet(d)
  <2>1. mail' \in [Mail -> MailRow]
    BY Zenon, <1>1, SweepMoves DEF SweptMail
  <2> QED
    BY Zenon, <1>1, <2>1, SweepMoves DEF MailRows
<1>3. MailRest'
  BY Zenon, <1>1 DEF MInv, MailRest
<1>4. \A d \in Mail : /\ mail'[d].state \in ActiveMail => mail[d].state \in ActiveMail
                      /\ mail[d].state = "absent" => mail'[d].state = "absent"
  <2>1. "dead" \notin ActiveMail
    BY DEF ActiveMail, Waiting
  <2>2. ASSUME NEW d \in Mail, mail[d].state = "absent"
        PROVE  SweptMail[d] = mail[d]
    <3>1. ~Lost(mail[d]) /\ mail[d].state \notin Waiting
      BY <2>2 DEF Lost, Waiting
    <3> QED
      BY Zenon, <3>1 DEF SweptMail, Swept
  <2> QED
    BY Zenon, <1>1, <2>1, <2>2, SweepMoves
<1>5. Issued'
  BY Zenon, <1>1, <1>4, RuleMail DEF MInv, Issued
<1>6. Orderly
  BY Zenon, <1>1, <1>4, RuleMail DEF Orderly
<1> QED
  BY Zenon, <1>1, <1>2, <1>3, <1>5, <1>6, QuietMailInv DEF QuietMailStep

-----------------------------------------------------------------------------
(* The claim                                                               *)

\* The claim writes the sweep and one row more; that row was not swept.
LEMMA ClaimRows ==
    ASSUME MInv, NEW d \in Mail, MailCandidate(SweptMail, d),
           mail' = [SweptMail EXCEPT ![d] = ClaimedMail(@)]
    PROVE  /\ MailRows'
           /\ mail[d].state \in Waiting \/ Lost(mail[d])
           /\ mail'[d].state = "delivering" /\ mail'[d].live
           /\ mail'[d].claims = mail[d].claims + 1
           /\ mail'[d].dup = (mail[d].dup \/ Lost(mail[d]))
           /\ \A c \in Mail \ {d} : mail'[c] = SweptMail[c] /\ Quiet(c)
<1>1. SweptMail[d] = mail[d] /\ mail[d] \in MailRow
  <2>1. SweptMail[d].state # "dead"
    BY DEF MailCandidate, Lost, Waiting
  <2> QED
    BY Zenon, <2>1, SweepMoves DEF MInv, MailRows
<1>2. mail'[d] = ClaimedMail(mail[d]) /\ \A c \in Mail \ {d} : mail'[c] = SweptMail[c]
  BY Zenon, <1>1 DEF SweptMail
<1>3. \A c \in Mail : mail'[c] \in MailRow /\ (mail'[c].live => mail'[c].state = "delivering")
  <2>1. mail'[d] \in MailRow /\ mail'[d].state = "delivering"
    BY Zenon, <1>1, <1>2, ClaimedMailRow
  <2>2. \A c \in Mail \ {d} : /\ mail'[c] \in MailRow
                              /\ mail'[c].live => mail'[c].state = "delivering"
    BY Zenon, <1>2, SweepMoves
  <2> QED
    BY Zenon, <2>1, <2>2
<1>4. mail' \in [Mail -> MailRow]
  BY Zenon, <1>3 DEF SweptMail
<1>5. mail[d].state \in Waiting \/ Lost(mail[d])
  BY Zenon, <1>1 DEF MailCandidate
<1> QED
  BY ZenonT(40), <1>1, <1>2, <1>3, <1>4, <1>5, ClaimedMailRow, SweepMoves DEF MailRows

\* The claim issues a new token and overtakes no active mail of the rule.
LEMMA ClaimStep ==
    ASSUME MInv, ClaimEmailDelivery
    PROVE  MInv' /\ \A c \in Mail : MailMove(c)
<1>1. PICK d \in Mail :
        /\ MailCandidate(SweptMail, d)
        /\ mail' = [SweptMail EXCEPT ![d] = ClaimedMail(@)]
        /\ sending' = sending \union
                {[mail |-> d, token |-> mail[d].claims + 1, live |-> TRUE,
                  at |-> "claimed", result |-> ""]}
  BY Zenon DEF ClaimEmailDelivery
<1>2. UNCHANGED <<target, alertRule, relayed, replayed, mailBudget>>
  BY Zenon DEF ClaimEmailDelivery
<1>3. /\ MailRows'
      /\ mail[d].state \in Waiting \/ Lost(mail[d])
      /\ mail'[d].state = "delivering" /\ mail'[d].live
      /\ mail'[d].claims = mail[d].claims + 1
      /\ mail'[d].dup = (mail[d].dup \/ Lost(mail[d]))
      /\ \A c \in Mail \ {d} : mail'[c] = SweptMail[c] /\ Quiet(c)
  BY Zenon, <1>1, ClaimRows
<1>4. /\ mail[d].claims \in Nat /\ mail[d].dup \in BOOLEAN
      /\ \A a \in sending : a.mail \in Mail /\ a.token \in Nat
  BY Zenon DEF MInv, MailRows, MailRow, SendingKeys, Sending
<1>w. PICK w : w = [mail |-> d, token |-> mail[d].claims + 1, live |-> TRUE,
                    at |-> "claimed", result |-> ""]
  BY Zenon
<1>5. /\ w \in Sending /\ w.mail = d /\ w.token = mail[d].claims + 1 /\ w.live
      /\ w.at = "claimed"
  <2>1. mail[d].claims + 1 \in Nat
    BY <1>4
  <2> QED
    BY Zenon, <1>w, <2>1 DEF Sending
<1>6. sending' = sending \union {w}
  BY Zenon, <1>1, <1>w
<1>7. \A a \in sending : a.mail = d => a.token < w.token
  BY <1>4, <1>5 DEF MInv, SendingKeys
<1>8. \A a \in sending : a.mail = d => a.token # w.token
  BY <1>4, <1>5, <1>7
<1>9. SendingKeys'
  <2>1. sending' \subseteq Sending
    BY Zenon, <1>5, <1>6 DEF MInv, SendingKeys
  <2>2. \A a, b \in sending' : a.mail = b.mail /\ a.token = b.token => a = b
    BY Zenon, <1>5, <1>6, <1>8 DEF MInv, SendingKeys
  <2>3. w.token > 0 /\ w.token <= mail'[w.mail].claims
    BY <1>3, <1>4, <1>5
  <2>4. ASSUME NEW a \in sending
        PROVE  a.token > 0 /\ a.token <= mail'[a.mail].claims
    <3>1. a.token > 0 /\ a.token <= mail[a.mail].claims
      BY Zenon DEF MInv, SendingKeys
    <3>2. CASE a.mail = d
      BY <1>3, <1>4, <3>1, <3>2
    <3>3. CASE a.mail # d
      <4>1. mail'[a.mail].claims = mail[a.mail].claims
        BY Zenon, <1>3, <1>4, <3>3, QuietRow DEF MInv
      <4> QED
        BY Zenon, <3>1, <4>1
    <3> QED
      BY Zenon, <3>2, <3>3
  <2> QED
    BY Zenon, <1>6, <2>1, <2>2, <2>3, <2>4 DEF SendingKeys
<1>10. MailRest'
  BY Zenon, <1>2 DEF MInv, MailRest
<1>11. \A c \in Mail : mail[c].state = "absent" => SweptMail[c] = mail[c] /\ c # d
  <2> SUFFICES ASSUME NEW c \in Mail, mail[c].state = "absent"
               PROVE  SweptMail[c] = mail[c] /\ c # d
    BY Zenon
  <2>1. ~Lost(mail[c]) /\ mail[c].state \notin Waiting
    BY DEF Lost, Waiting
  <2> QED
    BY Zenon, <1>3, <2>1 DEF SweptMail, Swept
<1>12. Issued'
  BY ZenonT(40), <1>2, <1>3, <1>11, RuleMail DEF MInv, Issued
<1>13. DeadlineInLease'
  <2>1. ASSUME NEW a \in sending, a.live
        PROVE  HoldsMail(a)'
    <3>1. HoldsMail(a)
      BY Zenon, <2>1 DEF MInv, DeadlineInLease
    <3>2. a.mail # d
      <4>1. mail[a.mail].state = "delivering" => mail[a.mail].state \notin Waiting
        BY DEF Waiting
      <4> QED
        BY Zenon, <1>3, <3>1, <4>1 DEF HoldsMail, Lost
    <3> QED
      BY Zenon, <1>3, <1>4, <3>1, <3>2, QuietRow DEF HoldsMail, MInv
  <2>2. HoldsMail(w)'
    BY Zenon, <1>3, <1>5 DEF HoldsMail
  <2> QED
    BY Zenon, <1>6, <2>1, <2>2 DEF DeadlineInLease
<1>14. relayed[d] = 0 \/ mail'[d].dup
  <2>1. relayed[d] = 0 \/ mail[d].state = "delivering" \/ mail[d].dup
    <3>1. mail[d].state # "accepted"
      BY <1>3 DEF Waiting, Lost
    <3> QED
      BY Zenon, <3>1 DEF MInv, DuplicatesFlagged
  <2>2. mail[d].state = "delivering" => Lost(mail[d])
    BY <1>3 DEF Waiting
  <2> QED
    BY Zenon, <1>3, <2>1, <2>2
<1>15. HolderKnows'
  <2>1. ASSUME NEW a \in sending, a.mail # d
        PROVE  \/ ~(mail'[a.mail].state = "delivering" /\ mail'[a.mail].claims = a.token)
               \/ relayed[a.mail] = 0
               \/ mail'[a.mail].dup
               \/ a.at = "sent" /\ a.result \in {"accepted", "unknown"}
    BY ZenonT(40), <1>3, <1>4, <2>1, QuietRow DEF MInv, HolderKnows
  <2> QED
    BY Zenon, <1>2, <1>5, <1>6, <1>14, <2>1 DEF HolderKnows
<1>16. DuplicatesFlagged'
  BY Zenon, <1>2, <1>3, <1>14, QuietRow DEF MInv, DuplicatesFlagged
<1>17. InFlightInOrder'
  <2> SUFFICES ASSUME NEW r \in MailRules, NEW n \in 1..MaxMailEvents, NEW k \in 1..(n - 1),
                      mail'[<<r, n>>].live
               PROVE  mail'[<<r, k>>].state \notin ActiveMail \/ <<r, k>> \in replayed
    BY Zenon, <1>2 DEF InFlightInOrder
  <2>0. <<r, n>> \in Mail /\ <<r, k>> \in Mail
    BY Zenon, RuleMail
  <2>1. "dead" \notin ActiveMail
    BY DEF ActiveMail, Waiting
  <2>2. CASE <<r, n>> = d
    <3>1. <<r, k>> # d /\ d[1] = r /\ d[2] = n /\ d \notin MailTests
      BY <2>2, MailBoundsAssumption, MailNamesAssumption
    <3>2. SweptMail[<<r, k>>].state \notin ActiveMail
      BY Zenon, <1>1, <3>1 DEF MailCandidate, Overtaken
    <3> QED
      BY Zenon, <1>3, <2>0, <3>1, <3>2
  <2>3. CASE <<r, n>> # d /\ <<r, k>> # d
    <3>1. mail[<<r, n>>].live
      BY Zenon, <1>3, <2>0, <2>3, QuietRow DEF MInv
    <3> QED
      BY Zenon, <1>3, <2>0, <2>1, <2>3, <3>1, SweepMoves DEF MInv, InFlightInOrder
  <2>4. CASE <<r, n>> # d /\ <<r, k>> = d
    <3>1. mail[<<r, n>>].live
      BY Zenon, <1>3, <2>0, <2>4, QuietRow DEF MInv
    <3>2. mail[d].state \in ActiveMail
      BY <1>3 DEF ActiveMail, Lost
    <3> QED
      BY Zenon, <2>4, <3>1, <3>2 DEF MInv, InFlightInOrder
  <2> QED
    BY Zenon, <2>2, <2>3, <2>4
<1>18. MInv'
  BY Zenon, <1>3, <1>9, <1>10, <1>12, <1>13, <1>15, <1>16, <1>17 DEF MInv
<1>19. Takes(d)
  <2>1. <<d, w.token>> \in MailHands'
    BY Zenon, <1>5, <1>6 DEF MailHands
  <2>2. <<d, w.token>> \notin MailHands
    BY <1>8 DEF MailHands
  <2>3. mail[d].state = "delivering" => Lost(mail[d])
    BY <1>3 DEF Waiting
  <2> QED
    BY Zenon, <1>3, <1>5, <2>1, <2>2, <2>3 DEF Takes, Lost
<1> QED
  BY Zenon, <1>3, <1>18, <1>19 DEF MailMove, Quiet

-----------------------------------------------------------------------------
(* The worker                                                              *)

\* Fewer mails in flight and fewer active ones: the order holds.
LEMMA CalmerInOrder ==
    ASSUME MInv, replayed' = replayed,
           \A c \in Mail : /\ mail'[c].live => mail[c].live
                           /\ mail'[c].state \in ActiveMail => mail[c].state \in ActiveMail
    PROVE  InFlightInOrder'
  BY Zenon, RuleMail DEF MInv, InFlightInOrder

\* A worker goes on with its claim; the table does not change.
LEMMA ProceedStep ==
    ASSUME MInv, NEW a \in sending, NEW at \in {"cleared", "sent"},
           NEW res \in {"", "accepted", "refused", "rejected", "unknown"},
           Proceed(a, at, res), relayed' \in [Mail -> 0..2], DuplicatesFlagged',
           \A b \in sending \ {a} :
                \/ ~(mail[b.mail].state = "delivering" /\ mail[b.mail].claims = b.token)
                \/ relayed'[b.mail] = relayed[b.mail],
           \/ ~(mail[a.mail].state = "delivering" /\ mail[a.mail].claims = a.token)
           \/ relayed'[a.mail] = 0 \/ mail[a.mail].dup
           \/ at = "sent" /\ res \in {"accepted", "unknown"}
    PROVE  MInv' /\ \A c \in Mail : MailMove(c)
<1>1. /\ sending' = (sending \ {a}) \union {[a EXCEPT !.at = at, !.result = res]}
      /\ UNCHANGED <<mail, target, alertRule, replayed, mailBudget>>
  BY Zenon DEF Proceed
<1>2. PICK b : b = [a EXCEPT !.at = at, !.result = res]
  BY Zenon
<1>3. a \in Sending
  BY Zenon DEF MInv, SendingKeys
<1>4. /\ b \in Sending /\ b.mail = a.mail /\ b.token = a.token /\ b.live = a.live
      /\ b.at = at /\ b.result = res
  BY Zenon, <1>2, <1>3 DEF Sending
<1>5. sending' = (sending \ {a}) \union {b}
  BY Zenon, <1>1, <1>2
<1>6. SendingKeys'
  <2>1. sending' \subseteq Sending
    BY Zenon, <1>4, <1>5 DEF MInv, SendingKeys
  <2>2. ASSUME NEW c \in sending', NEW e \in sending', c.mail = e.mail, c.token = e.token
        PROVE  c = e
    <3>1. \A x \in sending : x.mail = a.mail /\ x.token = a.token => x = a
      BY Zenon DEF MInv, SendingKeys
    <3>2. \A x \in sending \ {a} : ~(x.mail = b.mail /\ x.token = b.token)
      BY Zenon, <1>4, <3>1
    <3>3. CASE c = b \/ e = b
      BY Zenon, <1>5, <2>2, <3>2, <3>3
    <3>4. CASE c \in sending /\ e \in sending
      BY Zenon, <2>2, <3>4 DEF MInv, SendingKeys
    <3> QED
      BY Zenon, <1>5, <3>3, <3>4
  <2>3. \A c \in sending' : c.token > 0 /\ c.token <= mail'[c.mail].claims
    BY Zenon, <1>1, <1>4, <1>5 DEF MInv, SendingKeys
  <2> QED
    BY Zenon, <2>1, <2>2, <2>3 DEF SendingKeys
<1>7. DeadlineInLease'
  <2> SUFFICES ASSUME NEW c \in sending', c.live
               PROVE  HoldsMail(c)'
    BY Zenon DEF DeadlineInLease
  <2>1. CASE c \in sending
    BY Zenon, <1>1, <2>1 DEF MInv, DeadlineInLease, HoldsMail
  <2>2. CASE c = b
    <3>1. HoldsMail(a)
      BY Zenon, <1>4, <2>2 DEF MInv, DeadlineInLease
    <3> QED
      BY Zenon, <1>1, <1>4, <2>2, <3>1 DEF HoldsMail
  <2> QED
    BY Zenon, <1>5, <2>1, <2>2
<1>8. HolderKnows'
  <2> SUFFICES ASSUME NEW c \in sending'
               PROVE  \/ ~(mail[c.mail].state = "delivering" /\ mail[c.mail].claims = c.token)
                      \/ relayed'[c.mail] = 0
                      \/ mail[c.mail].dup
                      \/ c.at = "sent" /\ c.result \in {"accepted", "unknown"}
    BY Zenon, <1>1 DEF HolderKnows
  <2>1. CASE c \in sending \ {a}
    BY Zenon, <2>1 DEF MInv, HolderKnows
  <2>2. CASE c = b
    BY Zenon, <1>4, <2>2
  <2> QED
    BY Zenon, <1>5, <2>1, <2>2
<1>9. MailRows' /\ MailRest' /\ Issued' /\ InFlightInOrder'
  BY Zenon, <1>1 DEF MInv, MailRows, MailRest, Issued, InFlightInOrder
<1>10. \A c \in Mail : MailMove(c)
  BY Zenon, <1>1 DEF MailMove, Keeps
<1> QED
  BY Zenon, <1>6, <1>7, <1>8, <1>9, <1>10 DEF MInv

\* Reading the target tells the relay nothing.
LEMMA TargetReadStep ==
    ASSUME MInv, NEW a \in sending, GetEmailTarget(a)
    PROVE  MInv' /\ \A c \in Mail : MailMove(c)
<1>1. a.at = "claimed" /\ relayed' = relayed /\ mail' = mail
  BY Zenon DEF GetEmailTarget, Proceed
<1>2. a.at # "sent"
  BY <1>1
<1>3. \/ ~(mail[a.mail].state = "delivering" /\ mail[a.mail].claims = a.token)
      \/ relayed'[a.mail] = 0 \/ mail[a.mail].dup
  BY Zenon, <1>1, <1>2 DEF MInv, HolderKnows
<1>4. relayed' \in [Mail -> 0..2] /\ DuplicatesFlagged'
  BY Zenon, <1>1 DEF MInv, MailRest, DuplicatesFlagged
<1>5. CASE Proceed(a, "cleared", "")
  BY Zenon, <1>1, <1>3, <1>4, <1>5, ProceedStep
<1>6. CASE Proceed(a, "sent", "rejected")
  BY Zenon, <1>1, <1>3, <1>4, <1>6, ProceedStep
<1> QED
  BY Zenon, <1>5, <1>6 DEF GetEmailTarget

\* What the relay takes, the sender alone still knows.
LEMMA SendStep ==
    ASSUME MInv, NEW a \in sending, Send(a)
    PROVE  MInv' /\ \A c \in Mail : MailMove(c)
<1>1. PICK accepted \in BOOLEAN : \E result \in smtpResult(accepted) :
         /\ Proceed(a, "sent", result)
         /\ relayed' = [relayed EXCEPT ![a.mail] =
                            IF accepted /\ @ < 2 THEN @ + 1 ELSE @]
  BY Zenon DEF Send
<1>2. PICK res \in smtpResult(accepted) :
         /\ Proceed(a, "sent", res)
         /\ relayed' = [relayed EXCEPT ![a.mail] =
                            IF accepted /\ relayed[a.mail] < 2 THEN relayed[a.mail] + 1
                            ELSE relayed[a.mail]]
  BY Zenon, <1>1
<1>3. /\ a.at = "cleared" /\ a.live /\ a.at # "sent" /\ a.mail \in Mail
      /\ relayed \in [Mail -> 0..2] /\ relayed[a.mail] \in 0..2
  BY Zenon DEF Send, MInv, MailRest, SendingKeys, Sending
<1>4. HoldsMail(a) /\ mail' = mail
  BY Zenon, <1>2, <1>3 DEF MInv, DeadlineInLease, Proceed
<1>5. relayed[a.mail] = 0 \/ mail[a.mail].dup
  BY Zenon, <1>3, <1>4 DEF MInv, HolderKnows, HoldsMail
<1>6. /\ res \in {"accepted", "refused", "rejected", "unknown"}
      /\ accepted => res \in {"accepted", "unknown"}
  BY <1>2 DEF smtpResult
<1>7. /\ relayed'[a.mail] \in 0..2 /\ (relayed'[a.mail] = 0 => relayed[a.mail] = 0)
      /\ relayed[a.mail] = 0 => relayed'[a.mail] \in {0, 1}
      /\ ~accepted => relayed'[a.mail] = relayed[a.mail]
  BY <1>2, <1>3
<1>8. \A c \in Mail \ {a.mail} : relayed'[c] = relayed[c]
  BY Zenon, <1>2, <1>3
<1>9. relayed' \in [Mail -> 0..2]
  <2>1. \A c \in Mail : relayed'[c] \in 0..2
    BY Zenon, <1>3, <1>7, <1>8
  <2> QED
    BY Zenon, <1>2, <1>3, <1>7
<1>10. DuplicatesFlagged'
  <2> SUFFICES ASSUME NEW c \in Mail
               PROVE  \/ relayed'[c] = 0
                      \/ relayed'[c] = 1 /\ mail[c].state \in {"delivering", "accepted"}
                      \/ mail[c].dup
    BY Zenon, <1>4 DEF DuplicatesFlagged
  <2>1. CASE c # a.mail
    BY Zenon, <1>8, <2>1 DEF MInv, DuplicatesFlagged
  <2>2. CASE c = a.mail
    BY Zenon, <1>4, <1>5, <1>7, <2>2 DEF HoldsMail
  <2> QED
    BY Zenon, <2>1, <2>2
<1>11. ASSUME NEW b \in sending \ {a}
       PROVE  \/ ~(mail[b.mail].state = "delivering" /\ mail[b.mail].claims = b.token)
              \/ relayed'[b.mail] = relayed[b.mail]
  <2>1. b.mail \in Mail
    BY Zenon DEF MInv, SendingKeys, Sending
  <2>2. CASE b.mail # a.mail
    BY Zenon, <1>8, <2>1, <2>2
  <2>3. CASE b.mail = a.mail
    <3>1. b.token # a.token
      BY Zenon, <2>3 DEF MInv, SendingKeys
    <3>2. mail[a.mail].claims = a.token
      BY Zenon, <1>4 DEF HoldsMail
    <3> QED
      BY Zenon, <2>3, <3>1, <3>2
  <2> QED
    BY Zenon, <2>2, <2>3
<1>12. \/ relayed'[a.mail] = 0 \/ mail[a.mail].dup
       \/ res \in {"accepted", "unknown"}
  BY Zenon, <1>5, <1>6, <1>7
<1>13. res \in {"", "accepted", "refused", "rejected", "unknown"}
  BY Zenon, <1>6
<1> QED
  BY Zenon, <1>2, <1>9, <1>10, <1>11, <1>12, <1>13, ProceedStep

\* A worker that only forgets its claim leaves the table alone.
LEMMA ForgetStep ==
    ASSUME MInv, NEW a \in sending, sending' = sending \ {a},
           UNCHANGED <<mail, target, alertRule, relayed, replayed, mailBudget>>
    PROVE  MInv' /\ \A c \in Mail : MailMove(c)
<1>1. SendingKeys' /\ DeadlineInLease' /\ HolderKnows'
  BY Zenon DEF MInv, SendingKeys, DeadlineInLease, HolderKnows, HoldsMail
<1>2. MailRows' /\ MailRest' /\ Issued' /\ InFlightInOrder' /\ DuplicatesFlagged'
  BY Zenon DEF MInv, MailRows, MailRest, Issued, InFlightInOrder, DuplicatesFlagged
<1> QED
  BY Zenon, <1>1, <1>2 DEF MInv, MailMove, Keeps

\* The report of the holder says what the relay may have taken.
LEMMA ReportStep ==
    ASSUME MInv, NEW a \in sending, Report(a), HoldsMail(a)
    PROVE  MInv' /\ \A c \in Mail : MailMove(c)
<1>1. /\ a.at = "sent" /\ mail' = [mail EXCEPT ![a.mail] = Ended(a, mail[a.mail])]
      /\ sending' = sending \ {a}
      /\ UNCHANGED <<target, alertRule, relayed, replayed, mailBudget>>
  BY Zenon DEF Report, FinishEmailDelivery
<1>2. PICK d \in Mail : d = a.mail
  BY Zenon DEF MInv, SendingKeys, Sending
<1>3. /\ mail[d].state = "delivering" /\ mail[d].claims = a.token /\ mail[d].live
      /\ mail[d] \in MailRow
  BY Zenon, <1>2 DEF HoldsMail, MInv, MailRows
<1>4. /\ mail'[d] = Ended(a, mail[d])
      /\ \A c \in Mail \ {d} : mail'[c] = mail[c]
  BY Zenon, <1>1, <1>2 DEF MInv, MailRows
<1>5. /\ mail'[d] \in MailRow /\ mail'[d].live = FALSE /\ mail'[d].claims = mail[d].claims
      /\ mail'[d].state \in {"accepted", "retrying", "dead"}
      /\ mail'[d].state # "accepted" => a.result # "accepted"
      /\ mail'[d].dup = (mail[d].dup \/ a.result = "unknown")
  <2> DEFINE r == Ended(a, mail[d])
  <2>1. /\ r \in MailRow /\ r.live = FALSE /\ r.claims = mail[d].claims
        /\ r.state \in {"accepted", "retrying", "dead"}
        /\ r.state # "accepted" => a.result # "accepted"
        /\ r.dup = (mail[d].dup \/ a.result = "unknown")
    BY Zenon, <1>3, EndedRow
  <2> HIDE DEF r
  <2>2. mail'[d] = r
    BY Zenon, <1>4 DEF r
  <2> QED
    BY Zenon, <2>1, <2>2
<1>6. MailRows'
  <2>1. mail' \in [Mail -> MailRow]
    BY Zenon, <1>1, <1>2, <1>4, <1>5 DEF MInv, MailRows
  <2> QED
    BY Zenon, <1>4, <1>5, <2>1 DEF MInv, MailRows
<1>7. mail'[d].state # "delivering" /\ mail'[d].state # "absent" /\ mail[d].state # "absent"
  BY <1>3, <1>5
<1>8. \A b \in sending' : b \in sending /\ b # a /\ b.mail \in Mail
  BY Zenon, <1>1 DEF MInv, SendingKeys, Sending
<1>9. SendingKeys'
  <2>1. \A c \in Mail : mail'[c].claims = mail[c].claims
    BY Zenon, <1>4, <1>5
  <2> QED
    BY Zenon, <1>1, <1>8, <2>1 DEF MInv, SendingKeys
<1>10. DeadlineInLease'
  <2> SUFFICES ASSUME NEW b \in sending', b.live
               PROVE  HoldsMail(b)'
    BY Zenon DEF DeadlineInLease
  <2>1. HoldsMail(b)
    BY Zenon, <1>8 DEF MInv, DeadlineInLease
  <2>2. b.mail # d
    BY Zenon, <1>2, <1>3, <1>8, <2>1 DEF MInv, SendingKeys, HoldsMail
  <2> QED
    BY Zenon, <1>4, <1>8, <2>1, <2>2 DEF HoldsMail
<1>11. HolderKnows'
  <2> SUFFICES ASSUME NEW b \in sending'
               PROVE  \/ ~(mail'[b.mail].state = "delivering" /\ mail'[b.mail].claims = b.token)
                      \/ relayed[b.mail] = 0
                      \/ mail'[b.mail].dup
                      \/ b.at = "sent" /\ b.result \in {"accepted", "unknown"}
    BY Zenon, <1>1 DEF HolderKnows
  <2> QED
    BY Zenon, <1>4, <1>7, <1>8 DEF MInv, HolderKnows
<1>12. DuplicatesFlagged'
  <2>1. \/ relayed[d] = 0
        \/ relayed[d] = 1 /\ mail'[d].state = "accepted"
        \/ mail'[d].dup
    <3>1. \/ relayed[d] = 0 \/ mail[d].dup \/ a.result \in {"accepted", "unknown"}
      BY Zenon, <1>2, <1>3 DEF MInv, HolderKnows
    <3>2. \/ relayed[d] = 0 \/ relayed[d] = 1 \/ mail[d].dup
      BY Zenon DEF MInv, DuplicatesFlagged
    <3> QED
      BY Zenon, <1>5, <3>1, <3>2
  <2> QED
    BY Zenon, <1>1, <1>4, <2>1 DEF MInv, DuplicatesFlagged
<1>13. InFlightInOrder'
  <2>1. mail[d].state \in ActiveMail
    BY <1>3 DEF ActiveMail
  <2> QED
    BY Zenon, <1>1, <1>4, <1>5, <2>1, CalmerInOrder
<1>14. Issued' /\ MailRest'
  <2>1. MailRest'
    BY Zenon, <1>1 DEF MInv, MailRest
  <2>2. Issued'
    BY ZenonT(40), <1>1, <1>3, <1>4, RuleMail DEF MInv, Issued
  <2> QED
    BY Zenon, <2>1, <2>2
<1>15. EndsMail(d)
  <2>1. <<d, mail[d].claims>> \in MailHands
    BY Zenon, <1>2, <1>3 DEF MailHands
  <2>2. ASSUME NEW b \in sending', <<b.mail, b.token>> = <<d, mail[d].claims>>
        PROVE  FALSE
    <3>1. b.mail = a.mail /\ b.token = a.token
      BY <1>2, <1>3, <2>2
    <3> QED
      BY Zenon, <1>8, <3>1 DEF MInv, SendingKeys
  <2>3. <<d, mail[d].claims>> \notin MailHands'
    BY Zenon, <2>2 DEF MailHands
  <2> QED
    BY Zenon, <1>3, <1>5, <2>1, <2>3 DEF EndsMail
<1>16. \A c \in Mail : MailMove(c)
  BY Zenon, <1>4, <1>15 DEF MailMove, Keeps
<1> QED
  BY Zenon, <1>6, <1>9, <1>10, <1>11, <1>12, <1>13, <1>14, <1>16 DEF MInv

\* The clock ends a lease and its holder's deadline together.
LEMMA ExpiryStep ==
    ASSUME MInv, NEW d \in Mail, MailLeaseExpires(d)
    PROVE  MInv' /\ \A c \in Mail : MailMove(c)
<1> DEFINE aged(a) == IF a.mail = d /\ a.token = mail[d].claims
                        THEN [a EXCEPT !.live = FALSE] ELSE a
<1>1. /\ mail[d].state = "delivering" /\ mail[d].live
      /\ mail' = [mail EXCEPT ![d] = [mail[d] EXCEPT !.live = FALSE]]
      /\ sending' = {aged(a) : a \in sending}
      /\ UNCHANGED <<target, alertRule, relayed, replayed, mailBudget>>
  BY Zenon DEF MailLeaseExpires
<1>2. PICK r : r = [mail[d] EXCEPT !.live = FALSE]
  BY Zenon
<1>3. /\ r \in MailRow /\ r.state = mail[d].state /\ r.claims = mail[d].claims
      /\ r.live = FALSE /\ r.dup = mail[d].dup
  <2>1. mail[d] \in MailRow
    BY Zenon DEF MInv, MailRows
  <2> QED
    BY Zenon, <1>2, <2>1, ExpiredRow
<1>4. mail'[d] = r /\ \A c \in Mail \ {d} : mail'[c] = mail[c]
  BY Zenon, <1>1, <1>2 DEF MInv, MailRows
<1>5. \A c \in Mail : /\ mail'[c] \in MailRow /\ mail'[c].state = mail[c].state
                      /\ mail'[c].claims = mail[c].claims /\ mail'[c].dup = mail[c].dup
                      /\ mail'[c].live => mail[c].live
  BY Zenon, <1>3, <1>4 DEF MInv, MailRows
<1>6. MailRows'
  <2>1. mail' \in [Mail -> MailRow]
    BY Zenon, <1>1, <1>2, <1>3 DEF MInv, MailRows
  <2> QED
    BY Zenon, <1>5, <2>1 DEF MInv, MailRows
<1>7. ASSUME NEW a \in sending
      PROVE  /\ aged(a) \in Sending /\ aged(a).mail = a.mail /\ aged(a).token = a.token
             /\ aged(a).at = a.at /\ aged(a).result = a.result /\ a.mail \in Mail
             /\ aged(a).live => a.live /\ ~(a.mail = d /\ a.token = mail[d].claims)
  <2>1. a \in Sending
    BY Zenon DEF MInv, SendingKeys
  <2>2. CASE a.mail = d /\ a.token = mail[d].claims
    BY Zenon, <2>1, <2>2 DEF Sending
  <2>3. CASE ~(a.mail = d /\ a.token = mail[d].claims)
    BY Zenon, <2>1, <2>3 DEF Sending
  <2> QED
    BY Zenon, <2>2, <2>3
<1> HIDE DEF aged
<1>8. ASSUME NEW b \in sending'
      PROVE  \E a \in sending : /\ b = aged(a) /\ b.mail = a.mail /\ b.token = a.token
                                /\ b.at = a.at /\ b.result = a.result /\ b.mail \in Mail
                                /\ b \in Sending
                                /\ b.live => a.live /\ ~(a.mail = d /\ a.token = mail[d].claims)
  <2>1. PICK a \in sending : b = aged(a)
    BY Zenon, <1>1, <1>8
  <2> QED
    BY Zenon, <1>7, <2>1
<1>9. SendingKeys'
  <2>1. sending' \subseteq Sending
    BY Zenon, <1>8
  <2>2. ASSUME NEW b \in sending', NEW c \in sending', b.mail = c.mail, b.token = c.token
        PROVE  b = c
    <3>1. PICK x \in sending : b = aged(x) /\ b.mail = x.mail /\ b.token = x.token
      BY Zenon, <1>8
    <3>2. PICK y \in sending : c = aged(y) /\ c.mail = y.mail /\ c.token = y.token
      BY Zenon, <1>8
    <3>3. x = y
      BY Zenon, <2>2, <3>1, <3>2 DEF MInv, SendingKeys
    <3> QED
      BY Zenon, <3>1, <3>2, <3>3
  <2>3. ASSUME NEW b \in sending'
        PROVE  b.token > 0 /\ b.token <= mail'[b.mail].claims
    <3>1. PICK x \in sending : b.mail = x.mail /\ b.token = x.token /\ b.mail \in Mail
      BY Zenon, <1>8
    <3>2. x.token > 0 /\ x.token <= mail[x.mail].claims
      BY Zenon DEF MInv, SendingKeys
    <3>3. mail'[b.mail].claims = mail[b.mail].claims
      BY Zenon, <1>5, <3>1
    <3> QED
      BY Zenon, <3>1, <3>2, <3>3
  <2> QED
    BY Zenon, <2>1, <2>2, <2>3 DEF SendingKeys
<1>10. DeadlineInLease'
  <2> SUFFICES ASSUME NEW b \in sending', b.live
               PROVE  HoldsMail(b)'
    BY Zenon DEF DeadlineInLease
  <2>1. PICK a \in sending : /\ b.mail = a.mail /\ b.token = a.token /\ b.mail \in Mail
                             /\ a.live /\ ~(a.mail = d /\ a.token = mail[d].claims)
    BY Zenon, <1>8
  <2>2. HoldsMail(a)
    BY Zenon, <2>1 DEF MInv, DeadlineInLease
  <2>3. b.mail # d
    BY Zenon, <2>1, <2>2 DEF HoldsMail
  <2> QED
    BY Zenon, <1>4, <2>1, <2>2, <2>3 DEF HoldsMail
<1>11. HolderKnows'
  <2> SUFFICES ASSUME NEW b \in sending'
               PROVE  \/ ~(mail'[b.mail].state = "delivering" /\ mail'[b.mail].claims = b.token)
                      \/ relayed[b.mail] = 0
                      \/ mail'[b.mail].dup
                      \/ b.at = "sent" /\ b.result \in {"accepted", "unknown"}
    BY Zenon, <1>1 DEF HolderKnows
  <2>1. PICK a \in sending : /\ b.mail = a.mail /\ b.token = a.token /\ b.mail \in Mail
                             /\ b.at = a.at /\ b.result = a.result
    BY Zenon, <1>8
  <2>2. \/ ~(mail[a.mail].state = "delivering" /\ mail[a.mail].claims = a.token)
        \/ relayed[a.mail] = 0
        \/ mail[a.mail].dup
        \/ a.at = "sent" /\ a.result \in {"accepted", "unknown"}
    BY Zenon DEF MInv, HolderKnows
  <2> QED
    BY Zenon, <1>5, <2>1, <2>2
<1>12. DuplicatesFlagged'
  BY Zenon, <1>1, <1>5 DEF MInv, DuplicatesFlagged
<1>13. InFlightInOrder'
  BY Zenon, <1>1, <1>5, CalmerInOrder
<1>14. Issued' /\ MailRest'
  BY Zenon, <1>1, <1>5, RuleMail DEF MInv, Issued, MailRest
<1>15. Expires(d)
  BY Zenon, <1>1, <1>3, <1>4 DEF Expires
<1>16. \A c \in Mail : MailMove(c)
  BY Zenon, <1>4, <1>15 DEF MailMove, Keeps
<1> QED
  BY Zenon, <1>6, <1>9, <1>10, <1>11, <1>12, <1>13, <1>14, <1>16 DEF MInv

-----------------------------------------------------------------------------
(* Theorems                                                                *)

\* An empty queue satisfies the invariant.
LEMMA MailInitInv ==
    ASSUME MailInit
    PROVE  MInv
<1>1. /\ MailRows /\ \A d \in Mail : mail[d].state = "absent" /\ mail[d].live = FALSE
  BY DEF MailInit, MailRows, MailRow
<1>2. sending = {} /\ replayed = {} /\ relayed \in [Mail -> 0..2]
      /\ \A d \in Mail : relayed[d] = 0
  BY DEF MailInit
<1>3. MailRest
  BY <1>2, MailBoundsAssumption DEF MailInit, MailRest
<1>4. SendingKeys /\ DeadlineInLease /\ HolderKnows
  BY <1>2 DEF SendingKeys, DeadlineInLease, HolderKnows
<1>5. DuplicatesFlagged
  BY Zenon, <1>2 DEF DuplicatesFlagged
<1>6. Issued /\ InFlightInOrder
  BY Zenon, <1>1, RuleMail DEF Issued, InFlightInOrder
<1> QED
  BY Zenon, <1>1, <1>3, <1>4, <1>5, <1>6 DEF MInv

\* Every step keeps the invariant and is a move of every mail.
LEMMA MailStep ==
    ASSUME MInv, [MailNext]_mailVars
    PROVE  MInv' /\ \A c \in Mail : MailMove(c)
<1>1. CASE UNCHANGED mailVars
  <2>1. UNCHANGED <<mail, sending, target, alertRule, relayed, replayed, mailBudget>>
    BY Zenon, <1>1 DEF mailVars
  <2>2. MailRows' /\ MailRest' /\ Issued' /\ InFlightInOrder' /\ DuplicatesFlagged'
    BY Zenon, <2>1 DEF MInv, MailRows, MailRest, Issued, InFlightInOrder, DuplicatesFlagged
  <2>3. SendingKeys' /\ DeadlineInLease' /\ HolderKnows'
    BY Zenon, <2>1 DEF MInv, SendingKeys, DeadlineInLease, HolderKnows, HoldsMail
  <2> QED
    BY Zenon, <2>1, <2>2, <2>3 DEF MInv, MailMove, Keeps
<1>2. CASE QuietMailStep
  BY Zenon, <1>2 DEF QuietMailStep, Quiet, MailMove
<1>3. ASSUME NEW a \in sending, Report(a), ~HoldsMail(a)
      PROVE  MInv' /\ \A c \in Mail : MailMove(c)
  BY Zenon, <1>3, ForgetStep DEF Report, FinishEmailDelivery
<1>4. ASSUME NEW a \in sending, DropMail(a)
      PROVE  MInv' /\ \A c \in Mail : MailMove(c)
  BY Zenon, <1>4, ForgetStep DEF DropMail
<1>5. CASE WorksOnMail
  BY Zenon, <1>3, <1>4, <1>5, TargetReadStep, SendStep, ReportStep DEF WorksOnMail
<1>6. CASE MailNext
  BY Zenon, <1>2, <1>5, <1>6, EnqueueStep, EvaluationStep, RuleStep, TargetStep,
     ReplayStep, ExpiryStep, ClaimStep, SweepStep DEF MailNext, ClaimsMail
<1> QED
  BY Zenon, <1>1, <1>6

\* The queue never leaves its invariant.
LEMMA MailInvariant == MailSpec => []MInv
<1>1. MInv /\ [MailNext]_mailVars => MInv'
  BY Zenon, MailStep
<1> QED
  BY <1>1, MailInitInv, PTL DEF MailSpec

\* Rows, claims, the SMTP target and the alert rules keep their types.
THEOREM MailTypes == MailSpec => []MailTypeOK
<1>1. MInv => MailTypeOK
  BY Zenon DEF MInv, MailRows, SendingKeys, MailRest, MailTypeOK
<1> QED
  BY <1>1, MailInvariant, PTL

\* Possible duplicates are flagged, for any queue: whatever replies are lost,
\* workers stop and leases expire, a mail the relay may have taken twice, or
\* took without its row saying so, has possible_duplicate set.
THEOREM DuplicatesAnnounced == MailSpec => []DuplicatesFlagged
<1>1. MInv => DuplicatesFlagged
  BY Zenon DEF MInv
<1> QED
  BY <1>1, MailInvariant, PTL

\* The alerts of one rule reach the relay in order, for any number of rules,
\* events and worker loops: the NOT EXISTS of the claim and the fence of the
\* report suffice.
THEOREM AlertsInOrder == MailSpec => []QuotaMailInOrder
<1>1. MInv => QuotaMailInOrder
  <2> SUFFICES ASSUME MInv, NEW r \in MailRules, NEW n \in 1..MaxMailEvents,
                      NEW k \in 1..(n - 1), CanSend(<<r, n>>), <<r, k>> \notin replayed
               PROVE  mail[<<r, k>>].state \notin ActiveMail /\ ~CanSend(<<r, k>>)
    BY Zenon DEF QuotaMailInOrder
  <2>1. mail[<<r, n>>].live
    BY Zenon DEF CanSend, MInv, DeadlineInLease, HoldsMail
  <2>2. mail[<<r, k>>].state \notin ActiveMail
    BY Zenon, <2>1 DEF MInv, InFlightInOrder
  <2>3. CanSend(<<r, k>>) => mail[<<r, k>>].state = "delivering"
    BY Zenon DEF CanSend, MInv, DeadlineInLease, HoldsMail
  <2>4. "delivering" \in ActiveMail
    BY DEF ActiveMail
  <2> QED
    BY Zenon, <2>2, <2>3, <2>4
<1> QED
  BY <1>1, MailInvariant, PTL

-----------------------------------------------------------------------------
(* Theorem: the refinement                                                 *)

\* The phase of a row, by its state.
LEMMA MailPhases ==
    ASSUME NEW r
    PROVE  /\ r.state \in Waiting => MailPhase(r) = "open"
           /\ r.state = "delivering" => MailPhase(r) = "held"
           /\ r.state = "accepted" => MailPhase(r) = "done"
           /\ r.state = "dead" => MailPhase(r) = "parked"
           /\ r.state = "absent" => MailPhase(r) = "absent"
  BY DEF MailPhase, Waiting

\* Each way a row moves is a move of leased work.
LEMMA MailMoveIsMove ==
    ASSUME MailRows, MailRows', NEW d \in Mail, MailMove(d)
    PROVE  MailWork!Move(d)
<1> DEFINE lease(r) == IF r.state = "delivering" THEN r.claims ELSE 0
<1>0. /\ [q \in Mail |-> MailPhase(mail[q])][d] = MailPhase(mail[d])
      /\ [q \in Mail |-> IF mail[q].state = "delivering" THEN mail[q].claims ELSE 0][d]
            = lease(mail[d])
      /\ [q \in Mail |-> mail[q].live][d] = mail[d].live
      /\ [q \in Mail |-> MailPhase(mail'[q])][d] = MailPhase(mail'[d])
      /\ [q \in Mail |-> IF mail'[q].state = "delivering" THEN mail'[q].claims ELSE 0][d]
            = lease(mail'[d])
      /\ [q \in Mail |-> mail'[q].live][d] = mail'[d].live
  BY Zenon
<1>1. mail'[d].state # "delivering" => lease(mail'[d]) = 0 /\ ~mail'[d].live
  BY Zenon DEF MailRows
<1>2. mail[d].state = "delivering" => MailPhase(mail[d]) = "held" /\ lease(mail[d]) = mail[d].claims
  BY Zenon, MailPhases
<1>3. mail'[d].state = "delivering" =>
        MailPhase(mail'[d]) = "held" /\ lease(mail'[d]) = mail'[d].claims
  BY Zenon, MailPhases
<1>4. mail'[d].state \in Waiting \union {"dead"} =>
        mail'[d].state # "delivering" /\ MailPhase(mail'[d]) \in {"open", "parked"}
  BY MailPhases DEF Waiting
<1>5. CASE Keeps(d)
  <2>1. MailPhase(mail'[d]) = MailPhase(mail[d]) /\ lease(mail'[d]) = lease(mail[d])
    BY Zenon, <1>5 DEF Keeps, MailPhase
  <2> QED
    BY Zenon, <1>0, <1>5, <2>1 DEF Keeps, MailWork!Move, MailWork!Same
<1>6. CASE Sets(d)
  <2>1. MailPhase(mail[d]) \in {"absent", "open", "parked"}
    BY <1>6, MailPhases DEF Sets
  <2> QED
    BY Zenon, <1>0, <1>1, <1>4, <1>6, <2>1
       DEF Sets, MailWork!Move, MailWork!Arrange, MailWork!Leaves
<1>7. CASE Loses(d)
  <2>1. mail'[d].state \in Waiting \union {"dead"}
    BY <1>7 DEF Loses
  <2> QED
    BY Zenon, <1>0, <1>1, <1>2, <1>4, <1>7, <2>1
       DEF Loses, MailWork!Move, MailWork!Release, MailWork!Leaves, MailWork!Forfeited
<1>8. CASE Expires(d)
  BY Zenon, <1>0, <1>2, <1>3, <1>8 DEF Expires, MailWork!Move, MailWork!Age
<1>9. CASE Takes(d)
  <2>1. MailPhase(mail[d]) = "open" \/ (MailPhase(mail[d]) = "held" /\ ~mail[d].live)
    BY Zenon, <1>9, MailPhases DEF Takes
  <2> QED
    BY Zenon, <1>0, <1>3, <1>9, <2>1
       DEF Takes, MailHands, MailWork!Move, MailWork!Take, MailWork!Forfeited
<1>10. CASE EndsMail(d)
  <2>1. CASE mail'[d].state = "accepted"
    <3>1. mail'[d].state # "delivering" /\ MailPhase(mail'[d]) = "done"
      BY <2>1, MailPhases
    <3> QED
      BY Zenon, <1>0, <1>1, <1>2, <1>10, <3>1
         DEF EndsMail, MailHands, MailWork!Move, MailWork!Finish, MailWork!Leaves, MailWork!Reports
  <2>2. CASE mail'[d].state \in Waiting \union {"dead"}
    BY Zenon, <1>0, <1>1, <1>2, <1>4, <1>10, <2>2
       DEF EndsMail, MailHands, MailWork!Move, MailWork!Release, MailWork!Leaves, MailWork!Reports
  <2>3. mail'[d].state \in {"accepted"} \union Waiting \union {"dead"}
    BY <1>10 DEF EndsMail, Waiting
  <2> QED
    BY Zenon, <2>1, <2>2, <2>3
<1> QED
  BY Zenon, <1>5, <1>6, <1>7, <1>8, <1>9, <1>10 DEF MailMove

\* Only a claim puts a mail in anyone's hands.
LEMMA MailHandsGrow ==
    ASSUME MInv, [MailNext]_mailVars
    PROVE  \A b \in sending' :
             \/ \E a \in sending : a.mail = b.mail /\ a.token = b.token
             \/ /\ b.mail \in Mail /\ mail'[b.mail].state = "delivering"
                /\ mail'[b.mail].claims = b.token
<1>1. CASE sending' \subseteq sending
  BY Zenon, <1>1
<1>2. ASSUME NEW a \in sending, NEW at, NEW res, Proceed(a, at, res), NEW b \in sending'
      PROVE  \E c \in sending : c.mail = b.mail /\ c.token = b.token
  <2>1. a \in Sending
    BY Zenon DEF MInv, SendingKeys
  <2>2. [a EXCEPT !.at = at, !.result = res].mail = a.mail
        /\ [a EXCEPT !.at = at, !.result = res].token = a.token
    BY Zenon, <2>1 DEF Sending
  <2> QED
    BY Zenon, <1>2, <2>2 DEF Proceed
<1>3. ASSUME NEW d \in Mail, MailLeaseExpires(d), NEW b \in sending'
      PROVE  \E c \in sending : c.mail = b.mail /\ c.token = b.token
  <2>1. PICK a \in sending : b = IF a.mail = d /\ a.token = mail[d].claims
                                   THEN [a EXCEPT !.live = FALSE] ELSE a
    BY Zenon, <1>3 DEF MailLeaseExpires
  <2>2. a \in Sending
    BY Zenon DEF MInv, SendingKeys
  <2>3. b.mail = a.mail /\ b.token = a.token
    BY Zenon, <2>1, <2>2 DEF Sending
  <2> QED
    BY Zenon, <2>3
<1>4. ASSUME ClaimEmailDelivery, NEW b \in sending', b \notin sending
      PROVE  /\ b.mail \in Mail /\ mail'[b.mail].state = "delivering"
             /\ mail'[b.mail].claims = b.token
  <2>1. PICK d \in Mail :
          /\ MailCandidate(SweptMail, d)
          /\ mail' = [SweptMail EXCEPT ![d] = ClaimedMail(@)]
          /\ sending' = sending \union
                  {[mail |-> d, token |-> mail[d].claims + 1, live |-> TRUE,
                    at |-> "claimed", result |-> ""]}
    BY Zenon, <1>4 DEF ClaimEmailDelivery
  <2>2. b = [mail |-> d, token |-> mail[d].claims + 1, live |-> TRUE,
             at |-> "claimed", result |-> ""]
    BY Zenon, <1>4, <2>1
  <2>3. b.mail = d /\ b.token = mail[d].claims + 1
    BY Zenon, <2>2
  <2> QED
    BY Zenon, <2>1, <2>3, ClaimRows
<1>5. ASSUME NEW a \in sending, Send(a)
      PROVE  \E res : Proceed(a, "sent", res)
  BY Zenon, <1>5 DEF Send
<1>6. CASE \E a \in sending : \E at, res : Proceed(a, at, res)
  BY Zenon, <1>2, <1>6
<1>7. CASE WorksOnMail
  <2>1. \/ \E a \in sending : \E at, res : Proceed(a, at, res)
        \/ sending' \subseteq sending
    BY Zenon, <1>5, <1>7 DEF WorksOnMail, GetEmailTarget, Report, DropMail
  <2> QED
    BY Zenon, <1>1, <1>6, <2>1
<1>8. CASE ClaimsMail
  BY Zenon, <1>1, <1>4, <1>8 DEF ClaimsMail, ClaimNothing
<1>9. CASE \E d \in Mail : MailLeaseExpires(d)
  BY Zenon, <1>3, <1>9
<1>10. CASE QuietMailStep
  BY Zenon, <1>1, <1>10 DEF QuietMailStep
<1>11. CASE UNCHANGED mailVars
  BY Zenon, <1>1, <1>11 DEF mailVars
<1> QED
  BY Zenon, <1>7, <1>8, <1>9, <1>10, <1>11, EnqueueStep, EvaluationStep, RuleStep,
     TargetStep, ReplayStep DEF MailNext

\* The e-mail queue implements leased work: only the report of the holder of
\* the current, unexpired lease accepts, retries or kills a mail in flight,
\* only an expired lease is taken over or swept, and an accepted mail rests.
THEOREM MailImplementsLeasedWork == MailSpec => MailIsLeasedWork
<1>1. MailInit => MailWork!Init
  <2> SUFFICES ASSUME MailInit PROVE MailWork!Init
    OBVIOUS
  <2>1. \A d \in Mail : mail[d].state = "absent" /\ mail[d].live = FALSE
    BY DEF MailInit
  <2>2. \A d \in Mail : mail[d].state # "delivering" /\ MailPhase(mail[d]) = "absent"
    BY <2>1, MailPhases
  <2>3. {<<a.mail, a.token>> : a \in sending} = {}
    BY Zenon DEF MailInit
  <2> QED
    BY Zenon, <2>1, <2>2, <2>3 DEF MailWork!Init
<1>2. MInv /\ MInv' /\ [MailNext]_mailVars => MailWork!Next
  <2> SUFFICES ASSUME MInv, MInv', [MailNext]_mailVars PROVE MailWork!Next
    OBVIOUS
  <2>1. \A d \in Mail : MailWork!Move(d)
    BY Zenon, MailStep, MailMoveIsMove DEF MInv
  <2>2. MailHands' \subseteq MailHands \union
          {<<d, IF mail'[d].state = "delivering" THEN mail'[d].claims ELSE 0>> : d \in Mail}
    BY Zenon, MailHandsGrow DEF MailHands
  <2>3. \A d \in Mail :
          [q \in Mail |-> IF mail'[q].state = "delivering" THEN mail'[q].claims ELSE 0][d]
          = IF mail'[d].state = "delivering" THEN mail'[d].claims ELSE 0
    BY Zenon
  <2> QED
    BY Zenon, <2>1, <2>2, <2>3 DEF MailWork!Next, MailHands
<1> QED
  BY <1>1, <1>2, MailInvariant, PTL DEF MailSpec, MailIsLeasedWork, MailWork!Spec

-----------------------------------------------------------------------------
(* Webhooks: the inductive invariant                                       *)

\* Only an unfinished claim has a lease that runs, a delivery that does not
\* exist has no past, and no row is claimed beyond the limit.
HookRows ==
    \A d \in Deliveries :
        /\ delivery[d].live => delivery[d].state = "delivering"
        /\ delivery[d].state = "absent" => delivery[d] = NoDelivery
        /\ delivery[d].attempts <= HookAttempts

\* The token of a claim identifies it, and has been issued.
PostingKeys ==
    /\ IsFiniteSet(posting)
    /\ \A a, b \in posting : a.delivery = b.delivery /\ a.token = b.token => a = b
    /\ \A a \in posting : a.token > 0 /\ a.token <= delivery[a.delivery].claims

\* The claims of a delivery whose request is not yet out.
Unsent(d) == {a \in posting : a.delivery = d /\ a.result = "none"}

\* Every request answers to a claim of its own.
RequestPerClaim ==
    \A d \in Deliveries :
        posts[d] + Cardinality(Unsent(d)) <= delivery[d].claims

\* A replay starts the count of attempts again; between replays it counts the
\* claims.
ClaimsCounted ==
    \A d \in Deliveries :
        delivery[d].claims <= HookAttempts * hookReplays[d] + delivery[d].attempts

\* Every event comes from a request of its own.
RequestsCounted ==
    /\ IsFiniteSet(requests)
    /\ hookBudget.requests + Cardinality(requests) + Len(events) <= MaxHookEvents

HInv == /\ HookTypeOK /\ HookRows /\ PostingKeys /\ RequestPerClaim
        /\ ClaimsCounted /\ RequestsCounted /\ EventsTellHistory

-----------------------------------------------------------------------------
(* What a step may do to a row                                             *)

HookHands == {<<a.delivery, a.token>> : a \in posting}

HookKeeps(d) == delivery'[d] = delivery[d]
HookSets(d) == /\ delivery[d].state \in {"absent", "dead"}
               /\ delivery'[d].state = "pending"
HookLoses(d) == /\ delivery[d].state = "delivering" /\ ~delivery[d].live
                /\ delivery'[d].state = "dead"
HookExpires(d) == /\ delivery[d].state = "delivering" /\ delivery'[d].state = "delivering"
                  /\ ~delivery'[d].live /\ delivery'[d].claims = delivery[d].claims
HookEnds(d) == /\ delivery[d].state = "delivering" /\ delivery[d].live
               /\ <<d, delivery[d].claims>> \in HookHands \ HookHands'
               /\ delivery'[d].state \in {"succeeded", "retrying", "dead"}
HookTakes(d) == /\ \/ delivery[d].state \in {"pending", "retrying"}
                   \/ delivery[d].state = "delivering" /\ ~delivery[d].live
                /\ delivery'[d].state = "delivering" /\ delivery'[d].live
                /\ <<d, delivery'[d].claims>> \in HookHands' \ HookHands
HookMove(d) == \/ HookKeeps(d) \/ HookSets(d) \/ HookLoses(d) \/ HookExpires(d)
               \/ HookEnds(d) \/ HookTakes(d)

\* What a step leaves true of the deliveries, and of the artifact.
HookRowsTyped == /\ delivery \in [Deliveries -> DeliveryRow]
             /\ posting \subseteq Posting
             /\ posts \in [Deliveries -> Nat]
             /\ hookReplays \in [Deliveries -> Nat]
QueueInv == HookRowsTyped /\ HookRows /\ PostingKeys /\ RequestPerClaim /\ ClaimsCounted

FrontTyped ==
    /\ quarantine \in [state : {"absent"} \union EventTypes, version : Nat]
    /\ requests \subseteq [state : EventTypes, version : Nat]
    /\ events \in Seq(EventTypes)
    /\ hook \in [Hooks -> SUBSET EventTypes]
    /\ hookBudget \in [workers : Nat, requests : Nat, replays : Nat, changes : Nat]
FrontInv == FrontTyped /\ RequestsCounted /\ EventsTellHistory

\* The invariant has a part for the artifact and one for its deliveries.
LEMMA HookParts == HInv <=> QueueInv /\ FrontInv
<1>1. HInv => QueueInv /\ FrontInv
  BY Zenon DEF HInv, QueueInv, FrontInv, HookTypeOK, HookRowsTyped, FrontTyped
<1>2. ASSUME FrontInv PROVE Len(events) <= MaxHookEvents
  <2>1. Len(events) \in Nat /\ hookBudget.requests \in Nat
    BY <1>2 DEF FrontInv, FrontTyped
  <2>2. Cardinality(requests) \in Nat
    BY Zenon, <1>2, FS_CardinalityType DEF FrontInv, RequestsCounted
  <2> QED
    BY <1>2, <2>1, <2>2, HookBoundsAssumption DEF FrontInv, RequestsCounted
<1> QED
  BY Zenon, <1>1, <1>2 DEF HInv, QueueInv, FrontInv, HookTypeOK, HookRowsTyped, FrontTyped

\* The same, after a step.
LEMMA HookPartsAfter == HInv' <=> QueueInv' /\ FrontInv'
  BY HookParts, PTL

-----------------------------------------------------------------------------
(* Counting the requests that are not yet out                              *)

\* The unsent claims of a delivery are finitely many.
LEMMA UnsentFinite ==
    ASSUME IsFiniteSet(posting), NEW d
    PROVE  IsFiniteSet(Unsent(d)) /\ Cardinality(Unsent(d)) \in Nat
<1>1. Unsent(d) \subseteq posting
  BY Zenon DEF Unsent
<1> QED
  BY Zenon, <1>1, FS_Subset, FS_CardinalityType

\* A claim that is dropped or answered leaves no more of them.
LEMMA UnsentShrinks ==
    ASSUME IsFiniteSet(posting), posting' \subseteq posting, NEW d
    PROVE  /\ IsFiniteSet(Unsent(d)') /\ Cardinality(Unsent(d)') \in Nat
           /\ Cardinality(Unsent(d)') <= Cardinality(Unsent(d))
<1>1. Unsent(d)' \subseteq Unsent(d)
  BY Zenon DEF Unsent
<1>2. IsFiniteSet(Unsent(d))
  BY Zenon, UnsentFinite
<1> QED
  BY Zenon, <1>1, <1>2, FS_Subset, FS_CardinalityType

\* Steps that claim nothing and send nothing: a row may change within its
\* limits, and keeps the number of its claims.
LEMMA DeliveriesStep ==
    ASSUME QueueInv, posting' \subseteq posting, UNCHANGED posts,
           hookReplays' \in [Deliveries -> Nat],
           delivery' \in [Deliveries -> DeliveryRow],
           \A d \in Deliveries : delivery'[d].claims = delivery[d].claims,
           HookRows', ClaimsCounted'
    PROVE  QueueInv'
<1>1. HookRowsTyped'
  BY Zenon DEF QueueInv, HookRowsTyped
<1>2. PostingKeys'
  <2>1. IsFiniteSet(posting')
    BY Zenon, FS_Subset DEF QueueInv, PostingKeys
  <2>2. \A a \in posting' : a \in posting /\ a.delivery \in Deliveries
    BY Zenon DEF QueueInv, HookRowsTyped, Posting
  <2> QED
    BY Zenon, <2>1, <2>2 DEF QueueInv, PostingKeys
<1>3. RequestPerClaim'
  <2> SUFFICES ASSUME NEW d \in Deliveries
               PROVE  posts'[d] + Cardinality(Unsent(d)') <= delivery'[d].claims
    BY Zenon DEF RequestPerClaim
  <2>1. IsFiniteSet(posting) /\ posts[d] \in Nat /\ delivery[d].claims \in Nat
    BY Zenon DEF QueueInv, PostingKeys, HookRowsTyped, DeliveryRow
  <2>2. posts[d] + Cardinality(Unsent(d)) <= delivery[d].claims
    BY Zenon DEF QueueInv, RequestPerClaim
  <2>3. Cardinality(Unsent(d)') \in Nat /\ Cardinality(Unsent(d)) \in Nat
        /\ Cardinality(Unsent(d)') <= Cardinality(Unsent(d))
    BY Zenon, <2>1, UnsentFinite, UnsentShrinks
  <2>4. posts'[d] = posts[d] /\ delivery'[d].claims = delivery[d].claims
    BY Zenon
  <2> HIDE DEF Unsent
  <2> QED
    BY <2>1, <2>2, <2>3, <2>4
<1> QED
  BY Zenon, <1>1, <1>2, <1>3 DEF QueueInv

\* A step that leaves the deliveries alone.
LEMMA QueueRests ==
    ASSUME QueueInv, UNCHANGED <<delivery, posting, posts, hookReplays>>
    PROVE  QueueInv' /\ \A d \in Deliveries : HookMove(d)
  BY Zenon DEF QueueInv, HookRowsTyped, HookRows, PostingKeys, RequestPerClaim,
     ClaimsCounted, Unsent, HookMove, HookKeeps

\* A step that leaves the artifact, its requests and the budget of requests
\* alone: rows may only come to exist for events there are.
LEMMA FrontRests ==
    ASSUME FrontInv, UNCHANGED <<quarantine, requests, events, hook>>,
           hookBudget' \in [workers : Nat, requests : Nat, replays : Nat, changes : Nat],
           hookBudget'.requests = hookBudget.requests,
           \A d \in Deliveries : delivery[d].state = "absent" => delivery'[d].state = "absent"
    PROVE  FrontInv'
<1>1. FrontTyped' /\ RequestsCounted'
  BY Zenon DEF FrontInv, FrontTyped, RequestsCounted
<1>2. EventsTellHistory'
  BY Zenon DEF FrontInv, EventsTellHistory
<1> QED
  BY Zenon, <1>1, <1>2 DEF FrontInv

-----------------------------------------------------------------------------
(* Transitions                                                             *)

\* A request counts against the requests there may still be.
LEMMA ReadStep ==
    ASSUME HInv, NEW state \in EventTypes, ReadArtifactQuarantine(state)
    PROVE  HInv' /\ \A d \in Deliveries : HookMove(d)
<1> DEFINE r == [state |-> state, version |-> quarantine.version]
<1>0. QueueInv /\ FrontInv
  BY Zenon, HookParts
<1>1. QueueInv' /\ \A d \in Deliveries : HookMove(d)
  BY Zenon, <1>0, QueueRests DEF ReadArtifactQuarantine
<1>2. /\ hookBudget.requests \in Nat /\ hookBudget.requests > 0
      /\ hookBudget' = [hookBudget EXCEPT !.requests = @ - 1]
      /\ requests' = requests \union {r}
      /\ UNCHANGED <<quarantine, events, hook, delivery>>
  BY Zenon, <1>0 DEF ReadArtifactQuarantine, FrontInv, FrontTyped
<1>3. hookBudget.requests - 1 \in Nat
  BY <1>2
<1>4. /\ hookBudget' \in [workers : Nat, requests : Nat, replays : Nat, changes : Nat]
      /\ hookBudget'.requests = hookBudget.requests - 1
  BY Zenon, <1>0, <1>2, <1>3 DEF FrontInv, FrontTyped
<1>5. r \in [state : EventTypes, version : Nat]
  BY Zenon, <1>0 DEF FrontInv, FrontTyped
<1> HIDE DEF r
<1>6. FrontTyped'
  BY Zenon, <1>0, <1>2, <1>4, <1>5 DEF FrontInv, FrontTyped
<1>7. RequestsCounted'
  <2>1. /\ IsFiniteSet(requests) /\ Len(events) \in Nat
        /\ hookBudget.requests + Cardinality(requests) + Len(events) <= MaxHookEvents
    BY <1>0 DEF FrontInv, RequestsCounted, FrontTyped
  <2>2. /\ IsFiniteSet(requests') /\ Cardinality(requests) \in Nat
        /\ \/ Cardinality(requests') = Cardinality(requests)
           \/ Cardinality(requests') = Cardinality(requests) + 1
    <3>1. /\ IsFiniteSet(requests \union {r}) /\ Cardinality(requests) \in Nat
          /\ Cardinality(requests \union {r}) =
               IF r \in requests THEN Cardinality(requests) ELSE Cardinality(requests) + 1
      BY <2>1, FS_AddElement, FS_CardinalityType
    <3> QED
      BY Zenon, <1>2, <3>1
  <2>3. hookBudget'.requests + Cardinality(requests') + Len(events) <= MaxHookEvents
    BY <1>2, <1>4, <2>1, <2>2, HookBoundsAssumption
  <2> QED
    BY Zenon, <1>2, <2>2, <2>3 DEF RequestsCounted
<1>8. EventsTellHistory'
  BY Zenon, <1>0, <1>2 DEF FrontInv, EventsTellHistory
<1> QED
  BY Zenon, <1>1, <1>6, <1>7, <1>8, HookPartsAfter DEF FrontInv

\* The transition and its event commit together, with the deliveries of an
\* event there was not.
LEMMA TransitionStep ==
    ASSUME HInv, NEW r \in requests, ReplaceArtifactQuarantine(r)
    PROVE  HInv' /\ \A d \in Deliveries : HookMove(d)
<1> DEFINE moves == r.version = quarantine.version /\ (r.version = 0 => r.state = "quarantined")
           pending == [NoDelivery EXCEPT !.state = "pending"]
<1>0. QueueInv /\ FrontInv
  BY Zenon, HookParts
<1>1. /\ requests' = requests \ {r}
      /\ UNCHANGED <<hook, posting, posts, hookReplays, hookBudget>>
  BY Zenon DEF ReplaceArtifactQuarantine
<1>2. /\ IsFiniteSet(requests') /\ Cardinality(requests) \in Nat
      /\ Cardinality(requests') = Cardinality(requests) - 1
  BY Zenon, <1>0, <1>1, FS_RemoveElement, FS_CardinalityType DEF FrontInv, RequestsCounted
<1>3. /\ Len(events) \in Nat /\ hookBudget.requests \in Nat /\ MaxHookEvents \in Nat
      /\ hookBudget.requests + Cardinality(requests) + Len(events) <= MaxHookEvents
      /\ requests' \subseteq [state : EventTypes, version : Nat]
      /\ r.state \in EventTypes /\ r.version \in Nat
  <2>1. r.state \in EventTypes /\ r.version \in Nat
    BY Zenon, <1>0 DEF FrontInv, FrontTyped
  <2>2. Len(events) \in Nat /\ hookBudget.requests \in Nat
    BY <1>0 DEF FrontInv, FrontTyped
  <2> QED
    BY Zenon, <1>0, <1>1, <2>1, <2>2, HookBoundsAssumption DEF FrontInv, FrontTyped, RequestsCounted
<1>4. CASE ~moves
  <2>1. UNCHANGED <<quarantine, events, delivery>>
    BY Zenon, <1>4 DEF ReplaceArtifactQuarantine
  <2>2. QueueInv' /\ \A d \in Deliveries : HookMove(d)
    BY Zenon, <1>0, <1>1, <2>1, QueueRests
  <2>3. FrontTyped' /\ EventsTellHistory'
    BY Zenon, <1>0, <1>1, <1>3, <2>1 DEF FrontInv, FrontTyped, EventsTellHistory
  <2>4. hookBudget.requests + Cardinality(requests') + Len(events) <= MaxHookEvents
    BY <1>2, <1>3
  <2>5. RequestsCounted'
    BY Zenon, <1>1, <1>2, <2>1, <2>4 DEF RequestsCounted
  <2> QED
    BY Zenon, <2>2, <2>3, <2>5, HookPartsAfter DEF FrontInv
<1>5. CASE moves
  <2>1. /\ quarantine' = [state |-> r.state, version |-> r.version + 1]
        /\ events' = Append(events, r.state)
        /\ delivery' = [d \in Deliveries |->
                          IF d[1] = Len(events) + 1 /\ r.state \in hook[d[2]]
                            THEN pending ELSE delivery[d]]
    BY Zenon, <1>5 DEF ReplaceArtifactQuarantine, enqueueWebhookEvent
  <2>2. /\ pending \in DeliveryRow /\ pending.state = "pending" /\ pending.live = FALSE
        /\ pending.claims = 0 /\ pending.attempts = 0
    BY Zenon DEF DeliveryRow, NoDelivery
  <2> HIDE DEF pending, moves
  <2>3. ASSUME NEW d \in Deliveries, delivery'[d] # delivery[d]
        PROVE  /\ d[1] = Len(events) + 1 /\ delivery'[d] = pending
               /\ delivery[d] = NoDelivery
    <3>1. d[1] = Len(events) + 1 /\ delivery'[d] = pending
      BY Zenon, <2>1, <2>3
    <3>2. ~(d[1] <= Len(events))
      BY <1>3, <3>1
    <3> QED
      BY Zenon, <1>0, <3>1, <3>2 DEF FrontInv, EventsTellHistory, QueueInv, HookRows
  <2>4. delivery' \in [Deliveries -> DeliveryRow]
    BY Zenon, <1>0, <2>1, <2>2 DEF QueueInv, HookRowsTyped
  <2>5. /\ NoDelivery.state = "absent" /\ NoDelivery.claims = 0 /\ NoDelivery.attempts = 0
        /\ pending.state # "absent" /\ 0 <= HookAttempts
    BY <2>2, HookBoundsAssumption DEF NoDelivery
  <2>6. \A d \in Deliveries : /\ delivery'[d].claims = delivery[d].claims
                              /\ delivery'[d].attempts = delivery[d].attempts
    BY Zenon, <2>2, <2>3, <2>5
  <2>7. HookRows'
    BY Zenon, <1>0, <2>2, <2>3, <2>5 DEF QueueInv, HookRows
  <2>8. ClaimsCounted'
    BY Zenon, <1>0, <1>1, <2>6 DEF QueueInv, ClaimsCounted
  <2>9. QueueInv'
    BY Zenon, <1>0, <1>1, <2>4, <2>6, <2>7, <2>8, DeliveriesStep DEF QueueInv, HookRowsTyped
  <2>10. \A d \in Deliveries : HookMove(d)
    BY Zenon, <2>2, <2>3, <2>5 DEF HookMove, HookKeeps, HookSets
  <2>11. /\ events' \in Seq(EventTypes) /\ Len(events') = Len(events) + 1
         /\ events'[Len(events')] = r.state
    BY <1>0, <1>3, <2>1 DEF FrontInv, FrontTyped
  <2>12. r.version + 1 \in Nat /\ quarantine'.version = r.version + 1 /\ quarantine'.state = r.state
    BY <1>3, <2>1
  <2>13. FrontTyped'
    BY Zenon, <1>0, <1>1, <1>3, <2>1, <2>11, <2>12 DEF FrontInv, FrontTyped
  <2>14. hookBudget.requests + Cardinality(requests') + Len(events') <= MaxHookEvents
    BY <1>2, <1>3, <2>11
  <2>15. RequestsCounted'
    BY Zenon, <1>1, <1>2, <2>14 DEF RequestsCounted
  <2>16. Len(events') = quarantine'.version
    BY Zenon, <1>0, <1>5, <2>11, <2>12 DEF FrontInv, EventsTellHistory, moves
  <2>17. ASSUME NEW d \in Deliveries, delivery'[d].state # "absent"
         PROVE  d[1] <= Len(events')
    <3>1. d[1] = Len(events) + 1 \/ d[1] <= Len(events)
      BY Zenon, <1>0, <2>3, <2>17 DEF FrontInv, EventsTellHistory
    <3>2. d[1] \in Nat
      BY DEF Deliveries
    <3> QED
      BY <1>3, <2>11, <3>1, <3>2
  <2> QED
    BY Zenon, <2>9, <2>10, <2>11, <2>12, <2>13, <2>15, <2>16, <2>17, HookPartsAfter
       DEF FrontInv, EventsTellHistory
<1> QED
  BY Zenon, <1>4, <1>5

\* Changing a subscription leaves the deliveries it has.
LEMMA SubscriptionStep ==
    ASSUME HInv, NEW s \in Hooks, UpdateWebhookSubscription(s)
    PROVE  HInv' /\ \A d \in Deliveries : HookMove(d)
<1>0. QueueInv /\ FrontInv
  BY Zenon, HookParts
<1>1. QueueInv' /\ \A d \in Deliveries : HookMove(d)
  BY Zenon, <1>0, QueueRests DEF UpdateWebhookSubscription
<1>2. /\ hookBudget.changes \in Nat /\ hookBudget.changes > 0
      /\ hookBudget' = [hookBudget EXCEPT !.changes = @ - 1]
      /\ UNCHANGED <<quarantine, requests, events, delivery>>
  BY Zenon, <1>0 DEF UpdateWebhookSubscription, FrontInv, FrontTyped
<1>3. hookBudget.changes - 1 \in Nat
  BY <1>2
<1>4. /\ hookBudget' \in [workers : Nat, requests : Nat, replays : Nat, changes : Nat]
      /\ hookBudget'.requests = hookBudget.requests
  BY Zenon, <1>0, <1>2, <1>3 DEF FrontInv, FrontTyped
<1>5. \A t \in {{}, {"quarantined"}, EventTypes} : t \subseteq EventTypes
  BY DEF EventTypes
<1>6. hook' \in [Hooks -> SUBSET EventTypes]
  BY Zenon, <1>0, <1>5 DEF UpdateWebhookSubscription, FrontInv, FrontTyped
<1>7. FrontTyped' /\ RequestsCounted' /\ EventsTellHistory'
  BY Zenon, <1>0, <1>2, <1>4, <1>6 DEF FrontInv, FrontTyped, RequestsCounted, EventsTellHistory
<1> QED
  BY Zenon, <1>1, <1>7, HookPartsAfter DEF FrontInv

-----------------------------------------------------------------------------
(* Deliveries                                                              *)

\* A settled row is a row with its claims and attempts, and no lease.
LEMMA SettledHookRow ==
    ASSUME NEW row \in DeliveryRow, NEW st \in {"succeeded", "retrying", "dead"}
    PROVE  /\ SettledDelivery(row, st) \in DeliveryRow
           /\ SettledDelivery(row, st).state = st /\ SettledDelivery(row, st).live = FALSE
           /\ SettledDelivery(row, st).claims = row.claims
           /\ SettledDelivery(row, st).attempts = row.attempts
  BY Zenon DEF SettledDelivery, DeliveryRow

\* The outcome of a finished request is one of three.
LEMMA OutcomeOfHook ==
    ASSUME NEW a
    PROVE  HookOutcome(a) \in {"succeeded", "retrying", "dead"}
  BY Zenon DEF HookOutcome

\* A row that the claim does not take is kept, or dies exhausted.
LEMMA UnclaimedRow ==
    ASSUME HInv, NEW d \in Deliveries,
           delivery'[d] = IF Exhausted(d) THEN SettledDelivery(delivery[d], "dead") ELSE delivery[d]
    PROVE  /\ delivery'[d] \in DeliveryRow
           /\ delivery'[d].claims = delivery[d].claims
           /\ delivery'[d].attempts = delivery[d].attempts
           /\ delivery'[d].live => delivery'[d].state = "delivering"
           /\ delivery'[d].state = "absent" => delivery'[d] = NoDelivery
           /\ delivery[d].state = "absent" => delivery'[d].state = "absent"
           /\ HookMove(d)
<1>0. delivery[d] \in DeliveryRow
  BY Zenon DEF HInv, HookTypeOK
<1>1. CASE Exhausted(d)
  <2>1. delivery'[d] = SettledDelivery(delivery[d], "dead")
    BY Zenon, <1>1
  <2>2. /\ delivery'[d] \in DeliveryRow /\ delivery'[d].state = "dead"
        /\ delivery'[d].live = FALSE
        /\ delivery'[d].claims = delivery[d].claims
        /\ delivery'[d].attempts = delivery[d].attempts
    <3>1. "dead" \in {"succeeded", "retrying", "dead"}
      OBVIOUS
    <3> DEFINE row == delivery[d]
    <3>2. row \in DeliveryRow
      BY Zenon, <1>0
    <3> HIDE DEF row
    <3>3. /\ SettledDelivery(row, "dead") \in DeliveryRow
          /\ SettledDelivery(row, "dead").state = "dead" /\ SettledDelivery(row, "dead").live = FALSE
          /\ SettledDelivery(row, "dead").claims = row.claims
          /\ SettledDelivery(row, "dead").attempts = row.attempts
      BY Zenon, <3>1, <3>2, SettledHookRow
    <3> QED
      BY Zenon, <2>1, <3>3 DEF row
  <2>3. delivery[d].state = "delivering" /\ ~delivery[d].live
    BY Zenon, <1>1 DEF Exhausted
  <2> QED
    BY Zenon, <2>2, <2>3 DEF HookMove, HookLoses
<1>2. CASE ~Exhausted(d)
  <2>1. delivery'[d] = delivery[d]
    BY Zenon, <1>2
  <2> QED
    BY Zenon, <1>0, <2>1 DEF HInv, HookRows, HookMove, HookKeeps
<1> QED
  BY Zenon, <1>1, <1>2

\* Exhausted deliveries die and at most one delivery gets a claim, which is
\* one more attempt.
LEMMA HookClaimStep ==
    ASSUME HInv, ClaimWebhookDeliveries
    PROVE  HInv' /\ \A d \in Deliveries : HookMove(d)
<1> DEFINE taken(d) == [delivery[d] EXCEPT !.state = "delivering", !.live = TRUE,
                                           !.attempts = @ + 1, !.claims = @ + 1]
           new(d) == [delivery |-> d, token |-> delivery[d].claims + 1, result |-> "none"]
<1>0. QueueInv /\ FrontInv
  BY Zenon, HookParts
<1>1. PICK chosen \in SUBSET {d \in Deliveries : HookCandidate(d)} :
        /\ \A d, e \in chosen : d = e
        /\ delivery' = [d \in Deliveries |->
              IF d \in chosen THEN taken(d)
              ELSE IF Exhausted(d) THEN SettledDelivery(delivery[d], "dead") ELSE delivery[d]]
        /\ posting' = posting \union {new(d) : d \in chosen}
        /\ UNCHANGED <<quarantine, requests, events, hook, posts, hookReplays, hookBudget>>
  BY Zenon DEF ClaimWebhookDeliveries
<1>2. ASSUME NEW d \in Deliveries, d \notin chosen
      PROVE  /\ delivery'[d] \in DeliveryRow
             /\ delivery'[d].claims = delivery[d].claims
             /\ delivery'[d].attempts = delivery[d].attempts
             /\ delivery'[d].live => delivery'[d].state = "delivering"
             /\ delivery'[d].state = "absent" => delivery'[d] = NoDelivery
             /\ delivery[d].state = "absent" => delivery'[d].state = "absent"
             /\ HookMove(d)
  <2>1. delivery'[d] = IF Exhausted(d) THEN SettledDelivery(delivery[d], "dead") ELSE delivery[d]
    BY Zenon, <1>1, <1>2
  <2> QED
    BY Zenon, <2>1, UnclaimedRow
<1>3. ASSUME NEW d \in chosen
      PROVE  /\ d \in Deliveries /\ delivery'[d] = taken(d)
             /\ delivery'[d] \in DeliveryRow
             /\ delivery'[d].state = "delivering" /\ delivery'[d].live = TRUE
             /\ delivery'[d].claims = delivery[d].claims + 1
             /\ delivery'[d].attempts = delivery[d].attempts + 1
             /\ delivery[d].state # "absent" /\ delivery'[d].attempts <= HookAttempts
             /\ delivery[d].claims \in Nat /\ delivery[d].attempts \in Nat
             /\ \/ delivery[d].state \in {"pending", "retrying"}
                \/ delivery[d].state = "delivering" /\ ~delivery[d].live
  <2>1. d \in Deliveries /\ delivery'[d] = taken(d) /\ HookCandidate(d)
    BY Zenon, <1>1
  <2>2. /\ delivery[d] \in DeliveryRow /\ delivery[d].claims \in Nat
        /\ delivery[d].attempts \in Nat /\ HookAttempts \in Nat
    BY Zenon, <1>0, <2>1, HookBoundsAssumption DEF QueueInv, HookRowsTyped, DeliveryRow
  <2>3. delivery[d].claims + 1 \in Nat /\ delivery[d].attempts + 1 \in Nat
        /\ delivery[d].attempts + 1 <= HookAttempts
    BY <2>1, <2>2 DEF HookCandidate
  <2>4. /\ taken(d) \in DeliveryRow /\ taken(d).state = "delivering" /\ taken(d).live = TRUE
        /\ taken(d).claims = delivery[d].claims + 1
        /\ taken(d).attempts = delivery[d].attempts + 1
    BY Zenon, <2>2, <2>3 DEF DeliveryRow
  <2>5. /\ delivery[d].state # "absent"
        /\ \/ delivery[d].state \in {"pending", "retrying"}
           \/ delivery[d].state = "delivering" /\ ~delivery[d].live
    BY <2>1 DEF HookCandidate
  <2> QED
    BY Zenon, <2>1, <2>2, <2>3, <2>4, <2>5
<1>4. delivery' \in [Deliveries -> DeliveryRow]
  <2>1. \A d \in Deliveries : delivery'[d] \in DeliveryRow
    BY Zenon, <1>2, <1>3
  <2> HIDE DEF taken
  <2> QED
    BY Zenon, <1>1, <2>1
<1> HIDE DEF taken
<1>5. HookRows'
  <2>1. \A d \in chosen : /\ delivery'[d].state = "delivering" /\ delivery'[d].attempts <= HookAttempts
                          /\ delivery'[d].state # "absent"
    BY Zenon, <1>3
  <2> QED
    BY Zenon, <1>0, <1>2, <2>1 DEF QueueInv, HookRows
<1>6. ClaimsCounted'
  <2> SUFFICES ASSUME NEW d \in Deliveries
               PROVE  delivery'[d].claims <= HookAttempts * hookReplays'[d] + delivery'[d].attempts
    BY Zenon DEF ClaimsCounted
  <2>1. hookReplays' = hookReplays
    BY Zenon, <1>1
  <2>2. delivery[d].claims <= HookAttempts * hookReplays[d] + delivery[d].attempts
    BY Zenon, <1>0 DEF QueueInv, ClaimsCounted
  <2>3. CASE d \notin chosen
    BY Zenon, <1>2, <2>1, <2>2, <2>3
  <2>4. CASE d \in chosen
    <3> DEFINE base == HookAttempts * hookReplays[d]
    <3>1. base \in Nat
      BY <1>0, HookBoundsAssumption DEF QueueInv, HookRowsTyped
    <3>2. delivery[d].claims <= base + delivery[d].attempts
      BY Zenon, <2>2
    <3> HIDE DEF base
    <3>3. delivery[d].claims \in Nat /\ delivery[d].attempts \in Nat
      BY Zenon, <1>3, <2>4
    <3>4. delivery[d].claims + 1 <= base + (delivery[d].attempts + 1)
      BY <3>1, <3>2, <3>3
    <3> QED
      BY Zenon, <1>3, <2>1, <2>4, <3>4 DEF base
  <2> QED
    BY Zenon, <2>3, <2>4
<1>7. FrontInv'
  BY Zenon, <1>0, <1>1, <1>2, <1>3, FrontRests DEF FrontInv, FrontTyped
<1>8. CASE chosen = {}
  <2>1. posting' = posting
    BY Zenon, <1>1, <1>8
  <2>2. QueueInv'
    BY Zenon, <1>0, <1>1, <1>2, <1>4, <1>5, <1>6, <1>8, <2>1, DeliveriesStep DEF QueueInv, HookRowsTyped
  <2> QED
    BY Zenon, <1>2, <1>7, <1>8, <2>2, HookPartsAfter
<1>9. ASSUME NEW c \in chosen
      PROVE  QueueInv' /\ HookMove(c)
  <2>1. /\ posting' = posting \union {new(c)} /\ c \in Deliveries
        /\ \A d \in Deliveries : d # c => d \notin chosen
        /\ delivery[c].claims \in Nat
    <3>1. chosen = {c}
      BY Zenon, <1>1
    <3>2. {new(d) : d \in chosen} = {new(c)}
      BY Zenon, <3>1
    <3> QED
      BY Zenon, <1>1, <1>3, <3>1, <3>2
  <2>0. delivery'[c].claims = delivery[c].claims + 1
    BY Zenon, <1>3
  <2>2. /\ new(c) \in Posting /\ new(c).delivery = c /\ new(c).result = "none"
        /\ new(c).token = delivery[c].claims + 1
    <3>1. delivery[c].claims + 1 \in Nat
      BY <2>1
    <3> QED
      BY Zenon, <2>1, <3>1 DEF Posting
  <2> HIDE DEF new
  <2>3. \A a \in posting : /\ a.delivery \in Deliveries /\ a.token \in Nat
                           /\ a.token > 0 /\ a.token <= delivery[a.delivery].claims
    BY Zenon, <1>0 DEF QueueInv, HookRowsTyped, PostingKeys, Posting
  <2>4. \A a \in posting : ~(a.delivery = c /\ a.token = delivery[c].claims + 1)
    BY <2>1, <2>3
  <2>5. new(c) \notin posting
    BY Zenon, <2>2, <2>4
  <2>6. HookRowsTyped'
    BY Zenon, <1>0, <1>1, <1>4, <2>1, <2>2 DEF QueueInv, HookRowsTyped
  <2>7. PostingKeys'
    <3>1. IsFiniteSet(posting')
      BY <1>0, <2>1, FS_AddElement DEF QueueInv, PostingKeys
    <3>2. \A a \in posting : a.token <= delivery'[a.delivery].claims
      <4> SUFFICES ASSUME NEW a \in posting PROVE a.token <= delivery'[a.delivery].claims
        OBVIOUS
      <4>1. CASE a.delivery = c
        BY <2>1, <2>3, <2>0, <4>1
      <4>2. CASE a.delivery # c
        BY Zenon, <1>2, <2>1, <2>3, <4>2
      <4> QED
        BY Zenon, <4>1, <4>2
    <3>3. delivery[c].claims + 1 > 0 /\ delivery[c].claims + 1 <= delivery'[c].claims
      BY <2>1, <2>0
    <3>4. \A a, b \in posting' : a.delivery = b.delivery /\ a.token = b.token => a = b
      <4>1. \A a, b \in posting : a.delivery = b.delivery /\ a.token = b.token => a = b
        BY Zenon, <1>0 DEF QueueInv, PostingKeys
      <4>2. \A a \in posting : ~(a.delivery = new(c).delivery /\ a.token = new(c).token)
        BY Zenon, <2>2, <2>4
      <4> QED
        BY Zenon, <2>1, <4>1, <4>2
    <3>5. \A a \in posting' : a.token > 0 /\ a.token <= delivery'[a.delivery].claims
      BY Zenon, <2>1, <2>2, <2>3, <3>2, <3>3
    <3> QED
      BY Zenon, <3>1, <3>4, <3>5 DEF PostingKeys
  <2>8. RequestPerClaim'
    <3> SUFFICES ASSUME NEW d \in Deliveries
                 PROVE  posts'[d] + Cardinality(Unsent(d)') <= delivery'[d].claims
      BY Zenon DEF RequestPerClaim
    <3>1. /\ posts'[d] = posts[d] /\ posts[d] \in Nat /\ delivery[d].claims \in Nat
          /\ posts[d] + Cardinality(Unsent(d)) <= delivery[d].claims
          /\ IsFiniteSet(Unsent(d)) /\ Cardinality(Unsent(d)) \in Nat
      BY Zenon, <1>0, <1>1, UnsentFinite
         DEF QueueInv, HookRowsTyped, DeliveryRow, RequestPerClaim, PostingKeys
    <3>2. CASE d = c
      <4>1. Unsent(c)' = Unsent(c) \union {new(c)} /\ new(c) \notin Unsent(c)
        BY Zenon, <2>1, <2>2, <2>5 DEF Unsent
      <4>2. Cardinality(Unsent(c)') = Cardinality(Unsent(c)) + 1
        BY Zenon, <3>1, <3>2, <4>1, FS_AddElement
      <4> HIDE DEF Unsent
      <4> QED
        BY <2>0, <3>1, <3>2, <4>2
    <3>3. CASE d # c
      <4>1. Unsent(d)' = Unsent(d)
        BY Zenon, <2>1, <2>2, <3>3 DEF Unsent
      <4> QED
        BY Zenon, <1>2, <2>1, <3>1, <3>3, <4>1
    <3> QED
      BY Zenon, <3>2, <3>3
  <2>9. HookMove(c)
    <3>1. <<c, delivery'[c].claims>> \in HookHands'
      BY Zenon, <2>1, <2>2, <2>0 DEF HookHands
    <3>2. <<c, delivery'[c].claims>> \notin HookHands
      <4> SUFFICES ASSUME <<c, delivery'[c].claims>> \in HookHands PROVE FALSE
        OBVIOUS
      <4>1. PICK a \in posting : <<c, delivery'[c].claims>> = <<a.delivery, a.token>>
        BY Zenon DEF HookHands
      <4>2. c = a.delivery /\ delivery'[c].claims = a.token
        BY <4>1
      <4> QED
        BY Zenon, <1>3, <2>4, <4>2
    <3> QED
      BY Zenon, <1>3, <3>1, <3>2 DEF HookMove, HookTakes
  <2> QED
    BY Zenon, <1>5, <1>6, <2>6, <2>7, <2>8, <2>9 DEF QueueInv
<1> QED
  BY Zenon, <1>2, <1>7, <1>8, <1>9, HookPartsAfter

\* The request uses up the claim it answers to, whether or not it went out.
LEMMA DeliverStep ==
    ASSUME HInv, NEW a \in posting, deliverWebhook(a)
    PROVE  HInv' /\ \A d \in Deliveries : HookMove(d)
<1>0. QueueInv /\ FrontInv
  BY Zenon, HookParts
<1>1. PICK result \in {"ok", "failed", "permanent"} :
        posting' = (posting \ {a}) \union {[a EXCEPT !.result = result]}
  BY Zenon DEF deliverWebhook
<1>2. /\ posts' = [posts EXCEPT ![a.delivery] = @ + 1] \/ posts' = posts
      /\ UNCHANGED <<quarantine, requests, events, hook, delivery, hookReplays, hookBudget>>
      /\ a.result = "none"
  BY Zenon DEF deliverWebhook
<1> DEFINE b == [a EXCEPT !.result = result]
<1>3. /\ a \in Posting /\ a.delivery \in Deliveries
      /\ b \in Posting /\ b.delivery = a.delivery /\ b.token = a.token /\ b.result = result
  BY Zenon, <1>0 DEF QueueInv, HookRowsTyped, Posting
<1>4. b.result # "none"
  BY <1>3
<1>5. posting' = (posting \ {a}) \union {b}
  BY Zenon, <1>1
<1> HIDE DEF b
<1>6. FrontInv'
  BY Zenon, <1>0, <1>2, FrontRests DEF FrontInv, FrontTyped
<1>7. /\ posts' \in [Deliveries -> Nat]
      /\ \A d \in Deliveries : \/ posts'[d] = posts[d]
                               \/ d = a.delivery /\ posts'[d] = posts[d] + 1
  <2>1. posts \in [Deliveries -> Nat] /\ posts[a.delivery] + 1 \in Nat
    BY <1>0, <1>3 DEF QueueInv, HookRowsTyped
  <2> QED
    BY Zenon, <1>2, <1>3, <2>1
<1>8. HookRowsTyped'
  BY Zenon, <1>0, <1>2, <1>3, <1>5, <1>7 DEF QueueInv, HookRowsTyped
<1>9. HookRows' /\ ClaimsCounted'
  BY Zenon, <1>0, <1>2 DEF QueueInv, HookRows, ClaimsCounted
<1>10. PostingKeys'
  <2>1. IsFiniteSet(posting')
    <3>1. IsFiniteSet(posting \ {a})
      BY Zenon, <1>0, FS_RemoveElement DEF QueueInv, PostingKeys
    <3> QED
      BY Zenon, <1>5, <3>1, FS_AddElement
  <2>2. \A e \in posting' : e = b \/ (e \in posting /\ e # a)
    BY Zenon, <1>5
  <2>3. \A e, f \in posting' : e.delivery = f.delivery /\ e.token = f.token => e = f
    BY Zenon, <1>0, <1>3, <2>2 DEF QueueInv, PostingKeys
  <2>4. \A e \in posting' : e.token > 0 /\ e.token <= delivery'[e.delivery].claims
    BY Zenon, <1>0, <1>2, <1>3, <2>2 DEF QueueInv, PostingKeys
  <2> QED
    BY Zenon, <2>1, <2>3, <2>4 DEF PostingKeys
<1>11. RequestPerClaim'
  <2> SUFFICES ASSUME NEW d \in Deliveries
               PROVE  posts'[d] + Cardinality(Unsent(d)') <= delivery'[d].claims
    BY Zenon DEF RequestPerClaim
  <2>1. /\ posts[d] \in Nat /\ delivery'[d] = delivery[d] /\ delivery[d].claims \in Nat
        /\ posts[d] + Cardinality(Unsent(d)) <= delivery[d].claims
        /\ IsFiniteSet(Unsent(d)) /\ Cardinality(Unsent(d)) \in Nat
    BY Zenon, <1>0, <1>2, UnsentFinite
       DEF QueueInv, HookRowsTyped, DeliveryRow, RequestPerClaim, PostingKeys
  <2>2. CASE d = a.delivery
    <3>1. Unsent(d)' = Unsent(d) \ {a} /\ a \in Unsent(d)
      BY Zenon, <1>2, <1>3, <1>4, <1>5, <2>2 DEF Unsent
    <3>2. Cardinality(Unsent(d)') = Cardinality(Unsent(d)) - 1
      BY Zenon, <2>1, <3>1, FS_RemoveElement
    <3>3. posts'[d] = posts[d] \/ posts'[d] = posts[d] + 1
      BY Zenon, <1>7
    <3> HIDE DEF Unsent
    <3> QED
      BY <2>1, <3>2, <3>3
  <2>3. CASE d # a.delivery
    <3>1. Unsent(d)' = Unsent(d)
      BY Zenon, <1>3, <1>5, <2>3 DEF Unsent
    <3> QED
      BY Zenon, <1>7, <2>1, <2>3, <3>1
  <2> QED
    BY Zenon, <2>2, <2>3
<1>12. \A d \in Deliveries : HookMove(d)
  BY Zenon, <1>2 DEF HookMove, HookKeeps
<1> QED
  BY Zenon, <1>6, <1>8, <1>9, <1>10, <1>11, <1>12, HookPartsAfter DEF QueueInv

\* A claim is forgotten: the process stops, or its answer comes too late.
LEMMA ForgetHookStep ==
    ASSUME HInv, NEW a \in posting, posting' = posting \ {a},
           UNCHANGED <<quarantine, requests, events, hook, delivery, posts,
                       hookReplays, hookBudget>>
    PROVE  HInv' /\ \A d \in Deliveries : HookMove(d)
<1>0. QueueInv /\ FrontInv
  BY Zenon, HookParts
<1>1. FrontInv'
  BY Zenon, <1>0, FrontRests DEF FrontInv, FrontTyped
<1>2. HookRows' /\ ClaimsCounted' /\ HookRowsTyped'
  BY Zenon, <1>0 DEF QueueInv, HookRows, ClaimsCounted, HookRowsTyped
<1>3. QueueInv'
  BY Zenon, <1>0, <1>2, DeliveriesStep DEF HookRowsTyped
<1> QED
  BY Zenon, <1>1, <1>3, HookPartsAfter DEF HookMove, HookKeeps

\* Steps that change one row and keep its claims.
LEMMA OneDeliveryStep ==
    ASSUME HInv, NEW d \in Deliveries, NEW row \in DeliveryRow,
           delivery' = [delivery EXCEPT ![d] = row], posting' \subseteq posting,
           hookReplays' \in [Deliveries -> Nat],
           hookBudget' \in [workers : Nat, requests : Nat, replays : Nat, changes : Nat],
           hookBudget'.requests = hookBudget.requests,
           UNCHANGED <<quarantine, requests, events, hook, posts>>,
           row.claims = delivery[d].claims, row.live => row.state = "delivering",
           row.state # "absent", row.attempts <= HookAttempts,
           delivery[d].state # "absent",
           row.claims <= HookAttempts * hookReplays'[d] + row.attempts,
           \A e \in Deliveries : e # d => hookReplays'[e] = hookReplays[e]
    PROVE  HInv' /\ delivery'[d] = row /\ \A e \in Deliveries : e # d => HookMove(e)
<1>0. QueueInv /\ FrontInv
  BY Zenon, HookParts
<1>1. /\ delivery'[d] = row /\ delivery' \in [Deliveries -> DeliveryRow]
      /\ \A e \in Deliveries : e # d => delivery'[e] = delivery[e]
  BY Zenon, <1>0 DEF QueueInv, HookRowsTyped
<1>2. FrontInv'
  BY Zenon, <1>0, <1>1, FrontRests
<1>3. HookRows'
  BY Zenon, <1>0, <1>1 DEF QueueInv, HookRows
<1>4. ClaimsCounted'
  BY Zenon, <1>0, <1>1 DEF QueueInv, ClaimsCounted
<1>5. QueueInv'
  BY Zenon, <1>0, <1>1, <1>3, <1>4, DeliveriesStep
<1> QED
  BY Zenon, <1>1, <1>2, <1>5, HookPartsAfter DEF HookMove, HookKeeps

\* The lease of a delivery in flight runs out.
LEMMA HookExpiryStep ==
    ASSUME HInv, NEW d \in Deliveries, HookLeaseExpires(d)
    PROVE  HInv' /\ \A e \in Deliveries : HookMove(e)
<1> DEFINE row == [delivery[d] EXCEPT !.live = FALSE]
<1>0. QueueInv /\ FrontInv
  BY Zenon, HookParts
<1>1. /\ delivery[d].state = "delivering" /\ delivery' = [delivery EXCEPT ![d] = row]
      /\ UNCHANGED <<quarantine, requests, events, hook, posting, posts, hookReplays, hookBudget>>
  BY Zenon DEF HookLeaseExpires
<1>2. delivery[d] \in DeliveryRow /\ delivery[d].attempts <= HookAttempts
      /\ delivery[d].claims <= HookAttempts * hookReplays[d] + delivery[d].attempts
  BY Zenon, <1>0 DEF QueueInv, HookRowsTyped, HookRows, ClaimsCounted
<1>3. /\ row \in DeliveryRow /\ row.state = delivery[d].state /\ row.live = FALSE
      /\ row.claims = delivery[d].claims /\ row.attempts = delivery[d].attempts
  BY Zenon, <1>2 DEF DeliveryRow
<1>4. row.state # "absent" /\ delivery[d].state # "absent"
  BY <1>1, <1>3
<1> HIDE DEF row
<1>5. HInv' /\ delivery'[d] = row /\ \A e \in Deliveries : e # d => HookMove(e)
  BY Zenon, <1>0, <1>1, <1>2, <1>3, <1>4, OneDeliveryStep DEF QueueInv, HookRowsTyped, FrontInv, FrontTyped
<1>6. HookMove(d)
  BY Zenon, <1>1, <1>3, <1>5 DEF HookMove, HookExpires
<1> QED
  BY Zenon, <1>5, <1>6

\* The holder of the lease settles its delivery; anyone else is refused.
LEMMA FinishHookStep ==
    ASSUME HInv, NEW a \in posting, FinishWebhookDelivery(a)
    PROVE  HInv' /\ \A d \in Deliveries : HookMove(d)
<1>0. QueueInv /\ FrontInv
  BY Zenon, HookParts
<1>1. CASE ~HoldsHook(a)
  BY Zenon, <1>1, ForgetHookStep DEF FinishWebhookDelivery
<1>2. CASE HoldsHook(a)
  <2> DEFINE d == a.delivery
             old == delivery[d]
             row == SettledDelivery(old, HookOutcome(a))
  <2>1. /\ delivery' = [delivery EXCEPT ![d] = row] /\ posting' = posting \ {a}
        /\ UNCHANGED <<quarantine, requests, events, hook, posts, hookReplays, hookBudget>>
    BY Zenon, <1>2 DEF FinishWebhookDelivery
  <2>2. /\ d \in Deliveries /\ old \in DeliveryRow /\ old.attempts <= HookAttempts
        /\ old.claims <= HookAttempts * hookReplays[d] + old.attempts
    BY Zenon, <1>0 DEF QueueInv, HookRowsTyped, Posting, HookRows, ClaimsCounted
  <2>3. old.state = "delivering" /\ old.live /\ old.claims = a.token
    BY Zenon, <1>2 DEF HoldsHook
  <2>4. HookOutcome(a) \in {"succeeded", "retrying", "dead"}
    BY Zenon, OutcomeOfHook
  <2> HIDE DEF old
  <2>5. /\ row \in DeliveryRow /\ row.state = HookOutcome(a) /\ row.live = FALSE
        /\ row.claims = old.claims /\ row.attempts = old.attempts
    BY Zenon, <2>2, <2>4, SettledHookRow
  <2>6. row.state # "absent" /\ old.state # "absent"
    <3> HIDE DEF row
    <3> QED
      BY <2>3, <2>4, <2>5
  <2> HIDE DEF row
  <2>7. HInv' /\ delivery'[d] = row /\ \A e \in Deliveries : e # d => HookMove(e)
    <3>1. posting' \subseteq posting /\ hookReplays' = hookReplays /\ hookBudget' = hookBudget
      BY Zenon, <2>1
    <3>2. /\ hookReplays \in [Deliveries -> Nat]
          /\ hookBudget \in [workers : Nat, requests : Nat, replays : Nat, changes : Nat]
      BY Zenon, <1>0 DEF QueueInv, HookRowsTyped, FrontInv, FrontTyped
    <3> QED
      BY Zenon, <2>1, <2>2, <2>5, <2>6, <3>1, <3>2, OneDeliveryStep DEF old
  <2>8. <<d, old.claims>> \in HookHands \ HookHands'
    <3>1. <<d, old.claims>> \in HookHands
      BY Zenon, <2>3 DEF HookHands
    <3>2. ASSUME <<d, old.claims>> \in HookHands' PROVE FALSE
      <4>1. PICK b \in posting' : <<d, old.claims>> = <<b.delivery, b.token>>
        BY Zenon, <3>2 DEF HookHands
      <4>2. b.delivery = a.delivery /\ b.token = a.token
        BY <2>3, <4>1
      <4>3. b = a
        BY Zenon, <1>0, <2>1, <4>1, <4>2 DEF QueueInv, PostingKeys
      <4> QED
        BY Zenon, <2>1, <4>3
    <3> QED
      BY Zenon, <3>1, <3>2
  <2>9. HookMove(d)
    BY Zenon, <2>3, <2>4, <2>5, <2>7, <2>8 DEF HookMove, HookEnds, old
  <2> QED
    BY Zenon, <2>7, <2>9
<1> QED
  BY Zenon, <1>1, <1>2

\* One more replay allows HookAttempts more claims.
LEMMA MoreClaims ==
    ASSUME NEW k \in Nat
    PROVE  HookAttempts * (k + 1) = HookAttempts * k + HookAttempts
  BY SMTT(20), HookBoundsAssumption

\* A dead delivery starts again, with its attempts reset and its claims not.
LEMMA ReplayHookStep ==
    ASSUME HInv, NEW d \in Deliveries, ReplayWebhookDelivery(d)
    PROVE  HInv' /\ \A e \in Deliveries : HookMove(e)
<1> DEFINE row == [delivery[d] EXCEPT !.state = "pending", !.attempts = 0]
<1>0. QueueInv /\ FrontInv
  BY Zenon, HookParts
<1>1. /\ delivery[d].state = "dead" /\ hookBudget.replays > 0
      /\ hookBudget' = [hookBudget EXCEPT !.replays = @ - 1]
      /\ hookReplays' = [hookReplays EXCEPT ![d] = @ + 1]
      /\ delivery' = [delivery EXCEPT ![d].state = "pending", ![d].attempts = 0]
      /\ UNCHANGED <<quarantine, requests, events, hook, posting, posts>>
  BY Zenon DEF ReplayWebhookDelivery
<1>2. /\ delivery[d] \in DeliveryRow /\ delivery[d].attempts \in Nat
      /\ delivery[d].claims \in Nat /\ hookReplays[d] \in Nat /\ HookAttempts \in Nat
      /\ hookBudget.replays \in Nat /\ delivery[d].attempts <= HookAttempts
      /\ delivery[d].claims <= HookAttempts * hookReplays[d] + delivery[d].attempts
  BY Zenon, <1>0, HookBoundsAssumption
     DEF QueueInv, FrontInv, FrontTyped, HookRowsTyped, HookRows, ClaimsCounted, DeliveryRow
<1>3. delivery' = [delivery EXCEPT ![d] = row]
  BY Zenon, <1>0, <1>1 DEF QueueInv, HookRowsTyped
<1>4. /\ row \in DeliveryRow /\ row.state = "pending" /\ row.live = delivery[d].live
      /\ row.claims = delivery[d].claims /\ row.attempts = 0
  BY Zenon, <1>2 DEF DeliveryRow
<1>5. row.live = FALSE
  BY <1>0, <1>1, <1>2, <1>4 DEF QueueInv, HookRows, DeliveryRow
<1>6. row.state # "absent" /\ delivery[d].state # "absent" /\ row.attempts <= HookAttempts
  BY <1>1, <1>2, <1>4
<1> HIDE DEF row
<1>7. hookReplays[d] + 1 \in Nat /\ hookBudget.replays - 1 \in Nat
  BY <1>1, <1>2
<1>8. /\ hookReplays' \in [Deliveries -> Nat] /\ hookReplays'[d] = hookReplays[d] + 1
      /\ \A e \in Deliveries : e # d => hookReplays'[e] = hookReplays[e]
      /\ hookBudget' \in [workers : Nat, requests : Nat, replays : Nat, changes : Nat]
      /\ hookBudget'.requests = hookBudget.requests
  BY Zenon, <1>0, <1>1, <1>7 DEF QueueInv, HookRowsTyped, FrontInv, FrontTyped
<1>9. row.claims <= HookAttempts * hookReplays'[d] + row.attempts
  <2> DEFINE base == HookAttempts * hookReplays[d]
  <2>1. HookAttempts * hookReplays'[d] = base + HookAttempts
    BY Zenon, <1>2, <1>8, MoreClaims
  <2>2. base \in Nat
    BY <1>2
  <2>3. delivery[d].claims <= base + delivery[d].attempts
    BY Zenon, <1>2
  <2> HIDE DEF base
  <2>4. delivery[d].claims <= base + HookAttempts + 0
    BY <1>2, <2>2, <2>3
  <2> QED
    BY Zenon, <1>4, <2>1, <2>4
<1>10. HInv' /\ delivery'[d] = row /\ \A e \in Deliveries : e # d => HookMove(e)
  BY Zenon, <1>1, <1>3, <1>4, <1>5, <1>6, <1>8, <1>9, OneDeliveryStep
<1>11. HookMove(d)
  BY Zenon, <1>1, <1>4, <1>10 DEF HookMove, HookSets
<1> QED
  BY Zenon, <1>10, <1>11

-----------------------------------------------------------------------------
(* Theorems: safety                                                        *)

\* The queue starts empty.
LEMMA HookInitInv == HookInit => HInv
<1> SUFFICES ASSUME HookInit PROVE HInv
  OBVIOUS
<1>1. /\ NoDelivery \in DeliveryRow /\ NoDelivery.live = FALSE /\ NoDelivery.attempts = 0
      /\ NoDelivery.claims = 0 /\ NoDelivery.state = "absent" /\ 0 \in Nat
  BY DEF NoDelivery, DeliveryRow
<1>2. /\ delivery \in [Deliveries -> DeliveryRow] /\ posts \in [Deliveries -> Nat]
      /\ hookReplays \in [Deliveries -> Nat] /\ posting = {} /\ requests = {} /\ events = <<>>
      /\ \A d \in Deliveries : delivery[d] = NoDelivery /\ posts[d] = 0 /\ hookReplays[d] = 0
      /\ quarantine = [state |-> "absent", version |-> 0] /\ hookBudget \in HookBudgets
  BY Zenon, <1>1 DEF HookInit
<1>3. HookRowsTyped
  BY Zenon, <1>2 DEF HookRowsTyped
<1>4. HookRows /\ ClaimsCounted
  <2>1. 0 <= HookAttempts /\ 0 <= HookAttempts * 0 + 0
    BY HookBoundsAssumption
  <2> QED
    BY Zenon, <1>1, <1>2, <2>1 DEF HookRows, ClaimsCounted
<1>5. PostingKeys /\ RequestPerClaim
  <2>1. \A d : Unsent(d) = {}
    BY Zenon, <1>2 DEF Unsent
  <2>2. 0 + Cardinality({}) <= 0 /\ IsFiniteSet({})
    BY FS_EmptySet
  <2> QED
    BY Zenon, <1>1, <1>2, <2>1, <2>2 DEF PostingKeys, RequestPerClaim
<1>6. FrontTyped
  <2>1. hook \in [Hooks -> SUBSET EventTypes]
    <3>1. \A t \in {{}, {"quarantined"}, EventTypes} : t \subseteq EventTypes
      BY DEF EventTypes
    <3> QED
      BY Zenon, <3>1 DEF HookInit
  <2>2. hookBudget \in [workers : Nat, requests : Nat, replays : Nat, changes : Nat]
    BY <1>2, HookBoundsAssumption
  <2>3. events \in Seq(EventTypes)
    BY <1>2
  <2> QED
    BY Zenon, <1>1, <1>2, <2>1, <2>2, <2>3 DEF FrontTyped
<1>7. RequestsCounted /\ EventsTellHistory
  <2>1. hookBudget.requests \in 0..MaxHookEvents
    BY Zenon, <1>2, HookBoundsAssumption
  <2>2. Len(events) = 0 /\ Cardinality({}) = 0 /\ IsFiniteSet({})
    BY <1>2, FS_EmptySet
  <2>3. hookBudget.requests + 0 + 0 <= MaxHookEvents
    BY <2>1, HookBoundsAssumption
  <2> QED
    BY Zenon, <1>1, <1>2, <2>2, <2>3 DEF RequestsCounted, EventsTellHistory
<1> QED
  BY Zenon, <1>3, <1>4, <1>5, <1>6, <1>7, HookParts DEF QueueInv, FrontInv

\* Every step keeps the invariant and moves each row in one of six ways.
LEMMA HookStep ==
    ASSUME HInv, [HookNext]_hookVars
    PROVE  HInv' /\ \A d \in Deliveries : HookMove(d)
<1>1. CASE UNCHANGED hookVars
  <2>0. QueueInv /\ FrontInv
    BY Zenon, HookParts
  <2>1. UNCHANGED <<quarantine, requests, events, hook, delivery, posting, posts,
                    hookReplays, hookBudget>>
    BY Zenon, <1>1 DEF hookVars
  <2>2. QueueInv' /\ \A d \in Deliveries : HookMove(d)
    BY Zenon, <2>0, <2>1, QueueRests
  <2>3. FrontInv'
    BY Zenon, <2>0, <2>1, FrontRests DEF FrontInv, FrontTyped
  <2> QED
    BY Zenon, <2>2, <2>3, HookPartsAfter
<1>2. ASSUME NEW a \in posting, DropHook(a)
      PROVE  HInv' /\ \A d \in Deliveries : HookMove(d)
  BY Zenon, <1>2, ForgetHookStep DEF DropHook
<1>3. CASE HookNext
  BY Zenon, <1>2, <1>3, ReadStep, TransitionStep, SubscriptionStep, HookClaimStep,
     DeliverStep, FinishHookStep, HookExpiryStep, ReplayHookStep DEF HookNext, WorksOnHook
<1> QED
  BY Zenon, <1>1, <1>3

\* The queue never leaves its invariant.
LEMMA HookInvariant == HookSpec => []HInv
<1>1. HInv /\ [HookNext]_hookVars => HInv'
  BY Zenon, HookStep
<1> QED
  BY <1>1, HookInitInv, PTL DEF HookSpec

\* Rows, requests and claims of the webhook queue keep their types, and there
\* are no more events than requests.
THEOREM HookTypes == HookSpec => []HookTypeOK
<1>1. HInv => HookTypeOK
  BY Zenon DEF HInv
<1> QED
  BY <1>1, HookInvariant, PTL

\* However many operators race on the artifact, in any order: the compare of
\* the version and the event in the same transaction make the events the
\* history of the row, and deliveries exist only of what happened.
THEOREM EventsAreHistory == HookSpec => []EventsTellHistory
<1>1. HInv => EventsTellHistory
  BY Zenon DEF HInv
<1> QED
  BY <1>1, HookInvariant, PTL

\* An endpoint gets at most HookAttempts requests for a delivery and for each
\* of its replays, whatever workers stop, leases expire and answers are late:
\* the attempt is counted by the claim, not by the answer.
THEOREM EndpointSpared == HookSpec => []PostsBounded
<1>1. HInv => PostsBounded
  <2> SUFFICES ASSUME HInv, NEW d \in Deliveries
               PROVE  posts[d] <= HookAttempts * (1 + hookReplays[d])
    BY Zenon DEF PostsBounded
  <2>0. QueueInv
    BY Zenon, HookParts
  <2> DEFINE base == HookAttempts * hookReplays[d]
  <2>1. /\ posts[d] \in Nat /\ delivery[d].claims \in Nat /\ delivery[d].attempts \in Nat
        /\ hookReplays[d] \in Nat /\ HookAttempts \in Nat
        /\ posts[d] + Cardinality(Unsent(d)) <= delivery[d].claims
        /\ delivery[d].claims <= base + delivery[d].attempts
        /\ delivery[d].attempts <= HookAttempts
        /\ Cardinality(Unsent(d)) \in Nat
    BY Zenon, <2>0, UnsentFinite, HookBoundsAssumption
       DEF QueueInv, HookRowsTyped, DeliveryRow, RequestPerClaim, PostingKeys, ClaimsCounted, HookRows
  <2>2. base \in Nat
    BY <2>1
  <2>3. HookAttempts * (1 + hookReplays[d]) = base + HookAttempts
    <3>1. 1 + hookReplays[d] = hookReplays[d] + 1
      BY <2>1
    <3> QED
      BY Zenon, <2>1, <3>1, MoreClaims
  <2> HIDE DEF base, Unsent
  <2>4. posts[d] <= base + HookAttempts
    BY <2>1, <2>2
  <2> QED
    BY Zenon, <2>3, <2>4
<1> QED
  BY <1>1, HookInvariant, PTL

-----------------------------------------------------------------------------
(* Theorem: the refinement                                                 *)

\* The phase of a row, by its state.
LEMMA HookPhases ==
    ASSUME NEW r
    PROVE  /\ r.state \in {"pending", "retrying"} => HookPhase(r) = "open"
           /\ r.state = "delivering" => HookPhase(r) = "held"
           /\ r.state = "succeeded" => HookPhase(r) = "done"
           /\ r.state = "dead" => HookPhase(r) = "parked"
           /\ r.state = "absent" => HookPhase(r) = "absent"
  BY DEF HookPhase

\* Each way a row moves is a move of leased work.
LEMMA HookMoveIsMove ==
    ASSUME HInv, HInv', NEW d \in Deliveries, HookMove(d)
    PROVE  HookWork!Move(d)
<1> DEFINE lease(r) == IF r.state = "delivering" THEN r.claims ELSE 0
<1>0. /\ [q \in Deliveries |-> HookPhase(delivery[q])][d] = HookPhase(delivery[d])
      /\ [q \in Deliveries |-> IF delivery[q].state = "delivering"
                                 THEN delivery[q].claims ELSE 0][d] = lease(delivery[d])
      /\ [q \in Deliveries |-> delivery[q].live][d] = delivery[d].live
      /\ [q \in Deliveries |-> HookPhase(delivery'[q])][d] = HookPhase(delivery'[d])
      /\ [q \in Deliveries |-> IF delivery'[q].state = "delivering"
                                 THEN delivery'[q].claims ELSE 0][d] = lease(delivery'[d])
      /\ [q \in Deliveries |-> delivery'[q].live][d] = delivery'[d].live
  BY Zenon
<1>1. delivery'[d].state # "delivering" => lease(delivery'[d]) = 0 /\ ~delivery'[d].live
  BY Zenon DEF HInv, HookRows
<1>2. delivery[d].state = "delivering" =>
        HookPhase(delivery[d]) = "held" /\ lease(delivery[d]) = delivery[d].claims
  BY Zenon, HookPhases
<1>3. delivery'[d].state = "delivering" =>
        HookPhase(delivery'[d]) = "held" /\ lease(delivery'[d]) = delivery'[d].claims
  BY Zenon, HookPhases
<1>4. delivery'[d].state \in {"pending", "retrying", "dead"} =>
        delivery'[d].state # "delivering" /\ HookPhase(delivery'[d]) \in {"open", "parked"}
  BY HookPhases
<1>5. CASE HookKeeps(d)
  BY Zenon, <1>0, <1>5 DEF HookKeeps, HookWork!Move, HookWork!Same
<1>6. CASE HookSets(d)
  <2>1. HookPhase(delivery[d]) \in {"absent", "open", "parked"}
    BY <1>6, HookPhases DEF HookSets
  <2>2. delivery'[d].state \in {"pending", "retrying", "dead"}
    BY <1>6 DEF HookSets
  <2> QED
    BY Zenon, <1>0, <1>1, <1>4, <2>1, <2>2
       DEF HookWork!Move, HookWork!Arrange, HookWork!Leaves
<1>7. CASE HookLoses(d)
  <2>1. delivery'[d].state \in {"pending", "retrying", "dead"}
    BY <1>7 DEF HookLoses
  <2> QED
    BY Zenon, <1>0, <1>1, <1>2, <1>4, <1>7, <2>1
       DEF HookLoses, HookWork!Move, HookWork!Release, HookWork!Leaves, HookWork!Forfeited
<1>8. CASE HookExpires(d)
  BY Zenon, <1>0, <1>2, <1>3, <1>8 DEF HookExpires, HookWork!Move, HookWork!Age
<1>9. CASE HookTakes(d)
  <2>1. HookPhase(delivery[d]) = "open" \/ (HookPhase(delivery[d]) = "held" /\ ~delivery[d].live)
    BY Zenon, <1>9, HookPhases DEF HookTakes
  <2> QED
    BY Zenon, <1>0, <1>3, <1>9, <2>1
       DEF HookTakes, HookHands, HookWork!Move, HookWork!Take, HookWork!Forfeited
<1>10. CASE HookEnds(d)
  <2>1. CASE delivery'[d].state = "succeeded"
    <3>1. delivery'[d].state # "delivering" /\ HookPhase(delivery'[d]) = "done"
      BY <2>1, HookPhases
    <3> QED
      BY Zenon, <1>0, <1>1, <1>2, <1>10, <3>1
         DEF HookEnds, HookHands, HookWork!Move, HookWork!Finish, HookWork!Leaves, HookWork!Reports
  <2>2. CASE delivery'[d].state \in {"pending", "retrying", "dead"}
    BY Zenon, <1>0, <1>1, <1>2, <1>4, <1>10, <2>2
       DEF HookEnds, HookHands, HookWork!Move, HookWork!Release, HookWork!Leaves, HookWork!Reports
  <2>3. delivery'[d].state \in {"succeeded"} \union {"pending", "retrying", "dead"}
    BY <1>10 DEF HookEnds
  <2> QED
    BY Zenon, <2>1, <2>2, <2>3
<1> QED
  BY Zenon, <1>5, <1>6, <1>7, <1>8, <1>9, <1>10 DEF HookMove

\* Only a claim puts a delivery in anyone's hands.
LEMMA HookHandsGrow ==
    ASSUME HInv, [HookNext]_hookVars
    PROVE  \A b \in posting' :
             \/ \E a \in posting : a.delivery = b.delivery /\ a.token = b.token
             \/ /\ b.delivery \in Deliveries /\ delivery'[b.delivery].state = "delivering"
                /\ delivery'[b.delivery].claims = b.token
<1>1. CASE posting' \subseteq posting
  BY Zenon, <1>1
<1>2. ASSUME NEW a \in posting, deliverWebhook(a), NEW b \in posting'
      PROVE  \E c \in posting : c.delivery = b.delivery /\ c.token = b.token
  <2>1. PICK result : posting' = (posting \ {a}) \union {[a EXCEPT !.result = result]}
    BY Zenon, <1>2 DEF deliverWebhook
  <2>2. /\ [a EXCEPT !.result = result].delivery = a.delivery
        /\ [a EXCEPT !.result = result].token = a.token
    BY Zenon DEF HInv, HookTypeOK, Posting
  <2> QED
    BY Zenon, <2>1, <2>2
<1>3. ASSUME ClaimWebhookDeliveries, NEW b \in posting', b \notin posting
      PROVE  /\ b.delivery \in Deliveries /\ delivery'[b.delivery].state = "delivering"
             /\ delivery'[b.delivery].claims = b.token
  <2>1. PICK d \in Deliveries :
          /\ b = [delivery |-> d, token |-> delivery[d].claims + 1, result |-> "none"]
          /\ delivery'[d] = [delivery[d] EXCEPT !.state = "delivering", !.live = TRUE,
                                                !.attempts = @ + 1, !.claims = @ + 1]
    BY Zenon, <1>3 DEF ClaimWebhookDeliveries
  <2>2. b.delivery = d /\ b.token = delivery[d].claims + 1
    BY Zenon, <2>1
  <2>3. delivery[d] \in DeliveryRow
    BY Zenon DEF HInv, HookTypeOK
  <2>4. delivery'[d].state = "delivering" /\ delivery'[d].claims = delivery[d].claims + 1
    BY Zenon, <2>1, <2>3 DEF DeliveryRow
  <2> QED
    BY Zenon, <2>2, <2>4
<1>4. CASE WorksOnHook
  <2>1. (\E a \in posting : deliverWebhook(a)) \/ posting' \subseteq posting
    BY Zenon, <1>4 DEF WorksOnHook, FinishWebhookDelivery, DropHook
  <2> QED
    BY Zenon, <1>1, <1>2, <2>1
<1>5. CASE UNCHANGED hookVars
  BY Zenon, <1>1, <1>5 DEF hookVars
<1>6. CASE \/ \E state \in EventTypes : ReadArtifactQuarantine(state)
           \/ \E r \in requests : ReplaceArtifactQuarantine(r)
           \/ \E s \in Hooks : UpdateWebhookSubscription(s)
           \/ \E d \in Deliveries : HookLeaseExpires(d) \/ ReplayWebhookDelivery(d)
  <2>1. posting' = posting
    BY Zenon, <1>6 DEF ReadArtifactQuarantine, ReplaceArtifactQuarantine,
       UpdateWebhookSubscription, HookLeaseExpires, ReplayWebhookDelivery
  <2> QED
    BY Zenon, <1>1, <2>1
<1> QED
  BY Zenon, <1>3, <1>4, <1>5, <1>6 DEF HookNext

\* The webhook queue implements leased work: only the report of the holder of
\* the current, unexpired lease completes, retries or kills a delivery in
\* flight, only an expired lease is taken over or given up, and a delivery that
\* succeeded rests.
THEOREM HooksImplementLeasedWork == HookSpec => HooksAreLeasedWork
<1>1. HookInit => HookWork!Init
  <2> SUFFICES ASSUME HookInit PROVE HookWork!Init
    OBVIOUS
  <2>1. \A d \in Deliveries : delivery[d].state = "absent" /\ delivery[d].live = FALSE
    BY DEF HookInit, NoDelivery
  <2>2. \A d \in Deliveries : delivery[d].state # "delivering" /\ HookPhase(delivery[d]) = "absent"
    BY <2>1, HookPhases
  <2>3. {<<a.delivery, a.token>> : a \in posting} = {}
    BY Zenon DEF HookInit
  <2> QED
    BY Zenon, <2>1, <2>2, <2>3 DEF HookWork!Init
<1>2. HInv /\ HInv' /\ [HookNext]_hookVars => HookWork!Next
  <2> SUFFICES ASSUME HInv, HInv', [HookNext]_hookVars PROVE HookWork!Next
    OBVIOUS
  <2>1. \A d \in Deliveries : HookWork!Move(d)
    BY Zenon, HookStep, HookMoveIsMove
  <2>2. HookHands' \subseteq HookHands \union
          {<<d, IF delivery'[d].state = "delivering" THEN delivery'[d].claims ELSE 0>> :
             d \in Deliveries}
    BY Zenon, HookHandsGrow DEF HookHands
  <2>3. \A d \in Deliveries :
          [q \in Deliveries |-> IF delivery'[q].state = "delivering"
                                  THEN delivery'[q].claims ELSE 0][d]
          = IF delivery'[d].state = "delivering" THEN delivery'[d].claims ELSE 0
    BY Zenon
  <2> QED
    BY Zenon, <2>1, <2>2, <2>3 DEF HookWork!Next, HookHands
<1> QED
  BY <1>1, <1>2, HookInvariant, PTL DEF HookSpec, HooksAreLeasedWork, HookWork!Spec
=============================================================================
