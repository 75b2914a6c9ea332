------------------------------ MODULE Billing -------------------------------
(***************************************************************************)
(* Who has access: Stripe subscriptions, plan overrides and email grants   *)
(* in the DynamoDB table prokuro-billing.  An account's BILLING row holds  *)
(* what the Stripe webhook last heard, its PLAN_OVERRIDE row what an       *)
(* operator decided; an EMAIL#e/GRANT row entitles whoever signs in as e   *)
(* and is copied to the override of that user's account.  No operation is  *)
(* a transaction: one step is one access to the table or one Stripe call.  *)
(*                                                                         *)
(* Stripe delivers an event until it is acknowledged, possibly to two      *)
(* handlers at once and again later.  A handler may be dropped anywhere:   *)
(* the connection is closed or the task dies.                              *)
(***************************************************************************)
EXTENDS Naturals, FiniteSets

CONSTANTS
  Accounts,   (* Team accounts.                                              *)
  Emails,     (* Users, named by their email; not those at prokuro.ai, who   *)
              (* have access without any of this.                            *)
  Customers,  (* Stripe customer ids; also a bound on the customers made.    *)
  Events,     (* Stripe event ids; also a bound on the events sent.          *)
  Copies,     (* How many deliveries of one event may be under way.          *)
  Tasks,      (* Concurrent requests.                                        *)
  Mixes,      (* Bound: the calls that meet in one behaviour.                *)
  Payloads,   (* The payment and subscription states that events carry.      *)
  Priced,     (* The plans with a configured Stripe price.                   *)
  MaxRows,    (* Bound: records, overrides and grants there at first.        *)
  MaxCalls,   (* Bound: requests made and events sent, for each mix.         *)
  MaxFaults,  (* Bound: failed calls and dropped handlers.                   *)
  None        (* No row, no value.                                           *)

Plans      == {"free", "growth", "scale"}
Statuses   == {"none", "active", "trialing", "past_due", "canceled"}
Kinds      == {"checkout", "subscription", "deleted"}
Access     == {"status", "check", "grant", "revoke", "setPlan", "clearPlan"}
AllOps     == Access \cup {"checkout", "event"}
Deliveries == Events \X Copies

\* A BILLING row; its email, subscription id and period are only displayed.
Record == [customer: Customers \cup {None}, plan: Plans, status: Statuses]
\* A PLAN_OVERRIDE or a GRANT: any paid plan gives access.  "soon" is an expiry
\* date that will come, the note of a copied grant is its email.
Entry  == [until: {"never", "soon"}, note: Emails \cup {None}]
\* The account is in the metadata of what checkout made, and absent from
\* what was made by hand in Stripe.
Event  == [kind: Kinds, customer: Customers, account: Accounts \cup {None},
           payload: Payloads, plan: Priced \cup {None}]
Free   == [customer |-> None, plan |-> "free", status |-> "none"]

ASSUME NoneAssumption ==
  None \notin Accounts \cup Emails \cup Customers \cup Record \cup Entry \cup Event \cup Priced
ASSUME BoundsAssumption ==
  /\ MaxRows \in Nat /\ MaxCalls \in [Mixes -> Nat] /\ MaxFaults \in Nat
  /\ Mixes \subseteq SUBSET AllOps /\ Priced \subseteq Plans \ {"free"}
ASSUME ProcessAssumption == Tasks \cap Deliveries = {}

VARIABLES
  mix,        (* The calls of this behaviour.                                *)
  home,       (* home[u]: the account that user u resolves to.               *)
  record,     (* record[a]: ACCOUNT#a/BILLING.                               *)
  override,   (* override[a]: ACCOUNT#a/PLAN_OVERRIDE.                       *)
  grant,      (* grant[u]: EMAIL#u/GRANT.                                    *)
  interest,   (* interest[a]: the email in ACCOUNT#a/INTEREST_SENT, if any.  *)
  claimed,    (* The events with a row EVENT#e.                              *)
  late,       (* The expiry dates are over.                                  *)
  customerOf, (* Stripe: the account a customer was made for.                *)
  sessions,   (* Stripe: the customers with a checkout session.              *)
  event,      (* Stripe: what an event says, None until it is sent.          *)
  acked,      (* Stripe: the events it got a 200 for.                        *)
  pc,         (* pc[p]: the next call of a request or a delivery.            *)
  job,        (* job[t]: the locals of a request.                            *)
  base,       (* base[d]: the record a delivery has read.                    *)
  into,       (* into[d]: the account it belongs to.                         *)
  calls,      (* Requests and events so far.                                 *)
  faults,     (* Faults so far.                                              *)
  applied,    (* History: how often an event was applied or set aside.       *)
  unsure,     (* History: events written by a call that reported a failure.  *)
  hit,        (* History: events a fault or an early 200 kept from retries.  *)
  seen,       (* History: the sources of access while a request runs.        *)
  revoked,    (* History: emails whose revocation was confirmed last.        *)
  overlapped  (* History: emails whose revocation met another request, until *)
              (* one begins that meets none.                                 *)

rows    == <<record, override, grant, interest, claimed>>
stripe  == <<customerOf, sessions, event, acked>>
history == <<applied, unsure, hit, revoked, overlapped>>
vars == <<mix, home, record, override, grant, interest, claimed, late, customerOf, sessions,
          event, acked, pc, job, base, into, calls, faults, applied, unsure, hit, seen,
          revoked, overlapped>>

Job == [op: AllOps \cup {"none"}, user: Emails \cup {None}, account: Accounts \cup {None},
        entry: Entry \cup {None}, record: Record \cup {None}]
NoJob == [op |-> "none", user |-> None, account |-> None, entry |-> None, record |-> None]

RequestPcs  == {"idle", "getRecord", "getOverride", "getGrant", "putOverride", "usage",
                "allow", "refuse", "getInterest", "markInterest", "findAccount", "putGrant",
                "delGrant", "clearOverride", "createCustomer", "putCustomer", "session"}
DeliveryPcs == {"idle", "claim", "readRecord", "putRecord", "release"}
Sources     == {"stripe", "override", "grant"} \X {"never", "soon"}

TypeOK ==
  /\ mix \in Mixes
  /\ home \in [Emails -> Accounts]
  /\ record \in [Accounts -> Record \cup {None}]
  /\ override \in [Accounts -> Entry \cup {None}]
  /\ grant \in [Emails -> Entry \cup {None}]
  /\ interest \in [Accounts -> Emails \cup {None}]
  /\ claimed \in SUBSET Events /\ acked \in SUBSET Events
  /\ late \in BOOLEAN
  /\ customerOf \in [Customers -> Accounts \cup {None}]
  /\ sessions \in SUBSET Customers
  /\ event \in [Events -> Event \cup {None}]
  /\ pc \in [Tasks \cup Deliveries -> RequestPcs \cup DeliveryPcs]
  /\ job \in [Tasks -> Job]
  /\ base \in [Deliveries -> Record \cup {None}]
  /\ into \in [Deliveries -> Accounts \cup {None}]
  /\ calls \in 0..MaxCalls[mix] /\ faults \in 0..MaxFaults
  /\ applied \in [Events -> Nat]
  /\ unsure \in SUBSET Events /\ hit \in SUBSET Events
  /\ seen \in [Tasks -> [ever: SUBSET Sources, steady: SUBSET Sources]]
  /\ revoked \in SUBSET Emails /\ overlapped \in SUBSET Emails

\* subscription_status, checkout_session_status: a payment that was made, or an
\* unpaid checkout; "overdue" stands for unpaid and incomplete_expired.
SubscriptionStatus(p) ==
  CASE p = "trialing" -> "trialing"
    [] p \in {"active", "paid"} -> "active"
    [] p = "past_due" -> "past_due"
    [] p \in {"canceled", "overdue"} -> "canceled"
    [] OTHER -> "none"

\* Anything that earlier requests and events can have left behind.
Init ==
  /\ mix \in Mixes
  /\ home \in [Emails -> Accounts]
  /\ customerOf \in [Customers -> Accounts \cup {None}]
  /\ sessions = {c \in Customers : customerOf[c] # None}
  /\ record \in [Accounts -> Record \cup {None}]
  /\ \A a \in Accounts : record[a] # None =>
       /\ record[a].customer # None /\ customerOf[record[a].customer] = a
       /\ record[a].plan = "free" <=> record[a].status \in {"none", "canceled"}
       /\ record[a].status \in {"none"} \cup {SubscriptionStatus(p) : p \in Payloads}
  /\ grant \in [Emails -> {None} \cup {[until |-> w, note |-> None] : w \in {"never", "soon"}}]
  /\ override \in [Accounts -> Entry \cup {None}]
  /\ \A c \in sessions : record[customerOf[c]] # None /\ record[customerOf[c]].customer = c
  /\ mix \cap Access = {} => \A a \in Accounts, u \in Emails : override[a] = None /\ grant[u] = None
  /\ Cardinality({a \in Accounts : record[a] # None}) +
     Cardinality({a \in Accounts : override[a] # None}) +
     Cardinality({u \in Emails : grant[u] # None}) <= MaxRows
  /\ interest = [a \in Accounts |-> None]
  /\ claimed = {} /\ acked = {}
  /\ late = FALSE
  /\ event = [e \in Events |-> None]
  /\ pc = [p \in Tasks \cup Deliveries |-> "idle"]
  /\ job = [t \in Tasks |-> NoJob]
  /\ base = [d \in Deliveries |-> None] /\ into = [d \in Deliveries |-> None]
  /\ calls = 0 /\ faults = 0
  /\ applied = [e \in Events |-> 0]
  /\ unsure = {} /\ hit = {}
  /\ seen = [t \in Tasks |-> [ever |-> {}, steady |-> {}]]
  /\ revoked = {} /\ overlapped = {}

Goto(p, from, to) == pc[p] = from /\ pc' = [pc EXCEPT ![p] = to]

\* Request t goes on with locals j, which are gone once it has answered.
Go(t, from, to, j) ==
  /\ Goto(t, from, to)
  /\ job' = [job EXCEPT ![t] = IF to = "idle" THEN NoJob ELSE j]

----------------------------------------------------------------------------
(* Arrival *)

\* Requests that read or write the grant of user u, whose account is a.
AboutGrant(u, ops) == {t \in Tasks : job[t].user = u /\ job[t].op \in ops}

Call(t, op, u, a, entry) ==
  /\ op \in mix
  /\ Go(t, "idle",
        CASE op \in {"status", "check", "checkout"} -> "getRecord"
          [] op \in {"grant", "revoke"} -> "findAccount"
          [] op = "setPlan" -> "putOverride"
          [] op = "clearPlan" -> "clearOverride",
        [op |-> op, user |-> u, account |-> a, entry |-> entry, record |-> None])
  /\ calls < MaxCalls[mix] /\ calls' = calls + 1
  /\ overlapped' =
       IF \/ op = "revoke" /\ AboutGrant(u, {"status", "check", "grant"}) # {}
          \/ op \in {"status", "check", "grant"} /\ AboutGrant(u, {"revoke"}) # {}
       THEN overlapped \cup {u}
       ELSE IF op = "revoke" /\ AboutGrant(u, {"revoke"}) = {} THEN overlapped \ {u}
       ELSE overlapped
  /\ revoked' = IF op = "revoke" THEN revoked \ {u} ELSE revoked
  /\ UNCHANGED <<mix, home, rows, late, stripe, base, into, faults, applied, unsure, hit>>

\* The caller of a request is in the account; whoever the admin API or an
\* operator names is any account, any email.
Arrive(t) ==
  \/ \E u \in Emails : Call(t, "status", u, home[u], None)
  \/ \E u \in Emails : Call(t, "check", u, home[u], None)
  \/ \E u \in Emails : Call(t, "checkout", u, home[u], None)
  \/ \E u \in Emails, w \in {"never", "soon"} :
       Call(t, "grant", u, None, [until |-> w, note |-> u])
  \/ \E u \in Emails : Call(t, "revoke", u, None, None)
  \/ \E a \in Accounts, w \in {"never", "soon"} :
       Call(t, "setPlan", None, a, [until |-> w, note |-> None])
  \/ \E a \in Accounts : Call(t, "clearPlan", None, a, None)

----------------------------------------------------------------------------
(* status_for, ensure_provisioned, billing_status *)

\* Mutation: an expiry date never comes.
Active_Forever(x) == x # None

\* grant_is_active
Active(x) == x # None /\ (x.until = "soon" => ~late)

\* The Stripe part of status_from_record.
Paying(r) == r # None /\ r.plan # "free" /\ r.status \in {"active", "trialing", "past_due"}

\* status_from_record: an active override comes first.
Provisioned(j) == Active(j.entry) \/ Paying(j.record)

GetRecord(t) ==
  LET j == job[t] IN
  /\ j.op # "checkout"
  /\ Go(t, "getRecord", "getOverride",
        [op |-> j.op, user |-> j.user, account |-> j.account, entry |-> None,
         record |-> record[j.account]])
  /\ UNCHANGED <<mix, home, rows, late, stripe, base, into, calls, faults, history>>

\* Mutation: the email grant is looked up only without an override.
LooksFurther_Absent(x) == x = None

LooksFurther(x) == ~Active(x)

\* What was read is held, active or not; only the email's grant may replace it.
GetOverride(t) ==
  LET j == job[t]
      x == override[j.account]
  IN /\ pc[t] = "getOverride"
     /\ Go(t, "getOverride", IF LooksFurther(x) THEN "getGrant" ELSE "usage",
           [op |-> j.op, user |-> j.user, account |-> j.account, entry |-> x,
            record |-> j.record])
     /\ UNCHANGED <<mix, home, rows, late, stripe, base, into, calls, faults, history>>

\* An active grant is copied to the account.
GetGrant(t) ==
  LET j == job[t]
      g == grant[j.user]
  IN /\ pc[t] = "getGrant"
     /\ IF Active(g)
        THEN Go(t, "getGrant", "putOverride",
                [op |-> j.op, user |-> j.user, account |-> j.account,
                 entry |-> [until |-> g.until, note |-> j.user], record |-> j.record])
        ELSE Go(t, "getGrant", "usage", j)
     /\ UNCHANGED <<mix, home, rows, late, stripe, base, into, calls, faults, history>>

\* set_admin_plan, for status_for, grant_email and the admin API.
PutOverride(t) ==
  LET j == job[t] IN
  /\ Go(t, "putOverride", IF j.op \in {"status", "check"} THEN "usage" ELSE "idle", j)
  /\ override' = [override EXCEPT ![j.account] = j.entry]
  /\ UNCHANGED <<mix, home, record, grant, interest, claimed, late, stripe, base, into, calls, faults, history>>

\* get_usage, whose errors count as no usage, and status_from_record: what the
\* request holds is compared with the clock once more, and no row is read again.
Decide(t) ==
  /\ Go(t, "usage", IF Provisioned(job[t]) THEN "allow" ELSE "refuse", job[t])
  /\ UNCHANGED <<mix, home, rows, late, stripe, base, into, calls, faults, history>>

Allow(t) ==
  /\ Go(t, "allow", "idle", job[t])
  /\ UNCHANGED <<mix, home, rows, late, stripe, base, into, calls, faults, history>>

\* billing_status reports the interest of who is refused.
Refuse(t) ==
  /\ Go(t, "refuse", IF job[t].op = "status" THEN "getInterest" ELSE "idle", job[t])
  /\ UNCHANGED <<mix, home, rows, late, stripe, base, into, calls, faults, history>>

\* notify_interest_if_needed: the mail goes out before the row is written.
GetInterest(t) ==
  LET j == job[t] IN
  /\ Go(t, "getInterest", IF interest[j.account] = None THEN "markInterest" ELSE "idle", j)
  /\ UNCHANGED <<mix, home, rows, late, stripe, base, into, calls, faults, history>>

MarkInterest(t) ==
  LET j == job[t] IN
  /\ Go(t, "markInterest", "idle", j)
  /\ interest' = [interest EXCEPT ![j.account] = j.user]
  /\ UNCHANGED <<mix, home, record, override, grant, claimed, late, stripe, base, into, calls, faults, history>>

----------------------------------------------------------------------------
(* billing_grant_create, billing_grant_delete, billing_admin_clear_plan *)

\* An account is found for whoever has signed in; an error counts as none.
FindAccount(t) ==
  LET j == job[t] IN
  /\ pc[t] = "findAccount"
  /\ \E a \in {home[j.user], None} :
       Go(t, "findAccount", IF j.op = "grant" THEN "putGrant" ELSE "delGrant",
          [op |-> j.op, user |-> j.user, account |-> a, entry |-> j.entry, record |-> None])
  /\ UNCHANGED <<mix, home, rows, late, stripe, base, into, calls, faults, history>>

PutGrant(t) ==
  LET j == job[t] IN
  /\ Go(t, "putGrant", IF j.account = None THEN "idle" ELSE "putOverride", j)
  /\ grant' = [grant EXCEPT ![j.user] = [until |-> j.entry.until, note |-> None]]
  /\ revoked' = revoked \ {j.user}
  /\ UNCHANGED <<mix, home, record, override, interest, claimed, late, stripe, base, into, calls, faults,
                 applied, unsure, hit, overlapped>>

\* Mutation: revoke_email leaves the grant.
DelGrant_Kept(t) ==
  LET j == job[t] IN
  /\ Go(t, "delGrant", IF j.account = None THEN "idle" ELSE "clearOverride", j)
  /\ UNCHANGED <<mix, home, rows, late, stripe, base, into, calls, faults, history>>

DelGrant(t) ==
  LET j == job[t] IN
  /\ Go(t, "delGrant", IF j.account = None THEN "idle" ELSE "clearOverride", j)
  /\ grant' = [grant EXCEPT ![j.user] = None]
  /\ UNCHANGED <<mix, home, record, override, interest, claimed, late, stripe, base, into, calls, faults, history>>

\* clear_admin_plan
ClearOverride(t) ==
  LET j == job[t] IN
  /\ Go(t, "clearOverride", "idle", j)
  /\ override' = [override EXCEPT ![j.account] = None]
  /\ revoked' = IF j.op = "revoke" THEN revoked \cup {j.user} ELSE revoked
  /\ UNCHANGED <<mix, home, record, grant, interest, claimed, late, stripe, base, into, calls, faults,
                 applied, unsure, hit, overlapped>>

----------------------------------------------------------------------------
(* create_checkout *)

GetRecordToPay(t) ==
  LET j == job[t]
      r == IF record[j.account] = None THEN Free ELSE record[j.account]
  IN /\ pc[t] = "getRecord" /\ j.op = "checkout"
     /\ Go(t, "getRecord", IF r.customer = None THEN "createCustomer" ELSE "session",
           [op |-> j.op, user |-> j.user, account |-> j.account, entry |-> None, record |-> r])
     /\ UNCHANGED <<mix, home, rows, late, stripe, base, into, calls, faults, history>>

CreateCustomer(t) ==
  LET j == job[t] IN
  /\ \E c \in {d \in Customers : customerOf[d] = None} :
       /\ customerOf' = [customerOf EXCEPT ![c] = j.account]
       /\ Go(t, "createCustomer", "putCustomer",
             [op |-> j.op, user |-> j.user, account |-> j.account, entry |-> None,
              record |-> [customer |-> c, plan |-> j.record.plan, status |-> j.record.status]])
  /\ UNCHANGED <<mix, home, rows, late, sessions, event, acked, base, into, calls, faults, history>>

\* put_record: the whole row, as it was read before the customer was made.
PutCustomer(t) ==
  LET j == job[t] IN
  /\ Go(t, "putCustomer", "session", j)
  /\ record' = [record EXCEPT ![j.account] = j.record]
  /\ UNCHANGED <<mix, home, override, grant, interest, claimed, late, stripe, base, into, calls, faults, history>>

OpenSession(t) ==
  LET j == job[t] IN
  /\ Go(t, "session", "idle", j)
  /\ sessions' = sessions \cup {j.record.customer}
  /\ UNCHANGED <<mix, home, rows, late, customerOf, event, acked, base, into, calls, faults, history>>

----------------------------------------------------------------------------
(* Stripe *)

\* What happens to a session and to a subscription, in any order: what
\* checkout made names its account, what was made by hand does not.
Send(e) ==
  /\ "event" \in mix /\ event[e] = None /\ calls < MaxCalls[mix]
  /\ \E c \in sessions, a \in Accounts \cup {None}, k \in Kinds, p \in Payloads,
        plan \in Priced \cup {None} :
       /\ a \in {customerOf[c], None}
       /\ k = "checkout" => a # None /\ p \in {"paid", "unpaid"}
       /\ k = "subscription" => p \notin {"paid", "unpaid"}
       /\ k = "deleted" => p = "canceled"
       /\ event' = [event EXCEPT ![e] =
            [kind |-> k, customer |-> c, account |-> a, payload |-> p, plan |-> plan]]
  /\ calls' = calls + 1
  /\ UNCHANGED <<mix, home, rows, late, customerOf, sessions, acked, pc, job, base, into, faults, history>>

Deliver(d) ==
  /\ event[d[1]] # None
  /\ Goto(d, "idle", "claim")
  /\ UNCHANGED <<mix, home, rows, late, stripe, job, base, into, calls, faults, history>>

----------------------------------------------------------------------------
(* handle_webhook *)

\* Mutation: the row is written whether or not it is there.
MayClaim_Always(e) == TRUE

\* claim_event: put_item if attribute_not_exists(pk).
MayClaim(e) == e \notin claimed

\* An event somebody has claimed is taken to be processed.
Claim(d) ==
  LET e == d[1] IN
  /\ pc[d] = "claim"
  /\ \/ /\ MayClaim(e)
        /\ Goto(d, "claim", "readRecord")
        /\ claimed' = claimed \cup {e}
        /\ UNCHANGED <<acked, hit>>
     \/ /\ ~MayClaim(e)
        /\ Goto(d, "claim", "idle")
        /\ acked' = acked \cup {e}
        /\ hit' = IF applied[e] = 0 THEN hit \cup {e} ELSE hit
        /\ UNCHANGED claimed
  /\ UNCHANGED <<mix, home, record, override, grant, interest, late, customerOf, sessions, event,
                 job, base, into, calls, faults, applied, unsure, revoked, overlapped>>

\* Mutation: the first page of the scan, whoever's customer it is.
FindByCustomer_Any(c) == {a \in Accounts : record[a] # None}

FindByCustomer(c) == {a \in Accounts : record[a] # None /\ record[a].customer = c}

\* The account an event is applied to: the one it names or the customer's.
Target(v, a) == IF v.account # None THEN a = v.account ELSE a \in FindByCustomer(v.customer)

\* An account without a row is read as a free one; an event of a customer
\* that no row names is set aside.
ReadRecord(d) ==
  LET v == event[d[1]] IN
  /\ pc[d] = "readRecord"
  /\ \/ \E a \in Accounts :
          /\ Target(v, a)
          /\ Goto(d, "readRecord", "putRecord")
          /\ base' = [base EXCEPT ![d] = IF record[a] = None THEN Free ELSE record[a]]
          /\ into' = [into EXCEPT ![d] = a]
          /\ UNCHANGED <<acked, applied>>
     \/ /\ \A a \in Accounts : ~Target(v, a)
        /\ Goto(d, "readRecord", "idle")
        /\ acked' = acked \cup {d[1]}
        /\ applied' = [applied EXCEPT ![d[1]] = @ + 1]
        /\ UNCHANGED <<base, into>>
  /\ UNCHANGED <<mix, home, rows, late, customerOf, sessions, event, job, calls, faults,
                 unsure, hit, revoked, overlapped>>

StatusOf(v) == IF v.kind = "deleted" THEN "canceled" ELSE SubscriptionStatus(v.payload)

\* Mutation: an event without a known price sets the plan nevertheless.
After_Unpriced(r, v) ==
  [customer |-> v.customer, status |-> StatusOf(v),
   plan |-> IF StatusOf(v) \in {"canceled", "none"} THEN "free" ELSE v.plan]

\* The record r with event v applied.
After(r, v) ==
  [customer |-> v.customer, status |-> StatusOf(v),
   plan |-> CASE StatusOf(v) \in {"canceled", "none"} -> "free"
              [] StatusOf(v) \notin {"canceled", "none"} ->
                   IF v.plan # None THEN v.plan ELSE r.plan]

\* The write of the whole record and the 200.
PutRecord(d) ==
  LET e == d[1] IN
  /\ Goto(d, "putRecord", "idle")
  /\ record' = [record EXCEPT ![into[d]] = After(base[d], event[e])]
  /\ base' = [base EXCEPT ![d] = None] /\ into' = [into EXCEPT ![d] = None]
  /\ acked' = acked \cup {e}
  /\ applied' = [applied EXCEPT ![e] = @ + 1]
  /\ UNCHANGED <<mix, home, override, grant, interest, claimed, late, customerOf, sessions, event,
                 job, calls, faults, unsure, hit, revoked, overlapped>>

\* Mutation: the claim outlives the failure.
Unclaimed_Never(e) == claimed

Unclaimed(e) == claimed \ {e}

\* release_event: the next delivery may claim the event again, unless Stripe
\* was told meanwhile that it was processed.
Release(d) ==
  LET e == d[1] IN
  /\ Goto(d, "release", "idle")
  /\ claimed' = Unclaimed(e)
  /\ base' = [base EXCEPT ![d] = None] /\ into' = [into EXCEPT ![d] = None]
  /\ hit' = IF e \in acked THEN hit \cup {e} ELSE hit
  /\ UNCHANGED <<mix, home, record, override, grant, interest, late, stripe, job, calls, faults,
                 applied, unsure, revoked, overlapped>>

----------------------------------------------------------------------------
(* Time and faults *)

Expire ==
  /\ ~late /\ late' = TRUE
  /\ UNCHANGED <<mix, home, rows, stripe, pc, job, base, into, calls, faults, history>>

\* A call fails or the client hangs up, before the call had an effect.
FailRequest(t) ==
  /\ faults < MaxFaults /\ pc[t] \notin {"idle", "allow", "refuse"}
  /\ Go(t, pc[t], "idle", NoJob)
  /\ faults' = faults + 1
  /\ UNCHANGED <<mix, home, rows, late, stripe, base, into, calls, history>>

\* A call of the webhook fails: before it had an effect, or with it.  A claim
\* that is not released is never applied.
FailDelivery(d) ==
  LET e == d[1] IN
  /\ faults < MaxFaults /\ faults' = faults + 1
  /\ \/ /\ Goto(d, "claim", "idle")
        /\ UNCHANGED <<record, claimed, base, into, applied, unsure, hit>>
     \/ /\ Goto(d, "claim", "idle")
        /\ claimed' = claimed \cup {e}
        /\ hit' = hit \cup {e}
        /\ UNCHANGED <<record, base, into, applied, unsure>>
     \/ /\ \/ Goto(d, "readRecord", "release") \/ Goto(d, "putRecord", "release")
        /\ UNCHANGED <<record, claimed, base, into, applied, unsure, hit>>
     \/ /\ Goto(d, "putRecord", "release")
        /\ record' = [record EXCEPT ![into[d]] = After(base[d], event[e])]
        /\ applied' = [applied EXCEPT ![e] = @ + 1]
        /\ unsure' = unsure \cup {e}
        /\ UNCHANGED <<claimed, base, into, hit>>
     \/ /\ Goto(d, "release", "idle")
        /\ hit' = hit \cup {e}
        /\ base' = [base EXCEPT ![d] = None] /\ into' = [into EXCEPT ![d] = None]
        /\ UNCHANGED <<record, claimed, applied, unsure>>
  /\ UNCHANGED <<mix, home, override, grant, interest, late, stripe, job, calls, revoked, overlapped>>

\* The connection is closed or the task dies while the event is claimed.
DropDelivery(d) ==
  /\ faults < MaxFaults /\ faults' = faults + 1
  /\ \E at \in {"readRecord", "putRecord", "release"} : Goto(d, at, "idle")
  /\ base' = [base EXCEPT ![d] = None] /\ into' = [into EXCEPT ![d] = None]
  /\ hit' = hit \cup {d[1]}
  /\ UNCHANGED <<mix, home, rows, late, stripe, job, calls, applied, unsure, revoked, overlapped>>

----------------------------------------------------------------------------

Request(t) ==
  \/ Arrive(t) \/ GetRecord(t) \/ GetOverride(t) \/ GetGrant(t) \/ PutOverride(t)
  \/ Decide(t) \/ Allow(t) \/ Refuse(t) \/ GetInterest(t) \/ MarkInterest(t)
  \/ FindAccount(t) \/ PutGrant(t) \/ DelGrant(t) \/ ClearOverride(t)
  \/ GetRecordToPay(t) \/ CreateCustomer(t) \/ PutCustomer(t) \/ OpenSession(t)

Handle(d) == Claim(d) \/ ReadRecord(d) \/ PutRecord(d) \/ Release(d)

\* History: what gives the user of request t access, by the books; a row that
\* is replaced by one with another expiry is another source.
SourcesOf(t) ==
  LET j == job[t]
      r == record[home[j.user]]
      x == override[home[j.user]]
      g == grant[j.user]
  IN {<<"stripe", "never">> : s \in {1} \cap
        IF r # None /\ r.plan # "free" /\ r.status \notin {"none", "canceled"} THEN {1} ELSE {}}
     \cup {<<"override", w>> : w \in
        {v \in {"never", "soon"} : x # None /\ x.until = v /\ ~(late /\ v = "soon")}}
     \cup {<<"grant", w>> : w \in
        {v \in {"never", "soon"} : g # None /\ g.until = v /\ ~(late /\ v = "soon")}}

Asking(t) == pc[t] # "idle" /\ job[t].op \in {"status", "check"}

\* What held at some time since request t arrived, and all the time.
Observe ==
  seen' = [t \in Tasks |->
    IF ~Asking(t)' THEN [ever |-> {}, steady |-> {}]
    ELSE IF pc[t] = "idle" THEN [ever |-> SourcesOf(t)', steady |-> SourcesOf(t)']
    ELSE [ever |-> seen[t].ever \cup SourcesOf(t)',
          steady |-> seen[t].steady \cap SourcesOf(t)']]

Next ==
  /\ \/ \E t \in Tasks : Request(t) \/ FailRequest(t)
     \/ \E e \in Events : Send(e)
     \/ \E d \in Deliveries : Deliver(d) \/ Handle(d) \/ FailDelivery(d) \/ DropDelivery(d)
     \/ Expire
  /\ Observe

Spec == Init /\ [][Next]_vars

----------------------------------------------------------------------------
(* Properties *)

\* What gives a user access all the while a request of theirs runs gives the
\* request access: an active grant is found behind an expired override, and
\* no revocation of another user or write of a record hides it.  The exception
\* is a grant of the email when an override runs out while the request is on its
\* way: if that is after the override was read, nobody looks for the grant.
SteadySourceGivesAccess ==
  \A t \in Tasks : pc[t] = "refuse" =>
    seen[t].steady \subseteq
      IF late /\ <<"override", "soon">> \in seen[t].ever THEN {<<"grant", "never">>} ELSE {}

\* Access is given only to users for whom a subscription,
\* an override or a grant was in force at some time while they asked.
AccessNeedsASource ==
  \A t \in Tasks : pc[t] = "allow" => seen[t].ever # {}

\* After a revocation that found the account and that no status request and
\* no grant of that email overlapped, neither the grant nor its copy is there
\* until the email is granted or revoked again, whatever overlapped with earlier
\* revocations, was left behind by them or is going on about others.
RevokedStaysOff ==
  \A u \in revoked \ overlapped :
    grant[u] = None /\ (override[home[u]] # None => override[home[u]].note # u)

\* An account's record, and so its billing portal, never gets to the Stripe
\* customer of another account, whether events name the account or are
\* matched by customer, and whatever checkouts overlap.
CustomerIsOwn ==
  \A a \in Accounts :
    record[a] # None => record[a].customer # None /\ customerOf[record[a].customer] = a

\* However often and however concurrently an event is delivered it is applied
\* at most once, unless the write that applied it reported a failure.
AppliedAtMostOnce == \A e \in Events \ unsure : applied[e] <= 1

\* No event is lost: until it is applied Stripe was not told that it is done,
\* and nothing but a handler at work holds its claim, whatever reads and
\* writes of the record fail; unless a handler is cut off after its claim, the
\* claim or its release fails, or a second delivery came meanwhile.
UnappliedIsRetried ==
  \A e \in Events \ hit :
    applied[e] = 0 =>
      /\ e \notin acked
      /\ e \in claimed => \E k \in Copies : pc[<<e, k>>] \in {"readRecord", "putRecord", "release"}

=============================================================================
