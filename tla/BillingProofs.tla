--------------------------- MODULE BillingProofs ---------------------------
(***************************************************************************)
(* Proofs about Billing for all accounts, users, customers, events, copies *)
(* of a delivery and bounds: types, what becomes of an event, the owner of *)
(* a Stripe customer, what a revocation leaves, and who is given access.   *)
(***************************************************************************)
EXTENDS Billing, TLAPS

----------------------------------------------------------------------------
(* Types *)

Pcs  == RequestPcs \cup DeliveryPcs
Seen == [ever: SUBSET Sources, steady: SUBSET Sources]

\* TypeOK without seen, which Observe sets in every step.
Booked ==
  /\ mix \in Mixes
  /\ home \in [Emails -> Accounts]
  /\ record \in [Accounts -> Record \cup {None}]
  /\ override \in [Accounts -> Entry \cup {None}]
  /\ grant \in [Emails -> Entry \cup {None}]
  /\ interest \in [Accounts -> Emails \cup {None}]
  /\ claimed \in SUBSET Events /\ acked \in SUBSET Events
  /\ late \in BOOLEAN
  /\ customerOf \in [Customers -> Accounts \cup {None}]
  /\ sessions \in SUBSET Customers
  /\ event \in [Events -> Event \cup {None}]
  /\ pc \in [Tasks \cup Deliveries -> Pcs]
  /\ job \in [Tasks -> Job]
  /\ base \in [Deliveries -> Record \cup {None}]
  /\ into \in [Deliveries -> Accounts \cup {None}]
  /\ calls \in 0..MaxCalls[mix] /\ faults \in 0..MaxFaults
  /\ applied \in [Events -> Nat]
  /\ unsure \in SUBSET Events /\ hit \in SUBSET Events
  /\ revoked \in SUBSET Emails /\ overlapped \in SUBSET Emails

\* The locals j of a request that stands at q.
JobShape(q, j) ==
  /\ q \in RequestPcs
  /\ q = "getRecord" => j.op \in {"status", "check", "checkout"}
  /\ q \in {"getOverride", "getGrant", "usage", "allow", "refuse", "getInterest", "markInterest"} =>
       j.op \in {"status", "check"}
  /\ q = "putOverride" => j.op \in {"status", "check", "grant", "setPlan"} /\ j.entry \in Entry
  /\ q \in {"findAccount", "putGrant", "delGrant"} => j.op \in {"grant", "revoke"}
  /\ q = "clearOverride" => j.op \in {"revoke", "clearPlan"}
  /\ q \in {"createCustomer", "putCustomer", "session"} =>
       j.op = "checkout" /\ j.record \in Record
  /\ q \in {"putCustomer", "session"} => j.record.customer \in Customers
  /\ q = "putGrant" => j.op = "grant"
  /\ q = "delGrant" => j.op = "revoke"
  /\ q # "idle" /\ j.op \notin {"setPlan", "clearPlan"} => j.user \in Emails
  /\ q \notin {"idle", "findAccount", "putGrant", "delGrant"} => j.account \in Accounts
  /\ q # "idle" /\ j.op = "grant" => j.entry \in Entry

DeliveryShape(d) ==
  /\ pc[d] \in DeliveryPcs
  /\ pc[d] # "idle" => event[d[1]] \in Event
  /\ pc[d] = "putRecord" => base[d] \in Record /\ into[d] \in Accounts

Shape == /\ \A t \in Tasks : JobShape(pc[t], job[t])
         /\ \A d \in Deliveries : DeliveryShape(d)

Typed == Booked /\ Shape

LEMMA TypeOKParts == TypeOK <=> Booked /\ seen \in [Tasks -> Seen]
  BY DEF TypeOK, Booked, Pcs, Seen

LEMMA DeliveryIsOfEvent == \A d \in Deliveries : d[1] \in Events
  BY DEF Deliveries

LEMMA NoJobIsJob == NoJob \in Job /\ JobShape("idle", NoJob)
  BY DEF NoJob, Job, JobShape, RequestPcs

\* A request goes on with locals that fit where it goes.
LEMMA GoTyped ==
  ASSUME Typed, NEW t \in Tasks, NEW from, NEW to \in RequestPcs, NEW j,
         to # "idle" => j \in Job /\ JobShape(to, j),
         Go(t, from, to, j)
  PROVE  /\ pc' \in [Tasks \cup Deliveries -> Pcs] /\ job' \in [Tasks -> Job]
         /\ \A s \in Tasks : JobShape(pc[s], job[s])'
         /\ \A d \in Deliveries : pc'[d] = pc[d]
<1>1. pc' = [pc EXCEPT ![t] = to] /\ job' = [job EXCEPT ![t] = IF to = "idle" THEN NoJob ELSE j]
  BY DEF Go, Goto
<1>2. (IF to = "idle" THEN NoJob ELSE j) \in Job
  BY NoJobIsJob
<1>3. pc' \in [Tasks \cup Deliveries -> Pcs] /\ job' \in [Tasks -> Job]
  BY <1>1, <1>2 DEF Typed, Booked, Pcs
<1>4. ASSUME NEW s \in Tasks PROVE JobShape(pc'[s], job'[s])
  <2>1. CASE s = t
    <3>1. pc'[s] = to /\ job'[s] = (IF to = "idle" THEN NoJob ELSE j)
      BY <1>1, <2>1 DEF Typed, Booked
    <3> QED BY <3>1, NoJobIsJob
  <2>2. CASE s # t
    <3>1. pc'[s] = pc[s] /\ job'[s] = job[s]
      BY <1>1, <2>2 DEF Typed, Booked
    <3> QED BY <3>1 DEF Typed, Shape
  <2> QED BY <2>1, <2>2
<1>5. \A d \in Deliveries : pc'[d] = pc[d]
  BY <1>1, ProcessAssumption DEF Typed, Booked
<1>6. \A s \in Tasks : JobShape(pc[s], job[s])'
  BY <1>4 DEF JobShape
<1> QED BY <1>3, <1>5, <1>6

\* What a request does leaves the deliveries alone.
LEMMA RequestShape ==
  ASSUME Typed, NEW t \in Tasks, NEW from, NEW to \in RequestPcs, NEW j,
         to # "idle" => j \in Job /\ JobShape(to, j),
         Go(t, from, to, j), UNCHANGED <<event, base, into>>
  PROVE  /\ pc' \in [Tasks \cup Deliveries -> Pcs] /\ job' \in [Tasks -> Job]
         /\ Shape'
<1>1. \A d \in Deliveries : DeliveryShape(d)'
  BY GoTyped DEF Typed, Shape, DeliveryShape
<1> QED BY <1>1, GoTyped DEF Shape

LEMMA CallTyped ==
  ASSUME Typed, NEW t \in Tasks, NEW op \in Access \cup {"checkout"},
         NEW u \in Emails \cup {None}, NEW a \in Accounts \cup {None},
         NEW x \in Entry \cup {None}, Call(t, op, u, a, x),
         op \notin {"setPlan", "clearPlan"} => u \in Emails,
         op \notin {"grant", "revoke"} => a \in Accounts,
         op \in {"grant", "setPlan"} => x \in Entry
  PROVE  Typed'
<1> DEFINE to == CASE op \in {"status", "check", "checkout"} -> "getRecord"
                   [] op \in {"grant", "revoke"} -> "findAccount"
                   [] op = "setPlan" -> "putOverride"
                   [] op = "clearPlan" -> "clearOverride"
           j == [op |-> op, user |-> u, account |-> a, entry |-> x, record |-> None]
<1>1. j \in Job
  BY DEF Job, AllOps, Access
<1>2. to \in RequestPcs /\ JobShape(to, j)
  BY DEF Access, JobShape, RequestPcs
<1>3. Go(t, "idle", to, j)
  BY DEF Call
<1>4. /\ UNCHANGED <<mix, home, rows, late, stripe, base, into, faults, applied, unsure, hit>>
      /\ calls' \in 0..MaxCalls[mix]
      /\ overlapped' \in SUBSET Emails /\ revoked' \in SUBSET Emails
  <2>1. calls' \in 0..MaxCalls[mix]
    BY BoundsAssumption DEF Call, Typed, Booked
  <2>2. overlapped' \in SUBSET Emails
    <3>1. \/ overlapped' = overlapped \/ overlapped' = overlapped \ {u}
          \/ op \notin {"setPlan", "clearPlan"} /\ overlapped' = overlapped \cup {u}
      BY DEF Call
    <3> QED BY <3>1 DEF Typed, Booked
  <2>3. revoked' \in SUBSET Emails
    BY DEF Call, Typed, Booked
  <2> QED BY <2>1, <2>2, <2>3 DEF Call
<1> HIDE DEF to, j
<1>5. pc' \in [Tasks \cup Deliveries -> Pcs] /\ job' \in [Tasks -> Job] /\ Shape'
  BY <1>1, <1>2, <1>3, <1>4, RequestShape DEF stripe
<1> QED BY <1>4, <1>5 DEF Typed, Booked, rows, stripe

LEMMA ArriveTyped == ASSUME Typed, NEW t \in Tasks, Arrive(t) PROVE Typed'
<1>1. \A u \in Emails : home[u] \in Accounts
  BY DEF Typed, Booked
<1>2. ASSUME NEW u \in Emails, NEW op \in {"status", "check", "checkout"},
             Call(t, op, u, home[u], None)
      PROVE  Typed'
  BY <1>1, <1>2, CallTyped DEF Access
<1>3. ASSUME NEW u \in Emails, NEW w \in {"never", "soon"},
             Call(t, "grant", u, None, [until |-> w, note |-> u])
      PROVE  Typed'
  <2>1. [until |-> w, note |-> u] \in Entry
    BY DEF Entry
  <2> QED BY <1>3, <2>1, CallTyped DEF Access
<1>4. ASSUME NEW u \in Emails, Call(t, "revoke", u, None, None) PROVE Typed'
  BY <1>4, CallTyped DEF Access
<1>5. ASSUME NEW a \in Accounts, NEW w \in {"never", "soon"},
             Call(t, "setPlan", None, a, [until |-> w, note |-> None])
      PROVE  Typed'
  <2>1. [until |-> w, note |-> None] \in Entry
    BY DEF Entry
  <2> QED BY <1>5, <2>1, CallTyped DEF Access
<1>6. ASSUME NEW a \in Accounts, Call(t, "clearPlan", None, a, None) PROVE Typed'
  BY <1>6, CallTyped DEF Access
<1> QED BY <1>2, <1>3, <1>4, <1>5, <1>6 DEF Arrive

\* A request goes on with the locals it has, or ends.
LEMMA GoesOn ==
  ASSUME Typed, NEW t \in Tasks, NEW from, NEW to \in RequestPcs,
         to # "idle" => JobShape(to, job[t]),
         Go(t, from, to, job[t]), UNCHANGED <<event, base, into>>
  PROVE  /\ pc' \in [Tasks \cup Deliveries -> Pcs] /\ job' \in [Tasks -> Job]
         /\ Shape'
<1>1. job[t] \in Job
  BY DEF Typed, Booked
<1> QED BY <1>1, RequestShape

\* The locals of task t are what its place says.
LEMMA HasShape == ASSUME Typed, NEW t \in Tasks PROVE job[t] \in Job /\ JobShape(pc[t], job[t])
  BY DEF Typed, Booked, Shape

LEMMA GetRecordTyped ==
  ASSUME Typed, NEW t \in Tasks, GetRecord(t) \/ GetRecordToPay(t) PROVE Typed'
<1> DEFINE k == job[t]
<1>1. k \in Job /\ JobShape("getRecord", k)
  BY HasShape DEF GetRecord, GetRecordToPay, Go, Goto
<1>2. k.account \in Accounts /\ k.user \in Emails
  BY <1>1 DEF JobShape
<1>3. CASE GetRecord(t)
  <2> DEFINE j == [op |-> k.op, user |-> k.user, account |-> k.account, entry |-> None,
                   record |-> record[k.account]]
  <2>1. Go(t, "getRecord", "getOverride", j) /\ k.op # "checkout"
        /\ UNCHANGED <<mix, home, rows, late, stripe, base, into, calls, faults, history>>
    BY <1>3 DEF GetRecord
  <2>2. j \in Job
    BY <1>1, <1>2 DEF Job, Typed, Booked
  <2>3. JobShape("getOverride", j)
    BY <1>1, <1>2, <2>1 DEF JobShape, RequestPcs
  <2> HIDE DEF j
  <2>4. pc' \in [Tasks \cup Deliveries -> Pcs] /\ job' \in [Tasks -> Job] /\ Shape'
    BY <2>1, <2>2, <2>3, RequestShape DEF stripe, RequestPcs
  <2> QED BY <2>1, <2>4 DEF Typed, Booked, rows, stripe, history
<1>4. CASE GetRecordToPay(t)
  <2> DEFINE r == IF record[k.account] = None THEN Free ELSE record[k.account]
             j == [op |-> k.op, user |-> k.user, account |-> k.account, entry |-> None, record |-> r]
             to == IF r.customer = None THEN "createCustomer" ELSE "session"
  <2>1. Go(t, "getRecord", to, j) /\ k.op = "checkout"
        /\ UNCHANGED <<mix, home, rows, late, stripe, base, into, calls, faults, history>>
    BY <1>4 DEF GetRecordToPay
  <2>2. r \in Record
    BY <1>2 DEF Typed, Booked, Free, Record, Plans, Statuses
  <2>3. r.customer \in Customers \cup {None}
    BY <2>2 DEF Record
  <2> HIDE DEF r
  <2>4. j \in Job
    BY <1>1, <1>2, <2>2 DEF Job
  <2>5. to \in RequestPcs /\ JobShape(to, j)
    BY <1>1, <1>2, <2>1, <2>2, <2>3 DEF JobShape, RequestPcs
  <2> HIDE DEF j, to
  <2>6. pc' \in [Tasks \cup Deliveries -> Pcs] /\ job' \in [Tasks -> Job] /\ Shape'
    BY <2>1, <2>4, <2>5, RequestShape DEF stripe
  <2> QED BY <2>1, <2>6 DEF Typed, Booked, rows, stripe, history
<1> QED BY <1>3, <1>4

LEMMA StatusTyped ==
  ASSUME Typed, NEW t \in Tasks,
         GetOverride(t) \/ GetGrant(t) \/ Decide(t) \/ Allow(t) \/ Refuse(t) \/ GetInterest(t)
  PROVE  Typed'
<1> DEFINE k == job[t]
<1>1. k \in Job /\ JobShape(pc[t], k)
  BY HasShape
<1>2. pc[t] \in {"getOverride", "getGrant", "usage", "allow", "refuse", "getInterest"}
  BY DEF GetOverride, GetGrant, Decide, Allow, Refuse, GetInterest, Go, Goto
<1>3. k.op \in {"status", "check"} /\ k.account \in Accounts /\ k.user \in Emails
  BY <1>1, <1>2 DEF JobShape
<1>4. \A to \in {"usage", "allow", "refuse", "getInterest", "markInterest", "idle"} :
        to \in RequestPcs /\ JobShape(to, k)
  BY <1>3 DEF JobShape, RequestPcs
<1>5. UNCHANGED <<mix, home, rows, late, stripe, base, into, calls, faults, history>>
  BY DEF GetOverride, GetGrant, Decide, Allow, Refuse, GetInterest
<1>7. pc' \in [Tasks \cup Deliveries -> Pcs] /\ job' \in [Tasks -> Job] /\ Shape'
  <2>1. CASE GetGrant(t) /\ Active(grant[k.user])
    <3> DEFINE j == [op |-> k.op, user |-> k.user, account |-> k.account,
                     entry |-> [until |-> grant[k.user].until, note |-> k.user],
                     record |-> k.record]
    <3>1. Go(t, "getGrant", "putOverride", j)
      BY <2>1 DEF GetGrant
    <3>2. grant[k.user] \in Entry
      BY <1>3, <2>1 DEF Active, Typed, Booked
    <3>3. [until |-> grant[k.user].until, note |-> k.user] \in Entry
      BY <1>3, <3>2 DEF Entry
    <3>4. j \in Job
      BY <1>1, <1>3, <3>3 DEF Job
    <3>5. JobShape("putOverride", j)
      BY <1>3, <3>3 DEF JobShape, RequestPcs
    <3> HIDE DEF j
    <3> QED BY <1>5, <3>1, <3>4, <3>5, RequestShape DEF stripe, RequestPcs
  <2>2. CASE GetOverride(t)
    <3> DEFINE j == [op |-> k.op, user |-> k.user, account |-> k.account,
                     entry |-> override[k.account], record |-> k.record]
               to == IF LooksFurther(override[k.account]) THEN "getGrant" ELSE "usage"
    <3>1. Go(t, "getOverride", to, j)
      BY <2>2 DEF GetOverride
    <3>2. override[k.account] \in Entry \cup {None}
      BY <1>3 DEF Typed, Booked
    <3>3. j \in Job
      BY <1>1, <1>3, <3>2 DEF Job
    <3>4. to \in RequestPcs /\ JobShape(to, j)
      BY <1>3 DEF JobShape, RequestPcs
    <3> HIDE DEF j, to
    <3> QED BY <1>5, <3>1, <3>3, <3>4, RequestShape DEF stripe
  <2>3. CASE ~(GetGrant(t) /\ Active(grant[k.user])) /\ ~GetOverride(t)
    <3>1. PICK to \in {"usage", "allow", "refuse", "getInterest", "markInterest", "idle"} :
            Go(t, pc[t], to, k)
      BY <2>3 DEF GetGrant, Decide, Allow, Refuse, GetInterest, Go, Goto
    <3> QED BY <1>4, <1>5, <3>1, GoesOn DEF stripe
  <2> QED BY <2>1, <2>2, <2>3
<1> QED BY <1>5, <1>7 DEF Typed, Booked, rows, stripe, history

LEMMA PutOverrideTyped == ASSUME Typed, NEW t \in Tasks, PutOverride(t) PROVE Typed'
<1> DEFINE k == job[t]
           to == IF k.op \in {"status", "check"} THEN "usage" ELSE "idle"
<1>1. k \in Job /\ JobShape("putOverride", k)
  BY HasShape DEF PutOverride, Go, Goto
<1>2. /\ Go(t, "putOverride", to, k)
      /\ override' = [override EXCEPT ![k.account] = k.entry]
      /\ UNCHANGED <<mix, home, record, grant, interest, claimed, late, stripe, base, into, calls, faults, history>>
  BY DEF PutOverride
<1>3. to \in RequestPcs /\ (to # "idle" => JobShape(to, k))
  BY <1>1 DEF JobShape, RequestPcs
<1>4. k.account \in Accounts /\ k.entry \in Entry
  BY <1>1 DEF JobShape
<1> HIDE DEF to
<1>5. pc' \in [Tasks \cup Deliveries -> Pcs] /\ job' \in [Tasks -> Job] /\ Shape'
  BY <1>2, <1>3, GoesOn DEF stripe
<1>6. override' \in [Accounts -> Entry \cup {None}]
  BY <1>2, <1>4 DEF Typed, Booked
<1> QED BY <1>2, <1>5, <1>6 DEF Typed, Booked, stripe, history

LEMMA MarkInterestTyped == ASSUME Typed, NEW t \in Tasks, MarkInterest(t) PROVE Typed'
<1> DEFINE k == job[t]
<1>1. k \in Job /\ JobShape("markInterest", k)
  BY HasShape DEF MarkInterest, Go, Goto
<1>2. pc' \in [Tasks \cup Deliveries -> Pcs] /\ job' \in [Tasks -> Job] /\ Shape'
  BY GoesOn DEF MarkInterest, stripe, RequestPcs
<1>3. interest' \in [Accounts -> Emails \cup {None}]
  BY <1>1 DEF MarkInterest, JobShape, Typed, Booked
<1> QED BY <1>2, <1>3 DEF MarkInterest, Typed, Booked, stripe, history

LEMMA FindAccountTyped == ASSUME Typed, NEW t \in Tasks, FindAccount(t) PROVE Typed'
<1> DEFINE k == job[t]
           to == IF k.op = "grant" THEN "putGrant" ELSE "delGrant"
<1>1. k \in Job /\ JobShape("findAccount", k)
  BY HasShape DEF FindAccount
<1>2. PICK a \in {home[k.user], None} :
        Go(t, "findAccount", to,
           [op |-> k.op, user |-> k.user, account |-> a, entry |-> k.entry, record |-> None])
  BY DEF FindAccount
<1> DEFINE j == [op |-> k.op, user |-> k.user, account |-> a, entry |-> k.entry, record |-> None]
<1>3. k.op \in {"grant", "revoke"} /\ k.user \in Emails /\ a \in Accounts \cup {None}
  BY <1>1 DEF JobShape, Typed, Booked
<1>4. j \in Job
  BY <1>1, <1>3 DEF Job
<1>5. to \in RequestPcs /\ JobShape(to, j)
  BY <1>1, <1>3 DEF JobShape, RequestPcs
<1>6. UNCHANGED <<mix, home, rows, late, stripe, base, into, calls, faults, history>>
  BY DEF FindAccount
<1> HIDE DEF j, to
<1>7. Go(t, "findAccount", to, j)
  BY <1>2 DEF j
<1>8. pc' \in [Tasks \cup Deliveries -> Pcs] /\ job' \in [Tasks -> Job] /\ Shape'
  BY <1>4, <1>5, <1>6, <1>7, RequestShape DEF stripe
<1> QED BY <1>6, <1>8 DEF Typed, Booked, rows, stripe, history

LEMMA GrantsTyped ==
  ASSUME Typed, NEW t \in Tasks, PutGrant(t) \/ DelGrant(t) \/ ClearOverride(t)
  PROVE  Typed'
<1> DEFINE k == job[t]
<1>1. k \in Job /\ JobShape(pc[t], k)
  BY HasShape
<1>2. CASE PutGrant(t)
  <2>1. pc[t] = "putGrant" /\ k.op = "grant" /\ k.user \in Emails /\ k.entry \in Entry
    BY <1>1, <1>2 DEF PutGrant, Go, Goto, JobShape
  <2>2. k.account # None => k.account \in Accounts
    BY <1>1 DEF Job
  <2>3. pc' \in [Tasks \cup Deliveries -> Pcs] /\ job' \in [Tasks -> Job] /\ Shape'
    <3> DEFINE to == IF k.account = None THEN "idle" ELSE "putOverride"
    <3>1. to \in RequestPcs /\ (to # "idle" => JobShape(to, k))
      BY <2>1, <2>2 DEF JobShape, RequestPcs
    <3>2. Go(t, "putGrant", to, k) /\ UNCHANGED <<event, base, into>>
      BY <1>2 DEF PutGrant, stripe
    <3> HIDE DEF to
    <3> QED BY <3>1, <3>2, GoesOn
  <2>4. [until |-> k.entry.until, note |-> None] \in Entry
    BY <2>1 DEF Entry
  <2>5. grant' \in [Emails -> Entry \cup {None}] /\ revoked' \in SUBSET Emails
    BY <1>2, <2>4 DEF PutGrant, Typed, Booked
  <2> QED BY <1>2, <2>3, <2>5 DEF PutGrant, Typed, Booked, stripe
<1>3. CASE DelGrant(t)
  <2>1. pc[t] = "delGrant" /\ k.op = "revoke" /\ k.user \in Emails
    BY <1>1, <1>3 DEF DelGrant, Go, Goto, JobShape
  <2>2. k.account # None => k.account \in Accounts
    BY <1>1 DEF Job
  <2>3. pc' \in [Tasks \cup Deliveries -> Pcs] /\ job' \in [Tasks -> Job] /\ Shape'
    <3> DEFINE to == IF k.account = None THEN "idle" ELSE "clearOverride"
    <3>1. to \in RequestPcs /\ (to # "idle" => JobShape(to, k))
      BY <2>1, <2>2 DEF JobShape, RequestPcs
    <3>2. Go(t, "delGrant", to, k) /\ UNCHANGED <<event, base, into>>
      BY <1>3 DEF DelGrant, stripe
    <3> HIDE DEF to
    <3> QED BY <3>1, <3>2, GoesOn
  <2>4. grant' \in [Emails -> Entry \cup {None}]
    BY <1>3 DEF DelGrant, Typed, Booked
  <2> QED BY <1>3, <2>3, <2>4 DEF DelGrant, Typed, Booked, stripe, history
<1>4. CASE ClearOverride(t)
  <2>1. k.op \in {"revoke", "clearPlan"} /\ (k.op = "revoke" => k.user \in Emails)
    BY <1>1, <1>4 DEF ClearOverride, Go, Goto, JobShape
  <2>2. pc' \in [Tasks \cup Deliveries -> Pcs] /\ job' \in [Tasks -> Job] /\ Shape'
    BY <1>4, GoesOn DEF ClearOverride, stripe, RequestPcs
  <2>3. override' \in [Accounts -> Entry \cup {None}] /\ revoked' \in SUBSET Emails
    BY <1>4, <2>1 DEF ClearOverride, Typed, Booked
  <2> QED BY <1>4, <2>2, <2>3 DEF ClearOverride, Typed, Booked, stripe
<1> QED BY <1>2, <1>3, <1>4

LEMMA CheckoutTyped ==
  ASSUME Typed, NEW t \in Tasks, CreateCustomer(t) \/ PutCustomer(t) \/ OpenSession(t)
  PROVE  Typed'
<1> DEFINE k == job[t]
<1>1. k \in Job /\ JobShape(pc[t], k)
  BY HasShape
<1>2. pc[t] \in {"createCustomer", "putCustomer", "session"}
  BY DEF CreateCustomer, PutCustomer, OpenSession, Go, Goto
<1>3. k.op = "checkout" /\ k.record \in Record /\ k.account \in Accounts /\ k.user \in Emails
  BY <1>1, <1>2 DEF JobShape
<1>4. CASE CreateCustomer(t)
  <2>1. PICK c \in Customers :
          /\ customerOf' = [customerOf EXCEPT ![c] = k.account]
          /\ Go(t, "createCustomer", "putCustomer",
                [op |-> k.op, user |-> k.user, account |-> k.account, entry |-> None,
                 record |-> [customer |-> c, plan |-> k.record.plan, status |-> k.record.status]])
    BY <1>4 DEF CreateCustomer
  <2> DEFINE r == [customer |-> c, plan |-> k.record.plan, status |-> k.record.status]
             j == [op |-> k.op, user |-> k.user, account |-> k.account, entry |-> None, record |-> r]
  <2>2. r \in Record /\ r.customer \in Customers
    BY <1>3 DEF Record
  <2> HIDE DEF r
  <2>3. j \in Job
    BY <1>1, <1>3, <2>2 DEF Job
  <2>4. JobShape("putCustomer", j)
    BY <1>3, <2>2 DEF JobShape, RequestPcs
  <2>5. UNCHANGED <<mix, home, rows, late, sessions, event, acked, base, into, calls, faults, history>>
    BY <1>4 DEF CreateCustomer
  <2> HIDE DEF j
  <2>6. Go(t, "createCustomer", "putCustomer", j)
    BY <2>1 DEF j, r
  <2>7. pc' \in [Tasks \cup Deliveries -> Pcs] /\ job' \in [Tasks -> Job] /\ Shape'
    BY <2>3, <2>4, <2>5, <2>6, RequestShape DEF RequestPcs
  <2>8. customerOf' \in [Customers -> Accounts \cup {None}]
    BY <1>3, <2>1 DEF Typed, Booked
  <2> QED BY <2>5, <2>7, <2>8 DEF Typed, Booked, rows, history
<1>5. CASE PutCustomer(t)
  <2>1. JobShape("session", k)
    BY <1>1, <1>5 DEF PutCustomer, Go, Goto, JobShape, RequestPcs
  <2>2. pc' \in [Tasks \cup Deliveries -> Pcs] /\ job' \in [Tasks -> Job] /\ Shape'
    BY <1>5, <2>1, GoesOn DEF PutCustomer, stripe, RequestPcs
  <2>3. record' \in [Accounts -> Record \cup {None}]
    BY <1>3, <1>5 DEF PutCustomer, Typed, Booked
  <2> QED BY <1>5, <2>2, <2>3 DEF PutCustomer, Typed, Booked, stripe, history
<1>6. CASE OpenSession(t)
  <2>1. k.record.customer \in Customers
    BY <1>1, <1>6 DEF OpenSession, Go, Goto, JobShape
  <2>2. pc' \in [Tasks \cup Deliveries -> Pcs] /\ job' \in [Tasks -> Job] /\ Shape'
    BY <1>6, GoesOn DEF OpenSession, RequestPcs
  <2>3. sessions' \in SUBSET Customers
    BY <1>6, <2>1 DEF OpenSession, Typed, Booked
  <2> QED BY <1>6, <2>2, <2>3 DEF OpenSession, Typed, Booked, rows, history
<1> QED BY <1>4, <1>5, <1>6

LEMMA FailRequestTyped == ASSUME Typed, NEW t \in Tasks, FailRequest(t) PROVE Typed'
<1>1. faults' \in 0..MaxFaults
  BY BoundsAssumption DEF FailRequest, Typed, Booked
<1>2. pc[t] \in RequestPcs
  BY HasShape DEF JobShape
<1>3. pc' \in [Tasks \cup Deliveries -> Pcs] /\ job' \in [Tasks -> Job] /\ Shape'
  <2>1. Go(t, pc[t], "idle", NoJob) /\ UNCHANGED <<event, base, into>>
    BY DEF FailRequest, stripe
  <2> QED BY <2>1, RequestShape DEF RequestPcs
<1> QED BY <1>1, <1>3 DEF FailRequest, Typed, Booked, rows, stripe, history

LEMMA RequestTyped ==
  ASSUME Typed, NEW t \in Tasks, Request(t) \/ FailRequest(t) PROVE Typed'
  BY ArriveTyped, GetRecordTyped, StatusTyped, PutOverrideTyped, MarkInterestTyped,
     FindAccountTyped, GrantsTyped, CheckoutTyped, FailRequestTyped DEF Request

----------------------------------------------------------------------------
(* Types of what Stripe and the webhook do *)

\* A delivery moves: requests and the other deliveries keep their place.
LEMMA DeliveryMoves ==
  ASSUME Typed, NEW d \in Deliveries, NEW to \in DeliveryPcs,
         pc' = [pc EXCEPT ![d] = to], UNCHANGED <<job, event>>,
         pc[d] # "idle", to = "putRecord" => base'[d] \in Record /\ into'[d] \in Accounts,
         \A c \in Deliveries \ {d} : base'[c] = base[c] /\ into'[c] = into[c]
  PROVE  pc' \in [Tasks \cup Deliveries -> Pcs] /\ Shape'
<1>1. pc' \in [Tasks \cup Deliveries -> Pcs]
  BY DEF Typed, Booked, Pcs
<1>2. ASSUME NEW t \in Tasks PROVE JobShape(pc[t], job[t])'
  <2>1. pc'[t] = pc[t] /\ job'[t] = job[t]
    BY ProcessAssumption DEF Typed, Booked
  <2> QED BY <2>1 DEF Typed, Shape, JobShape
<1>3. ASSUME NEW c \in Deliveries PROVE DeliveryShape(c)'
  <2>1. CASE c = d
    BY <2>1 DEF Typed, Booked, Shape, DeliveryShape
  <2>2. CASE c # d
    BY <1>3, <2>2 DEF Typed, Booked, Shape, DeliveryShape
  <2> QED BY <2>1, <2>2
<1> QED BY <1>1, <1>2, <1>3 DEF Shape

LEMMA SendTyped == ASSUME Typed, NEW e \in Events, Send(e) PROVE Typed'
<1>1. PICK c \in sessions, a \in Accounts \cup {None}, k \in Kinds, p \in Payloads,
           plan \in Priced \cup {None} :
        /\ a \in {customerOf[c], None}
        /\ k = "checkout" => a # None /\ p \in {"paid", "unpaid"}
        /\ k = "subscription" => p \notin {"paid", "unpaid"}
        /\ k = "deleted" => p = "canceled"
        /\ event' = [event EXCEPT ![e] =
             [kind |-> k, customer |-> c, account |-> a, payload |-> p, plan |-> plan]]
  BY Zenon DEF Send
<1> DEFINE v == [kind |-> k, customer |-> c, account |-> a, payload |-> p, plan |-> plan]
<1>2. v \in Event
  BY DEF Event, Typed, Booked
<1> HIDE DEF v
<1>3. event' = [event EXCEPT ![e] = v]
  BY <1>1 DEF v
<1>4. event' \in [Events -> Event \cup {None}]
  BY <1>2, <1>3 DEF Typed, Booked
<1>5. ASSUME NEW d \in Deliveries PROVE DeliveryShape(d)'
  BY <1>2, <1>3, DeliveryIsOfEvent DEF Send, Typed, Booked, Shape, DeliveryShape
<1>6. \A t \in Tasks : JobShape(pc[t], job[t])'
  BY DEF Send, Typed, Shape, JobShape
<1>7. calls' \in 0..MaxCalls[mix]
  BY BoundsAssumption DEF Send, Typed, Booked
<1> QED BY <1>4, <1>5, <1>6, <1>7 DEF Send, Typed, Booked, Shape, rows, history

LEMMA DeliverTyped == ASSUME Typed, NEW d \in Deliveries, Deliver(d) PROVE Typed'
<1>1. /\ pc' = [pc EXCEPT ![d] = "claim"] /\ event[d[1]] # None
      /\ UNCHANGED <<mix, home, rows, late, stripe, job, base, into, calls, faults, history>>
  BY DEF Deliver, Goto
<1>2. pc' \in [Tasks \cup Deliveries -> Pcs]
  BY <1>1 DEF Typed, Booked, Pcs, DeliveryPcs
<1>3. event[d[1]] \in Event
  BY <1>1, DeliveryIsOfEvent DEF Typed, Booked
<1>4. ASSUME NEW t \in Tasks PROVE JobShape(pc[t], job[t])'
  <2>1. pc'[t] = pc[t] /\ job'[t] = job[t]
    BY <1>1, ProcessAssumption DEF Typed, Booked
  <2> QED BY <2>1 DEF Typed, Shape, JobShape
<1>5. ASSUME NEW c \in Deliveries PROVE DeliveryShape(c)'
  BY <1>1, <1>3 DEF Typed, Booked, Shape, DeliveryShape, DeliveryPcs, stripe
<1> QED BY <1>1, <1>2, <1>4, <1>5 DEF Typed, Booked, Shape, rows, stripe, history

LEMMA ClaimTyped == ASSUME Typed, NEW d \in Deliveries, Claim(d) PROVE Typed'
<1>1. PICK to \in {"readRecord", "idle"} : pc' = [pc EXCEPT ![d] = to]
  BY DEF Claim, Goto
<1>2. pc' \in [Tasks \cup Deliveries -> Pcs] /\ Shape'
  BY <1>1, DeliveryMoves DEF Claim, DeliveryPcs
<1>3. claimed' \in SUBSET Events /\ acked' \in SUBSET Events /\ hit' \in SUBSET Events
  BY DeliveryIsOfEvent DEF Claim, Typed, Booked
<1> QED BY <1>2, <1>3 DEF Claim, Typed, Booked

LEMMA ReadRecordTyped == ASSUME Typed, NEW d \in Deliveries, ReadRecord(d) PROVE Typed'
<1>1. UNCHANGED <<mix, home, rows, late, customerOf, sessions, event, job, calls, faults,
                 unsure, hit, revoked, overlapped>> /\ pc[d] = "readRecord"
  BY DEF ReadRecord
<1>2. CASE \E a \in Accounts :
             /\ Goto(d, "readRecord", "putRecord")
             /\ base' = [base EXCEPT ![d] = IF record[a] = None THEN Free ELSE record[a]]
             /\ into' = [into EXCEPT ![d] = a]
             /\ UNCHANGED <<acked, applied>>
  <2>1. PICK a \in Accounts :
             /\ Goto(d, "readRecord", "putRecord")
             /\ base' = [base EXCEPT ![d] = IF record[a] = None THEN Free ELSE record[a]]
             /\ into' = [into EXCEPT ![d] = a]
             /\ UNCHANGED <<acked, applied>>
    BY <1>2
  <2> DEFINE r == IF record[a] = None THEN Free ELSE record[a]
  <2>2. r \in Record
    BY DEF Typed, Booked, Free, Record, Plans, Statuses
  <2> HIDE DEF r
  <2>3. base' = [base EXCEPT ![d] = r]
    BY <2>1 DEF r
  <2>4. base' \in [Deliveries -> Record \cup {None}] /\ into' \in [Deliveries -> Accounts \cup {None}]
    BY <2>1, <2>2, <2>3 DEF Typed, Booked
  <2>5. /\ base'[d] \in Record /\ into'[d] \in Accounts
        /\ \A c \in Deliveries \ {d} : base'[c] = base[c] /\ into'[c] = into[c]
    BY <2>1, <2>2, <2>3 DEF Typed, Booked
  <2>6. pc' = [pc EXCEPT ![d] = "putRecord"]
    BY <2>1 DEF Goto
  <2>7. pc' \in [Tasks \cup Deliveries -> Pcs] /\ Shape'
    BY <1>1, <2>5, <2>6, DeliveryMoves DEF DeliveryPcs
  <2> QED BY <1>1, <2>1, <2>4, <2>7 DEF Typed, Booked, rows
<1>3. CASE /\ Goto(d, "readRecord", "idle")
           /\ acked' = acked \cup {d[1]}
           /\ applied' = [applied EXCEPT ![d[1]] = @ + 1]
           /\ UNCHANGED <<base, into>>
  <2>1. pc' \in [Tasks \cup Deliveries -> Pcs] /\ Shape'
    BY <1>1, <1>3, DeliveryMoves DEF DeliveryPcs, Goto
  <2>2. acked' \in SUBSET Events /\ applied' \in [Events -> Nat]
    BY <1>3, DeliveryIsOfEvent DEF Typed, Booked
  <2> QED BY <1>1, <1>3, <2>1, <2>2 DEF Typed, Booked, rows
<1> QED BY <1>2, <1>3 DEF ReadRecord

\* The record an event makes of a record.
LEMMA AfterIsRecord == ASSUME NEW r \in Record, NEW v \in Event PROVE After(r, v) \in Record
<1>1. StatusOf(v) \in Statuses
  BY DEF StatusOf, SubscriptionStatus, Statuses
<1>2. v.plan # None => v.plan \in Plans
  BY BoundsAssumption DEF Event
<1>3. r.plan \in Plans /\ v.customer \in Customers \cup {None}
  BY DEF Record, Event
<1>4. "free" \in Plans
  BY DEF Plans
<1> DEFINE plan == CASE StatusOf(v) \in {"canceled", "none"} -> "free"
                     [] StatusOf(v) \notin {"canceled", "none"} ->
                          IF v.plan # None THEN v.plan ELSE r.plan
<1>5. plan \in Plans
  <2>1. CASE StatusOf(v) \in {"canceled", "none"}
    BY <1>4, <2>1
  <2>2. CASE StatusOf(v) \notin {"canceled", "none"}
    BY <1>2, <1>3, <2>2
  <2> QED BY <2>1, <2>2
<1>6. After(r, v) = [customer |-> v.customer, status |-> StatusOf(v), plan |-> plan]
  BY DEF After
<1> HIDE DEF plan
<1> QED BY <1>1, <1>3, <1>5, <1>6 DEF Record

LEMMA PutRecordTyped == ASSUME Typed, NEW d \in Deliveries, PutRecord(d) PROVE Typed'
<1>1. base[d] \in Record /\ into[d] \in Accounts /\ event[d[1]] \in Event /\ pc[d] = "putRecord"
  BY DEF PutRecord, Goto, Typed, Shape, DeliveryShape
<1>2. record' \in [Accounts -> Record \cup {None}]
  <2>1. After(base[d], event[d[1]]) \in Record
    BY <1>1, AfterIsRecord
  <2> QED BY <1>1, <2>1 DEF PutRecord, Typed, Booked
<1>3. base' \in [Deliveries -> Record \cup {None}] /\ into' \in [Deliveries -> Accounts \cup {None}]
  BY DEF PutRecord, Typed, Booked
<1>4. \A c \in Deliveries \ {d} : base'[c] = base[c] /\ into'[c] = into[c]
  BY DEF PutRecord, Typed, Booked
<1>5. acked' \in SUBSET Events /\ applied' \in [Events -> Nat]
  BY DeliveryIsOfEvent DEF PutRecord, Typed, Booked
<1>6. pc' = [pc EXCEPT ![d] = "idle"] /\ UNCHANGED <<job, event>>
  BY DEF PutRecord, Goto
<1>7. pc' \in [Tasks \cup Deliveries -> Pcs] /\ Shape'
  BY <1>1, <1>4, <1>6, DeliveryMoves DEF DeliveryPcs
<1> QED BY <1>2, <1>3, <1>5, <1>7 DEF PutRecord, Typed, Booked

LEMMA ReleaseTyped == ASSUME Typed, NEW d \in Deliveries, Release(d) PROVE Typed'
<1>1. base' \in [Deliveries -> Record \cup {None}] /\ into' \in [Deliveries -> Accounts \cup {None}]
  BY DEF Release, Typed, Booked
<1>2. \A c \in Deliveries \ {d} : base'[c] = base[c] /\ into'[c] = into[c]
  BY DEF Release, Typed, Booked
<1>3. pc' = [pc EXCEPT ![d] = "idle"] /\ UNCHANGED <<job, event>> /\ pc[d] = "release"
  BY DEF Release, Goto, stripe
<1>4. pc' \in [Tasks \cup Deliveries -> Pcs] /\ Shape'
  BY <1>2, <1>3, DeliveryMoves DEF DeliveryPcs
<1>5. claimed' \in SUBSET Events /\ hit' \in SUBSET Events
  BY DeliveryIsOfEvent DEF Release, Unclaimed, Typed, Booked
<1> QED BY <1>1, <1>4, <1>5 DEF Release, Typed, Booked, stripe

LEMMA FailDeliveryTyped == ASSUME Typed, NEW d \in Deliveries, FailDelivery(d) PROVE Typed'
<1>1. PICK to \in {"idle", "release"} : pc' = [pc EXCEPT ![d] = to] /\ pc[d] # "idle"
  BY DEF FailDelivery, Goto
<1>2. /\ faults' \in 0..MaxFaults
      /\ UNCHANGED <<mix, home, override, grant, interest, late, stripe, job, calls, revoked, overlapped>>
  BY BoundsAssumption DEF FailDelivery, Typed, Booked
<1>3. record' \in [Accounts -> Record \cup {None}]
  <2>1. CASE pc[d] = "putRecord"
    <3>1. base[d] \in Record /\ into[d] \in Accounts /\ event[d[1]] \in Event
      BY <2>1 DEF Typed, Shape, DeliveryShape
    <3>2. After(base[d], event[d[1]]) \in Record
      BY <3>1, AfterIsRecord
    <3>3. record' = record \/ record' = [record EXCEPT ![into[d]] = After(base[d], event[d[1]])]
      BY DEF FailDelivery
    <3> QED BY <3>1, <3>2, <3>3 DEF Typed, Booked
  <2>2. CASE pc[d] # "putRecord"
    BY <2>2 DEF FailDelivery, Goto, Typed, Booked
  <2> QED BY <2>1, <2>2
<1>4. /\ base' \in [Deliveries -> Record \cup {None}] /\ into' \in [Deliveries -> Accounts \cup {None}]
      /\ \A c \in Deliveries \ {d} : base'[c] = base[c] /\ into'[c] = into[c]
  <2>1. \/ UNCHANGED <<base, into>>
        \/ base' = [base EXCEPT ![d] = None] /\ into' = [into EXCEPT ![d] = None]
    BY DEF FailDelivery
  <2> QED BY <2>1 DEF Typed, Booked
<1>5. claimed' \in SUBSET Events /\ hit' \in SUBSET Events /\ unsure' \in SUBSET Events
  BY DeliveryIsOfEvent DEF FailDelivery, Typed, Booked
<1>6. applied' \in [Events -> Nat]
  <2>1. applied' = applied \/ applied' = [applied EXCEPT ![d[1]] = @ + 1]
    BY DEF FailDelivery
  <2> QED BY <2>1, DeliveryIsOfEvent DEF Typed, Booked
<1>7. pc' \in [Tasks \cup Deliveries -> Pcs] /\ Shape'
  BY <1>1, <1>2, <1>4, DeliveryMoves DEF DeliveryPcs, stripe
<1> QED BY <1>2, <1>3, <1>4, <1>5, <1>6, <1>7 DEF Typed, Booked, stripe

LEMMA DropDeliveryTyped == ASSUME Typed, NEW d \in Deliveries, DropDelivery(d) PROVE Typed'
<1>1. pc' = [pc EXCEPT ![d] = "idle"] /\ pc[d] # "idle" /\ UNCHANGED <<job, event>>
  BY DEF DropDelivery, Goto, stripe
<1>2. base' \in [Deliveries -> Record \cup {None}] /\ into' \in [Deliveries -> Accounts \cup {None}]
  BY DEF DropDelivery, Typed, Booked
<1>3. \A c \in Deliveries \ {d} : base'[c] = base[c] /\ into'[c] = into[c]
  BY DEF DropDelivery, Typed, Booked
<1>4. hit' \in SUBSET Events /\ faults' \in 0..MaxFaults
  BY BoundsAssumption, DeliveryIsOfEvent DEF DropDelivery, Typed, Booked
<1>5. pc' \in [Tasks \cup Deliveries -> Pcs] /\ Shape'
  BY <1>1, <1>3, DeliveryMoves DEF DeliveryPcs
<1> QED BY <1>2, <1>4, <1>5 DEF DropDelivery, Typed, Booked, rows, stripe

LEMMA ExpireTyped == ASSUME Typed, Expire PROVE Typed'
  BY DEF Expire, Typed, Booked, Shape, JobShape, DeliveryShape, rows, stripe, history

LEMMA StutterTyped == ASSUME Typed, UNCHANGED vars PROVE Typed'
  BY DEF vars, Typed, Booked, Shape, JobShape, DeliveryShape

LEMMA NextTyped == ASSUME Typed, [Next]_vars PROVE Typed'
<1>1. ASSUME NEW d \in Deliveries, Deliver(d) \/ Handle(d) \/ FailDelivery(d) \/ DropDelivery(d)
      PROVE  Typed'
  BY <1>1, DeliverTyped, ClaimTyped, ReadRecordTyped, PutRecordTyped, ReleaseTyped,
     FailDeliveryTyped, DropDeliveryTyped DEF Handle
<1> QED BY <1>1, RequestTyped, SendTyped, ExpireTyped, StutterTyped DEF Next

\* Observe keeps sets of sources.
LEMMA SeenTyped ==
  ASSUME seen \in [Tasks -> Seen], [Next]_vars PROVE seen' \in [Tasks -> Seen]
<1>1. CASE UNCHANGED vars
  BY <1>1 DEF vars
<1>2. CASE Observe
  <2>1. \A t \in Tasks : SourcesOf(t)' \in SUBSET Sources
    BY DEF SourcesOf, Sources
  <2>2. \A t \in Tasks :
          (IF ~Asking(t)' THEN [ever |-> {}, steady |-> {}]
           ELSE IF pc[t] = "idle" THEN [ever |-> SourcesOf(t)', steady |-> SourcesOf(t)']
           ELSE [ever |-> seen[t].ever \cup SourcesOf(t)',
                 steady |-> seen[t].steady \cap SourcesOf(t)']) \in Seen
    BY <2>1 DEF Seen
  <2> QED BY <1>2, <2>2 DEF Observe
<1> QED BY <1>1, <1>2 DEF Next

LEMMA InitTyped == Init => Typed /\ seen \in [Tasks -> Seen]
<1> SUFFICES ASSUME Init PROVE Typed /\ seen \in [Tasks -> Seen]
  OBVIOUS
<1>1. /\ mix \in Mixes /\ home \in [Emails -> Accounts]
      /\ record \in [Accounts -> Record \cup {None}]
      /\ override \in [Accounts -> Entry \cup {None}]
      /\ customerOf \in [Customers -> Accounts \cup {None}]
      /\ sessions \in SUBSET Customers
  BY DEF Init
<1>2. grant \in [Emails -> Entry \cup {None}]
  <2>1. \A w \in {"never", "soon"} : [until |-> w, note |-> None] \in Entry
    BY DEF Entry
  <2> QED BY <2>1 DEF Init
<1>3. /\ interest \in [Accounts -> Emails \cup {None}]
      /\ claimed \in SUBSET Events /\ acked \in SUBSET Events
      /\ event \in [Events -> Event \cup {None}]
      /\ base \in [Deliveries -> Record \cup {None}]
      /\ into \in [Deliveries -> Accounts \cup {None}]
      /\ unsure \in SUBSET Events /\ hit \in SUBSET Events
      /\ revoked \in SUBSET Emails /\ overlapped \in SUBSET Emails
  BY DEF Init
<1>4. late \in BOOLEAN
  BY DEF Init
<1>5. /\ calls \in 0..MaxCalls[mix] /\ faults \in 0..MaxFaults /\ applied \in [Events -> Nat]
  BY BoundsAssumption DEF Init
<1>6. pc \in [Tasks \cup Deliveries -> Pcs] /\ job \in [Tasks -> Job]
  BY NoJobIsJob DEF Init, Pcs, RequestPcs
<1>7. Shape
  <2>1. \A t \in Tasks : pc[t] = "idle" /\ job[t] = NoJob
    BY DEF Init
  <2>2. \A d \in Deliveries : pc[d] = "idle"
    BY DEF Init
  <2> QED BY <2>1, <2>2, NoJobIsJob DEF Shape, DeliveryShape, DeliveryPcs
<1>8. seen \in [Tasks -> Seen]
  BY DEF Init, Seen
<1> QED BY <1>1, <1>2, <1>3, <1>4, <1>5, <1>6, <1>7, <1>8 DEF Typed, Booked

\* Every variable keeps its type: a row written from what a request or a
\* delivery holds is a record, an entry or an email, whatever calls fail and
\* wherever handlers are dropped.
THEOREM TypeCorrect == Spec => []TypeOK
<1>1. Typed /\ seen \in [Tasks -> Seen] => TypeOK
  BY TypeOKParts DEF Typed
<1>2. Typed /\ seen \in [Tasks -> Seen] /\ [Next]_vars => (Typed /\ seen \in [Tasks -> Seen])'
  BY NextTyped, SeenTyped
<1> QED BY InitTyped, <1>1, <1>2, PTL DEF Spec

----------------------------------------------------------------------------
(* Events: the webhook's claim, its release and the acknowledgement *)

\* A delivery that has claimed its event and is not done with it.
Holds(d) == pc[d] \in {"readRecord", "putRecord", "release"}

\* At most one delivery of an event is at work; the event is claimed while it
\* is, and stays so once it was applied by a write that reported success.
ClaimInv ==
  /\ \A c, d \in Deliveries : c[1] = d[1] /\ Holds(c) /\ Holds(d) => c = d
  /\ \A d \in Deliveries : Holds(d) => d[1] \in claimed
  /\ \A e \in Events \ unsure : applied[e] # 0 =>
       /\ applied[e] = 1 /\ e \in claimed
       /\ \A d \in Deliveries : d[1] = e => ~Holds(d)

\* UnappliedIsRetried, of deliveries.
RetryInv ==
  \A e \in Events \ hit : applied[e] = 0 =>
    /\ e \notin acked
    /\ e \in claimed => \E d \in Deliveries : d[1] = e /\ Holds(d)

EventInv == ClaimInv /\ RetryInv

LEMMA InitEvents == Init => EventInv
  BY DEF Init, EventInv, ClaimInv, RetryInv, Holds

\* What does not touch the books of the events and lets no delivery begin or
\* end its work keeps the invariant.
LEMMA EventsUntouched ==
  ASSUME EventInv, UNCHANGED <<claimed, acked, applied, unsure, hit>>,
         \A d \in Deliveries : Holds(d)' <=> Holds(d)
  PROVE  EventInv'
  BY DEF EventInv, ClaimInv, RetryInv

LEMMA RequestsSpareEvents ==
  ASSUME Typed, EventInv, NEW t \in Tasks, Request(t) \/ FailRequest(t)
  PROVE  EventInv'
<1>1. UNCHANGED <<claimed, acked, applied, unsure, hit>>
  BY DEF Request, FailRequest, Arrive, Call, GetRecord, GetOverride, GetGrant, PutOverride,
         Decide, Allow, Refuse, GetInterest, MarkInterest, FindAccount, PutGrant, DelGrant,
         ClearOverride, GetRecordToPay, CreateCustomer, PutCustomer, OpenSession,
         rows, stripe, history
<1>2. PICK to : pc' = [pc EXCEPT ![t] = to]
  BY DEF Request, FailRequest, Arrive, Call, GetRecord, GetOverride, GetGrant, PutOverride,
         Decide, Allow, Refuse, GetInterest, MarkInterest, FindAccount, PutGrant, DelGrant,
         ClearOverride, GetRecordToPay, CreateCustomer, PutCustomer, OpenSession, Go, Goto
<1>3. \A d \in Deliveries : pc'[d] = pc[d]
  BY <1>2, ProcessAssumption DEF Typed, Booked
<1> QED BY <1>1, <1>3, EventsUntouched DEF Holds

LEMMA OthersSpareEvents ==
  ASSUME Typed, EventInv, \/ \E e \in Events : Send(e)
                          \/ \E d \in Deliveries : Deliver(d)
                          \/ Expire \/ UNCHANGED vars
  PROVE  EventInv'
<1>1. UNCHANGED <<claimed, acked, applied, unsure, hit>>
  BY DEF Send, Deliver, Expire, vars, rows, stripe, history
<1>2. \A d \in Deliveries : Holds(d)' <=> Holds(d)
  BY DEF Send, Deliver, Goto, Expire, vars, Holds, Typed, Booked
<1> QED BY <1>1, <1>2, EventsUntouched

\* Delivery d goes to another place.
LEMMA DeliveryGoes ==
  ASSUME Typed, NEW d \in Deliveries, NEW to, pc' = [pc EXCEPT ![d] = to]
  PROVE  /\ Holds(d)' <=> to \in {"readRecord", "putRecord", "release"}
         /\ \A c \in Deliveries \ {d} : Holds(c)' <=> Holds(c)
  BY DEF Typed, Booked, Holds

LEMMA DeliveryEnds ==
  ASSUME Typed, NEW d \in Deliveries, pc' = [pc EXCEPT ![d] = "idle"]
  PROVE  /\ ~Holds(d)'
         /\ \A c \in Deliveries \ {d} : Holds(c)' <=> Holds(c)
  BY DEF Typed, Booked, Holds

LEMMA ClaimEvents ==
  ASSUME Typed, EventInv, NEW d \in Deliveries, Claim(d) PROVE EventInv'
<1> DEFINE e == d[1]
<1>1. e \in Events /\ ~Holds(d) /\ UNCHANGED <<applied, unsure>>
  BY DeliveryIsOfEvent DEF Claim, Holds
<1>2. CASE /\ MayClaim(e) /\ Goto(d, "claim", "readRecord")
           /\ claimed' = claimed \cup {e} /\ UNCHANGED <<acked, hit>>
  <2>1. Holds(d)' /\ \A c \in Deliveries \ {d} : Holds(c)' <=> Holds(c)
    BY <1>2, DeliveryGoes DEF Goto
  <2>2. \A c \in Deliveries : Holds(c) => c[1] # e
    BY <1>2 DEF EventInv, ClaimInv, MayClaim
  <2>3. e \notin unsure => applied[e] = 0
    BY <1>1, <1>2 DEF EventInv, ClaimInv, MayClaim
  <2>4. ClaimInv'
    BY <1>1, <1>2, <2>1, <2>2, <2>3 DEF EventInv, ClaimInv
  <2>5. RetryInv'
    BY <1>1, <1>2, <2>1 DEF EventInv, RetryInv
  <2> QED BY <2>4, <2>5 DEF EventInv
<1>3. CASE /\ ~MayClaim(e) /\ Goto(d, "claim", "idle")
           /\ acked' = acked \cup {e}
           /\ hit' = IF applied[e] = 0 THEN hit \cup {e} ELSE hit
           /\ UNCHANGED claimed
  <2>1. ~Holds(d)' /\ \A c \in Deliveries \ {d} : Holds(c)' <=> Holds(c)
    BY <1>3, DeliveryEnds DEF Goto
  <2> QED BY <1>1, <1>3, <2>1 DEF EventInv, ClaimInv, RetryInv
<1> QED BY <1>2, <1>3 DEF Claim

\* An event is applied, or set aside, by the only delivery at work on it.
LEMMA AppliesOnce ==
  ASSUME Typed, EventInv, NEW d \in Deliveries, Holds(d), ~Holds(d)',
         \A c \in Deliveries \ {d} : Holds(c)' <=> Holds(c),
         applied' = [applied EXCEPT ![d[1]] = @ + 1], acked' = acked \cup {d[1]},
         UNCHANGED <<claimed, unsure, hit>>
  PROVE  EventInv'
<1> DEFINE e == d[1]
<1>1. e \in Events /\ e \in claimed /\ applied \in [Events -> Nat]
  BY DeliveryIsOfEvent DEF EventInv, ClaimInv, Typed, Booked
<1>2. applied'[e] = applied[e] + 1 /\ \A f \in Events \ {e} : applied'[f] = applied[f]
  BY <1>1
<1>3. e \notin unsure => applied[e] = 0
  BY <1>1 DEF EventInv, ClaimInv
<1>4. \A c \in Deliveries : c[1] = e => ~Holds(c)'
  BY DEF EventInv, ClaimInv
<1>5. ClaimInv'
  <2>1. \A b, c \in Deliveries : b[1] = c[1] /\ Holds(b)' /\ Holds(c)' => b = c
    BY DEF EventInv, ClaimInv
  <2>2. \A c \in Deliveries : Holds(c)' => c[1] \in claimed'
    BY DEF EventInv, ClaimInv
  <2>3. ASSUME NEW f \in Events \ unsure, applied'[f] # 0
        PROVE  applied'[f] = 1 /\ f \in claimed' /\ \A c \in Deliveries : c[1] = f => ~Holds(c)'
    <3>1. CASE f = e
      BY <1>1, <1>2, <1>3, <1>4, <2>3, <3>1
    <3>2. CASE f # e
      BY <1>2, <2>3, <3>2 DEF EventInv, ClaimInv
    <3> QED BY <3>1, <3>2
  <2> QED BY <2>1, <2>2, <2>3 DEF ClaimInv
<1>6. RetryInv'
  <2>1. ASSUME NEW f \in Events \ hit, applied'[f] = 0
        PROVE  /\ f \notin acked'
               /\ f \in claimed' => \E c \in Deliveries : c[1] = f /\ Holds(c)'
    <3>1. f # e
      BY <1>1, <1>2, <2>1
    <3> QED BY <1>2, <2>1, <3>1 DEF EventInv, RetryInv
  <2> QED BY <2>1 DEF RetryInv
<1> QED BY <1>5, <1>6 DEF EventInv

LEMMA ReadRecordEvents ==
  ASSUME Typed, EventInv, NEW d \in Deliveries, ReadRecord(d) PROVE EventInv'
<1>1. Holds(d) /\ UNCHANGED <<claimed, unsure, hit>>
  BY DEF ReadRecord, Holds, rows
<1>2. CASE Goto(d, "readRecord", "putRecord") /\ UNCHANGED <<acked, applied>>
  <2>1. \A c \in Deliveries : Holds(c)' <=> Holds(c)
    BY <1>1, <1>2, DeliveryGoes DEF Goto
  <2> QED BY <1>1, <1>2, <2>1, EventsUntouched
<1>3. CASE /\ Goto(d, "readRecord", "idle") /\ acked' = acked \cup {d[1]}
           /\ applied' = [applied EXCEPT ![d[1]] = @ + 1]
  <2>1. ~Holds(d)' /\ \A c \in Deliveries \ {d} : Holds(c)' <=> Holds(c)
    BY <1>3, DeliveryEnds DEF Goto
  <2> QED BY <1>1, <1>3, <2>1, AppliesOnce
<1> QED BY <1>2, <1>3 DEF ReadRecord

LEMMA PutRecordEvents ==
  ASSUME Typed, EventInv, NEW d \in Deliveries, PutRecord(d) PROVE EventInv'
<1>1. /\ Holds(d) /\ UNCHANGED <<claimed, unsure, hit>>
      /\ applied' = [applied EXCEPT ![d[1]] = @ + 1] /\ acked' = acked \cup {d[1]}
  BY DEF PutRecord, Goto, Holds
<1>2. ~Holds(d)' /\ \A c \in Deliveries \ {d} : Holds(c)' <=> Holds(c)
  BY DeliveryEnds DEF PutRecord, Goto
<1> QED BY <1>1, <1>2, AppliesOnce

LEMMA ReleaseEvents ==
  ASSUME Typed, EventInv, NEW d \in Deliveries, Release(d) PROVE EventInv'
<1> DEFINE e == d[1]
<1>1. /\ e \in Events /\ Holds(d) /\ claimed' = claimed \ {e}
      /\ hit' = (IF e \in acked THEN hit \cup {e} ELSE hit)
      /\ UNCHANGED <<acked, applied, unsure>>
  BY DeliveryIsOfEvent DEF Release, Goto, Holds, Unclaimed, stripe
<1>2. ~Holds(d)' /\ \A c \in Deliveries \ {d} : Holds(c)' <=> Holds(c)
  BY DeliveryEnds DEF Release, Goto
<1>3. ClaimInv'
  BY <1>1, <1>2 DEF EventInv, ClaimInv
<1>4. RetryInv'
  BY <1>1, <1>2 DEF EventInv, RetryInv
<1> QED BY <1>3, <1>4 DEF EventInv

\* A write that reports a failure may have been done: its event is unsure.
LEMMA FailDeliveryEvents ==
  ASSUME Typed, EventInv, NEW d \in Deliveries, FailDelivery(d) PROVE EventInv'
<1> DEFINE e == d[1]
<1>1. e \in Events /\ UNCHANGED acked /\ applied \in [Events -> Nat]
  BY DeliveryIsOfEvent DEF FailDelivery, stripe, Typed, Booked
<1>2. CASE /\ Goto(d, "claim", "idle") /\ UNCHANGED <<claimed, applied, unsure, hit>>
  <2>1. \A c \in Deliveries : Holds(c)' <=> Holds(c)
    BY <1>2, DeliveryGoes DEF Goto, Holds
  <2> QED BY <1>1, <1>2, <2>1, EventsUntouched
<1>3. CASE /\ Goto(d, "claim", "idle") /\ claimed' = claimed \cup {e} /\ hit' = hit \cup {e}
           /\ UNCHANGED <<applied, unsure>>
  <2>1. \A c \in Deliveries : Holds(c)' <=> Holds(c)
    BY <1>3, DeliveryGoes DEF Goto, Holds
  <2> QED BY <1>1, <1>3, <2>1 DEF EventInv, ClaimInv, RetryInv
<1>4. CASE /\ Goto(d, "readRecord", "release") \/ Goto(d, "putRecord", "release")
           /\ UNCHANGED <<claimed, applied, unsure, hit>>
  <2>1. \A c \in Deliveries : Holds(c)' <=> Holds(c)
    BY <1>4, DeliveryGoes DEF Goto, Holds
  <2> QED BY <1>1, <1>4, <2>1, EventsUntouched
<1>5. CASE /\ Goto(d, "putRecord", "release") /\ applied' = [applied EXCEPT ![e] = @ + 1]
           /\ unsure' = unsure \cup {e} /\ UNCHANGED <<claimed, hit>>
  <2>1. \A c \in Deliveries : Holds(c)' <=> Holds(c)
    BY <1>5, DeliveryGoes DEF Goto, Holds
  <2>2. applied'[e] = applied[e] + 1 /\ \A f \in Events \ {e} : applied'[f] = applied[f]
    BY <1>1, <1>5
  <2>3. applied'[e] # 0
    BY <1>1, <2>2
  <2>4. ClaimInv'
    BY <1>1, <1>5, <2>1, <2>2 DEF EventInv, ClaimInv
  <2>5. RetryInv'
    BY <1>1, <1>5, <2>1, <2>2, <2>3 DEF EventInv, RetryInv
  <2> QED BY <2>4, <2>5 DEF EventInv
<1>6. CASE /\ Goto(d, "release", "idle") /\ hit' = hit \cup {e}
           /\ UNCHANGED <<claimed, applied, unsure>>
  <2>1. ~Holds(d)' /\ \A c \in Deliveries \ {d} : Holds(c)' <=> Holds(c)
    BY <1>6, DeliveryEnds DEF Goto
  <2> QED BY <1>1, <1>6, <2>1 DEF EventInv, ClaimInv, RetryInv
<1> QED BY <1>2, <1>3, <1>4, <1>5, <1>6 DEF FailDelivery

LEMMA DropDeliveryEvents ==
  ASSUME Typed, EventInv, NEW d \in Deliveries, DropDelivery(d) PROVE EventInv'
<1> DEFINE e == d[1]
<1>1. e \in Events /\ hit' = hit \cup {e} /\ UNCHANGED <<claimed, acked, applied, unsure>>
  BY DeliveryIsOfEvent DEF DropDelivery, rows, stripe
<1>2. ~Holds(d)' /\ \A c \in Deliveries \ {d} : Holds(c)' <=> Holds(c)
  BY DeliveryEnds DEF DropDelivery, Goto
<1> QED BY <1>1, <1>2 DEF EventInv, ClaimInv, RetryInv

LEMMA NextEvents == ASSUME Typed, EventInv, [Next]_vars PROVE EventInv'
<1>1. ASSUME NEW d \in Deliveries, Handle(d) \/ FailDelivery(d) \/ DropDelivery(d)
      PROVE  EventInv'
  BY <1>1, ClaimEvents, ReadRecordEvents, PutRecordEvents, ReleaseEvents,
     FailDeliveryEvents, DropDeliveryEvents DEF Handle
<1> QED BY <1>1, RequestsSpareEvents, OthersSpareEvents DEF Next

LEMMA EventsAlways == Spec => [](Typed /\ EventInv)
<1>1. Typed /\ EventInv /\ [Next]_vars => (Typed /\ EventInv)'
  BY NextTyped, NextEvents
<1> QED BY InitTyped, InitEvents, <1>1, PTL DEF Spec

\* An event is applied at most once, however many copies of it Stripe delivers
\* at once or later and wherever their handlers fail, unless a write that
\* applied it reported a failure.
THEOREM EventsAppliedOnce == Spec => []AppliedAtMostOnce
<1>1. Typed /\ EventInv => AppliedAtMostOnce
  <2> SUFFICES ASSUME Typed, EventInv, NEW e \in Events \ unsure PROVE applied[e] <= 1
    BY DEF AppliedAtMostOnce
  <2>1. applied[e] \in Nat /\ (applied[e] # 0 => applied[e] = 1)
    BY DEF Typed, Booked, EventInv, ClaimInv
  <2> QED BY <2>1
<1> QED BY EventsAlways, <1>1, PTL

\* An event that was not applied is neither acknowledged nor claimed for good,
\* so that Stripe's next delivery of it is processed.
THEOREM EventsNotLost == Spec => []UnappliedIsRetried
<1>1. EventInv => UnappliedIsRetried
  <2> SUFFICES ASSUME EventInv, NEW e \in Events \ hit, applied[e] = 0
               PROVE  /\ e \notin acked
                      /\ e \in claimed => \E k \in Copies :
                           pc[<<e, k>>] \in {"readRecord", "putRecord", "release"}
    BY DEF UnappliedIsRetried
  <2>1. e \notin acked
    BY DEF EventInv, RetryInv
  <2>2. ASSUME e \in claimed
        PROVE  \E k \in Copies : pc[<<e, k>>] \in {"readRecord", "putRecord", "release"}
    <3>1. PICK d \in Deliveries : d[1] = e /\ Holds(d)
      BY <2>2 DEF EventInv, RetryInv
    <3>2. d = <<e, d[2]>> /\ d[2] \in Copies
      BY <3>1 DEF Deliveries
    <3> QED BY <3>1, <3>2 DEF Holds
  <2> QED BY <2>1, <2>2
<1> QED BY EventsAlways, <1>1, PTL

----------------------------------------------------------------------------
(* Stripe customers *)

\* Wherever a customer is kept it was made for the account it is kept for.
CustomerInv ==
  /\ \A a \in Accounts : record[a] # None =>
       record[a].customer \in Customers /\ customerOf[record[a].customer] = a
  /\ \A t \in Tasks :
       /\ pc[t] = "putCustomer" => customerOf[job[t].record.customer] = job[t].account
       /\ pc[t] = "session" => customerOf[job[t].record.customer] # None
  /\ \A c \in sessions : customerOf[c] # None
  /\ \A e \in Events : event[e] # None =>
       /\ customerOf[event[e].customer] # None
       /\ event[e].account \in {None, customerOf[event[e].customer]}
  /\ \A d \in Deliveries : pc[d] = "putRecord" => into[d] = customerOf[event[d[1]].customer]

LEMMA InitCustomers == Init => CustomerInv
<1> SUFFICES ASSUME Init PROVE CustomerInv
  OBVIOUS
<1>1. \A a \in Accounts : record[a] # None =>
        record[a].customer \in Customers /\ customerOf[record[a].customer] = a
  <2>1. \A a \in Accounts : record[a] # None =>
          record[a].customer # None /\ customerOf[record[a].customer] = a
    BY DEF Init
  <2>2. record \in [Accounts -> Record \cup {None}]
    BY DEF Init
  <2> QED BY <2>1, <2>2 DEF Record
<1>2. \A c \in sessions : customerOf[c] # None
  BY DEF Init
<1>3. \A p \in Tasks \cup Deliveries : pc[p] = "idle"
  BY DEF Init
<1>4. \A e \in Events : event[e] = None
  BY DEF Init
<1> QED BY <1>1, <1>2, <1>3, <1>4 DEF CustomerInv

\* A step that writes no record, sends no event, opens no session and lets no
\* process reach a point where it holds a customer.
LEMMA CustomersKept ==
  ASSUME CustomerInv, UNCHANGED <<record, customerOf, sessions, event>>,
         \A t \in Tasks : pc'[t] \in {"putCustomer", "session"} =>
           pc[t] = pc'[t] /\ job'[t] = job[t],
         \A d \in Deliveries : pc'[d] = "putRecord" =>
           pc[d] = "putRecord" /\ into'[d] = into[d]
  PROVE  CustomerInv'
  BY DEF CustomerInv

\* Request t goes elsewhere: the other processes stay.
LEMMA RequestGoes ==
  ASSUME Typed, NEW t \in Tasks, NEW from, NEW to, NEW j, Go(t, from, to, j)
  PROVE  /\ pc[t] = from /\ pc'[t] = to
         /\ to # "idle" => job'[t] = j
         /\ \A s \in Tasks \ {t} : pc'[s] = pc[s] /\ job'[s] = job[s]
         /\ \A d \in Deliveries : pc'[d] = pc[d]
<1>1. pc[t] = from /\ pc' = [pc EXCEPT ![t] = to]
      /\ job' = [job EXCEPT ![t] = IF to = "idle" THEN NoJob ELSE j]
  BY DEF Go, Goto
<1> QED BY <1>1, ProcessAssumption DEF Typed, Booked

\* Request t leaves for a point where it holds no customer.
QuietRequest(t) ==
  /\ pc'[t] \notin {"putCustomer", "session"}
  /\ \A s \in Tasks \ {t} : pc'[s] = pc[s] /\ job'[s] = job[s]
  /\ \A d \in Deliveries : pc'[d] = pc[d]

LEMMA RequestGoesQuietly ==
  ASSUME Typed, NEW t \in Tasks, NEW from, NEW to, NEW j, Go(t, from, to, j),
         to \notin {"putCustomer", "session"}
  PROVE  QuietRequest(t)
BY RequestGoes DEF QuietRequest

LEMMA QuietRequestCustomers ==
  ASSUME Typed, CustomerInv, NEW t \in Tasks,
         \/ Arrive(t) \/ GetRecord(t) \/ GetOverride(t) \/ GetGrant(t) \/ PutOverride(t)
         \/ Decide(t) \/ Allow(t) \/ Refuse(t) \/ GetInterest(t) \/ MarkInterest(t)
         \/ FindAccount(t) \/ PutGrant(t) \/ DelGrant(t) \/ ClearOverride(t) \/ FailRequest(t)
  PROVE  CustomerInv'
<1>1. UNCHANGED <<record, customerOf, sessions, event, into>>
  BY DEF Arrive, Call, GetRecord, GetOverride, GetGrant, PutOverride, Decide, Allow, Refuse,
         GetInterest, MarkInterest, FindAccount, PutGrant, DelGrant, ClearOverride,
         FailRequest, rows, stripe
<1>2. QuietRequest(t)
  <2>1. CASE Arrive(t)
    <3>1. PICK op, u, a, x : op \in Access \cup {"checkout"} /\ Call(t, op, u, a, x)
      BY <2>1 DEF Arrive, Access
    <3> DEFINE to == CASE op \in {"status", "check", "checkout"} -> "getRecord"
                       [] op \in {"grant", "revoke"} -> "findAccount"
                       [] op = "setPlan" -> "putOverride"
                       [] op = "clearPlan" -> "clearOverride"
    <3>2. Go(t, "idle", to,
             [op |-> op, user |-> u, account |-> a, entry |-> x, record |-> None])
      BY <3>1 DEF Call
    <3>3. to \notin {"putCustomer", "session"}
      BY <3>1 DEF Access
    <3> HIDE DEF to
    <3> QED BY <3>2, <3>3, RequestGoesQuietly
  <2>2. CASE GetRecord(t)
    BY <2>2, RequestGoesQuietly DEF GetRecord
  <2>3. CASE GetOverride(t)
    <3>1. PICK to, j : Go(t, "getOverride", to, j) /\ to \in {"getGrant", "usage"}
      BY <2>3 DEF GetOverride
    <3> QED BY <3>1, RequestGoesQuietly
  <2>4. CASE GetGrant(t)
    <3>1. PICK to, j : Go(t, "getGrant", to, j) /\ to \in {"putOverride", "usage"}
      BY <2>4 DEF GetGrant
    <3> QED BY <3>1, RequestGoesQuietly
  <2>5. CASE PutOverride(t)
    <3> DEFINE to == IF job[t].op \in {"status", "check"} THEN "usage" ELSE "idle"
    <3>1. Go(t, "putOverride", to, job[t]) /\ to \notin {"putCustomer", "session"}
      BY <2>5 DEF PutOverride
    <3> QED BY <3>1, RequestGoesQuietly
  <2>15. CASE Decide(t)
    <3>1. PICK to : Go(t, "usage", to, job[t]) /\ to \in {"allow", "refuse"}
      BY <2>15 DEF Decide
    <3> QED BY <3>1, RequestGoesQuietly
  <2>6. CASE Allow(t)
    BY <2>6, RequestGoesQuietly DEF Allow
  <2>7. CASE Refuse(t)
    <3> DEFINE to == IF job[t].op = "status" THEN "getInterest" ELSE "idle"
    <3>1. Go(t, "refuse", to, job[t]) /\ to \notin {"putCustomer", "session"}
      BY <2>7 DEF Refuse
    <3> QED BY <3>1, RequestGoesQuietly
  <2>8. CASE GetInterest(t)
    <3> DEFINE to == IF interest[job[t].account] = None THEN "markInterest" ELSE "idle"
    <3>1. Go(t, "getInterest", to, job[t]) /\ to \notin {"putCustomer", "session"}
      BY <2>8 DEF GetInterest
    <3> QED BY <3>1, RequestGoesQuietly
  <2>9. CASE MarkInterest(t)
    BY <2>9, RequestGoesQuietly DEF MarkInterest
  <2>10. CASE FindAccount(t)
    <3> DEFINE to == IF job[t].op = "grant" THEN "putGrant" ELSE "delGrant"
    <3>1. PICK a \in {home[job[t].user], None} :
            Go(t, "findAccount", to,
               [op |-> job[t].op, user |-> job[t].user, account |-> a, entry |-> job[t].entry,
                record |-> None])
      BY <2>10 DEF FindAccount
    <3>2. to \notin {"putCustomer", "session"}
      OBVIOUS
    <3> HIDE DEF to
    <3> QED BY <3>1, <3>2, RequestGoesQuietly
  <2>11. CASE PutGrant(t)
    <3> DEFINE to == IF job[t].account = None THEN "idle" ELSE "putOverride"
    <3>1. Go(t, "putGrant", to, job[t]) /\ to \notin {"putCustomer", "session"}
      BY <2>11 DEF PutGrant
    <3> QED BY <3>1, RequestGoesQuietly
  <2>12. CASE DelGrant(t)
    <3> DEFINE to == IF job[t].account = None THEN "idle" ELSE "clearOverride"
    <3>1. Go(t, "delGrant", to, job[t]) /\ to \notin {"putCustomer", "session"}
      BY <2>12 DEF DelGrant
    <3> QED BY <3>1, RequestGoesQuietly
  <2>13. CASE ClearOverride(t)
    BY <2>13, RequestGoesQuietly DEF ClearOverride
  <2>14. CASE FailRequest(t)
    BY <2>14, RequestGoesQuietly DEF FailRequest
  <2> QED BY <2>1, <2>2, <2>3, <2>4, <2>5, <2>6, <2>7, <2>8, <2>9, <2>10, <2>11, <2>12,
             <2>13, <2>14, <2>15
<1> QED BY <1>1, <1>2, CustomersKept DEF QuietRequest

\* create_checkout: a customer is made once, for the account of the request.
LEMMA CheckoutCustomers ==
  ASSUME Typed, CustomerInv, NEW t \in Tasks,
         GetRecordToPay(t) \/ CreateCustomer(t) \/ PutCustomer(t) \/ OpenSession(t)
  PROVE  CustomerInv'
<1> DEFINE k == job[t]
<1>1. k \in Job /\ JobShape(pc[t], k)
  BY HasShape
<1>2. pc[t] \in {"getRecord", "createCustomer", "putCustomer", "session"}
  BY DEF GetRecordToPay, CreateCustomer, PutCustomer, OpenSession, Go, Goto
<1>3. k.account \in Accounts
  BY <1>1, <1>2 DEF JobShape
<1>4. CASE GetRecordToPay(t)
  <2> DEFINE r == IF record[k.account] = None THEN Free ELSE record[k.account]
             to == IF r.customer = None THEN "createCustomer" ELSE "session"
             j == [op |-> k.op, user |-> k.user, account |-> k.account, entry |-> None, record |-> r]
  <2>1. Go(t, "getRecord", to, j) /\ UNCHANGED <<record, customerOf, sessions, event, into>>
    BY <1>4 DEF GetRecordToPay, rows, stripe
  <2>2. to = "session" => customerOf[r.customer] # None
    BY <1>3, NoneAssumption DEF CustomerInv, Free
  <2>3. j.record = r /\ to \in {"createCustomer", "session"}
    OBVIOUS
  <2> HIDE DEF r, to, j
  <2>4. /\ pc'[t] = to /\ job'[t] = j
        /\ \A s \in Tasks \ {t} : pc'[s] = pc[s] /\ job'[s] = job[s]
        /\ \A d \in Deliveries : pc'[d] = pc[d]
    BY <2>1, <2>3, RequestGoes
  <2> QED BY <2>1, <2>2, <2>3, <2>4 DEF CustomerInv
<1>5. CASE CreateCustomer(t)
  <2>1. PICK c \in Customers :
          /\ customerOf[c] = None /\ customerOf' = [customerOf EXCEPT ![c] = k.account]
          /\ Go(t, "createCustomer", "putCustomer",
                [op |-> k.op, user |-> k.user, account |-> k.account, entry |-> None,
                 record |-> [customer |-> c, plan |-> k.record.plan, status |-> k.record.status]])
    BY <1>5 DEF CreateCustomer
  <2> DEFINE j == [op |-> k.op, user |-> k.user, account |-> k.account, entry |-> None,
                   record |-> [customer |-> c, plan |-> k.record.plan, status |-> k.record.status]]
  <2>2. j.record.customer = c /\ j.account = k.account
    OBVIOUS
  <2> HIDE DEF j
  <2>3. /\ pc'[t] = "putCustomer" /\ job'[t] = j
        /\ \A s \in Tasks \ {t} : pc'[s] = pc[s] /\ job'[s] = job[s]
        /\ \A d \in Deliveries : pc'[d] = pc[d]
    BY <2>1, RequestGoes DEF j
  <2>4. UNCHANGED <<record, sessions, event, into>>
    BY <1>5 DEF CreateCustomer, rows
  <2>5. /\ customerOf'[c] = k.account
        /\ \A b \in Customers \ {c} : customerOf'[b] = customerOf[b]
    BY <2>1 DEF Typed, Booked
  <2>6. \A b \in Customers : customerOf[b] # None => customerOf'[b] = customerOf[b]
    BY <2>1, <2>5
  <2>7. \A a \in Accounts : record'[a] # None =>
          record'[a].customer \in Customers /\ customerOf'[record'[a].customer] = a
    BY <2>4, <2>6, NoneAssumption DEF CustomerInv
  <2>8. ASSUME NEW s \in Tasks
        PROVE  /\ pc'[s] = "putCustomer" => customerOf'[job'[s].record.customer] = job'[s].account
               /\ pc'[s] = "session" => customerOf'[job'[s].record.customer] # None
    <3>1. CASE s = t
      BY <2>2, <2>3, <2>5, <3>1
    <3>2. CASE s # t
      <4>1. pc'[s] = pc[s] /\ job'[s] = job[s]
        BY <2>3, <3>2
      <4>2. pc[s] \in {"putCustomer", "session"} =>
              job[s].record.customer \in Customers /\ job[s].account \in Accounts
        BY HasShape DEF JobShape
      <4>3. pc[s] = "putCustomer" => customerOf[job[s].record.customer] # None
        BY <4>2, NoneAssumption DEF CustomerInv
      <4> QED BY <2>6, <4>1, <4>2, <4>3 DEF CustomerInv
    <3> QED BY <3>1, <3>2
  <2>9. \A b \in sessions' : customerOf'[b] # None
    BY <2>4, <2>6 DEF CustomerInv, Typed, Booked
  <2>10. ASSUME NEW e \in Events, event'[e] # None
         PROVE  /\ customerOf'[event'[e].customer] # None
                /\ event'[e].account \in {None, customerOf'[event'[e].customer]}
    <3>1. event[e] \in Event
      BY <2>4, <2>10 DEF Typed, Booked
    <3>2. event[e].customer \in Customers
      BY <3>1 DEF Event
    <3> QED BY <2>4, <2>6, <2>10, <3>2 DEF CustomerInv
  <2>11. ASSUME NEW d \in Deliveries, pc'[d] = "putRecord"
         PROVE  into'[d] = customerOf'[event'[d[1]].customer]
    <3>1. pc[d] = "putRecord"
      BY <2>3, <2>11
    <3>2. into[d] \in Accounts /\ event[d[1]].customer \in Customers
      BY <3>1 DEF Typed, Shape, DeliveryShape, Event
    <3> QED BY <2>4, <2>6, <3>1, <3>2, NoneAssumption DEF CustomerInv
  <2> QED BY <2>7, <2>8, <2>9, <2>10, <2>11 DEF CustomerInv
<1>6. CASE PutCustomer(t)
  <2>1. /\ pc[t] = "putCustomer" /\ pc'[t] = "session" /\ job'[t] = k
        /\ \A s \in Tasks \ {t} : pc'[s] = pc[s] /\ job'[s] = job[s]
        /\ \A d \in Deliveries : pc'[d] = pc[d]
    <3>1. Go(t, "putCustomer", "session", k)
      BY <1>6 DEF PutCustomer
    <3> QED BY <3>1, RequestGoes
  <2>2. /\ record' = [record EXCEPT ![k.account] = k.record]
        /\ UNCHANGED <<customerOf, sessions, event, into>>
    BY <1>6 DEF PutCustomer, stripe
  <2>3. k.record.customer \in Customers /\ customerOf[k.record.customer] = k.account
    BY <1>1, <2>1 DEF JobShape, CustomerInv
  <2>4. \A a \in Accounts : record'[a] # None =>
          record'[a].customer \in Customers /\ customerOf[record'[a].customer] = a
    BY <2>2, <2>3 DEF CustomerInv, Typed, Booked
  <2>5. customerOf[k.record.customer] # None
    BY <1>3, <2>3, NoneAssumption
  <2> QED BY <2>1, <2>2, <2>4, <2>5 DEF CustomerInv
<1>7. CASE OpenSession(t)
  <2>1. /\ pc[t] = "session" /\ pc'[t] = "idle"
        /\ \A s \in Tasks \ {t} : pc'[s] = pc[s] /\ job'[s] = job[s]
        /\ \A d \in Deliveries : pc'[d] = pc[d]
    <3>1. Go(t, "session", "idle", k)
      BY <1>7 DEF OpenSession
    <3> QED BY <3>1, RequestGoes
  <2>2. /\ sessions' = sessions \cup {k.record.customer}
        /\ UNCHANGED <<record, customerOf, event, into>>
    BY <1>7 DEF OpenSession, rows
  <2> QED BY <2>1, <2>2 DEF CustomerInv
<1> QED BY <1>4, <1>5, <1>6, <1>7

LEMMA SendCustomers == ASSUME Typed, CustomerInv, NEW e \in Events, Send(e) PROVE CustomerInv'
<1>1. PICK c \in sessions, a \in Accounts \cup {None}, k \in Kinds, p \in Payloads,
           plan \in Priced \cup {None} :
        /\ a \in {customerOf[c], None}
        /\ k = "checkout" => a # None /\ p \in {"paid", "unpaid"}
        /\ k = "subscription" => p \notin {"paid", "unpaid"}
        /\ k = "deleted" => p = "canceled"
        /\ event' = [event EXCEPT ![e] =
             [kind |-> k, customer |-> c, account |-> a, payload |-> p, plan |-> plan]]
  BY Zenon DEF Send
<1> DEFINE v == [kind |-> k, customer |-> c, account |-> a, payload |-> p, plan |-> plan]
<1>2. v.customer = c /\ v.account = a
  OBVIOUS
<1> HIDE DEF v
<1>3. event'[e] = v /\ \A f \in Events \ {e} : event'[f] = event[f]
  BY <1>1 DEF v, Typed, Booked
<1>4. event[e] = None /\ UNCHANGED <<record, customerOf, sessions, pc, job, into>>
  BY DEF Send, rows
<1>5. ASSUME NEW d \in Deliveries, pc[d] = "putRecord"
      PROVE  event'[d[1]] = event[d[1]]
  <2>1. event[d[1]] \in Event
    BY <1>5 DEF Typed, Shape, DeliveryShape
  <2>2. d[1] # e
    BY <1>4, <2>1, NoneAssumption
  <2> QED BY <1>3, <2>2, DeliveryIsOfEvent
<1> QED BY <1>1, <1>2, <1>3, <1>4, <1>5 DEF CustomerInv

\* An event is read for the account it names, or the one whose record has its
\* customer, and either is the account the customer was made for.
LEMMA ReadRecordCustomers ==
  ASSUME Typed, CustomerInv, NEW d \in Deliveries, ReadRecord(d) PROVE CustomerInv'
<1>1. /\ pc[d] = "readRecord" /\ UNCHANGED <<record, customerOf, sessions, event, job>>
  BY DEF ReadRecord, rows
<1>2. PICK to \in {"putRecord", "idle"} :
        /\ pc' = [pc EXCEPT ![d] = to]
        /\ to = "putRecord" => \E a \in Accounts :
             Target(event[d[1]], a) /\ into' = [into EXCEPT ![d] = a]
        /\ to = "idle" => into' = into
  BY DEF ReadRecord, Goto
<1>3. \A t \in Tasks : pc'[t] = pc[t]
  BY <1>2, ProcessAssumption DEF Typed, Booked
<1>4. pc'[d] = to /\ \A c \in Deliveries \ {d} : pc'[c] = pc[c] /\ into'[c] = into[c]
  BY <1>2 DEF Typed, Booked
<1>5. ASSUME to = "putRecord" PROVE into'[d] = customerOf[event[d[1]].customer]
  <2>1. PICK a \in Accounts : Target(event[d[1]], a) /\ into' = [into EXCEPT ![d] = a]
    BY <1>2, <1>5
  <2>2. event[d[1]] # None /\ d[1] \in Events
    BY <1>1, NoneAssumption, DeliveryIsOfEvent DEF Typed, Shape, DeliveryShape
  <2>3. a = customerOf[event[d[1]].customer]
    BY <2>1, <2>2 DEF Target, FindByCustomer, CustomerInv
  <2> QED BY <2>1, <2>3 DEF Typed, Booked
<1> QED BY <1>1, <1>3, <1>4, <1>5 DEF CustomerInv

\* The record written has the customer of the event, in its own account.
LEMMA WritesOwnCustomer ==
  ASSUME Typed, CustomerInv, NEW d \in Deliveries, pc[d] = "putRecord",
         record' = [record EXCEPT ![into[d]] = After(base[d], event[d[1]])]
  PROVE  \A a \in Accounts : record'[a] # None =>
           record'[a].customer \in Customers /\ customerOf[record'[a].customer] = a
<1> DEFINE v == event[d[1]]
<1>1. into[d] \in Accounts /\ v \in Event /\ into[d] = customerOf[v.customer]
  BY DEF Typed, Shape, DeliveryShape, CustomerInv
<1>2. After(base[d], v).customer = v.customer
  BY DEF After
<1>3. v.customer \in Customers
  BY <1>1 DEF Event
<1> QED BY <1>1, <1>2, <1>3 DEF CustomerInv, Typed, Booked

LEMMA WritesCustomers ==
  ASSUME Typed, CustomerInv, NEW d \in Deliveries, PutRecord(d) \/ FailDelivery(d)
  PROVE  CustomerInv'
<1>1. UNCHANGED <<customerOf, sessions, event, job>>
  BY DEF PutRecord, FailDelivery, stripe
<1>2. PICK to \in {"idle", "release"} : pc' = [pc EXCEPT ![d] = to]
  BY DEF PutRecord, FailDelivery, Goto
<1>3. \/ record' = record
      \/ pc[d] = "putRecord" /\ record' = [record EXCEPT ![into[d]] = After(base[d], event[d[1]])]
  BY DEF PutRecord, FailDelivery, Goto
<1>4. \A a \in Accounts : record'[a] # None =>
        record'[a].customer \in Customers /\ customerOf[record'[a].customer] = a
  BY <1>3, WritesOwnCustomer DEF CustomerInv
<1>5. \A c \in Deliveries \ {d} : into'[c] = into[c]
  BY DEF PutRecord, FailDelivery, Typed, Booked
<1>6. pc'[d] = to /\ (\A c \in Deliveries \ {d} : pc'[c] = pc[c]) /\ \A t \in Tasks : pc'[t] = pc[t]
  BY <1>2, ProcessAssumption DEF Typed, Booked
<1> QED BY <1>1, <1>4, <1>5, <1>6 DEF CustomerInv

LEMMA QuietDeliveryCustomers ==
  ASSUME Typed, CustomerInv, NEW d \in Deliveries,
         Deliver(d) \/ Claim(d) \/ Release(d) \/ DropDelivery(d)
  PROVE  CustomerInv'
<1>1. UNCHANGED <<record, customerOf, sessions, event, job>>
  BY DEF Deliver, Claim, Release, DropDelivery, rows, stripe
<1>2. PICK to \in {"claim", "readRecord", "idle"} : pc' = [pc EXCEPT ![d] = to]
  BY DEF Deliver, Claim, Release, DropDelivery, Goto
<1>3. \A c \in Deliveries \ {d} : into'[c] = into[c]
  BY DEF Deliver, Claim, Release, DropDelivery, Typed, Booked
<1>4. pc'[d] = to /\ (\A c \in Deliveries \ {d} : pc'[c] = pc[c]) /\ \A t \in Tasks : pc'[t] = pc[t]
  BY <1>2, ProcessAssumption DEF Typed, Booked
<1> QED BY <1>1, <1>3, <1>4, CustomersKept

LEMMA NextCustomers == ASSUME Typed, CustomerInv, [Next]_vars PROVE CustomerInv'
<1>1. ASSUME NEW t \in Tasks, Request(t) \/ FailRequest(t) PROVE CustomerInv'
  BY <1>1, QuietRequestCustomers, CheckoutCustomers DEF Request
<1>2. ASSUME NEW d \in Deliveries, Deliver(d) \/ Handle(d) \/ FailDelivery(d) \/ DropDelivery(d)
      PROVE  CustomerInv'
  BY <1>2, ReadRecordCustomers, WritesCustomers, QuietDeliveryCustomers DEF Handle
<1>3. CASE Expire \/ UNCHANGED vars
  BY <1>3, CustomersKept DEF Expire, vars, rows, stripe
<1> QED BY <1>1, <1>2, <1>3, SendCustomers DEF Next

\* No account's record ever names the Stripe customer of another account,
\* whatever checkouts of an account overlap and however events name it.
THEOREM CustomersAreOwn == Spec => []CustomerIsOwn
<1>1. Typed /\ CustomerInv /\ [Next]_vars => (Typed /\ CustomerInv)'
  BY NextTyped, NextCustomers
<1>2. CustomerInv => CustomerIsOwn
  BY NoneAssumption DEF CustomerInv, CustomerIsOwn
<1> QED BY InitTyped, InitCustomers, <1>1, <1>2, PTL DEF Spec


----------------------------------------------------------------------------
(* Revocations *)

About(j, u, ops) == j.user = u /\ j.op \in ops
Copying == {"status", "check", "grant"}

\* Whose access the locals j of a request at q are about: what it will write
\* to an override bears the user's email, unless an operator sets the plan.
NoteShape(q, j) ==
  /\ q # "idle" /\ j.op \in {"status", "check"} => j.account = home[j.user]
  /\ q # "idle" /\ j.op = "grant" => j.entry.note = j.user
  /\ q = "putOverride" => IF j.op = "setPlan" THEN j.entry.note = None ELSE j.entry.note = j.user
  /\ q \in {"delGrant", "clearOverride"} /\ j.op = "revoke" => j.account \in {home[j.user], None}

NoteInv == \A t \in Tasks : NoteShape(pc[t], job[t])

\* A revocation that no other request of the email meets has seen the grant go
\* when it clears the override, and then nothing is left to bring it back.
RevokeInv ==
  \A u \in Emails \ overlapped :
    /\ \A s, t \in Tasks : ~(About(job[s], u, {"revoke"}) /\ About(job[t], u, Copying))
    /\ \A t \in Tasks : pc[t] = "clearOverride" /\ About(job[t], u, {"revoke"}) => grant[u] = None
    /\ u \in revoked =>
         /\ grant[u] = None /\ (override[home[u]] # None => override[home[u]].note # u)
         /\ \A t \in Tasks : pc[t] = "putOverride" => ~About(job[t], u, Copying)

RevocationInv == NoteInv /\ RevokeInv

LEMMA NoJobIsAboutNobody == \A u \in Emails : \A ops : ~About(NoJob, u, ops)
  BY NoneAssumption DEF NoJob, About

LEMMA InitRevoke == Init => RevocationInv
<1> SUFFICES ASSUME Init PROVE RevocationInv
  OBVIOUS
<1>1. \A t \in Tasks : pc[t] = "idle" /\ job[t] = NoJob
  BY DEF Init
<1>2. NoteInv
  BY <1>1 DEF NoteInv, NoteShape
<1>3. RevokeInv
  BY <1>1, NoJobIsAboutNobody DEF RevokeInv, Init
<1> QED BY <1>2, <1>3 DEF RevocationInv

\* Request t goes to another point with locals that fit there.
LEMMA NoteGoes ==
  ASSUME Typed, NoteInv, NEW t \in Tasks, NEW from, NEW to, NEW j, Go(t, from, to, j),
         home' = home, to # "idle" => NoteShape(to, j)
  PROVE  NoteInv'
<1>1. ASSUME NEW s \in Tasks PROVE NoteShape(pc'[s], job'[s])
  <2>1. CASE s = t /\ to = "idle"
    BY <2>1, RequestGoes DEF NoteShape
  <2>2. CASE s = t /\ to # "idle"
    BY <2>2, RequestGoes
  <2>3. CASE s # t
    BY <2>3, RequestGoes DEF NoteInv
  <2> QED BY <2>1, <2>2, <2>3
<1> QED BY <1>1 DEF NoteInv, NoteShape

\* Request t ends or goes on for the same user: nobody is about anybody new.
LEMMA AboutKept ==
  ASSUME Typed, NEW t \in Tasks, NEW from, NEW to, NEW j, Go(t, from, to, j),
         to # "idle" => j.user = job[t].user /\ j.op = job[t].op,
         NEW u \in Emails, NEW ops, NEW s \in Tasks, About(job'[s], u, ops)
  PROVE  About(job[s], u, ops) /\ pc'[s] = IF s = t THEN to ELSE pc[s]
<1>1. CASE s = t /\ to = "idle"
  <2>1. job'[t] = NoJob
    BY <1>1 DEF Go, Typed, Booked
  <2> QED BY <1>1, <2>1, NoJobIsAboutNobody
<1>2. CASE s = t /\ to # "idle"
  BY <1>2, RequestGoes DEF About
<1>3. CASE s # t
  BY <1>3, RequestGoes
<1> QED BY <1>1, <1>2, <1>3

\* It goes to a point where it writes no override, and touches no book of grants.
LEMMA RevokeQuiet ==
  ASSUME Typed, RevokeInv, NEW t \in Tasks, NEW from, NEW to, NEW j, Go(t, from, to, j),
         UNCHANGED <<home, grant, override, revoked, overlapped>>,
         to # "idle" => /\ j.user = job[t].user /\ j.op = job[t].op
                        /\ to \notin {"clearOverride", "putOverride"}
  PROVE  RevokeInv'
<1>1. ASSUME NEW u \in Emails, NEW ops, NEW s \in Tasks, About(job'[s], u, ops)
      PROVE  About(job[s], u, ops) /\ (pc'[s] \in {"clearOverride", "putOverride"} => pc[s] = pc'[s])
  BY <1>1, AboutKept
<1> QED BY <1>1 DEF RevokeInv

LEMMA CallRevoke ==
  ASSUME Typed, RevocationInv, NEW t \in Tasks, NEW op \in Access \cup {"checkout"},
         NEW u, NEW a, NEW x, Call(t, op, u, a, x),
         op \in {"status", "check"} => u \in Emails /\ a = home[u],
         op = "grant" => x.note = u,
         op = "setPlan" => u = None /\ x.note = None,
         op = "clearPlan" => u = None
  PROVE  RevocationInv'
<1> DEFINE to == CASE op \in {"status", "check", "checkout"} -> "getRecord"
                   [] op \in {"grant", "revoke"} -> "findAccount"
                   [] op = "setPlan" -> "putOverride"
                   [] op = "clearPlan" -> "clearOverride"
           j == [op |-> op, user |-> u, account |-> a, entry |-> x, record |-> None]
<1>1. /\ Go(t, "idle", to, j) /\ UNCHANGED <<home, grant, override>>
      /\ revoked' = IF op = "revoke" THEN revoked \ {u} ELSE revoked
  BY DEF Call, rows
<1>2. /\ op = "setPlan" => to = "putOverride"
      /\ op = "clearPlan" => to = "clearOverride"
      /\ op \in {"status", "check", "checkout"} => to = "getRecord"
      /\ op \in {"grant", "revoke"} => to = "findAccount"
  BY DEF Access
<1>3. j.op = op /\ j.user = u /\ j.account = a /\ j.entry = x
  OBVIOUS
<1> HIDE DEF to, j
<1>4. NoteShape(to, j)
  BY <1>2, <1>3 DEF NoteShape, Access
<1>5. overlapped \ overlapped' \subseteq {u}
      /\ (u \in overlapped \ overlapped' => op = "revoke" /\ AboutGrant(u, {"revoke"}) = {})
  BY DEF Call
<1>6. ASSUME op = "revoke", u \notin overlapped' PROVE AboutGrant(u, Copying) = {}
  BY <1>6 DEF Call, Copying
<1>7. ASSUME op \in Copying, u \notin overlapped' PROVE AboutGrant(u, {"revoke"}) = {}
  BY <1>7 DEF Call, Copying
<1>8. to # "idle"
  BY <1>2 DEF Access
<1>9. pc'[t] = to /\ job'[t] = j /\ \A s \in Tasks \ {t} : pc'[s] = pc[s] /\ job'[s] = job[s]
  BY <1>1, <1>8, RequestGoes
<1>10. NoteInv'
  BY <1>1, <1>4, NoteGoes DEF RevocationInv
<1>11. ASSUME NEW v \in Emails, v \notin overlapped'
      PROVE  /\ \A s, r \in Tasks : ~(About(job'[s], v, {"revoke"}) /\ About(job'[r], v, Copying))
             /\ \A s \in Tasks : pc'[s] = "clearOverride" /\ About(job'[s], v, {"revoke"}) => grant'[v] = None
             /\ v \in revoked' =>
                  /\ grant'[v] = None /\ (override'[home'[v]] # None => override'[home'[v]].note # v)
                  /\ \A s \in Tasks : pc'[s] = "putOverride" => ~About(job'[s], v, Copying)
  <2>1. CASE v \in overlapped
    <3>1. v = u /\ op = "revoke" /\ AboutGrant(v, {"revoke"}) = {} /\ AboutGrant(v, Copying) = {}
      BY <1>5, <1>6, <1>11, <2>1
    <3>2. \A r \in Tasks : ~About(job[r], v, {"revoke"}) /\ ~About(job[r], v, Copying)
      BY <3>1 DEF About, AboutGrant
    <3>3. v \notin revoked' /\ ~About(j, v, Copying) /\ to # "clearOverride"
      BY <1>1, <1>2, <1>3, <3>1 DEF About, Copying
    <3> QED BY <1>9, <3>2, <3>3
  <2>9. CASE v \notin overlapped
    <3>2. About(j, v, {"revoke"}) => \A r \in Tasks : ~About(job[r], v, Copying)
      BY <1>3, <1>6, <1>11 DEF About, AboutGrant
    <3>3. About(j, v, Copying) => \A r \in Tasks : ~About(job[r], v, {"revoke"})
      BY <1>3, <1>7, <1>11 DEF About, AboutGrant
    <3>4. ~(About(j, v, {"revoke"}) /\ About(j, v, Copying))
      BY <1>3 DEF About, Copying
    <3>5. \A s, r \in Tasks : ~(About(job'[s], v, {"revoke"}) /\ About(job'[r], v, Copying))
      BY <1>9, <1>11, <2>9, <3>2, <3>3, <3>4 DEF RevocationInv, RevokeInv
    <3>6. to = "clearOverride" => ~About(j, v, {"revoke"})
      BY <1>2, <1>3 DEF About
    <3>7. to = "putOverride" => ~About(j, v, Copying)
      BY <1>2, <1>3 DEF About, Copying
    <3> QED BY <1>1, <1>9, <1>11, <2>9, <3>5, <3>6, <3>7 DEF RevocationInv, RevokeInv
  <2> QED BY <2>1, <2>9
<1>12. RevokeInv'
  BY <1>11 DEF RevokeInv, About, Copying
<1> QED BY <1>10, <1>12 DEF RevocationInv

LEMMA ArriveRevoke == ASSUME Typed, RevocationInv, NEW t \in Tasks, Arrive(t) PROVE RevocationInv'
<1>1. ASSUME NEW u \in Emails, NEW op \in {"status", "check", "checkout"}, Call(t, op, u, home[u], None)
      PROVE  RevocationInv'
  BY <1>1, CallRevoke DEF Access
<1>2. ASSUME NEW u \in Emails, NEW w \in {"never", "soon"},
             Call(t, "grant", u, None, [until |-> w, note |-> u])
      PROVE  RevocationInv'
  BY <1>2, CallRevoke DEF Access
<1>3. ASSUME NEW u \in Emails, Call(t, "revoke", u, None, None) PROVE RevocationInv'
  BY <1>3, CallRevoke DEF Access
<1>4. ASSUME NEW a \in Accounts, NEW w \in {"never", "soon"},
             Call(t, "setPlan", None, a, [until |-> w, note |-> None])
      PROVE  RevocationInv'
  BY <1>4, CallRevoke DEF Access
<1>5. ASSUME NEW a \in Accounts, Call(t, "clearPlan", None, a, None) PROVE RevocationInv'
  BY <1>5, CallRevoke DEF Access
<1> QED BY <1>1, <1>2, <1>3, <1>4, <1>5 DEF Arrive

\* A request that reads, or that a fault ends.
LEMMA QuietRevoke ==
  ASSUME Typed, RevocationInv, NEW t \in Tasks,
         \/ GetRecord(t) \/ GetOverride(t) \/ Decide(t) \/ Allow(t) \/ Refuse(t) \/ GetInterest(t)
         \/ MarkInterest(t) \/ FindAccount(t) \/ FailRequest(t)
         \/ GetRecordToPay(t) \/ CreateCustomer(t) \/ PutCustomer(t) \/ OpenSession(t)
  PROVE  RevocationInv'
<1> DEFINE k == job[t]
<1>1. UNCHANGED <<home, grant, override, revoked, overlapped>>
  BY DEF GetRecord, GetOverride, Decide, Allow, Refuse, GetInterest, MarkInterest, FindAccount, FailRequest,
         GetRecordToPay, CreateCustomer, PutCustomer, OpenSession, rows, history
<1>2. JobShape(pc[t], k) /\ NoteShape(pc[t], k)
  BY HasShape DEF RevocationInv, NoteInv
<1>3. ASSUME NEW to, to \notin {"clearOverride", "putOverride"}, NEW j, Go(t, pc[t], to, j),
             to # "idle" => j.user = k.user /\ j.op = k.op /\ NoteShape(to, j)
      PROVE  RevocationInv'
  BY <1>1, <1>3, NoteGoes, RevokeQuiet DEF RevocationInv
<1>4. ASSUME NEW to \in {"getGrant", "allow", "refuse", "getInterest", "markInterest", "session", "idle"},
             pc[t] # "idle"
      PROVE  NoteShape(to, k)
  BY <1>2, <1>4 DEF NoteShape
<1>5. CASE GetRecord(t)
  <2> DEFINE j == [op |-> k.op, user |-> k.user, account |-> k.account, entry |-> None,
                   record |-> record[k.account]]
  <2>1. Go(t, "getRecord", "getOverride", j) /\ pc[t] = "getRecord" /\ k.op # "checkout"
    BY <1>5 DEF GetRecord, Go, Goto
  <2>2. NoteShape("getOverride", j)
    BY <1>2, <2>1 DEF NoteShape, JobShape
  <2> QED BY <1>3, <2>1, <2>2
<1>6. CASE GetOverride(t)
  <2> DEFINE j == [op |-> k.op, user |-> k.user, account |-> k.account,
                   entry |-> override[k.account], record |-> k.record]
  <2>1. PICK to : Go(t, "getOverride", to, j) /\ pc[t] = "getOverride" /\ to \in {"getGrant", "usage"}
    BY <1>6 DEF GetOverride
  <2>2. k.op \in {"status", "check"}
    BY <1>2, <2>1 DEF JobShape
  <2>3. NoteShape(to, j)
    BY <1>2, <2>1, <2>2 DEF NoteShape
  <2> QED BY <1>3, <2>1, <2>3
<1>15. CASE Decide(t)
  <2>1. PICK to : Go(t, "usage", to, k) /\ pc[t] = "usage" /\ to \in {"allow", "refuse"}
    BY <1>15 DEF Decide, Go, Goto
  <2> QED BY <1>3, <1>4, <2>1
<1>7. CASE Allow(t) \/ MarkInterest(t) \/ OpenSession(t)
  <2>1. Go(t, pc[t], "idle", k)
    BY <1>7 DEF Allow, MarkInterest, OpenSession, Go, Goto
  <2> QED BY <1>3, <2>1
<1>8. CASE Refuse(t)
  <2> DEFINE to == IF k.op = "status" THEN "getInterest" ELSE "idle"
  <2>1. Go(t, "refuse", to, k) /\ pc[t] = "refuse" /\ to \in {"getInterest", "idle"}
    BY <1>8 DEF Refuse, Go, Goto
  <2> QED BY <1>3, <1>4, <2>1
<1>9. CASE GetInterest(t)
  <2> DEFINE to == IF interest[k.account] = None THEN "markInterest" ELSE "idle"
  <2>1. Go(t, "getInterest", to, k) /\ pc[t] = "getInterest" /\ to \in {"markInterest", "idle"}
    BY <1>9 DEF GetInterest, Go, Goto
  <2> QED BY <1>3, <1>4, <2>1
<1>10. CASE FindAccount(t)
  <2>1. PICK a \in {home[k.user], None} :
          Go(t, "findAccount", IF k.op = "grant" THEN "putGrant" ELSE "delGrant",
             [op |-> k.op, user |-> k.user, account |-> a, entry |-> k.entry, record |-> None])
    BY <1>10 DEF FindAccount
  <2> DEFINE to == IF k.op = "grant" THEN "putGrant" ELSE "delGrant"
             j == [op |-> k.op, user |-> k.user, account |-> a, entry |-> k.entry, record |-> None]
  <2>2. pc[t] = "findAccount" /\ k.op \in {"grant", "revoke"} /\ to \in {"putGrant", "delGrant"}
    BY <1>2, <1>10 DEF FindAccount, JobShape
  <2>3. NoteShape(to, j)
    BY <1>2, <2>1, <2>2 DEF NoteShape
  <2>4. Go(t, pc[t], to, j) /\ j.user = k.user /\ j.op = k.op
    BY <2>1, <2>2
  <2> HIDE DEF to, j
  <2> QED BY <1>3, <2>2, <2>3, <2>4
<1>11. CASE FailRequest(t)
  <2>1. Go(t, pc[t], "idle", NoJob)
    BY <1>11 DEF FailRequest
  <2> QED BY <1>3, <2>1
<1>12. CASE GetRecordToPay(t)
  <2> DEFINE r == IF record[k.account] = None THEN Free ELSE record[k.account]
             to == IF r.customer = None THEN "createCustomer" ELSE "session"
             j == [op |-> k.op, user |-> k.user, account |-> k.account, entry |-> None, record |-> r]
  <2>1. Go(t, pc[t], to, j) /\ pc[t] = "getRecord" /\ k.op = "checkout"
    BY <1>12 DEF GetRecordToPay, Go, Goto
  <2>2. j.user = k.user /\ j.op = k.op /\ to \in {"createCustomer", "session"}
    OBVIOUS
  <2> HIDE DEF to, j
  <2>3. NoteShape(to, j)
    BY <2>1, <2>2 DEF NoteShape
  <2> QED BY <1>3, <2>1, <2>2, <2>3
<1>13. CASE CreateCustomer(t)
  <2>1. PICK c : Go(t, "createCustomer", "putCustomer",
             [op |-> k.op, user |-> k.user, account |-> k.account, entry |-> None,
              record |-> [customer |-> c, plan |-> k.record.plan, status |-> k.record.status]])
    BY <1>13 DEF CreateCustomer
  <2> DEFINE j == [op |-> k.op, user |-> k.user, account |-> k.account, entry |-> None,
                   record |-> [customer |-> c, plan |-> k.record.plan, status |-> k.record.status]]
  <2>2. Go(t, pc[t], "putCustomer", j) /\ pc[t] = "createCustomer"
    BY <2>1 DEF Go, Goto
  <2>3. j.user = k.user /\ j.op = k.op /\ k.op = "checkout"
    BY <1>2, <2>2 DEF JobShape
  <2> HIDE DEF j
  <2>4. NoteShape("putCustomer", j)
    BY <2>3 DEF NoteShape
  <2> QED BY <1>3, <2>2, <2>3, <2>4
<1>14. CASE PutCustomer(t)
  <2>1. Go(t, "putCustomer", "session", k) /\ pc[t] = "putCustomer"
    BY <1>14 DEF PutCustomer, Go, Goto
  <2> QED BY <1>3, <1>4, <2>1
<1> QED BY <1>5, <1>6, <1>7, <1>8, <1>9, <1>10, <1>11, <1>12, <1>13, <1>14, <1>15

\* The grant that is copied is there, so it was not revoked.
LEMMA GetGrantRevoke ==
  ASSUME Typed, RevocationInv, NEW t \in Tasks, GetGrant(t) PROVE RevocationInv'
<1> DEFINE k == job[t]
           g == grant[k.user]
           j == [op |-> k.op, user |-> k.user, account |-> k.account,
                 entry |-> [until |-> g.until, note |-> k.user], record |-> k.record]
<1>1. UNCHANGED <<home, grant, override, revoked, overlapped>> /\ pc[t] = "getGrant"
  BY DEF GetGrant, rows, history
<1>2. k.op \in {"status", "check"} /\ NoteShape("getGrant", k)
  BY <1>1, HasShape DEF RevocationInv, NoteInv, JobShape
<1>3. CASE Active(g)
  <2>1. Go(t, "getGrant", "putOverride", j) /\ g # None
    BY <1>3 DEF GetGrant, Active
  <2>2. j.user = k.user /\ j.op = k.op /\ j.account = k.account /\ j.entry.note = k.user
    OBVIOUS
  <2> HIDE DEF j
  <2>3. NoteInv'
    BY <1>1, <1>2, <2>1, <2>2, NoteGoes DEF RevocationInv, NoteShape
  <2>4. ASSUME NEW u \in Emails, NEW ops, NEW s \in Tasks, About(job'[s], u, ops)
        PROVE  About(job[s], u, ops) /\ pc'[s] = IF s = t THEN "putOverride" ELSE pc[s]
    BY <2>1, <2>2, <2>4, AboutKept
  <2>5. ASSUME NEW u \in (Emails \ overlapped) \cap revoked, NEW s \in Tasks,
               pc'[s] = "putOverride", About(job'[s], u, Copying)
        PROVE  FALSE
    <3>1. s = t => u = k.user
      BY <2>4, <2>5 DEF About
    <3> QED BY <2>1, <2>4, <2>5, <3>1 DEF RevocationInv, RevokeInv
  <2>6. RevokeInv'
    BY <1>1, <2>4, <2>5 DEF RevocationInv, RevokeInv
  <2> QED BY <2>3, <2>6 DEF RevocationInv
<1>4. CASE ~Active(g)
  <2>1. Go(t, "getGrant", "usage", k)
    BY <1>4 DEF GetGrant
  <2>2. NoteShape("usage", k)
    BY <1>2 DEF NoteShape
  <2> QED BY <1>1, <2>1, <2>2, NoteGoes, RevokeQuiet DEF RevocationInv
<1> QED BY <1>3, <1>4

\* An override is written for an operator, or for an email that is not revoked.
LEMMA PutOverrideRevoke ==
  ASSUME Typed, RevocationInv, NEW t \in Tasks, PutOverride(t) PROVE RevocationInv'
<1> DEFINE k == job[t]
           to == IF k.op \in {"status", "check"} THEN "usage" ELSE "idle"
<1>1. /\ Go(t, "putOverride", to, k) /\ pc[t] = "putOverride"
      /\ UNCHANGED <<home, grant, revoked, overlapped>>
      /\ override' = [override EXCEPT ![k.account] = k.entry]
  BY DEF PutOverride, Go, Goto, history
<1>2. to \in {"usage", "idle"}
  OBVIOUS
<1>3. /\ k.op \in {"status", "check", "grant", "setPlan"} /\ NoteShape("putOverride", k)
      /\ k.op # "setPlan" => k.user \in Emails
  BY <1>1, HasShape DEF RevocationInv, NoteInv, JobShape
<1> HIDE DEF to
<1>4. NoteInv'
  BY <1>1, <1>2, <1>3, NoteGoes DEF RevocationInv, NoteShape
<1>5. ASSUME NEW u \in Emails, NEW ops, NEW s \in Tasks, About(job'[s], u, ops)
      PROVE  About(job[s], u, ops) /\ pc'[s] = IF s = t THEN to ELSE pc[s]
  BY <1>1, <1>5, AboutKept
<1>6. ASSUME NEW u \in (Emails \ overlapped) \cap revoked
      PROVE  override'[home[u]] # None => override'[home[u]].note # u
  <2>1. ~About(k, u, Copying)
    BY <1>1, <1>6 DEF RevocationInv, RevokeInv
  <2>2. k.entry.note # u
    BY <1>3, <2>1, NoneAssumption DEF About, Copying, NoteShape
  <2>3. override'[home[u]] \in {k.entry, override[home[u]]}
    BY <1>1 DEF Typed, Booked
  <2> QED BY <1>6, <2>2, <2>3 DEF RevocationInv, RevokeInv
<1>7. RevokeInv'
  BY <1>1, <1>2, <1>5, <1>6 DEF RevocationInv, RevokeInv
<1> QED BY <1>4, <1>7 DEF RevocationInv

\* A new grant ends a revocation; a deleted one is not there any more.
LEMMA GrantRevoke ==
  ASSUME Typed, RevocationInv, NEW t \in Tasks, PutGrant(t) \/ DelGrant(t) PROVE RevocationInv'
<1> DEFINE k == job[t]
<1>1. k.user \in Emails /\ NoteShape(pc[t], k) /\ UNCHANGED <<home, override, overlapped>>
  BY HasShape DEF PutGrant, DelGrant, Go, Goto, RevocationInv, NoteInv, JobShape, history
<1>2. CASE PutGrant(t)
  <2> DEFINE to == IF k.account = None THEN "idle" ELSE "putOverride"
  <2>1. /\ Go(t, "putGrant", to, k) /\ pc[t] = "putGrant" /\ to \in {"idle", "putOverride"}
        /\ revoked' = revoked \ {k.user}
        /\ \A u \in Emails \ {k.user} : grant'[u] = grant[u]
    BY <1>2 DEF PutGrant, Go, Goto, Typed, Booked
  <2>2. k.op = "grant"
    BY <2>1, HasShape DEF JobShape
  <2> HIDE DEF to
  <2>3. NoteInv'
    BY <1>1, <2>1, <2>2, NoteGoes DEF RevocationInv, NoteShape
  <2>4. ASSUME NEW u \in Emails, NEW ops, NEW s \in Tasks, About(job'[s], u, ops)
        PROVE  About(job[s], u, ops) /\ pc'[s] = IF s = t THEN to ELSE pc[s]
    BY <2>1, <2>4, AboutKept
  <2>5. \A u \in Emails : About(k, u, Copying) <=> u = k.user
    BY <2>2 DEF About, Copying
  <2>6. ASSUME NEW u \in Emails \ overlapped
        PROVE  /\ \A s, r \in Tasks : ~(About(job'[s], u, {"revoke"}) /\ About(job'[r], u, Copying))
               /\ \A s \in Tasks : pc'[s] = "clearOverride" /\ About(job'[s], u, {"revoke"}) => grant'[u] = None
    <3>1. ASSUME NEW s \in Tasks, About(job'[s], u, {"revoke"}) PROVE u # k.user
      BY <2>4, <2>5, <2>6, <3>1 DEF RevocationInv, RevokeInv
    <3> QED BY <2>1, <2>4, <2>6, <3>1 DEF RevocationInv, RevokeInv
  <2>7. ASSUME NEW u \in (Emails \ overlapped) \cap (revoked \ {k.user}), NEW s \in Tasks
        PROVE  pc'[s] = "putOverride" => ~About(job'[s], u, Copying)
    BY <2>4, <2>5, <2>7 DEF RevocationInv, RevokeInv
  <2>8. RevokeInv'
    BY <1>1, <2>1, <2>6, <2>7 DEF RevocationInv, RevokeInv
  <2> QED BY <2>3, <2>8 DEF RevocationInv
<1>3. CASE DelGrant(t)
  <2> DEFINE to == IF k.account = None THEN "idle" ELSE "clearOverride"
  <2>1. /\ Go(t, "delGrant", to, k) /\ pc[t] = "delGrant" /\ to \in {"idle", "clearOverride"}
        /\ UNCHANGED revoked
        /\ \A u \in Emails : grant'[u] = IF u = k.user THEN None ELSE grant[u]
    BY <1>1, <1>3 DEF DelGrant, Go, Goto, Typed, Booked, history
  <2>2. k.op = "revoke"
    BY <2>1, HasShape DEF JobShape
  <2> HIDE DEF to
  <2>3. NoteInv'
    BY <1>1, <2>1, <2>2, NoteGoes DEF RevocationInv, NoteShape
  <2>4. ASSUME NEW u \in Emails, NEW ops, NEW s \in Tasks, About(job'[s], u, ops)
        PROVE  About(job[s], u, ops) /\ pc'[s] = IF s = t THEN to ELSE pc[s]
    BY <2>1, <2>4, AboutKept
  <2>5. ASSUME NEW u \in Emails \ overlapped, NEW s \in Tasks,
               pc'[s] = "clearOverride", About(job'[s], u, {"revoke"})
        PROVE  grant'[u] = None
    <3>1. s = t => u = k.user
      BY <2>4, <2>5 DEF About
    <3> QED BY <2>1, <2>4, <2>5, <3>1 DEF RevocationInv, RevokeInv
  <2>6. RevokeInv'
    BY <1>1, <2>1, <2>4, <2>5 DEF RevocationInv, RevokeInv
  <2> QED BY <2>3, <2>6 DEF RevocationInv
<1> QED BY <1>2, <1>3

\* A revocation ends: grant and copy are gone, and nobody brings them back.
LEMMA ClearOverrideRevoke ==
  ASSUME Typed, RevocationInv, NEW t \in Tasks, ClearOverride(t) PROVE RevocationInv'
<1> DEFINE k == job[t]
<1>1. /\ Go(t, "clearOverride", "idle", k) /\ pc[t] = "clearOverride"
      /\ UNCHANGED <<home, grant, overlapped>>
      /\ override' = [override EXCEPT ![k.account] = None]
      /\ revoked' = IF k.op = "revoke" THEN revoked \cup {k.user} ELSE revoked
  BY DEF ClearOverride, Go, Goto
<1>2. NoteInv'
  BY <1>1, NoteGoes DEF RevocationInv
<1>3. /\ k.account \in Accounts /\ (k.op = "revoke" => k.user \in Emails)
      /\ k.op = "revoke" => k.account = home[k.user]
  BY <1>1, HasShape, NoneAssumption DEF JobShape, RevocationInv, NoteInv, NoteShape
<1>4. ASSUME NEW u \in Emails, NEW ops, NEW s \in Tasks, About(job'[s], u, ops)
      PROVE  About(job[s], u, ops) /\ pc'[s] = IF s = t THEN "idle" ELSE pc[s]
  BY <1>1, <1>4, AboutKept
<1>5. ASSUME NEW u \in (Emails \ overlapped) \cap revoked'
      PROVE  /\ grant[u] = None /\ (override'[home[u]] # None => override'[home[u]].note # u)
             /\ \A s \in Tasks : pc'[s] = "putOverride" => ~About(job'[s], u, Copying)
  <2>1. \A a \in Accounts : override'[a] = IF a = k.account THEN None ELSE override[a]
    BY <1>1, <1>3 DEF Typed, Booked
  <2>2. home[u] \in Accounts
    BY DEF Typed, Booked
  <2>3. CASE u \in revoked
    BY <1>4, <2>1, <2>2, <2>3 DEF RevocationInv, RevokeInv
  <2>4. CASE u \notin revoked
    <3>1. k.op = "revoke" /\ u = k.user
      BY <1>1, <1>5, <2>4
    <3>2. About(k, u, {"revoke"})
      BY <3>1 DEF About
    <3>3. grant[u] = None /\ \A s \in Tasks : ~About(job[s], u, Copying)
      BY <1>1, <3>2 DEF RevocationInv, RevokeInv
    <3> QED BY <1>3, <1>4, <2>1, <2>2, <3>1, <3>3
  <2> QED BY <2>3, <2>4
<1>6. RevokeInv'
  BY <1>1, <1>4, <1>5 DEF RevocationInv, RevokeInv
<1> QED BY <1>2, <1>6 DEF RevocationInv

LEMMA RequestRevoke ==
  ASSUME Typed, RevocationInv, NEW t \in Tasks, Request(t) \/ FailRequest(t) PROVE RevocationInv'
<1>1. CASE Arrive(t)
  BY <1>1, ArriveRevoke
<1>2. CASE GetGrant(t)
  BY <1>2, GetGrantRevoke
<1>3. CASE PutOverride(t)
  BY <1>3, PutOverrideRevoke
<1>4. CASE PutGrant(t) \/ DelGrant(t)
  BY <1>4, GrantRevoke
<1>5. CASE ClearOverride(t)
  BY <1>5, ClearOverrideRevoke
<1>6. CASE \/ GetRecord(t) \/ GetOverride(t) \/ Decide(t) \/ Allow(t) \/ Refuse(t) \/ GetInterest(t)
           \/ MarkInterest(t) \/ FindAccount(t) \/ FailRequest(t)
           \/ GetRecordToPay(t) \/ CreateCustomer(t) \/ PutCustomer(t) \/ OpenSession(t)
  BY <1>6, QuietRevoke
<1> QED BY <1>1, <1>2, <1>3, <1>4, <1>5, <1>6 DEF Request

\* Stripe, its deliveries and time touch no request and no book of grants.
LEMMA OthersSpareTasks ==
  ASSUME Typed,
         \/ \E e \in Events : Send(e)
         \/ \E d \in Deliveries : Deliver(d) \/ Handle(d) \/ FailDelivery(d) \/ DropDelivery(d)
         \/ Expire \/ UNCHANGED vars
  PROVE  /\ UNCHANGED <<home, job, grant, override, revoked, overlapped>>
         /\ \A t \in Tasks : pc'[t] = pc[t]
<1>1. ASSUME NEW d \in Deliveries, NEW from, NEW to, Goto(d, from, to)
      PROVE  \A t \in Tasks : pc'[t] = pc[t]
  BY <1>1, ProcessAssumption DEF Goto, Typed, Booked
<1>2. CASE \E e \in Events : Send(e)
  BY <1>2 DEF Send, rows, history
<1>3. ASSUME NEW d \in Deliveries, Deliver(d) \/ Handle(d) \/ FailDelivery(d) \/ DropDelivery(d)
      PROVE  /\ UNCHANGED <<home, job, grant, override, revoked, overlapped>>
             /\ \A t \in Tasks : pc'[t] = pc[t]
  <2>1. UNCHANGED <<home, job, grant, override, revoked, overlapped>>
    BY <1>3 DEF Deliver, Handle, Claim, ReadRecord, PutRecord, Release, FailDelivery, DropDelivery,
                rows, history
  <2>2. \E from, to : Goto(d, from, to)
    BY <1>3 DEF Deliver, Handle, Claim, ReadRecord, PutRecord, Release, FailDelivery, DropDelivery
  <2> QED BY <1>1, <2>1, <2>2
<1>4. CASE Expire \/ UNCHANGED vars
  BY <1>4 DEF Expire, vars, rows, history
<1> QED BY <1>2, <1>3, <1>4

LEMMA NextRevoke == ASSUME Typed, RevocationInv, [Next]_vars PROVE RevocationInv'
<1>1. CASE \E t \in Tasks : Request(t) \/ FailRequest(t)
  BY <1>1, RequestRevoke
<1>2. CASE ~ \E t \in Tasks : Request(t) \/ FailRequest(t)
  <2>1. /\ UNCHANGED <<home, job, grant, override, revoked, overlapped>>
        /\ \A t \in Tasks : pc'[t] = pc[t]
    BY <1>2, OthersSpareTasks DEF Next
  <2>2. NoteInv'
    BY <2>1 DEF RevocationInv, NoteInv, NoteShape
  <2>3. RevokeInv'
    BY <2>1 DEF RevocationInv, RevokeInv, About
  <2> QED BY <2>2, <2>3 DEF RevocationInv
<1> QED BY <1>1, <1>2

\* After a revocation that found the account and met no other request of that
\* email, neither the grant nor the override it was copied to is there, until
\* the email is granted again: revoke_email, status_for, grant_email and the
\* admin API write the same two rows in any interleaving.
THEOREM RevocationsHold == Spec => []RevokedStaysOff
<1>1. Typed /\ RevocationInv /\ [Next]_vars => (Typed /\ RevocationInv)'
  BY NextTyped, NextRevoke
<1>2. Typed /\ RevocationInv => RevokedStaysOff
  BY DEF Typed, Booked, RevocationInv, RevokeInv, RevokedStaysOff
<1> QED BY InitTyped, InitRevoke, <1>1, <1>2, PTL DEF Spec

----------------------------------------------------------------------------
(* Access: what a request has been told, and what was in force meanwhile *)

Stripe == <<"stripe", "never">>
Until  == {"never", "soon"}

\* What is exempt: a grant behind an override that ran out.
Lapsed(s) == s.steady \subseteq {<<"grant", "never">>}
             /\ (<<"grant", "never">> \in s.steady => <<"override", "soon">> \in s.ever)

\* What request locals j at point q say of the sources s it has lived through
\* (l: the expiry dates are over): a payment it holds was made, one made all the
\* while it holds; an entry it holds was in force once, unless it had run out
\* when it was read; and what is in force all the while is what it holds.
Told(q, j, s, l) ==
  /\ q \in {"getOverride", "getGrant", "putOverride", "usage"} =>
       /\ Paying(j.record) => Stripe \in s.ever
       /\ Stripe \in s.steady => Paying(j.record)
  /\ q \in {"getGrant", "putOverride"} => \A w \in Until : <<"override", w>> \notin s.steady
  /\ q = "getGrant" /\ j.entry # None => l /\ j.entry.until = "soon"
  /\ q = "putOverride" =>
       /\ <<"grant", j.entry.until>> \in s.ever
       /\ \A w \in Until : <<"grant", w>> \in s.steady => w = j.entry.until
  /\ q = "usage" /\ j.entry = None => \A w \in Until : <<"override", w>> \notin s.steady
                                                     /\ <<"grant", w>> \notin s.steady
  /\ q = "usage" /\ j.entry # None =>
       /\ s.ever # {} \/ (l /\ j.entry.until = "soon")
       /\ j.entry.until = "soon" => <<"override", "never">> \notin s.steady
       /\ j.entry.until = "soon" /\ <<"grant", "never">> \in s.steady =>
            <<"override", "soon">> \in s.ever
  /\ q = "allow" => s.ever # {}
  /\ q = "refuse" => Lapsed(s) /\ (s.steady # {} => l)

AskInv ==
  \A t \in Tasks : Asking(t) =>
    /\ SourcesOf(t) \subseteq seen[t].ever /\ seen[t].steady \subseteq SourcesOf(t)
    /\ Told(pc[t], job[t], seen[t], late)

\* Time only adds to what was ever in force and takes from what always was.
LEMMA ToldStays ==
  ASSUME NEW q, NEW j, NEW s, NEW r, NEW l, NEW m, Told(q, j, s, l),
         s.ever \subseteq r.ever, r.steady \subseteq s.steady, l => m
  PROVE  Told(q, j, r, m)
<1>1. CASE q \in {"getOverride", "getGrant", "putOverride"}
  BY <1>1 DEF Told
<1>2. CASE q = "usage"
  BY <1>2 DEF Told
<1>3. CASE q = "allow"
  BY <1>3 DEF Told
<1>4. CASE q = "refuse"
  BY <1>4 DEF Told, Lapsed
<1>5. CASE q \notin {"getOverride", "getGrant", "putOverride", "usage", "allow", "refuse"}
  BY <1>5 DEF Told
<1> QED BY <1>1, <1>2, <1>3, <1>4, <1>5

\* An expiry date that is over stays over.
LEMMA LateStays == ASSUME Typed, [Next]_vars PROVE late => late'
<1>1. CASE UNCHANGED vars \/ Expire
  BY <1>1 DEF vars, Expire
<1>2. CASE \E t \in Tasks : Request(t) \/ FailRequest(t)
  BY <1>2 DEF Request, FailRequest, Arrive, Call, GetRecord, GetOverride, GetGrant, PutOverride,
         Decide, Allow, Refuse, GetInterest, MarkInterest, FindAccount, PutGrant, DelGrant,
         ClearOverride, GetRecordToPay, CreateCustomer, PutCustomer, OpenSession
<1>3. CASE \E e \in Events : Send(e)
  BY <1>3 DEF Send
<1>4. CASE \E d \in Deliveries : Deliver(d) \/ Handle(d) \/ FailDelivery(d) \/ DropDelivery(d)
  BY <1>4 DEF Deliver, Handle, Claim, ReadRecord, PutRecord, Release, FailDelivery, DropDelivery
<1> QED BY <1>1, <1>2, <1>3, <1>4 DEF Next

\* What gives a user access by the books.
LEMMA SourcesAre ==
  ASSUME Typed, NEW t \in Tasks, job[t].user \in Emails
  PROVE  LET r == record[home[job[t].user]]
             x == override[home[job[t].user]]
             g == grant[job[t].user]
         IN /\ Stripe \in SourcesOf(t) <=> Paying(r)
            /\ \A w \in Until : <<"override", w>> \in SourcesOf(t) <=> Active(x) /\ x.until = w
            /\ \A w \in Until : <<"grant", w>> \in SourcesOf(t) <=> Active(g) /\ g.until = w
            /\ \A s \in SourcesOf(t) : s = Stripe \/ \E w \in Until : s \in {<<"override", w>>, <<"grant", w>>}
<1> DEFINE u == job[t].user
           r == record[home[u]]
           x == override[home[u]]
           g == grant[u]
           A == {<<"stripe", "never">> : s \in {1} \cap
                   IF r # None /\ r.plan # "free" /\ r.status \notin {"none", "canceled"} THEN {1} ELSE {}}
           B == {<<"override", w>> : w \in
                   {v \in {"never", "soon"} : x # None /\ x.until = v /\ ~(late /\ v = "soon")}}
           C == {<<"grant", w>> : w \in
                   {v \in {"never", "soon"} : g # None /\ g.until = v /\ ~(late /\ v = "soon")}}
<1>1. SourcesOf(t) = A \cup B \cup C
  BY DEF SourcesOf
<1>2. r \in Record \cup {None} /\ x \in Entry \cup {None} /\ g \in Entry \cup {None}
  BY DEF Typed, Booked
<1>3. (r # None /\ r.plan # "free" /\ r.status \notin {"none", "canceled"}) <=> Paying(r)
  BY <1>2 DEF Paying, Record, Statuses
<1>4. Stripe \in A <=> Paying(r)
  BY <1>3 DEF Stripe
<1>5. \A w \in Until : /\ <<"override", w>> \in B <=> Active(x) /\ x.until = w
                       /\ <<"grant", w>> \in C <=> Active(g) /\ g.until = w
  BY DEF Until, Active
<1>6. /\ \A s \in A : s = Stripe
      /\ \A s \in B : \E w \in Until : s = <<"override", w>>
      /\ \A s \in C : \E w \in Until : s = <<"grant", w>>
  BY DEF Stripe, Until
<1>7. \A w \in Until : /\ Stripe # <<"override", w>> /\ Stripe # <<"grant", w>>
                       /\ \A v \in Until : <<"override", w>> # <<"grant", v>>
  BY DEF Stripe, Until
<1> HIDE DEF A, B, C, r, x, g
<1>8. /\ Stripe \in SourcesOf(t) <=> Stripe \in A
      /\ \A w \in Until : <<"override", w>> \in SourcesOf(t) <=> <<"override", w>> \in B
      /\ \A w \in Until : <<"grant", w>> \in SourcesOf(t) <=> <<"grant", w>> \in C
  <2>1. Stripe \notin B /\ Stripe \notin C
    BY <1>6, <1>7
  <2>2. \A w \in Until : <<"override", w>> \notin A /\ <<"override", w>> \notin C
    BY <1>6, <1>7
  <2>3. \A w \in Until : <<"grant", w>> \notin A /\ <<"grant", w>> \notin B
    BY <1>6, <1>7
  <2> QED BY <1>1, <2>1, <2>2, <2>3
<1>9. \A s \in SourcesOf(t) : s = Stripe \/ \E w \in Until : s \in {<<"override", w>>, <<"grant", w>>}
  BY <1>1, <1>6
<1> QED BY <1>4, <1>5, <1>8, <1>9 DEF r, x, g

\* A request for access is at work on the account of its user.
LEMMA AskerIsTyped ==
  ASSUME Typed, RevocationInv, NEW t \in Tasks, Asking(t)
  PROVE  job[t].user \in Emails /\ job[t].account = home[job[t].user] /\ job[t].account \in Accounts
<1>1. JobShape(pc[t], job[t]) /\ NoteShape(pc[t], job[t])
  BY HasShape DEF RevocationInv, NoteInv
<1>2. job[t].user \in Emails
  BY <1>1 DEF JobShape, Asking
<1> QED BY <1>1, <1>2 DEF NoteShape, Asking, Typed, Booked

LEMMA GetRecordTold ==
  ASSUME Typed, RevocationInv, AskInv, NEW t \in Tasks, GetRecord(t)
  PROVE  Asking(t) /\ Told(pc'[t], job'[t], seen[t], late)
<1> DEFINE k == job[t]
           j == [op |-> k.op, user |-> k.user, account |-> k.account, entry |-> None,
                 record |-> record[k.account]]
<1>1. Go(t, "getRecord", "getOverride", j) /\ pc[t] = "getRecord" /\ k.op # "checkout"
  BY DEF GetRecord, Go, Goto
<1>2. Asking(t)
  BY <1>1, HasShape DEF Asking, JobShape
<1>3. Stripe \in SourcesOf(t) <=> Paying(record[k.account])
  BY <1>2, AskerIsTyped, SourcesAre
<1>4. Told("getOverride", j, seen[t], late)
  BY <1>2, <1>3 DEF AskInv, Told
<1> QED BY <1>1, <1>2, <1>4, RequestGoes

LEMMA GetOverrideTold ==
  ASSUME Typed, RevocationInv, AskInv, NEW t \in Tasks, GetOverride(t)
  PROVE  Asking(t) /\ Told(pc'[t], job'[t], seen[t], late)
<1> DEFINE k == job[t]
           x == override[k.account]
           j == [op |-> k.op, user |-> k.user, account |-> k.account, entry |-> x,
                 record |-> k.record]
           to == IF LooksFurther(x) THEN "getGrant" ELSE "usage"
<1>1. Go(t, "getOverride", to, j) /\ pc[t] = "getOverride" /\ to # "idle"
  BY DEF GetOverride
<1>2. Asking(t)
  BY <1>1, HasShape DEF Asking, JobShape
<1>3. \A w \in Until : <<"override", w>> \in SourcesOf(t) <=> Active(x) /\ x.until = w
  BY <1>2, AskerIsTyped, SourcesAre
<1>4. Told("getOverride", k, seen[t], late) /\ SourcesOf(t) \subseteq seen[t].ever
      /\ seen[t].steady \subseteq SourcesOf(t)
  BY <1>1, <1>2 DEF AskInv
<1>5. x \in Entry \cup {None} /\ (x # None => x.until \in Until)
  BY <1>2, AskerIsTyped DEF Typed, Booked, Entry, Until
<1>6. j.entry = x /\ j.record = k.record
  OBVIOUS
<1>7. CASE Active(x)
  <2>1. <<"override", x.until>> \in seen[t].ever /\ x # None
    BY <1>3, <1>4, <1>5, <1>7 DEF Active
  <2>2. \A w \in Until : <<"override", w>> \in seen[t].steady => w = x.until
    BY <1>3, <1>4
  <2>3. to = "usage"
    BY <1>7 DEF LooksFurther
  <2> HIDE DEF j, x
  <2>4. Told("usage", j, seen[t], late)
    BY <1>4, <1>5, <1>6, <2>1, <2>2 DEF Told, Until
  <2> QED BY <1>1, <1>2, <2>3, <2>4, RequestGoes
<1>8. CASE ~Active(x)
  <2>1. to = "getGrant"
    BY <1>8 DEF LooksFurther
  <2>2. x # None => late /\ x.until = "soon"
    BY <1>5, <1>8 DEF Active, Until
  <2>3. \A w \in Until : <<"override", w>> \notin seen[t].steady
    BY <1>3, <1>4, <1>8
  <2> HIDE DEF j, x
  <2>4. Told("getGrant", j, seen[t], late)
    BY <1>4, <1>6, <2>2, <2>3 DEF Told
  <2> QED BY <1>1, <1>2, <2>1, <2>4, RequestGoes
<1> QED BY <1>7, <1>8

LEMMA GetGrantTold ==
  ASSUME Typed, RevocationInv, AskInv, NEW t \in Tasks, GetGrant(t)
  PROVE  Asking(t) /\ Told(pc'[t], job'[t], seen[t], late)
<1> DEFINE k == job[t]
           g == grant[k.user]
<1>1. pc[t] = "getGrant"
  BY DEF GetGrant
<1>2. Asking(t)
  BY <1>1, HasShape DEF Asking, JobShape
<1>3. \A w \in Until : <<"grant", w>> \in SourcesOf(t) <=> Active(g) /\ g.until = w
  BY <1>2, AskerIsTyped, SourcesAre
<1>4. Told("getGrant", k, seen[t], late) /\ SourcesOf(t) \subseteq seen[t].ever
      /\ seen[t].steady \subseteq SourcesOf(t)
  BY <1>1, <1>2 DEF AskInv
<1>5. CASE Active(g)
  <2> DEFINE j == [op |-> k.op, user |-> k.user, account |-> k.account,
                   entry |-> [until |-> g.until, note |-> k.user], record |-> k.record]
  <2>1. Go(t, "getGrant", "putOverride", j)
    BY <1>5 DEF GetGrant
  <2>2. g.until \in Until
    BY <1>2, <1>5, AskerIsTyped DEF Active, Typed, Booked, Entry, Until
  <2>3. Told("putOverride", j, seen[t], late)
    BY <1>3, <1>4, <1>5, <2>2 DEF Told
  <2> QED BY <1>2, <2>1, <2>3, RequestGoes
<1>6. CASE ~Active(g)
  <2>1. Go(t, "getGrant", "usage", k)
    BY <1>6 DEF GetGrant
  <2>2. \A w \in Until : <<"override", w>> \notin seen[t].steady /\ <<"grant", w>> \notin seen[t].steady
    BY <1>3, <1>4, <1>6 DEF Told
  <2>3. Told("usage", k, seen[t], late)
    BY <1>4, <2>2 DEF Told, Until
  <2> QED BY <1>2, <2>1, <2>3, RequestGoes
<1> QED BY <1>5, <1>6

\* The copy of a grant is held as the grant was.
LEMMA PutOverrideTold ==
  ASSUME Typed, RevocationInv, AskInv, NEW t \in Tasks, PutOverride(t), pc'[t] # "idle"
  PROVE  Asking(t) /\ Told(pc'[t], job'[t], seen[t], late)
<1> DEFINE k == job[t]
           to == IF k.op \in {"status", "check"} THEN "usage" ELSE "idle"
<1>1. Go(t, "putOverride", to, k) /\ pc[t] = "putOverride"
  BY DEF PutOverride, Go, Goto
<1>2. to = "usage" /\ k.op \in {"status", "check"} /\ Asking(t)
  BY <1>1, RequestGoes DEF Asking
<1>3. Told("putOverride", k, seen[t], late)
  BY <1>1, <1>2 DEF AskInv
<1>4. Told("usage", k, seen[t], late)
  <2>1. k.entry # None
    BY <1>1, HasShape, NoneAssumption DEF JobShape
  <2> QED BY <1>3, <2>1 DEF Told, Until
<1> QED BY <1>1, <1>2, <1>4, RequestGoes

\* The decision: who pays or holds an active entry is allowed; who is refused
\* has nothing that was in force all the while, but for what is exempt.
LEMMA DecideTold ==
  ASSUME Typed, RevocationInv, AskInv, NEW t \in Tasks, Decide(t)
  PROVE  Asking(t) /\ Told(pc'[t], job'[t], seen[t], late)
<1> DEFINE k == job[t]
           x == k.entry
           to == IF Provisioned(k) THEN "allow" ELSE "refuse"
<1>1. Go(t, "usage", to, k) /\ pc[t] = "usage" /\ to # "idle"
  BY DEF Decide, Go, Goto
<1>2. Asking(t)
  BY <1>1, HasShape DEF Asking, JobShape
<1>3. Told("usage", k, seen[t], late) /\ seen[t].steady \subseteq SourcesOf(t)
  BY <1>1, <1>2 DEF AskInv
<1>4. /\ \A w \in Until : <<"override", w>> \in SourcesOf(t) => ~(late /\ w = "soon")
      /\ \A w \in Until : <<"grant", w>> \in SourcesOf(t) => ~(late /\ w = "soon")
      /\ \A s \in SourcesOf(t) : s = Stripe \/ \E w \in Until : s \in {<<"override", w>>, <<"grant", w>>}
  BY <1>2, AskerIsTyped, SourcesAre DEF Active
<1>5. CASE Provisioned(k)
  <2>1. seen[t].ever # {}
    <3>1. CASE Paying(k.record)
      BY <1>3, <3>1 DEF Told
    <3>2. CASE Active(x)
      BY <1>3, <3>2 DEF Told, Active
    <3> QED BY <1>5, <3>1, <3>2 DEF Provisioned
  <2>2. Told("allow", k, seen[t], late)
    BY <2>1 DEF Told
  <2> QED BY <1>1, <1>2, <1>5, <2>2, RequestGoes
<1>6. CASE ~Provisioned(k)
  <2>1. Stripe \notin seen[t].steady
    BY <1>3, <1>6 DEF Told, Provisioned
  <2>2. CASE x = None
    <3>1. seen[t].steady = {}
      BY <1>3, <1>4, <2>1, <2>2 DEF Told
    <3> QED BY <1>1, <1>2, <1>6, <3>1, RequestGoes DEF Told, Lapsed
  <2>3. CASE x # None
    <3>1. late /\ x.until = "soon"
      BY <1>6, <2>3 DEF Provisioned, Active
    <3>2. \A s \in seen[t].steady : s = <<"grant", "never">>
      BY <1>3, <1>4, <2>1, <2>3, <3>1 DEF Told, Until
    <3>3. Lapsed(seen[t])
      BY <1>3, <2>3, <3>1, <3>2 DEF Told, Lapsed
    <3>4. Told("refuse", k, seen[t], late)
      BY <3>1, <3>3 DEF Told
    <3> QED BY <1>1, <1>2, <1>6, <3>4, RequestGoes
  <2> QED BY <2>2, <2>3
<1> QED BY <1>5, <1>6

\* A request that asks after its own step has just arrived, or knows what it says.
LEMMA RequestTold ==
  ASSUME Typed, RevocationInv, AskInv, NEW t \in Tasks, Request(t) \/ FailRequest(t),
         pc'[t] # "idle", job'[t].op \in {"status", "check"}
  PROVE  IF pc[t] = "idle" THEN pc'[t] = "getRecord"
         ELSE Asking(t) /\ Told(pc'[t], job'[t], seen[t], late)
<1> DEFINE k == job[t]
<1>1. ASSUME NEW to, to \in {"getInterest", "markInterest"}, Go(t, pc[t], to, k), pc[t] # "idle"
      PROVE  Asking(t) /\ Told(pc'[t], job'[t], seen[t], late)
  BY <1>1, RequestGoes DEF Asking, Told
<1>2. ASSUME NEW op \in {"grant", "revoke", "setPlan", "clearPlan", "checkout"}, NEW to, NEW j,
             Go(t, pc[t], to, j), to # "idle", j.op = op
      PROVE  FALSE
  BY <1>2, RequestGoes
<1>3. CASE Arrive(t)
  <2>1. PICK op, u, a, x : op \in Access \cup {"checkout"} /\ Call(t, op, u, a, x)
    BY <1>3 DEF Arrive, Access
  <2> DEFINE to == CASE op \in {"status", "check", "checkout"} -> "getRecord"
                     [] op \in {"grant", "revoke"} -> "findAccount"
                     [] op = "setPlan" -> "putOverride"
                     [] op = "clearPlan" -> "clearOverride"
             j == [op |-> op, user |-> u, account |-> a, entry |-> x, record |-> None]
  <2>2. Go(t, "idle", to, j) /\ j.op = op
    BY <2>1 DEF Call
  <2>3. to # "idle" /\ (op \in {"status", "check"} => to = "getRecord")
    BY <2>1 DEF Access
  <2> HIDE DEF to, j
  <2>4. pc[t] = "idle" /\ pc'[t] = to /\ job'[t].op = op
    BY <2>2, <2>3, RequestGoes
  <2> QED BY <2>3, <2>4
<1>4. CASE Refuse(t)
  <2> DEFINE to == IF k.op = "status" THEN "getInterest" ELSE "idle"
  <2>1. Go(t, "refuse", to, k) /\ pc[t] = "refuse" /\ to \in {"getInterest", "idle"}
    BY <1>4 DEF Refuse, Go, Goto
  <2>2. to # "idle"
    BY <2>1, RequestGoes
  <2> QED BY <1>1, <2>1, <2>2
<1>5. CASE GetInterest(t)
  <2> DEFINE to == IF interest[k.account] = None THEN "markInterest" ELSE "idle"
  <2>1. Go(t, "getInterest", to, k) /\ pc[t] = "getInterest" /\ to \in {"markInterest", "idle"}
    BY <1>5 DEF GetInterest, Go, Goto
  <2>2. to # "idle"
    BY <2>1, RequestGoes
  <2> QED BY <1>1, <2>1, <2>2
<1>6. CASE Allow(t) \/ MarkInterest(t) \/ OpenSession(t) \/ ClearOverride(t) \/ FailRequest(t)
  <2>1. PICK from, j : Go(t, from, "idle", j)
    BY <1>6 DEF Allow, MarkInterest, OpenSession, ClearOverride, FailRequest
  <2> QED BY <2>1, RequestGoes
<1>7. CASE FindAccount(t) \/ PutGrant(t) \/ DelGrant(t)
  <2>1. k.op \in {"grant", "revoke"} /\ pc[t] # "idle"
    BY <1>7, HasShape DEF FindAccount, PutGrant, DelGrant, Go, Goto, JobShape
  <2>2. PICK from, to, j : Go(t, from, to, j) /\ j.op = k.op
    BY <1>7 DEF FindAccount, PutGrant, DelGrant
  <2> QED BY <2>1, <2>2, RequestGoes
<1>8. CASE GetRecordToPay(t) \/ CreateCustomer(t) \/ PutCustomer(t)
  <2>1. k.op = "checkout" /\ pc[t] # "idle"
    BY <1>8, HasShape DEF GetRecordToPay, CreateCustomer, PutCustomer, Go, Goto, JobShape
  <2>2. PICK from, to, j : Go(t, from, to, j) /\ j.op = k.op
    <3>1. CASE GetRecordToPay(t)
      BY <3>1 DEF GetRecordToPay
    <3>2. CASE CreateCustomer(t)
      BY <3>2 DEF CreateCustomer
    <3>3. CASE PutCustomer(t)
      BY <3>3 DEF PutCustomer
    <3> QED BY <1>8, <3>1, <3>2, <3>3
  <2> QED BY <2>1, <2>2, RequestGoes
<1>9. CASE GetRecord(t) \/ GetOverride(t) \/ GetGrant(t) \/ PutOverride(t) \/ Decide(t)
  BY <1>9, GetRecordTold, GetOverrideTold, GetGrantTold, PutOverrideTold, DecideTold DEF Asking
<1> QED BY <1>3, <1>4, <1>5, <1>6, <1>7, <1>8, <1>9 DEF Request

\* A request touches no other request.
LEMMA RequestsSpareTasks ==
  ASSUME Typed, NEW r \in Tasks, Request(r) \/ FailRequest(r)
  PROVE  \A t \in Tasks \ {r} : pc'[t] = pc[t] /\ job'[t] = job[t]
<1>1. \E from, to, j : Go(r, from, to, j)
  <2>1. CASE Arrive(r)
    <3>1. PICK op, u, a, x : Call(r, op, u, a, x)
      BY <2>1 DEF Arrive
    <3> QED BY <3>1 DEF Call
  <2>2. CASE \/ GetRecord(r) \/ GetOverride(r) \/ GetGrant(r) \/ PutOverride(r) \/ Decide(r)
             \/ Allow(r) \/ Refuse(r) \/ GetInterest(r) \/ MarkInterest(r) \/ FindAccount(r)
    BY <2>2 DEF GetRecord, GetOverride, GetGrant, PutOverride, Decide, Allow, Refuse, GetInterest,
                MarkInterest, FindAccount
  <2>3. CASE \/ PutGrant(r) \/ DelGrant(r) \/ ClearOverride(r) \/ GetRecordToPay(r)
             \/ CreateCustomer(r) \/ PutCustomer(r) \/ OpenSession(r) \/ FailRequest(r)
    BY <2>3 DEF PutGrant, DelGrant, ClearOverride, GetRecordToPay, CreateCustomer, PutCustomer,
                OpenSession, FailRequest
  <2> QED BY <2>1, <2>2, <2>3 DEF Request
<1> QED BY <1>1, RequestGoes

LEMMA NextAsks ==
  ASSUME Typed, RevocationInv, AskInv, [Next]_vars PROVE AskInv'
<1>1. CASE UNCHANGED vars
  BY <1>1 DEF vars, AskInv, Asking, SourcesOf, Told
<1>2. CASE Next
  <2>1. ASSUME NEW t \in Tasks, pc'[t] # "idle", job'[t].op \in {"status", "check"}
        PROVE  IF pc[t] = "idle" THEN pc'[t] = "getRecord"
               ELSE Asking(t) /\ Told(pc'[t], job'[t], seen[t], late)
    <3>1. CASE Request(t) \/ FailRequest(t)
      BY <2>1, <3>1, RequestTold
    <3>2. CASE ~(Request(t) \/ FailRequest(t))
      <4>1. pc'[t] = pc[t] /\ job'[t] = job[t]
        <5>1. CASE \E r \in Tasks : Request(r) \/ FailRequest(r)
          BY <3>2, <5>1, RequestsSpareTasks
        <5>2. CASE ~ \E r \in Tasks : Request(r) \/ FailRequest(r)
          BY <1>2, <5>2, OthersSpareTasks DEF Next
        <5> QED BY <5>1, <5>2
      <4> QED BY <2>1, <4>1 DEF Asking, AskInv
    <3> QED BY <3>1, <3>2
  <2>2. ASSUME NEW t \in Tasks, Asking(t)'
        PROVE  /\ SourcesOf(t)' \subseteq seen'[t].ever /\ seen'[t].steady \subseteq SourcesOf(t)'
               /\ Told(pc'[t], job'[t], seen'[t], late')
    <3>1. IF pc[t] = "idle" THEN pc'[t] = "getRecord"
          ELSE Asking(t) /\ Told(pc'[t], job'[t], seen[t], late)
      BY <2>1, <2>2 DEF Asking
    <3>2. seen'[t] = IF pc[t] = "idle" THEN [ever |-> SourcesOf(t)', steady |-> SourcesOf(t)']
                     ELSE [ever |-> seen[t].ever \cup SourcesOf(t)',
                           steady |-> seen[t].steady \cap SourcesOf(t)']
      BY <1>2, <2>2 DEF Next, Observe
    <3>3. CASE pc[t] = "idle"
      BY <3>1, <3>2, <3>3 DEF Told
    <3>4. CASE pc[t] # "idle"
      BY <3>1, <3>2, <3>4, LateStays, ToldStays
    <3> QED BY <3>3, <3>4
  <2> QED BY <2>2 DEF AskInv, Told
<1> QED BY <1>1, <1>2

LEMMA AskersAlways == Spec => [](Typed /\ RevocationInv /\ AskInv)
<1>1. Typed /\ RevocationInv /\ AskInv /\ [Next]_vars => (Typed /\ RevocationInv /\ AskInv)'
  BY NextTyped, NextRevoke, NextAsks
<1>2. Init => AskInv
  BY DEF Init, AskInv, Asking
<1> QED BY InitTyped, InitRevoke, <1>1, <1>2, PTL DEF Spec

\* Access is given only to users for whom a subscription, an override or a
\* grant was in force at some time while they asked: the three rows are read
\* one after the other, and may all change meanwhile.
THEOREM AccessIsFounded == Spec => []AccessNeedsASource
<1>1. AskInv /\ Typed => AccessNeedsASource
  <2> SUFFICES ASSUME AskInv, Typed, NEW t \in Tasks, pc[t] = "allow" PROVE seen[t].ever # {}
    BY DEF AccessNeedsASource
  <2>1. Asking(t)
    BY HasShape DEF Asking, JobShape
  <2> QED BY <2>1 DEF AskInv, Told
<1> QED BY <1>1, AskersAlways, PTL

\* Whoever has one source of access all the while a request of theirs runs is
\* not refused: the read that finds it is never skipped because of another row,
\* unless an override runs out while the request is on its way and the source
\* is a grant of the email.
THEOREM SteadyAccess == Spec => []SteadySourceGivesAccess
<1>1. AskInv /\ Typed => SteadySourceGivesAccess
  <2> SUFFICES ASSUME AskInv, Typed, NEW t \in Tasks, pc[t] = "refuse"
               PROVE  seen[t].steady \subseteq
                        IF late /\ <<"override", "soon">> \in seen[t].ever
                        THEN {<<"grant", "never">>} ELSE {}
    BY DEF SteadySourceGivesAccess
  <2>1. Asking(t)
    BY HasShape DEF Asking, JobShape
  <2> QED BY <2>1 DEF AskInv, Told, Lapsed
<1> QED BY <1>1, AskersAlways, PTL

=============================================================================
