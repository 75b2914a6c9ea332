----------------------------- MODULE TeamProofs -----------------------------
(***************************************************************************)
(* Proofs about Team for all users, invites, requests and bounds: types,   *)
(* who is in an account, what becomes of an invite, and that the two rows  *)
(* of a membership agree.                                                  *)
(***************************************************************************)
EXTENDS Team, TLAPS

----------------------------------------------------------------------------
(* Types *)

\* The locals j of a request that stands at q.
JobShape(q, j) ==
  /\ q # "idle" => j.op \in AllOps /\ j.caller \in Users
  /\ q # "idle" /\ j.op \in {"create", "remove", "patch"} => j.target \in Users
  /\ q # "idle" /\ j.op \in {"create", "patch"} => j.grant \in Granted
  /\ q # "idle" /\ j.op \in {"revoke", "accept"} => j.invite \in Invites
  /\ q \notin {"idle", "resolve"} => j.account \in Accounts /\ j.role \in Roles
  /\ q \in {"signInMember", "signInUser"} => j.record \in Member
  /\ q = "readTeam" => j.op \in {"create", "accept"} /\ (j.op = "create" => j.role \in Managers)
  /\ q \in {"putInvite", "putToken"} => j.op = "create" /\ j.invite \in Invites
  /\ q \in {"getToken", "getInvite", "findToken", "delInvite", "delToken"} =>
       j.op \in {"revoke", "accept"}
  /\ q = "getUser" => j.op = "accept"
  /\ q = "getMember" => j.op \in {"remove", "patch"} /\ j.role \in Managers
  /\ q \in {"delMember", "delUser"} => j.op \in {"remove", "accept"}
  /\ q \in {"putMember", "putUser"} => j.op \in {"patch", "accept"}
  /\ q \in {"getMember", "delMember", "delUser", "putMember", "putUser"} /\ j.op # "accept" =>
       j.target # j.caller
  /\ q \in {"getUser", "readTeam", "delMember", "delUser", "putMember", "putUser"} /\ j.op = "accept" =>
       j.record \in Member
  /\ q \in {"putMember", "putUser"} => j.record \in Member
  /\ (q \in {"delMember", "delUser"} \/ (q = "readTeam" /\ j.op = "accept")) =>
       j.leaving \in Accounts

Shape == \A t \in Tasks : JobShape(pc[t], job[t])

Typed == TypeOK /\ Shape

LEMMA NoJobIsJob == NoJob \in Job /\ JobShape("idle", NoJob)
  BY DEF NoJob, Job, JobShape

LEMMA HasShape == ASSUME Typed, NEW t \in Tasks PROVE job[t] \in Job /\ JobShape(pc[t], job[t])
  BY DEF Typed, TypeOK, Shape

\* One task moves, the others stay.
LEMMA GoFacts ==
  ASSUME Typed, NEW t \in Tasks, NEW from, NEW to, NEW j, Go(t, from, to, j)
  PROVE  /\ pc[t] = from /\ pc'[t] = to
         /\ job'[t] = IF to = "idle" THEN NoJob ELSE j
         /\ \A s \in Tasks \ {t} : pc'[s] = pc[s] /\ job'[s] = job[s]
  BY DEF Go, Goto, Typed, TypeOK

\* A task goes on with locals that fit where it goes.
LEMMA GoTyped ==
  ASSUME Typed, NEW t \in Tasks, NEW from, NEW to \in Pcs, NEW j,
         to # "idle" => j \in Job /\ JobShape(to, j),
         Go(t, from, to, j)
  PROVE  pc' \in [Tasks -> Pcs] /\ job' \in [Tasks -> Job] /\ Shape'
<1> DEFINE k == IF to = "idle" THEN NoJob ELSE j
<1>1. k \in Job /\ JobShape(to, k)
  BY NoJobIsJob
<1>2. pc' = [pc EXCEPT ![t] = to] /\ job' = [job EXCEPT ![t] = k]
  BY DEF Go, Goto
<1> HIDE DEF k
<1>3. pc' \in [Tasks -> Pcs] /\ job' \in [Tasks -> Job]
  BY <1>1, <1>2 DEF Typed, TypeOK
<1>4. ASSUME NEW s \in Tasks PROVE JobShape(pc'[s], job'[s])
  <2>1. CASE s = t
    BY <1>1, <1>2, <2>1 DEF Typed, TypeOK
  <2>2. CASE s # t
    <3>1. pc'[s] = pc[s] /\ job'[s] = job[s]
      BY <1>2, <2>2 DEF Typed, TypeOK
    <3> QED BY <3>1 DEF Typed, Shape
  <2> QED BY <2>1, <2>2
<1> QED BY <1>3, <1>4 DEF Shape, JobShape

\* A task goes on with the locals it has, or ends.
LEMMA GoesOn ==
  ASSUME Typed, NEW t \in Tasks, NEW from, NEW to \in Pcs,
         to # "idle" => JobShape(to, job[t]),
         Go(t, from, to, job[t])
  PROVE  pc' \in [Tasks -> Pcs] /\ job' \in [Tasks -> Job] /\ Shape'
  BY HasShape, GoTyped

LEMMA CallTyped ==
  ASSUME Typed, NEW t \in Tasks, NEW u \in Users, NEW op \in AllOps,
         NEW v \in Users \cup {None}, NEW i \in Invites \cup {None},
         NEW role \in Granted \cup {"none"}, NEW p \in Profiles \cup {None},
         Call(t, u, op, v, i, role, p),
         op \in {"create", "remove", "patch"} => v \in Users,
         op \in {"create", "patch"} => role \in Granted,
         op \in {"revoke", "accept"} => i \in Invites
  PROVE  Typed'
<1> DEFINE j == [op |-> op, caller |-> u, account |-> None, role |-> "none",
                 target |-> v, invite |-> i, grant |-> role, profile |-> p,
                 record |-> None, leaving |-> None]
<1>1. Go(t, "idle", "resolve", j)
  BY DEF Call
<1>2. j \in Job
  BY DEF Job
<1>3. JobShape("resolve", j)
  BY DEF JobShape
<1> HIDE DEF j
<1>4. pc' \in [Tasks -> Pcs] /\ job' \in [Tasks -> Job] /\ Shape'
  BY <1>1, <1>2, <1>3, GoTyped DEF Pcs
<1>5. \A k \in Job : About(k) \in SUBSET Users
  BY DEF About, Job
<1>6. disturbed' \in SUBSET Users
  <2>1. \A s \in Tasks : About(job[s]) \in SUBSET Users
    BY <1>5, HasShape
  <2> QED BY <2>1 DEF Call, Typed, TypeOK
<1>7. calls' \in 0..MaxCalls
  BY BoundsAssumption DEF Call, Typed, TypeOK
<1>8. UNCHANGED <<members, invites, faults, grants, cut, accepted>>
  BY DEF Call
<1> QED BY <1>4, <1>6, <1>7, <1>8 DEF Typed, TypeOK, members, invites

LEMMA ArriveTyped == ASSUME Typed, NEW t \in Tasks, Arrive(t) PROVE Typed'
<1>1. PICK u \in Users :
        \/ \E p \in Profiles : Call(t, u, "list", None, None, "none", p)
        \/ \E v \in Users, role \in Granted : Call(t, u, "create", v, None, role, None)
        \/ \E i \in issued : Call(t, u, "revoke", None, i, "none", None)
        \/ \E v \in Users : Call(t, u, "remove", v, None, "none", None)
        \/ \E v \in Users, role \in Granted : Call(t, u, "patch", v, None, role, None)
        \/ \E i \in issued : Call(t, u, "accept", None, i, "none", None)
  BY DEF Arrive
<1>2. issued \subseteq Invites
  BY DEF Typed, TypeOK
<1> QED BY <1>1, <1>2, CallTyped DEF AllOps

\* The handler starts with what the sign-in found.
LEMMA HandlerFits ==
  ASSUME NEW k \in Job, JobShape("resolve", k), NEW j \in Job,
         j.op = k.op, j.caller = k.caller, j.target = k.target, j.grant = k.grant,
         j.invite = k.invite, j.account \in Accounts, j.role \in Roles
  PROVE  Handler(k, j.role) \in Pcs /\ JobShape(Handler(k, j.role), j)
<1> DEFINE q == Handler(k, j.role)
<1>1. /\ k.op \in AllOps /\ k.caller \in Users
      /\ k.op \in {"create", "remove", "patch"} => k.target \in Users
      /\ k.op \in {"create", "patch"} => k.grant \in Granted
      /\ k.op \in {"revoke", "accept"} => k.invite \in Invites
  BY DEF JobShape
<1>2. \/ q = "idle"
      \/ q = "getToken" /\ k.op \in {"accept", "revoke"}
      \/ q = "readTeam" /\ k.op = "create" /\ j.role \in Managers
      \/ q = "getMember" /\ k.op \in {"remove", "patch"} /\ j.role \in Managers
         /\ k.target # k.caller
  BY <1>1 DEF Handler, AllOps
<1> HIDE DEF q
<1>3. q \in Pcs
  BY <1>2 DEF Pcs
<1>4. JobShape(q, j)
  BY <1>1, <1>2 DEF JobShape
<1> QED BY <1>3, <1>4 DEF q

LEMMA ResolvedIsJob ==
  ASSUME NEW k \in Job, NEW a \in Accounts, NEW r \in Roles, NEW x \in Member \cup {None}
  PROVE  [k EXCEPT !.account = a, !.role = r, !.record = x] \in Job
  BY DEF Job

LEMMA ResolveTyped == ASSUME Typed, NEW t \in Tasks, Resolve(t) PROVE Typed'
<1> DEFINE k   == job[t]
           row == userRow[k.caller]
           own == [account |-> k.caller, role |-> "owner", profile |-> k.profile]
           rec == CASE row = None -> own
                    [] row # None /\ k.profile = None -> row
                    [] row # None /\ k.profile # None ->
                         [account |-> row.account, role |-> row.role, profile |-> k.profile]
           to  == IF rec = row THEN Handler(k, row.role) ELSE "signInMember"
           j   == [k EXCEPT !.account = rec.account, !.role = rec.role,
                            !.record = IF rec = row THEN None ELSE rec]
<1>1. k \in Job /\ JobShape("resolve", k)
  BY HasShape DEF Resolve, Go, Goto
<1>2. Go(t, "resolve", to, j) /\ UNCHANGED <<members, invites, calls, faults, history>>
  BY DEF Resolve
<1>3. k.caller \in Users /\ row \in Member \cup {None}
  BY <1>1 DEF JobShape, Typed, TypeOK
<1>4. rec \in Member
  <2>1. own \in Member
    BY <1>1, <1>3 DEF Member, Accounts, Roles, Job
  <2>2. row # None => [account |-> row.account, role |-> row.role, profile |-> k.profile] \in Member
    BY <1>1, <1>3 DEF Member, Job
  <2> QED BY <1>3, <2>1, <2>2
<1> HIDE DEF rec
<1>5. j \in Job
  <2>1. rec.account \in Accounts /\ rec.role \in Roles
    BY <1>4 DEF Member
  <2> QED BY <1>1, <1>4, <2>1, ResolvedIsJob
<1>6. /\ j.op = k.op /\ j.caller = k.caller /\ j.target = k.target /\ j.grant = k.grant
      /\ j.invite = k.invite /\ j.account = rec.account /\ j.role = rec.role
      /\ j.record = IF rec = row THEN None ELSE rec
  BY <1>1 DEF Job
<1>7. j.account \in Accounts /\ j.role \in Roles
  BY <1>4, <1>6 DEF Member
<1>8. to \in Pcs /\ JobShape(to, j)
  <2>1. CASE rec = row
    BY <1>1, <1>5, <1>6, <1>7, <2>1, HandlerFits
  <2>2. CASE rec # row
    BY <1>1, <1>4, <1>6, <1>7, <2>2 DEF JobShape, Pcs
  <2> QED BY <2>1, <2>2
<1> HIDE DEF to, j
<1>9. pc' \in [Tasks -> Pcs] /\ job' \in [Tasks -> Job] /\ Shape'
  BY <1>2, <1>5, <1>8, GoTyped
<1> QED BY <1>2, <1>9 DEF Typed, TypeOK, members, invites, history

LEMMA SignInMemberTyped == ASSUME Typed, NEW t \in Tasks, SignInMember(t) PROVE Typed'
<1> DEFINE k == job[t]
<1>1. k \in Job /\ JobShape("signInMember", k) /\ JobShape("signInUser", k)
  BY HasShape DEF SignInMember, Go, Goto, JobShape
<1>2. pc' \in [Tasks -> Pcs] /\ job' \in [Tasks -> Job] /\ Shape'
  BY <1>1, GoesOn DEF SignInMember, Pcs
<1>3. k.record \in Member /\ k.record.account \in Accounts /\ k.caller \in Users
  BY <1>1 DEF JobShape, Member
<1>4. memberRow' \in [Accounts -> [Users -> Member \cup {None}]]
  BY <1>3 DEF SignInMember, Typed, TypeOK
<1> QED BY <1>2, <1>4 DEF SignInMember, Typed, TypeOK, invites, history

LEMMA SignInUserTyped == ASSUME Typed, NEW t \in Tasks, SignInUser(t) PROVE Typed'
<1> DEFINE k == job[t]
           j == [k EXCEPT !.record = None]
           to == Handler(k, k.role)
<1>1. k \in Job /\ JobShape("signInUser", k) /\ JobShape("resolve", k)
  BY HasShape DEF SignInUser, Go, Goto, JobShape
<1>2. /\ Go(t, "signInUser", to, j) /\ userRow' = [userRow EXCEPT ![k.caller] = k.record]
      /\ UNCHANGED <<memberRow, invites, calls, faults, history>>
  BY DEF SignInUser
<1>3. j \in Job
  BY <1>1 DEF Job
<1>4. /\ j.op = k.op /\ j.caller = k.caller /\ j.target = k.target /\ j.grant = k.grant
      /\ j.invite = k.invite /\ j.account = k.account /\ j.role = k.role
  BY <1>1 DEF Job
<1>5. k.account \in Accounts /\ k.role \in Roles /\ k.record \in Member /\ k.caller \in Users
  BY <1>1 DEF JobShape
<1> HIDE DEF j
<1>6. to \in Pcs /\ JobShape(to, j)
  BY <1>1, <1>3, <1>4, <1>5, HandlerFits
<1> HIDE DEF to
<1>7. pc' \in [Tasks -> Pcs] /\ job' \in [Tasks -> Job] /\ Shape'
  BY <1>2, <1>3, <1>6, GoTyped
<1>8. userRow' \in [Users -> Member \cup {None}]
  BY <1>2, <1>5 DEF Typed, TypeOK
<1> QED BY <1>2, <1>7, <1>8 DEF Typed, TypeOK, invites, history

LEMMA GrantingTyped ==
  ASSUME Typed, NEW j \in Job, j.grant \in Granted, NEW a \in Accounts, NEW u \in Users
  PROVE  Granting(a, u, j) \in SUBSET Grant
  BY DEF Granting, Grant, Typed, TypeOK

LEMMA ReadTeamToInviteTyped == ASSUME Typed, NEW t \in Tasks, ReadTeamToInvite(t) PROVE Typed'
<1> DEFINE k == job[t]
<1>1. k \in Job /\ JobShape("readTeam", k) /\ k.op = "create"
  BY HasShape DEF ReadTeamToInvite
<1>2. k.account \in Accounts /\ k.target \in Users /\ k.grant \in Granted
  BY <1>1 DEF JobShape
<1>3. UNCHANGED <<members, inviteRow, tokenRow, expired, calls, faults, cut, accepted, disturbed>>
  BY DEF ReadTeamToInvite
<1>4. CASE Conflict(k.account, k.target)
  <2>1. Go(t, "readTeam", "idle", k) /\ UNCHANGED <<issued, grants>>
    BY <1>4 DEF ReadTeamToInvite
  <2>2. pc' \in [Tasks -> Pcs] /\ job' \in [Tasks -> Job] /\ Shape'
    BY <2>1, GoesOn DEF Pcs
  <2> QED BY <1>3, <2>1, <2>2 DEF Typed, TypeOK, members
<1>5. CASE ~Conflict(k.account, k.target)
  <2>1. PICK i \in Invites \ issued :
          Go(t, "readTeam", "putInvite", [k EXCEPT !.invite = i]) /\ issued' = issued \cup {i}
    BY <1>5 DEF ReadTeamToInvite
  <2> DEFINE j == [k EXCEPT !.invite = i]
  <2>2. j \in Job /\ JobShape("putInvite", j)
    BY <1>1 DEF Job, JobShape
  <2> HIDE DEF j
  <2>3. pc' \in [Tasks -> Pcs] /\ job' \in [Tasks -> Job] /\ Shape'
    BY <2>1, <2>2, GoTyped DEF Pcs, j
  <2>4. grants' \in SUBSET Grant
    BY <1>1, <1>2, <1>5, GrantingTyped DEF ReadTeamToInvite
  <2> QED BY <1>3, <2>1, <2>3, <2>4 DEF Typed, TypeOK, members
<1> QED BY <1>4, <1>5

LEMMA MakeInviteTyped == ASSUME Typed, NEW t \in Tasks, PutInvite(t) \/ PutToken(t) PROVE Typed'
<1> DEFINE k == job[t]
<1>1. k \in Job /\ JobShape(pc[t], k) /\ pc[t] \in {"putInvite", "putToken"}
  BY HasShape DEF PutInvite, PutToken, Go, Goto
<1>2. /\ k.account \in Accounts /\ k.target \in Users /\ k.grant \in Granted /\ k.invite \in Invites
      /\ JobShape("putToken", k)
  BY <1>1 DEF JobShape
<1>3. CASE PutInvite(t)
  <2>1. pc' \in [Tasks -> Pcs] /\ job' \in [Tasks -> Job] /\ Shape'
    BY <1>2, <1>3, GoesOn DEF PutInvite, Pcs
  <2>2. [account |-> k.account, email |-> k.target, role |-> k.grant] \in Invite
    BY <1>2 DEF Invite
  <2>3. inviteRow' \in [Invites -> Invite \cup {None}]
    BY <1>2, <1>3, <2>2 DEF PutInvite, Typed, TypeOK
  <2> QED BY <1>3, <2>1, <2>3 DEF PutInvite, Typed, TypeOK, members, history
<1>4. CASE PutToken(t)
  <2>1. pc' \in [Tasks -> Pcs] /\ job' \in [Tasks -> Job] /\ Shape'
    BY <1>4, GoesOn DEF PutToken, Pcs
  <2>2. tokenRow' \in [Invites -> Accounts \cup {None}]
    BY <1>2, <1>4 DEF PutToken, Typed, TypeOK
  <2> QED BY <1>4, <2>1, <2>2 DEF PutToken, Typed, TypeOK, members, history
<1> QED BY <1>3, <1>4

LEMMA GetInviteTyped == ASSUME Typed, NEW t \in Tasks, GetToken(t) \/ GetInvite(t) PROVE Typed'
<1> DEFINE k == job[t]
<1>1. k \in Job /\ JobShape(pc[t], k) /\ pc[t] \in {"getToken", "getInvite"}
  BY HasShape DEF GetToken, GetInvite, Go, Goto
<1>2. UNCHANGED <<members, invites, calls, faults, history>>
  BY DEF GetToken, GetInvite
<1>3. pc' \in [Tasks -> Pcs] /\ job' \in [Tasks -> Job] /\ Shape'
  <2>1. CASE GetToken(t)
    <3> DEFINE to == IF tokenRow[k.invite] = None THEN "idle" ELSE "getInvite"
    <3>1. to \in Pcs /\ (to # "idle" => JobShape(to, k))
      BY <1>1 DEF JobShape, Pcs
    <3>2. Go(t, "getToken", to, k)
      BY <2>1 DEF GetToken
    <3> HIDE DEF to
    <3> QED BY <3>1, <3>2, GoesOn
  <2>2. CASE GetInvite(t)
    <3> DEFINE inv == inviteRow[k.invite]
               to  == CASE inv = None -> "idle"
                        [] inv # None /\ k.op = "revoke" ->
                             IF inv.account = k.account THEN "findToken" ELSE "idle"
                        [] inv # None /\ k.op = "accept" ->
                             IF k.invite \in expired THEN "findToken"
                             ELSE IF MayAccept(inv, k.caller) THEN "getUser" ELSE "idle"
                        [] OTHER -> "idle"
               j   == [k EXCEPT !.record = IF to = "getUser" THEN Joined(inv, k) ELSE None]
    <3>1. Go(t, "getInvite", to, j)
      BY <2>2 DEF GetInvite
    <3>2. /\ k.op \in {"revoke", "accept"} /\ k.invite \in Invites /\ k.caller \in Users
          /\ k.account \in Accounts /\ k.role \in Roles
      BY <1>1 DEF JobShape
    <3>3. inv \in Invite \cup {None}
      BY <3>2 DEF Typed, TypeOK
    <3>4. /\ to \in {"idle", "findToken", "getUser"}
          /\ to = "getUser" => k.op = "accept" /\ inv \in Invite
      <4>1. CASE inv = None
        <5>1. to = "idle" BY <4>1
        <5> QED BY <5>1
      <4>2. CASE inv # None /\ k.op = "revoke"
        <5>1. to = IF inv.account = k.account THEN "findToken" ELSE "idle" BY <4>2
        <5> QED BY <5>1
      <4>3. CASE inv # None /\ k.op = "accept"
        <5>1. to = IF k.invite \in expired THEN "findToken"
                   ELSE IF MayAccept(inv, k.caller) THEN "getUser" ELSE "idle"
          BY <4>3
        <5> QED BY <3>3, <4>3, <5>1
      <4> QED BY <3>2, <4>1, <4>2, <4>3
    <3>5. to = "getUser" => Joined(inv, k) \in Member
      BY <1>1, <3>4 DEF Joined, Invite, Member, Granted, Roles, Job
    <3> HIDE DEF to, inv
    <3>6. j \in Job
      BY <1>1, <3>5 DEF Job
    <3>7. /\ j.op = k.op /\ j.caller = k.caller /\ j.invite = k.invite
          /\ j.account = k.account /\ j.role = k.role
          /\ j.record = IF to = "getUser" THEN Joined(inv, k) ELSE None
      BY <1>1 DEF Job
    <3> HIDE DEF j
    <3>8. JobShape(to, j)
      BY <3>2, <3>4, <3>5, <3>7 DEF JobShape, AllOps
    <3> QED BY <3>1, <3>4, <3>6, <3>8, GoTyped DEF Pcs
  <2> QED BY <2>1, <2>2
<1> QED BY <1>2, <1>3 DEF Typed, TypeOK, members, invites, history

LEMMA DropInviteTyped ==
  ASSUME Typed, NEW t \in Tasks, FindToken(t) \/ DelInvite(t) \/ DelToken(t) PROVE Typed'
<1> DEFINE k == job[t]
<1>1. /\ k \in Job /\ JobShape(pc[t], k) /\ pc[t] \in {"findToken", "delInvite", "delToken"}
  BY HasShape DEF FindToken, DelInvite, DelToken, Go, Goto
<1>2. k.invite \in Invites /\ JobShape("delInvite", k) /\ JobShape("delToken", k)
  BY <1>1 DEF JobShape
<1>3. CASE FindToken(t)
  <2> DEFINE to == IF tokenRow[k.invite] = None THEN "delToken" ELSE "delInvite"
  <2>1. Go(t, "findToken", to, k)
    BY <1>3 DEF FindToken
  <2>2. to \in Pcs /\ JobShape(to, k)
    BY <1>2 DEF Pcs
  <2> HIDE DEF to
  <2>3. pc' \in [Tasks -> Pcs] /\ job' \in [Tasks -> Job] /\ Shape'
    BY <2>1, <2>2, GoesOn
  <2> QED BY <1>3, <2>3 DEF FindToken, Typed, TypeOK, members, invites, history
<1>4. CASE DelInvite(t)
  <2>1. pc' \in [Tasks -> Pcs] /\ job' \in [Tasks -> Job] /\ Shape'
    BY <1>2, <1>4, GoesOn DEF DelInvite, Pcs
  <2>2. inviteRow' \in [Invites -> Invite \cup {None}]
    BY <1>4 DEF DelInvite, Typed, TypeOK
  <2> QED BY <1>4, <2>1, <2>2 DEF DelInvite, Typed, TypeOK, members, history
<1>5. CASE DelToken(t)
  <2>1. pc' \in [Tasks -> Pcs] /\ job' \in [Tasks -> Job] /\ Shape'
    BY <1>5, GoesOn DEF DelToken, Pcs
  <2>2. tokenRow' \in [Invites -> Accounts \cup {None}] /\ accepted' \in SUBSET Invites
    BY <1>2, <1>5 DEF DelToken, Typed, TypeOK
  <2> QED BY <1>5, <2>1, <2>2 DEF DelToken, Typed, TypeOK, members
<1> QED BY <1>3, <1>4, <1>5

LEMMA GetUserTyped == ASSUME Typed, NEW t \in Tasks, GetUser(t) PROVE Typed'
<1> DEFINE k   == job[t]
           row == userRow[k.caller]
           to  == CASE row = None -> "putMember"
                    [] row # None /\ row.account = k.record.account -> "idle"
                    [] row # None /\ row.account # k.record.account ->
                         IF row.role = "owner" THEN "readTeam" ELSE "delMember"
           a   == IF to \in {"readTeam", "delMember"} THEN row.account ELSE None
           j   == [k EXCEPT !.leaving = a]
<1>1. k \in Job /\ JobShape("getUser", k)
  BY HasShape DEF GetUser, Go, Goto
<1>2. Go(t, "getUser", to, j) /\ UNCHANGED <<members, invites, calls, faults, history>>
  BY DEF GetUser
<1>3. k.caller \in Users /\ row \in Member \cup {None}
  BY <1>1 DEF JobShape, Typed, TypeOK
<1>4. to \in {"putMember", "idle", "readTeam", "delMember"}
  OBVIOUS
<1>5. to \in {"readTeam", "delMember"} => row # None
  OBVIOUS
<1> HIDE DEF to
<1>6. /\ a \in Accounts \cup {None}
      /\ to \in {"readTeam", "delMember"} => a \in Accounts
  BY <1>3, <1>5 DEF Member
<1> HIDE DEF a
<1>7. j \in Job
  BY <1>1, <1>6 DEF Job
<1>8. /\ j.op = k.op /\ j.caller = k.caller /\ j.invite = k.invite /\ j.account = k.account
      /\ j.role = k.role /\ j.record = k.record /\ j.leaving = a
  BY <1>1 DEF Job
<1> HIDE DEF j
<1>9. JobShape(to, j)
  BY <1>1, <1>4, <1>6, <1>8 DEF JobShape
<1>10. pc' \in [Tasks -> Pcs] /\ job' \in [Tasks -> Job] /\ Shape'
  BY <1>2, <1>4, <1>7, <1>9, GoTyped DEF Pcs
<1> QED BY <1>2, <1>10 DEF Typed, TypeOK, members, invites, history

LEMMA ReadTeamToLeaveTyped == ASSUME Typed, NEW t \in Tasks, ReadTeamToLeave(t) PROVE Typed'
<1> DEFINE k  == job[t]
           to == IF Cardinality(TeamOf(k.leaving)) > 1 \/ LiveInvites(k.leaving) # {}
                 THEN "idle" ELSE "delMember"
<1>1. k \in Job /\ JobShape("readTeam", k) /\ k.op = "accept"
  BY HasShape DEF ReadTeamToLeave, Go, Goto
<1>2. Go(t, "readTeam", to, k) /\ UNCHANGED <<members, invites, calls, faults, history>>
  BY DEF ReadTeamToLeave
<1>3. to \in Pcs /\ (to # "idle" => JobShape(to, k))
  BY <1>1 DEF JobShape, Pcs
<1> HIDE DEF to
<1>4. pc' \in [Tasks -> Pcs] /\ job' \in [Tasks -> Job] /\ Shape'
  BY <1>2, <1>3, GoesOn
<1> QED BY <1>2, <1>4 DEF Typed, TypeOK, members, invites, history

LEMMA GetMemberTyped == ASSUME Typed, NEW t \in Tasks, GetMember(t) PROVE Typed'
<1> DEFINE k   == job[t]
           row == memberRow[k.account][k.target]
<1>1. k \in Job /\ JobShape("getMember", k)
  BY HasShape DEF GetMember
<1>2. k.account \in Accounts /\ k.target \in Users /\ k.target # k.caller /\ k.role \in Managers
  BY <1>1 DEF JobShape
<1>3. row \in Member \cup {None}
  BY <1>2 DEF Typed, TypeOK
<1>4. UNCHANGED <<members, invites, calls, faults, cut, accepted, disturbed>>
  BY DEF GetMember
<1>5. pc' \in [Tasks -> Pcs] /\ job' \in [Tasks -> Job] /\ Shape' /\ grants' \in SUBSET Grant
  <2>1. CASE Go(t, "getMember", "idle", k) /\ UNCHANGED grants
    BY <2>1, GoesOn DEF Pcs, Typed, TypeOK
  <2>2. CASE k.op = "remove" /\ UNCHANGED grants
             /\ Go(t, "getMember", "delMember", [k EXCEPT !.leaving = k.account])
    <3> DEFINE j == [k EXCEPT !.leaving = k.account]
    <3>1. j \in Job
      BY <1>1, <1>2 DEF Job
    <3>2. /\ j.op = k.op /\ j.caller = k.caller /\ j.target = k.target /\ j.account = k.account
          /\ j.role = k.role /\ j.leaving = k.account
      BY <1>1 DEF Job
    <3> HIDE DEF j
    <3>3. JobShape("delMember", j)
      BY <1>1, <1>2, <2>2, <3>2 DEF JobShape
    <3> QED BY <2>2, <3>1, <3>3, GoTyped DEF Pcs, Typed, TypeOK, j
  <2>3. CASE k.op = "patch" /\ row # None /\ grants' = Granting(row.account, k.target, k)
             /\ Go(t, "getMember", "putMember",
                   [k EXCEPT !.record =
                      [account |-> row.account, role |-> k.grant, profile |-> row.profile]])
    <3> DEFINE r == [account |-> row.account, role |-> k.grant, profile |-> row.profile]
               j == [k EXCEPT !.record = r]
    <3>1. k.grant \in Granted
      BY <1>1, <2>3 DEF JobShape
    <3>2. r \in Member /\ row.account \in Accounts
      BY <1>3, <2>3, <3>1 DEF Member, Granted, Roles
    <3> HIDE DEF r
    <3>3. j \in Job
      BY <1>1, <3>2 DEF Job
    <3>4. /\ j.op = k.op /\ j.caller = k.caller /\ j.target = k.target /\ j.account = k.account
          /\ j.role = k.role /\ j.grant = k.grant /\ j.record = r
      BY <1>1 DEF Job
    <3> HIDE DEF j
    <3>5. JobShape("putMember", j)
      BY <1>1, <1>2, <2>3, <3>1, <3>2, <3>4 DEF JobShape
    <3>6. grants' \in SUBSET Grant
      BY <1>1, <1>2, <2>3, <3>1, <3>2, GrantingTyped
    <3> QED BY <2>3, <3>3, <3>5, <3>6, GoTyped DEF Pcs, j, r
  <2> QED BY <2>1, <2>2, <2>3 DEF GetMember, Untouchable
<1> QED BY <1>4, <1>5 DEF Typed, TypeOK, members, invites

\* Whom a task that writes a membership writes about.
LEMMA SubjectIsUser ==
  ASSUME Typed, NEW t \in Tasks, pc[t] \in {"delMember", "delUser", "putMember", "putUser"}
  PROVE  Subject(job[t]) \in Users
<1>1. JobShape(pc[t], job[t])
  BY HasShape
<1> QED BY <1>1 DEF JobShape, Subject

LEMMA DeleteTyped == ASSUME Typed, NEW t \in Tasks, DelMember(t) \/ DelUser(t) PROVE Typed'
<1> DEFINE k == job[t]
<1>1. k \in Job /\ JobShape(pc[t], k) /\ pc[t] \in {"delMember", "delUser"}
  BY HasShape DEF DelMember, DelUser, Go, Goto
<1>2. k.leaving \in Accounts /\ Subject(k) \in Users
  BY <1>1, SubjectIsUser DEF JobShape
<1>3. CASE DelMember(t)
  <2>1. JobShape("delUser", k)
    BY <1>1 DEF JobShape
  <2>2. pc' \in [Tasks -> Pcs] /\ job' \in [Tasks -> Job] /\ Shape'
    BY <1>3, <2>1, GoesOn DEF DelMember, Pcs
  <2>3. memberRow' \in [Accounts -> [Users -> Member \cup {None}]]
    BY <1>2, <1>3 DEF DelMember, Typed, TypeOK
  <2> QED BY <1>3, <2>2, <2>3 DEF DelMember, Typed, TypeOK, invites, history
<1>4. CASE DelUser(t)
  <2> DEFINE to == IF k.op = "accept" THEN "putMember" ELSE "idle"
  <2>1. to \in Pcs /\ (to # "idle" => JobShape(to, k))
    BY <1>1 DEF JobShape, Pcs
  <2>2. Go(t, "delUser", to, k)
    BY <1>4 DEF DelUser
  <2> HIDE DEF to
  <2>3. pc' \in [Tasks -> Pcs] /\ job' \in [Tasks -> Job] /\ Shape'
    BY <2>1, <2>2, GoesOn
  <2>4. userRow' \in [Users -> Member \cup {None}]
    BY <1>2, <1>4 DEF DelUser, Typed, TypeOK
  <2> QED BY <1>4, <2>3, <2>4 DEF DelUser, Typed, TypeOK, invites, history
<1> QED BY <1>3, <1>4

LEMMA PutTyped == ASSUME Typed, NEW t \in Tasks, PutMember(t) \/ PutUser(t) PROVE Typed'
<1> DEFINE k == job[t]
<1>1. k \in Job /\ JobShape(pc[t], k) /\ pc[t] \in {"putMember", "putUser"}
  BY HasShape DEF PutMember, PutUser, Go, Goto
<1>2. k.record \in Member /\ k.record.account \in Accounts /\ Subject(k) \in Users
  BY <1>1, SubjectIsUser DEF JobShape, Member
<1>3. CASE PutMember(t)
  <2>1. JobShape("putUser", k)
    BY <1>1 DEF JobShape
  <2>2. pc' \in [Tasks -> Pcs] /\ job' \in [Tasks -> Job] /\ Shape'
    BY <1>3, <2>1, GoesOn DEF PutMember, Pcs
  <2>3. memberRow' \in [Accounts -> [Users -> Member \cup {None}]]
    BY <1>2, <1>3 DEF PutMember, Typed, TypeOK
  <2> QED BY <1>3, <2>2, <2>3 DEF PutMember, Typed, TypeOK, invites, history
<1>4. CASE PutUser(t)
  <2> DEFINE to == IF k.op = "accept" THEN "findToken" ELSE "idle"
  <2>1. to \in Pcs /\ (to # "idle" => JobShape(to, k))
    BY <1>1 DEF JobShape, Pcs
  <2>2. Go(t, "putUser", to, k)
    BY <1>4 DEF PutUser
  <2> HIDE DEF to
  <2>3. pc' \in [Tasks -> Pcs] /\ job' \in [Tasks -> Job] /\ Shape'
    BY <2>1, <2>2, GoesOn
  <2>4. userRow' \in [Users -> Member \cup {None}]
    BY <1>2, <1>4 DEF PutUser, Typed, TypeOK
  <2> QED BY <1>4, <2>3, <2>4 DEF PutUser, Typed, TypeOK, invites, history
<1> QED BY <1>3, <1>4

LEMMA FailTyped == ASSUME Typed, NEW t \in Tasks, Fail(t) PROVE Typed'
<1>1. job[t] \in Job /\ JobShape(pc[t], job[t]) /\ Go(t, pc[t], "idle", NoJob)
  BY HasShape DEF Fail
<1>2. pc' \in [Tasks -> Pcs] /\ job' \in [Tasks -> Job] /\ Shape'
  BY <1>1, GoTyped DEF Pcs
<1>3. cut' \in SUBSET Invites
  BY <1>1 DEF Fail, JobShape, Typed, TypeOK
<1>4. disturbed' \in SUBSET Users
  <2>1. About(job[t]) \in SUBSET Users
    BY <1>1 DEF About, Job
  <2> QED BY <2>1 DEF Fail, Typed, TypeOK
<1>5. faults' \in 0..MaxFaults
  BY BoundsAssumption DEF Fail, Typed, TypeOK
<1> QED BY <1>2, <1>3, <1>4, <1>5 DEF Fail, Typed, TypeOK, members, invites

LEMMA TimeTyped == ASSUME Typed, NEW i \in Invites, Expire(i) \/ TimeToLive(i) PROVE Typed'
<1>1. UNCHANGED <<memberRow, userRow, issued, pc, job, calls, faults, grants, cut, accepted, disturbed>>
  BY DEF Expire, TimeToLive, members, history
<1>2. /\ inviteRow' \in [Invites -> Invite \cup {None}]
      /\ tokenRow' \in [Invites -> Accounts \cup {None}]
      /\ expired' \in SUBSET Invites
  BY DEF Expire, TimeToLive, Typed, TypeOK
<1>3. Shape'
  BY <1>1 DEF Shape, JobShape, Typed
<1> QED BY <1>1, <1>2, <1>3 DEF Typed, TypeOK

LEMMA NextTyped == Typed /\ [Next]_vars => Typed'
<1> SUFFICES ASSUME Typed, [Next]_vars PROVE Typed'
  OBVIOUS
<1>1. CASE UNCHANGED vars
  BY <1>1 DEF vars, Typed, TypeOK, Shape, JobShape
<1>2. ASSUME NEW t \in Tasks, Step(t) PROVE Typed'
  BY <1>2, ResolveTyped, SignInMemberTyped, SignInUserTyped, ReadTeamToInviteTyped,
     MakeInviteTyped, GetInviteTyped, DropInviteTyped, GetUserTyped, ReadTeamToLeaveTyped,
     GetMemberTyped, DeleteTyped, PutTyped DEF Step
<1> QED BY <1>1, <1>2, ArriveTyped, FailTyped, TimeTyped DEF Next

LEMMA InitTyped == Init => Typed
<1> SUFFICES ASSUME Init PROVE Typed
  OBVIOUS
<1>1. pc \in [Tasks -> Pcs] /\ job \in [Tasks -> Job] /\ Shape
  BY NoJobIsJob DEF Init, Pcs, Shape
<1>2. memberRow \in [Accounts -> [Users -> Member \cup {None}]] /\ userRow \in [Users -> Member \cup {None}]
  BY DEF Init, Accounts
<1>3. PICK inv \in [issued -> Invite] :
        /\ inviteRow = [i \in Invites |-> IF i \in issued THEN inv[i] ELSE None]
        /\ tokenRow = [i \in Invites |-> IF i \in issued THEN inv[i].account ELSE None]
        /\ grants =
             {[account |-> userRow[u].account, user |-> u, role |-> userRow[u].role] :
                u \in {v \in Users : userRow[v].role # "owner"}} \cup
             {[account |-> inv[i].account, user |-> inv[i].email, role |-> inv[i].role] :
                i \in issued}
  BY DEF Init
<1>4. /\ inviteRow \in [Invites -> Invite \cup {None}]
      /\ tokenRow \in [Invites -> Accounts \cup {None}]
  BY <1>3 DEF Invite
<1>5. grants \in SUBSET Grant
  <2>1. ASSUME NEW u \in Users, userRow[u].role # "owner"
        PROVE  [account |-> userRow[u].account, user |-> u, role |-> userRow[u].role] \in Grant
    <3>1. userRow[u] \in Member
      BY DEF Init
    <3> QED BY <2>1, <3>1 DEF Grant, Member, Roles, Granted
  <2>2. ASSUME NEW i \in issued
        PROVE  [account |-> inv[i].account, user |-> inv[i].email, role |-> inv[i].role] \in Grant
    <3>1. inv[i] \in Invite
      OBVIOUS
    <3> QED BY <3>1 DEF Invite, Grant
  <2> QED BY <1>3, <2>1, <2>2
<1> QED BY <1>1, <1>2, <1>4, <1>5, BoundsAssumption DEF Init, Typed, TypeOK

LEMMA AlwaysTyped == Spec => []Typed
BY InitTyped, NextTyped, PTL DEF Spec

\* Every variable keeps its type: what a request writes back is a membership
\* or an invite wherever it stands, whatever requests meet and fail.
THEOREM TypeCorrect == Spec => []TypeOK
<1>1. Typed => TypeOK
  BY DEF Typed
<1> QED BY <1>1, AlwaysTyped, PTL

----------------------------------------------------------------------------
(* Who is in an account *)

\* LetIn, by the grants G.
InBy(G, a, u, row) ==
  IF row.role = "owner" THEN a = u ELSE [account |-> a, user |-> u, role |-> row.role] \in G

\* What a request at q with locals j is about to write was granted.
Held(G, q, j) ==
  /\ q \in {"signInMember", "signInUser"} => InBy(G, j.record.account, j.caller, j.record)
  /\ q = "putInvite" => [account |-> j.account, user |-> j.target, role |-> j.grant] \in G
  /\ q \in {"getUser", "readTeam", "delMember", "delUser", "putMember", "putUser"} /\ j.op = "accept" =>
       InBy(G, j.record.account, j.caller, j.record)
  /\ q \in {"putMember", "putUser"} /\ j.op = "patch" =>
       InBy(G, j.record.account, j.target, j.record)

MemberInv ==
  \A u \in Users :
    /\ userRow[u] # None => InBy(grants, userRow[u].account, u, userRow[u])
    /\ \A a \in Accounts : memberRow[a][u] # None =>
         memberRow[a][u].account = a /\ InBy(grants, a, u, memberRow[a][u])

InviteInv ==
  \A i \in Invites : inviteRow[i] # None =>
    [account |-> inviteRow[i].account, user |-> inviteRow[i].email, role |-> inviteRow[i].role] \in grants

HeldInv == \A t \in Tasks : Held(grants, pc[t], job[t])

LetInInv == MemberInv /\ InviteInv /\ HeldInv

\* Grants are never taken back.
LEMMA MoreGrants ==
  ASSUME NEW G, NEW H, G \subseteq H
  PROVE  /\ \A a, u, row : InBy(G, a, u, row) => InBy(H, a, u, row)
         /\ \A q, j : Held(G, q, j) => Held(H, q, j)
<1>1. \A a, u, row : InBy(G, a, u, row) => InBy(H, a, u, row)
  BY DEF InBy
<1> QED BY <1>1 DEF Held

LEMMA RowsKept ==
  ASSUME MemberInv, InviteInv, UNCHANGED <<memberRow, userRow, inviteRow>>, grants \subseteq grants'
  PROVE  MemberInv' /\ InviteInv'
<1>1. MemberInv'
  BY MoreGrants DEF MemberInv
<1>2. InviteInv'
  BY DEF InviteInv
<1> QED BY <1>1, <1>2

LEMMA HeldGoes ==
  ASSUME Typed, HeldInv, NEW t \in Tasks, NEW from, NEW to, NEW j, Go(t, from, to, j),
         grants \subseteq grants', to # "idle" => Held(grants', to, j)
  PROVE  HeldInv'
<1>1. Held(grants', "idle", NoJob)
  BY DEF Held
<1>2. Held(grants', pc'[t], job'[t])
  BY <1>1, GoFacts
<1>3. \A s \in Tasks \ {t} : Held(grants', pc'[s], job'[s])
  BY GoFacts, MoreGrants DEF HeldInv
<1> QED BY <1>2, <1>3 DEF HeldInv

\* What one write of a row changes.
LEMMA MemberWritten ==
  ASSUME Typed, NEW a \in Accounts, NEW u \in Users, NEW x,
         memberRow' = [memberRow EXCEPT ![a][u] = x]
  PROVE  \A b \in Accounts, v \in Users :
           memberRow'[b][v] = IF b = a /\ v = u THEN x ELSE memberRow[b][v]
<1>1. memberRow \in [Accounts -> [Users -> Member \cup {None}]]
  BY DEF Typed, TypeOK
<1> QED BY <1>1

LEMMA UserWritten ==
  ASSUME Typed, NEW u \in Users, NEW x, userRow' = [userRow EXCEPT ![u] = x]
  PROVE  \A v \in Users : userRow'[v] = IF v = u THEN x ELSE userRow[v]
<1>1. userRow \in [Users -> Member \cup {None}]
  BY DEF Typed, TypeOK
<1> QED BY <1>1

LEMMA HandlerGoes ==
  ASSUME NEW k, k.op \in AllOps, NEW role
  PROVE  \/ Handler(k, role) \in {"idle", "getToken", "getMember"}
         \/ Handler(k, role) = "readTeam" /\ k.op = "create"
<1>1. \/ Handler(k, role) = "idle" \/ Handler(k, role) = "getToken"
      \/ Handler(k, role) = "getMember"
      \/ Handler(k, role) = "readTeam" /\ k.op = "create"
  BY DEF Handler, AllOps
<1> QED BY <1>1

LEMMA ResolveHeld == ASSUME Typed, LetInInv, NEW t \in Tasks, Resolve(t) PROVE LetInInv'
<1> DEFINE k   == job[t]
           row == userRow[k.caller]
           own == [account |-> k.caller, role |-> "owner", profile |-> k.profile]
           rec == CASE row = None -> own
                    [] row # None /\ k.profile = None -> row
                    [] row # None /\ k.profile # None ->
                         [account |-> row.account, role |-> row.role, profile |-> k.profile]
           to  == IF rec = row THEN Handler(k, row.role) ELSE "signInMember"
           x   == IF rec = row THEN None ELSE rec
           j   == [k EXCEPT !.account = rec.account, !.role = rec.role, !.record = x]
<1>1. k \in Job /\ JobShape("resolve", k)
  BY HasShape DEF Resolve, Go, Goto
<1>2. Go(t, "resolve", to, j) /\ UNCHANGED <<members, invites, calls, faults, history>>
  BY DEF Resolve
<1>3. k.caller \in Users
  BY <1>1 DEF JobShape
<1>4. InBy(grants, rec.account, k.caller, rec)
  <2>1. row # None => InBy(grants, row.account, k.caller, row)
    BY <1>3 DEF LetInInv, MemberInv
  <2>2. InBy(grants, own.account, k.caller, own)
    BY DEF InBy
  <2>3. row # None =>
          InBy(grants, row.account, k.caller,
               [account |-> row.account, role |-> row.role, profile |-> k.profile])
    BY <2>1 DEF InBy
  <2> QED BY <2>1, <2>2, <2>3
<1> HIDE DEF rec
<1>5. j.caller = k.caller /\ j.record = x /\ j.op = k.op
  BY <1>1 DEF Job
<1>6. \/ to = "signInMember" \/ to \in {"idle", "getToken", "getMember"}
      \/ to = "readTeam" /\ k.op = "create"
  BY <1>1, HandlerGoes DEF JobShape
<1>7. to = "signInMember" => x = rec
  <2>1. k.op \in AllOps
    BY <1>1 DEF JobShape
  <2> QED BY <2>1, HandlerGoes
<1> HIDE DEF j, to, x
<1>8. Held(grants, to, j)
  BY <1>4, <1>5, <1>6, <1>7 DEF Held
<1>9. HeldInv'
  BY <1>2, <1>8, HeldGoes DEF LetInInv, history
<1> QED BY <1>2, <1>9, RowsKept DEF LetInInv, members, invites, history

\* A request that goes on with what it holds.
LEMMA HeldGoesOn ==
  ASSUME Typed, LetInInv, NEW t \in Tasks, NEW from, NEW to, Go(t, from, to, job[t]),
         grants \subseteq grants',
         Held(grants, from, job[t]) => Held(grants, to, job[t])
  PROVE  HeldInv'
<1>1. Held(grants, from, job[t])
  BY DEF LetInInv, HeldInv, Go, Goto
<1>2. Held(grants', to, job[t])
  BY <1>1, MoreGrants
<1> QED BY <1>2, HeldGoes DEF LetInInv

LEMMA SignInHeld ==
  ASSUME Typed, LetInInv, NEW t \in Tasks, SignInMember(t) \/ SignInUser(t) PROVE LetInInv'
<1> DEFINE k == job[t]
<1>1. k \in Job /\ JobShape(pc[t], k) /\ Held(grants, pc[t], k)
      /\ pc[t] \in {"signInMember", "signInUser"}
  BY HasShape DEF SignInMember, SignInUser, Go, Goto, LetInInv, HeldInv
<1>2. /\ k.record \in Member /\ k.record # None /\ k.record.account \in Accounts /\ k.caller \in Users
      /\ InBy(grants, k.record.account, k.caller, k.record)
      /\ k.op \in AllOps
  BY <1>1, NoneAssumption DEF JobShape, Member, Held
<1>3. CASE SignInMember(t)
  <2>1. /\ Go(t, "signInMember", "signInUser", k)
        /\ memberRow' = [memberRow EXCEPT ![k.record.account][k.caller] = k.record]
        /\ UNCHANGED <<userRow, inviteRow, grants>>
    BY <1>3 DEF SignInMember, invites, history
  <2>2. HeldInv'
    BY <2>1, HeldGoesOn DEF Held
  <2>3. ASSUME NEW a \in Accounts, NEW u \in Users
        PROVE  \/ memberRow'[a][u] = memberRow[a][u]
               \/ a = k.record.account /\ u = k.caller /\ memberRow'[a][u] = k.record
    BY <1>2, <2>1, MemberWritten
  <2>4. MemberInv'
    BY <1>2, <2>1, <2>3 DEF LetInInv, MemberInv
  <2> QED BY <2>1, <2>2, <2>4 DEF LetInInv, InviteInv
<1>4. CASE SignInUser(t)
  <2> DEFINE j == [k EXCEPT !.record = None]
             to == Handler(k, k.role)
  <2>1. /\ Go(t, "signInUser", to, j) /\ userRow' = [userRow EXCEPT ![k.caller] = k.record]
        /\ UNCHANGED <<memberRow, inviteRow, grants>>
    BY <1>4 DEF SignInUser, invites, history
  <2>2. j.op = k.op
    BY <1>1 DEF Job
  <2>3. \/ to \in {"idle", "getToken", "getMember"}
        \/ to = "readTeam" /\ k.op = "create"
    BY <1>2, HandlerGoes
  <2> HIDE DEF j, to
  <2>4. Held(grants', to, j)
    BY <2>2, <2>3 DEF Held
  <2>5. HeldInv'
    BY <2>1, <2>4, HeldGoes DEF LetInInv
  <2>6. ASSUME NEW u \in Users
        PROVE  userRow'[u] = userRow[u] \/ (u = k.caller /\ userRow'[u] = k.record)
    BY <1>2, <2>1, UserWritten
  <2>7. MemberInv'
    BY <1>2, <2>1, <2>6 DEF LetInInv, MemberInv
  <2> QED BY <2>1, <2>5, <2>7 DEF LetInInv, InviteInv
<1> QED BY <1>3, <1>4

\* Managers grant: the caller of a request that is let through is one.
LEMMA ManagersGrant ==
  ASSUME NEW j, j.role \in Managers, NEW u
  PROVE  /\ [account |-> j.account, user |-> u, role |-> j.grant] \in Granting(j.account, u, j)
         /\ grants \subseteq Granting(j.account, u, j)
  BY DEF Granting

LEMMA InviteHeld ==
  ASSUME Typed, LetInInv, NEW t \in Tasks,
         ReadTeamToInvite(t) \/ PutInvite(t) \/ PutToken(t) \/ GetToken(t)
  PROVE  LetInInv'
<1> DEFINE k == job[t]
<1>1. k \in Job /\ JobShape(pc[t], k) /\ Held(grants, pc[t], k)
  BY HasShape DEF LetInInv, HeldInv
<1>2. CASE ReadTeamToInvite(t)
  <2>1. pc[t] = "readTeam" /\ k.op = "create" /\ UNCHANGED <<memberRow, userRow, inviteRow>>
    BY <1>2 DEF ReadTeamToInvite, members
  <2>2. k.role \in Managers
    BY <1>1, <2>1 DEF JobShape
  <2>3. CASE Conflict(k.account, k.target)
    <3>1. Go(t, "readTeam", "idle", k) /\ UNCHANGED grants
      BY <1>2, <2>3 DEF ReadTeamToInvite
    <3>2. HeldInv'
      BY <3>1, HeldGoesOn DEF Held
    <3> QED BY <2>1, <3>1, <3>2, RowsKept DEF LetInInv
  <2>4. CASE ~Conflict(k.account, k.target)
    <3>1. PICK i \in Invites \ issued : Go(t, "readTeam", "putInvite", [k EXCEPT !.invite = i])
      BY <1>2, <2>4 DEF ReadTeamToInvite
    <3> DEFINE j == [k EXCEPT !.invite = i]
    <3>2. j.account = k.account /\ j.target = k.target /\ j.grant = k.grant
      BY <1>1 DEF Job
    <3>3. grants' = Granting(k.account, k.target, k)
      BY <1>2, <2>4 DEF ReadTeamToInvite
    <3>4. grants \subseteq grants' /\ [account |-> k.account, user |-> k.target, role |-> k.grant] \in grants'
      BY <2>2, <3>3, ManagersGrant
    <3> HIDE DEF j
    <3>5. Held(grants', "putInvite", j)
      BY <3>2, <3>4 DEF Held
    <3>6. HeldInv'
      BY <3>1, <3>4, <3>5, HeldGoes DEF LetInInv, j
    <3> QED BY <2>1, <3>4, <3>6, RowsKept DEF LetInInv
  <2> QED BY <2>3, <2>4
<1>3. CASE PutInvite(t)
  <2>1. /\ Go(t, "putInvite", "putToken", k)
        /\ inviteRow' = [inviteRow EXCEPT ![k.invite] =
                           [account |-> k.account, email |-> k.target, role |-> k.grant]]
        /\ UNCHANGED <<memberRow, userRow, grants>>
    BY <1>3 DEF PutInvite, members, history
  <2>2. HeldInv'
    BY <2>1, HeldGoesOn DEF Held
  <2>3. [account |-> k.account, user |-> k.target, role |-> k.grant] \in grants
    BY <1>1, <2>1 DEF Held, Go, Goto
  <2>4. InviteInv'
    BY <2>1, <2>3 DEF LetInInv, InviteInv, Typed, TypeOK
  <2> QED BY <2>1, <2>2, <2>4 DEF LetInInv, MemberInv
<1>4. CASE PutToken(t)
  <2>1. Go(t, "putToken", "idle", k) /\ UNCHANGED <<memberRow, userRow, inviteRow, grants>>
    BY <1>4 DEF PutToken, members, history
  <2>2. HeldInv'
    BY <2>1, HeldGoesOn DEF Held
  <2> QED BY <2>1, <2>2, RowsKept DEF LetInInv
<1>5. CASE GetToken(t)
  <2> DEFINE to == IF tokenRow[k.invite] = None THEN "idle" ELSE "getInvite"
  <2>1. Go(t, "getToken", to, k) /\ UNCHANGED <<memberRow, userRow, inviteRow, grants>>
    BY <1>5 DEF GetToken, members, invites, history
  <2>2. HeldInv'
    BY <2>1, HeldGoesOn DEF Held
  <2> QED BY <2>1, <2>2, RowsKept DEF LetInInv
<1> QED BY <1>2, <1>3, <1>4, <1>5

LEMMA GetInviteHeld == ASSUME Typed, LetInInv, NEW t \in Tasks, GetInvite(t) PROVE LetInInv'
<1> DEFINE k   == job[t]
           inv == inviteRow[k.invite]
           to  == CASE inv = None -> "idle"
                    [] inv # None /\ k.op = "revoke" ->
                         IF inv.account = k.account THEN "findToken" ELSE "idle"
                    [] inv # None /\ k.op = "accept" ->
                         IF k.invite \in expired THEN "findToken"
                         ELSE IF MayAccept(inv, k.caller) THEN "getUser" ELSE "idle"
                    [] OTHER -> "idle"
           x   == IF to = "getUser" THEN Joined(inv, k) ELSE None
           j   == [k EXCEPT !.record = x]
<1>1. k \in Job /\ JobShape("getInvite", k)
  BY HasShape DEF GetInvite, Go, Goto
<1>2. Go(t, "getInvite", to, j) /\ UNCHANGED <<memberRow, userRow, inviteRow, grants>>
  BY DEF GetInvite, members, invites, history
<1>3. k.op \in {"revoke", "accept"} /\ k.invite \in Invites
  BY <1>1 DEF JobShape
<1>4. /\ to \in {"idle", "findToken", "getUser"}
      /\ to = "getUser" => inv # None /\ MayAccept(inv, k.caller)
  <2>1. CASE inv = None
    <3>1. to = "idle" BY <2>1
    <3> QED BY <3>1
  <2>2. CASE inv # None /\ k.op = "revoke"
    <3>1. to = IF inv.account = k.account THEN "findToken" ELSE "idle" BY <2>2
    <3> QED BY <3>1
  <2>3. CASE inv # None /\ k.op = "accept"
    <3>1. to = IF k.invite \in expired THEN "findToken"
               ELSE IF MayAccept(inv, k.caller) THEN "getUser" ELSE "idle"
      BY <2>3
    <3> QED BY <2>3, <3>1
  <2> QED BY <1>3, <2>1, <2>2, <2>3
<1>5. to = "getUser" => InBy(grants, Joined(inv, k).account, k.caller, Joined(inv, k))
  <2> SUFFICES ASSUME to = "getUser"
               PROVE  InBy(grants, Joined(inv, k).account, k.caller, Joined(inv, k))
    OBVIOUS
  <2>1. [account |-> inv.account, user |-> inv.email, role |-> inv.role] \in grants
    BY <1>3, <1>4 DEF LetInInv, InviteInv
  <2>2. inv.email = k.caller
    BY <1>4 DEF MayAccept
  <2>3. inv.role # "owner"
    BY <1>3, <1>4 DEF Typed, TypeOK, Invite, Granted
  <2> QED BY <2>1, <2>2, <2>3 DEF InBy, Joined
<1> HIDE DEF to, inv
<1>6. j.op = k.op /\ j.caller = k.caller /\ j.record = x
  BY <1>1 DEF Job
<1> HIDE DEF j
<1>7. Held(grants, to, j)
  BY <1>4, <1>5, <1>6 DEF Held
<1>8. HeldInv'
  BY <1>2, <1>7, HeldGoes DEF LetInInv
<1> QED BY <1>2, <1>8, RowsKept DEF LetInInv

LEMMA DropInviteHeld ==
  ASSUME Typed, LetInInv, NEW t \in Tasks,
         FindToken(t) \/ DelInvite(t) \/ DelToken(t) \/ ReadTeamToLeave(t)
  PROVE  LetInInv'
<1> DEFINE k == job[t]
<1>1. UNCHANGED <<memberRow, userRow, grants>>
  BY DEF FindToken, DelInvite, DelToken, ReadTeamToLeave, members, history
<1>2. InviteInv'
  <2>1. \A i \in Invites : inviteRow'[i] # None => inviteRow'[i] = inviteRow[i]
    BY DEF FindToken, DelInvite, DelToken, ReadTeamToLeave, invites, Typed, TypeOK
  <2> QED BY <1>1, <2>1 DEF LetInInv, InviteInv
<1>3. HeldInv'
  <2>1. CASE FindToken(t)
    <3> DEFINE to == IF tokenRow[k.invite] = None THEN "delToken" ELSE "delInvite"
    <3>1. Go(t, "findToken", to, k)
      BY <2>1 DEF FindToken
    <3> QED BY <1>1, <3>1, HeldGoesOn DEF Held
  <2>2. CASE DelInvite(t)
    BY <1>1, <2>2, HeldGoesOn DEF DelInvite, Held
  <2>3. CASE DelToken(t)
    BY <1>1, <2>3, HeldGoesOn DEF DelToken, Held
  <2>4. CASE ReadTeamToLeave(t)
    <3> DEFINE to == IF Cardinality(TeamOf(k.leaving)) > 1 \/ LiveInvites(k.leaving) # {}
                     THEN "idle" ELSE "delMember"
    <3>1. Go(t, "readTeam", to, k)
      BY <2>4 DEF ReadTeamToLeave
    <3>2. Held(grants, "readTeam", k) => Held(grants, to, k)
      BY DEF Held
    <3> HIDE DEF to
    <3> QED BY <1>1, <3>1, <3>2, HeldGoesOn
  <2> QED BY <2>1, <2>2, <2>3, <2>4
<1> QED BY <1>1, <1>2, <1>3 DEF LetInInv, MemberInv

LEMMA GetUserHeld == ASSUME Typed, LetInInv, NEW t \in Tasks, GetUser(t) PROVE LetInInv'
<1> DEFINE k   == job[t]
           row == userRow[k.caller]
           to  == CASE row = None -> "putMember"
                    [] row # None /\ row.account = k.record.account -> "idle"
                    [] row # None /\ row.account # k.record.account ->
                         IF row.role = "owner" THEN "readTeam" ELSE "delMember"
           a   == IF to \in {"readTeam", "delMember"} THEN row.account ELSE None
           j   == [k EXCEPT !.leaving = a]
<1>1. k \in Job /\ JobShape("getUser", k) /\ Held(grants, "getUser", k)
  BY HasShape DEF GetUser, Go, Goto, LetInInv, HeldInv
<1>2. Go(t, "getUser", to, j) /\ UNCHANGED <<memberRow, userRow, inviteRow, grants>>
  BY DEF GetUser, members, invites, history
<1>3. to \in {"putMember", "idle", "readTeam", "delMember"}
  OBVIOUS
<1> HIDE DEF to, a
<1>4. j.op = k.op /\ j.caller = k.caller /\ j.record = k.record
  BY <1>1 DEF Job
<1> HIDE DEF j
<1>5. k.op = "accept" /\ InBy(grants, k.record.account, k.caller, k.record)
  BY <1>1 DEF JobShape, Held
<1>6. Held(grants, to, j)
  BY <1>3, <1>4, <1>5 DEF Held
<1>7. HeldInv'
  BY <1>2, <1>6, HeldGoes DEF LetInInv
<1> QED BY <1>2, <1>7, RowsKept DEF LetInInv

LEMMA GetMemberHeld == ASSUME Typed, LetInInv, NEW t \in Tasks, GetMember(t) PROVE LetInInv'
<1> DEFINE k   == job[t]
           row == memberRow[k.account][k.target]
<1>1. k \in Job /\ JobShape("getMember", k)
  BY HasShape DEF GetMember
<1>2. k.account \in Accounts /\ k.target \in Users /\ k.role \in Managers
  BY <1>1 DEF JobShape
<1>3. UNCHANGED <<memberRow, userRow, inviteRow>>
  BY DEF GetMember, members, invites
<1>4. grants \subseteq grants' /\ HeldInv'
  <2>1. CASE Go(t, "getMember", "idle", k) /\ UNCHANGED grants
    BY <2>1, HeldGoesOn DEF Held
  <2>2. CASE k.op = "remove" /\ UNCHANGED grants
             /\ Go(t, "getMember", "delMember", [k EXCEPT !.leaving = k.account])
    <3> DEFINE j == [k EXCEPT !.leaving = k.account]
    <3>1. j.op = k.op
      BY <1>1 DEF Job
    <3> HIDE DEF j
    <3>2. Held(grants', "delMember", j)
      BY <2>2, <3>1 DEF Held
    <3> QED BY <2>2, <3>2, HeldGoes DEF LetInInv, j
  <2>3. CASE k.op = "patch" /\ row # None /\ grants' = Granting(row.account, k.target, k)
             /\ Go(t, "getMember", "putMember",
                   [k EXCEPT !.record =
                      [account |-> row.account, role |-> k.grant, profile |-> row.profile]])
    <3> DEFINE r == [account |-> row.account, role |-> k.grant, profile |-> row.profile]
               j == [k EXCEPT !.record = r]
    <3>1. k.grant \in Granted
      BY <1>1, <2>3 DEF JobShape
    <3>2. row.account = k.account
      BY <1>2, <2>3 DEF LetInInv, MemberInv
    <3>3. grants \subseteq grants' /\ [account |-> k.account, user |-> k.target, role |-> k.grant] \in grants'
      BY <1>2, <2>3, <3>2, ManagersGrant
    <3>4. r.account = k.account /\ r.role = k.grant /\ r.role # "owner"
      BY <3>1, <3>2 DEF Granted
    <3> HIDE DEF r
    <3>5. j.op = k.op /\ j.target = k.target /\ j.record = r
      BY <1>1 DEF Job
    <3> HIDE DEF j
    <3>6. InBy(grants', r.account, k.target, r)
      BY <3>3, <3>4 DEF InBy
    <3>7. Held(grants', "putMember", j)
      BY <2>3, <3>5, <3>6 DEF Held
    <3> QED BY <2>3, <3>3, <3>7, HeldGoes DEF LetInInv, j, r
  <2> QED BY <2>1, <2>2, <2>3 DEF GetMember, Untouchable
<1> QED BY <1>3, <1>4, RowsKept DEF LetInInv

LEMMA DeleteHeld ==
  ASSUME Typed, LetInInv, NEW t \in Tasks, DelMember(t) \/ DelUser(t) PROVE LetInInv'
<1> DEFINE k == job[t]
<1>1. UNCHANGED <<inviteRow, grants>>
  BY DEF DelMember, DelUser, invites, history
<1>2. MemberInv'
  <2>1. /\ \A u \in Users : userRow'[u] # None => userRow'[u] = userRow[u]
        /\ \A a \in Accounts, u \in Users : memberRow'[a][u] # None => memberRow'[a][u] = memberRow[a][u]
    BY DEF DelMember, DelUser, Typed, TypeOK
  <2> QED BY <1>1, <2>1 DEF LetInInv, MemberInv
<1>3. HeldInv'
  <2>1. CASE DelMember(t)
    BY <1>1, <2>1, HeldGoesOn DEF DelMember, Held
  <2>2. CASE DelUser(t)
    <3> DEFINE to == IF k.op = "accept" THEN "putMember" ELSE "idle"
    <3>1. Go(t, "delUser", to, k)
      BY <2>2 DEF DelUser
    <3>2. Held(grants, "delUser", k) => Held(grants, to, k)
      BY DEF Held
    <3> HIDE DEF to
    <3> QED BY <1>1, <3>1, <3>2, HeldGoesOn
  <2> QED BY <2>1, <2>2
<1> QED BY <1>1, <1>2, <1>3 DEF LetInInv, InviteInv

LEMMA PutHeld ==
  ASSUME Typed, LetInInv, NEW t \in Tasks, PutMember(t) \/ PutUser(t) PROVE LetInInv'
<1> DEFINE k == job[t]
           v == Subject(k)
<1>1. k \in Job /\ JobShape(pc[t], k) /\ Held(grants, pc[t], k) /\ pc[t] \in {"putMember", "putUser"}
  BY HasShape DEF PutMember, PutUser, Go, Goto, LetInInv, HeldInv
<1>2. k.record \in Member /\ k.record # None /\ k.record.account \in Accounts /\ v \in Users
  BY <1>1, SubjectIsUser, NoneAssumption DEF JobShape, Member
<1>3. InBy(grants, k.record.account, v, k.record)
  BY <1>1 DEF JobShape, Held, Subject
<1> HIDE DEF v
<1>4. CASE PutMember(t)
  <2>1. /\ Go(t, "putMember", "putUser", k)
        /\ memberRow' = [memberRow EXCEPT ![k.record.account][v] = k.record]
        /\ UNCHANGED <<userRow, inviteRow, grants>>
    BY <1>4 DEF PutMember, invites, history, v
  <2>2. HeldInv'
    BY <2>1, HeldGoesOn DEF Held
  <2>3. ASSUME NEW a \in Accounts, NEW u \in Users
        PROVE  \/ memberRow'[a][u] = memberRow[a][u]
               \/ a = k.record.account /\ u = v /\ memberRow'[a][u] = k.record
    BY <1>2, <2>1, MemberWritten
  <2>4. MemberInv'
    BY <1>2, <1>3, <2>1, <2>3 DEF LetInInv, MemberInv
  <2> QED BY <2>1, <2>2, <2>4 DEF LetInInv, InviteInv
<1>5. CASE PutUser(t)
  <2> DEFINE to == IF k.op = "accept" THEN "findToken" ELSE "idle"
  <2>1. /\ Go(t, "putUser", to, k) /\ userRow' = [userRow EXCEPT ![v] = k.record]
        /\ UNCHANGED <<memberRow, inviteRow, grants>>
    BY <1>5 DEF PutUser, invites, history, v
  <2>2. Held(grants, "putUser", k) => Held(grants, to, k)
    BY DEF Held
  <2> HIDE DEF to
  <2>3. HeldInv'
    BY <2>1, <2>2, HeldGoesOn
  <2>4. ASSUME NEW u \in Users
        PROVE  userRow'[u] = userRow[u] \/ (u = v /\ userRow'[u] = k.record)
    BY <1>2, <2>1, UserWritten
  <2>5. MemberInv'
    BY <1>2, <1>3, <2>1, <2>4 DEF LetInInv, MemberInv
  <2> QED BY <2>1, <2>3, <2>5 DEF LetInInv, InviteInv
<1> QED BY <1>4, <1>5

LEMMA ArriveHeld ==
  ASSUME Typed, LetInInv, NEW t \in Tasks, Arrive(t) \/ Fail(t) PROVE LetInInv'
<1>1. UNCHANGED <<memberRow, userRow, inviteRow, grants>>
  BY DEF Arrive, Call, Fail, members, invites
<1>2. PICK to, j : to \in {"resolve", "idle"} /\ Go(t, pc[t], to, j)
  BY DEF Arrive, Call, Fail, Go, Goto
<1>3. HeldInv'
  BY <1>1, <1>2, HeldGoes DEF LetInInv, Held
<1> QED BY <1>1, <1>3, RowsKept DEF LetInInv

LEMMA NextHeld == Typed /\ LetInInv /\ [Next]_vars => LetInInv'
<1> SUFFICES ASSUME Typed, LetInInv, [Next]_vars PROVE LetInInv'
  OBVIOUS
<1>1. CASE UNCHANGED vars
  BY <1>1 DEF vars, LetInInv, MemberInv, InviteInv, HeldInv
<1>2. ASSUME NEW t \in Tasks, Step(t) PROVE LetInInv'
  BY <1>2, ResolveHeld, SignInHeld, InviteHeld, GetInviteHeld, DropInviteHeld, GetUserHeld,
     GetMemberHeld, DeleteHeld, PutHeld DEF Step
<1>3. ASSUME NEW i \in Invites, Expire(i) \/ TimeToLive(i) PROVE LetInInv'
  <2>1. UNCHANGED <<memberRow, userRow, pc, job, grants>>
    BY <1>3 DEF Expire, TimeToLive, members, history
  <2>2. \A e \in Invites : inviteRow'[e] # None => inviteRow'[e] = inviteRow[e]
    BY <1>3 DEF Expire, TimeToLive, Typed, TypeOK
  <2> QED BY <2>1, <2>2 DEF LetInInv, MemberInv, InviteInv, HeldInv
<1> QED BY <1>1, <1>2, <1>3, ArriveHeld DEF Next

LEMMA InitHeld == Init => LetInInv
<1> SUFFICES ASSUME Init PROVE LetInInv
  OBVIOUS
<1>1. PICK inv \in [issued -> Invite] :
        /\ inviteRow = [i \in Invites |-> IF i \in issued THEN inv[i] ELSE None]
        /\ grants =
             {[account |-> userRow[u].account, user |-> u, role |-> userRow[u].role] :
                u \in {v \in Users : userRow[v].role # "owner"}} \cup
             {[account |-> inv[i].account, user |-> inv[i].email, role |-> inv[i].role] :
                i \in issued}
  BY DEF Init
<1>2. \A u \in Users : InBy(grants, userRow[u].account, u, userRow[u])
  BY <1>1 DEF Init, InBy
<1>3. \A a \in Accounts, u \in Users : memberRow[a][u] # None =>
        userRow[u].account = a /\ memberRow[a][u] = userRow[u]
  BY DEF Init, Accounts
<1>4. MemberInv
  BY <1>2, <1>3 DEF MemberInv
<1>5. InviteInv
  BY <1>1 DEF InviteInv
<1>6. HeldInv
  BY DEF Init, HeldInv, Held
<1> QED BY <1>4, <1>5, <1>6 DEF LetInInv

\* Nobody is ever in somebody else's account with a role that no manager of
\* it gave them, and nobody owns an account but their own, however sign-ins,
\* acceptances, removals and patches that read before a change write after it.
THEOREM MembersWereLetIn == Spec => []EveryMemberWasLetIn
<1>1. LetInInv => EveryMemberWasLetIn
  BY DEF LetInInv, MemberInv, EveryMemberWasLetIn, InBy, LetIn
<1>2. Typed /\ LetInInv /\ [Next]_vars => (Typed /\ LetInInv)'
  BY NextTyped, NextHeld
<1> QED BY <1>1, <1>2, InitTyped, InitHeld, PTL DEF Spec

----------------------------------------------------------------------------
(* What becomes of an invite *)

\* Request t is creating invite i.
MakingAt(t, i) == pc[t] \in {"putInvite", "putToken"} /\ job[t].invite = i

\* Request t has seen the token row of invite i.
PastAt(t, i) ==
  /\ job[t].invite = i /\ job[t].op \in {"revoke", "accept"}
  /\ pc[t] \in {"getInvite", "getUser", "readTeam", "delMember", "delUser", "putMember",
                "putUser", "findToken", "delInvite", "delToken"}

Fresh(i) ==
  i \notin issued =>
    /\ tokenRow[i] = None /\ inviteRow[i] = None
    /\ i \notin cut /\ i \notin accepted
    /\ \A t \in Tasks : job[t].invite # i

Made(i) ==
  \A t \in Tasks : MakingAt(t, i) =>
    /\ tokenRow[i] = None /\ i \notin cut /\ i \notin accepted
    /\ \A s \in Tasks : ~PastAt(s, i) /\ (MakingAt(s, i) => s = t)

CutOff(i)  == i \in cut => tokenRow[i] = None /\ \A t \in Tasks : ~PastAt(t, i)
Dropped(i) == \A t \in Tasks : pc[t] = "delToken" /\ PastAt(t, i) => inviteRow[i] = None \/ i \in expired
Usable(i)  ==
  i \notin expired \cup cut /\ inviteRow[i] # None =>
    tokenRow[i] # None \/ \E t \in Tasks : pc[t] = "putToken" /\ MakingAt(t, i)
Used(i)    == i \in accepted => tokenRow[i] = None /\ (inviteRow[i] # None => i \in expired)

TokenInv == \A i \in Invites : Fresh(i) /\ Made(i) /\ CutOff(i) /\ Dropped(i) /\ Usable(i) /\ Used(i)

LEMMA NoneIsNoInvite == None \notin Invites
  BY NoneAssumption

\* Request t moves without creating an invite, seeing its token or dropping it.
QuietMove(t) ==
  /\ pc[t] # "putToken"
  /\ pc'[t] \notin {"putInvite", "putToken", "delToken"}
  /\ job'[t].invite \in issued \cup {None}
  /\ \A i \in Invites : PastAt(t, i)' => PastAt(t, i)
  /\ \A s \in Tasks \ {t} : pc'[s] = pc[s] /\ job'[s] = job[s]

LEMMA QuietTokens ==
  ASSUME Typed, TokenInv, NEW t \in Tasks, QuietMove(t),
         UNCHANGED <<inviteRow, tokenRow, issued, expired, cut, accepted>>
  PROVE  TokenInv'
<1> SUFFICES ASSUME NEW i \in Invites
             PROVE  (Fresh(i) /\ Made(i) /\ CutOff(i) /\ Dropped(i) /\ Usable(i) /\ Used(i))'
  BY DEF TokenInv
<1>1. Fresh(i) /\ Made(i) /\ CutOff(i) /\ Dropped(i) /\ Usable(i) /\ Used(i)
  BY DEF TokenInv
<1>2. \A s \in Tasks : PastAt(s, i)' => PastAt(s, i)
  BY DEF QuietMove, PastAt
<1>3. \A s \in Tasks : MakingAt(s, i)' => MakingAt(s, i)
  BY DEF QuietMove, MakingAt
<1>4. \A s \in Tasks : pc[s] = "putToken" /\ MakingAt(s, i) => pc'[s] = "putToken" /\ MakingAt(s, i)'
  BY DEF QuietMove, MakingAt
<1>5. \A s \in Tasks : pc'[s] = "delToken" /\ PastAt(s, i)' => pc[s] = "delToken" /\ PastAt(s, i)
  BY <1>2 DEF QuietMove
<1>6. i \notin issued => \A s \in Tasks : job'[s].invite # i
  BY <1>1, NoneIsNoInvite DEF QuietMove, Fresh
<1>7. Fresh(i)'
  BY <1>1, <1>6 DEF Fresh
<1>8. Made(i)' /\ CutOff(i)'
  BY <1>1, <1>2, <1>3 DEF Made, CutOff
<1>9. Dropped(i)'
  BY <1>1, <1>5 DEF Dropped
<1>10. Usable(i)' /\ Used(i)'
  BY <1>1, <1>4 DEF Usable, Used
<1> QED BY <1>7, <1>8, <1>9, <1>10

\* A request that goes on about the same invite, or ends.
LEMMA GoesQuietly ==
  ASSUME Typed, TokenInv, NEW t \in Tasks, NEW from, NEW to, NEW j, Go(t, from, to, j),
         from # "putToken", to \notin {"putInvite", "putToken", "delToken"},
         to # "idle" => j.invite = job[t].invite /\ j.op = job[t].op,
         \A i \in Invites : to # "idle" /\ j.op \in {"revoke", "accept"} => PastAt(t, i) \/
           ~(j.invite = i /\ to \in {"getInvite", "getUser", "readTeam", "delMember", "delUser",
                "putMember", "putUser", "findToken", "delInvite", "delToken"})
  PROVE  QuietMove(t)
<1>1. /\ pc[t] = from /\ pc'[t] = to
      /\ job'[t] = IF to = "idle" THEN NoJob ELSE j
      /\ \A s \in Tasks \ {t} : pc'[s] = pc[s] /\ job'[s] = job[s]
  BY GoFacts
<1>2. job[t].invite \in issued \cup {None}
  <2>1. job[t].invite \in Invites \cup {None}
    BY HasShape DEF Job
  <2> QED BY <2>1 DEF TokenInv, Fresh
<1>3. job'[t].invite \in issued \cup {None}
  BY <1>1, <1>2 DEF NoJob
<1>4. \A i \in Invites : PastAt(t, i)' => PastAt(t, i)
  BY <1>1 DEF PastAt
<1> QED BY <1>1, <1>3, <1>4 DEF QuietMove

LEMMA ArriveTokens == ASSUME Typed, TokenInv, NEW t \in Tasks, Arrive(t) PROVE TokenInv'
<1>1. PICK u, op, v, i, role, p : Call(t, u, op, v, i, role, p) /\ i \in issued \cup {None}
  BY DEF Arrive
<1> DEFINE j == [op |-> op, caller |-> u, account |-> None, role |-> "none",
                 target |-> v, invite |-> i, grant |-> role, profile |-> p,
                 record |-> None, leaving |-> None]
<1> HIDE DEF j
<1>4. Go(t, "idle", "resolve", j) /\ j.invite \in issued \cup {None}
  BY <1>1 DEF Call, j
<1>2. QuietMove(t)
  BY <1>4, GoFacts DEF QuietMove, PastAt
<1>3. UNCHANGED <<inviteRow, tokenRow, issued, expired, cut, accepted>>
  BY DEF Arrive, Call, invites
<1> QED BY <1>2, <1>3, QuietTokens

LEMMA SignInTokens ==
  ASSUME Typed, TokenInv, NEW t \in Tasks, Resolve(t) \/ SignInMember(t) \/ SignInUser(t)
  PROVE  TokenInv'
<1> DEFINE k == job[t]
<1>1. k \in Job /\ JobShape(pc[t], k) /\ pc[t] \in {"resolve", "signInMember", "signInUser"}
  BY HasShape DEF Resolve, SignInMember, SignInUser, Go, Goto
<1>2. k.op \in AllOps
  BY <1>1 DEF JobShape
<1>3. UNCHANGED <<inviteRow, tokenRow, issued, expired, cut, accepted>>
  BY DEF Resolve, SignInMember, SignInUser, invites, history
<1>4. PICK to, j :
        /\ Go(t, pc[t], to, j)
        /\ j.invite = k.invite /\ j.op = k.op
        /\ \/ to \in {"signInMember", "signInUser"}
           \/ \E role : to = Handler(k, role)
  <2>1. CASE Resolve(t)
    <3> DEFINE row == userRow[k.caller]
               own == [account |-> k.caller, role |-> "owner", profile |-> k.profile]
               rec == CASE row = None -> own
                        [] row # None /\ k.profile = None -> row
                        [] row # None /\ k.profile # None ->
                             [account |-> row.account, role |-> row.role, profile |-> k.profile]
               to  == IF rec = row THEN Handler(k, row.role) ELSE "signInMember"
               x   == IF rec = row THEN None ELSE rec
               j   == [k EXCEPT !.account = rec.account, !.role = rec.role, !.record = x]
    <3>1. Go(t, "resolve", to, j) /\ pc[t] = "resolve"
      BY <2>1 DEF Resolve, Go, Goto
    <3> HIDE DEF rec
    <3>2. j.invite = k.invite /\ j.op = k.op
      BY <1>1 DEF Job
    <3>3. to = "signInMember" \/ to = Handler(k, row.role)
      OBVIOUS
    <3> HIDE DEF to, j
    <3> QED BY <3>1, <3>2, <3>3
  <2>2. CASE SignInMember(t)
    BY <2>2 DEF SignInMember, Go, Goto
  <2>3. CASE SignInUser(t)
    <3> DEFINE j == [k EXCEPT !.record = None]
    <3>1. Go(t, "signInUser", Handler(k, k.role), j) /\ pc[t] = "signInUser"
      BY <2>3 DEF SignInUser, Go, Goto
    <3>2. j.invite = k.invite /\ j.op = k.op
      BY <1>1 DEF Job
    <3> HIDE DEF j
    <3> QED BY <3>1, <3>2
  <2> QED BY <2>1, <2>2, <2>3
<1>5. \/ to \in {"signInMember", "signInUser", "idle", "getToken", "getMember"}
      \/ to = "readTeam" /\ k.op = "create"
  BY <1>2, <1>4, HandlerGoes
<1>6. QuietMove(t)
  BY <1>1, <1>4, <1>5, GoesQuietly
<1> QED BY <1>3, <1>6, QuietTokens

\* Between the token row and its deletion an acceptance only moves on.
LEMMA AcceptTokens ==
  ASSUME Typed, TokenInv, NEW t \in Tasks,
         \/ GetUser(t) \/ ReadTeamToLeave(t) \/ GetMember(t) \/ GetInvite(t)
         \/ DelMember(t) \/ DelUser(t) \/ PutMember(t) \/ PutUser(t)
  PROVE  TokenInv'
<1> DEFINE k == job[t]
<1>1. k \in Job /\ JobShape(pc[t], k)
  BY HasShape
<1>2. UNCHANGED <<inviteRow, tokenRow, issued, expired, cut, accepted>>
  BY DEF GetUser, ReadTeamToLeave, GetMember, GetInvite, DelMember, DelUser, PutMember, PutUser,
         invites, history
<1>3. /\ pc[t] \in {"getUser", "readTeam", "getMember", "getInvite", "delMember", "delUser",
                    "putMember", "putUser"}
      /\ pc[t] # "getMember" /\ k.op \in {"revoke", "accept"} =>
           \A i \in Invites : k.invite = i => PastAt(t, i)
      /\ pc[t] = "getMember" => k.op \in {"remove", "patch"}
  BY <1>1 DEF GetUser, ReadTeamToLeave, GetMember, GetInvite, DelMember, DelUser, PutMember, PutUser,
         Go, Goto, PastAt, JobShape
<1>4. PICK to, j :
        /\ Go(t, pc[t], to, j) /\ to \notin {"putInvite", "putToken", "delToken"}
        /\ j.invite = k.invite /\ j.op = k.op
  <2>1. CASE GetUser(t)
    <3> DEFINE row == userRow[k.caller]
               to  == CASE row = None -> "putMember"
                        [] row # None /\ row.account = k.record.account -> "idle"
                        [] row # None /\ row.account # k.record.account ->
                             IF row.role = "owner" THEN "readTeam" ELSE "delMember"
               a   == IF to \in {"readTeam", "delMember"} THEN row.account ELSE None
               j   == [k EXCEPT !.leaving = a]
    <3>1. Go(t, pc[t], to, j)
      BY <2>1 DEF GetUser, Go, Goto
    <3>2. to \notin {"putInvite", "putToken", "delToken"}
      OBVIOUS
    <3> HIDE DEF to, a
    <3>3. j.invite = k.invite /\ j.op = k.op
      BY <1>1 DEF Job
    <3> HIDE DEF j
    <3> QED BY <3>1, <3>2, <3>3
  <2>2. CASE ReadTeamToLeave(t)
    <3> DEFINE to == IF Cardinality(TeamOf(k.leaving)) > 1 \/ LiveInvites(k.leaving) # {}
                     THEN "idle" ELSE "delMember"
    <3>1. Go(t, pc[t], to, k) /\ to \notin {"putInvite", "putToken", "delToken"}
      BY <2>2 DEF ReadTeamToLeave, Go, Goto
    <3> HIDE DEF to
    <3> QED BY <3>1
  <2>3. CASE GetMember(t)
    <3> DEFINE row == memberRow[k.account][k.target]
               r == [account |-> row.account, role |-> k.grant, profile |-> row.profile]
               j1 == [k EXCEPT !.leaving = k.account]
               j2 == [k EXCEPT !.record = r]
    <3>1. \/ Go(t, pc[t], "idle", k) \/ Go(t, pc[t], "delMember", j1)
          \/ Go(t, pc[t], "putMember", j2)
      BY <2>3 DEF GetMember, Go, Goto
    <3> HIDE DEF r
    <3>2. j1.invite = k.invite /\ j1.op = k.op /\ j2.invite = k.invite /\ j2.op = k.op
      BY <1>1 DEF Job
    <3> HIDE DEF j1, j2
    <3> QED BY <3>1, <3>2
  <2>4. CASE GetInvite(t)
    <3> DEFINE inv == inviteRow[k.invite]
               to  == CASE inv = None -> "idle"
                        [] inv # None /\ k.op = "revoke" ->
                             IF inv.account = k.account THEN "findToken" ELSE "idle"
                        [] inv # None /\ k.op = "accept" ->
                             IF k.invite \in expired THEN "findToken"
                             ELSE IF MayAccept(inv, k.caller) THEN "getUser" ELSE "idle"
                        [] OTHER -> "idle"
               x   == IF to = "getUser" THEN Joined(inv, k) ELSE None
               j   == [k EXCEPT !.record = x]
    <3>1. Go(t, pc[t], to, j)
      BY <2>4 DEF GetInvite, Go, Goto
    <3>2. to \notin {"putInvite", "putToken", "delToken"}
      OBVIOUS
    <3> HIDE DEF to, x
    <3>3. j.invite = k.invite /\ j.op = k.op
      BY <1>1 DEF Job
    <3> HIDE DEF j
    <3> QED BY <3>1, <3>2, <3>3
  <2>5. CASE DelMember(t)
    BY <2>5 DEF DelMember, Go, Goto
  <2>6. CASE DelUser(t)
    <3> DEFINE to == IF k.op = "accept" THEN "putMember" ELSE "idle"
    <3>1. Go(t, pc[t], to, k) /\ to \notin {"putInvite", "putToken", "delToken"}
      BY <2>6 DEF DelUser, Go, Goto
    <3> HIDE DEF to
    <3> QED BY <3>1
  <2>7. CASE PutMember(t)
    BY <2>7 DEF PutMember, Go, Goto
  <2>8. CASE PutUser(t)
    <3> DEFINE to == IF k.op = "accept" THEN "findToken" ELSE "idle"
    <3>1. Go(t, pc[t], to, k) /\ to \notin {"putInvite", "putToken", "delToken"}
      BY <2>8 DEF PutUser, Go, Goto
    <3> HIDE DEF to
    <3> QED BY <3>1
  <2> QED BY <2>1, <2>2, <2>3, <2>4, <2>5, <2>6, <2>7, <2>8
<1>5. QuietMove(t)
  BY <1>3, <1>4, GoesQuietly
<1> QED BY <1>2, <1>5, QuietTokens

LEMMA ReadTeamToInviteTokens ==
  ASSUME Typed, TokenInv, NEW t \in Tasks, ReadTeamToInvite(t) PROVE TokenInv'
<1> DEFINE k == job[t]
<1>1. k \in Job /\ k.op = "create" /\ pc[t] = "readTeam"
  BY HasShape DEF ReadTeamToInvite
<1>2. UNCHANGED <<inviteRow, tokenRow, expired, cut, accepted>>
  BY DEF ReadTeamToInvite
<1>3. CASE Conflict(k.account, k.target)
  <2>1. Go(t, "readTeam", "idle", k) /\ UNCHANGED issued
    BY <1>3 DEF ReadTeamToInvite
  <2>2. QuietMove(t)
    BY <2>1, GoesQuietly
  <2> QED BY <1>2, <2>1, <2>2, QuietTokens
<1>4. CASE ~Conflict(k.account, k.target)
  <2>1. PICK e \in Invites \ issued :
          Go(t, "readTeam", "putInvite", [k EXCEPT !.invite = e]) /\ issued' = issued \cup {e}
    BY <1>4 DEF ReadTeamToInvite
  <2> DEFINE j == [k EXCEPT !.invite = e]
  <2>2. j.invite = e /\ j.op = "create"
    BY <1>1 DEF Job
  <2> HIDE DEF j
  <2>3. /\ pc'[t] = "putInvite" /\ job'[t] = j
        /\ \A s \in Tasks \ {t} : pc'[s] = pc[s] /\ job'[s] = job[s]
    BY <2>1, GoFacts DEF j
  <2> SUFFICES ASSUME NEW i \in Invites
               PROVE  (Fresh(i) /\ Made(i) /\ CutOff(i) /\ Dropped(i) /\ Usable(i) /\ Used(i))'
    BY DEF TokenInv
  <2>4. Fresh(i) /\ Made(i) /\ CutOff(i) /\ Dropped(i) /\ Usable(i) /\ Used(i)
    BY DEF TokenInv
  <2>5. \A s \in Tasks : PastAt(s, i)' => PastAt(s, i) /\ s # t
    BY <2>2, <2>3 DEF PastAt
  <2>6. \A s \in Tasks : MakingAt(s, i)' => MakingAt(s, i) \/ (s = t /\ i = e)
    BY <2>2, <2>3 DEF MakingAt
  <2>7. i = e => \A s \in Tasks : ~PastAt(s, i) /\ ~MakingAt(s, i)
    BY <2>1, <2>4 DEF Fresh, PastAt, MakingAt
  <2>8. \A s \in Tasks : pc[s] = "putToken" /\ MakingAt(s, i) => pc'[s] = "putToken" /\ MakingAt(s, i)'
    BY <1>1, <2>3 DEF MakingAt
  <2>9. i \notin issued' => i # e /\ i \notin issued
    BY <2>1
  <2>10. Fresh(i)'
    BY <1>2, <2>2, <2>3, <2>4, <2>9 DEF Fresh
  <2>11. Made(i)'
    BY <1>2, <2>1, <2>4, <2>5, <2>6, <2>7 DEF Made, Fresh
  <2>12. CutOff(i)' /\ Used(i)'
    BY <1>2, <2>4, <2>5 DEF CutOff, Used
  <2>13. Dropped(i)'
    BY <1>2, <2>3, <2>4, <2>5 DEF Dropped
  <2>14. Usable(i)'
    BY <1>2, <2>4, <2>8 DEF Usable
  <2> QED BY <2>10, <2>11, <2>12, <2>13, <2>14
<1> QED BY <1>3, <1>4

LEMMA MakeTokens ==
  ASSUME Typed, TokenInv, NEW t \in Tasks, PutInvite(t) \/ PutToken(t) PROVE TokenInv'
<1> DEFINE k == job[t]
<1>1. k \in Job /\ JobShape(pc[t], k) /\ pc[t] \in {"putInvite", "putToken"}
  BY HasShape DEF PutInvite, PutToken, Go, Goto
<1>2. k.op = "create" /\ k.invite \in Invites /\ k.account \in Accounts /\ k.account # None
  BY <1>1, NoneAssumption DEF JobShape, Accounts
<1>3. UNCHANGED <<issued, expired, cut, accepted>>
  BY DEF PutInvite, PutToken, history
<1>4. \A s \in Tasks \ {t} : pc'[s] = pc[s] /\ job'[s] = job[s]
  BY GoFacts DEF PutInvite, PutToken
<1>5. MakingAt(t, k.invite)
  BY <1>1 DEF MakingAt
<1> SUFFICES ASSUME NEW i \in Invites
             PROVE  (Fresh(i) /\ Made(i) /\ CutOff(i) /\ Dropped(i) /\ Usable(i) /\ Used(i))'
  BY DEF TokenInv
<1>6. Fresh(i) /\ Made(i) /\ CutOff(i) /\ Dropped(i) /\ Usable(i) /\ Used(i)
  BY DEF TokenInv
<1>7. i = k.invite =>
        /\ i \in issued /\ i \notin cut /\ i \notin accepted /\ tokenRow[i] = None
        /\ \A s \in Tasks : ~PastAt(s, i) /\ (MakingAt(s, i) => s = t)
  BY <1>5, <1>6 DEF Made, Fresh
<1>8. CASE PutInvite(t)
  <2>1. /\ pc[t] = "putInvite" /\ pc'[t] = "putToken" /\ job'[t] = k /\ UNCHANGED tokenRow
        /\ i # k.invite => inviteRow'[i] = inviteRow[i]
    BY <1>8, GoFacts DEF PutInvite, Typed, TypeOK
  <2>2. \A s \in Tasks : PastAt(s, i)' => PastAt(s, i) /\ s # t
    BY <1>2, <1>4, <2>1 DEF PastAt
  <2>3. \A s \in Tasks : MakingAt(s, i)' => MakingAt(s, i)
    BY <1>1, <1>4, <2>1 DEF MakingAt
  <2>4. i = k.invite => pc'[t] = "putToken" /\ MakingAt(t, i)'
    BY <2>1 DEF MakingAt
  <2>5. \A s \in Tasks : pc[s] = "putToken" /\ MakingAt(s, i) => pc'[s] = "putToken" /\ MakingAt(s, i)'
    BY <1>4, <2>1 DEF MakingAt
  <2>6. Fresh(i)'
    BY <1>3, <1>4, <1>6, <1>7, <2>1 DEF Fresh
  <2>7. Made(i)' /\ CutOff(i)'
    BY <1>3, <1>6, <2>1, <2>2, <2>3 DEF Made, CutOff
  <2>8. Dropped(i)'
    BY <1>3, <1>4, <1>6, <1>7, <2>1, <2>2 DEF Dropped
  <2>9. Usable(i)'
    BY <1>3, <1>6, <2>1, <2>4, <2>5 DEF Usable
  <2>10. Used(i)'
    BY <1>3, <1>6, <1>7, <2>1 DEF Used
  <2> QED BY <2>6, <2>7, <2>8, <2>9, <2>10
<1>9. CASE PutToken(t)
  <2>1. /\ pc[t] = "putToken" /\ pc'[t] = "idle" /\ job'[t] = NoJob /\ UNCHANGED inviteRow
        /\ tokenRow'[i] = IF i = k.invite THEN k.account ELSE tokenRow[i]
    BY <1>9, GoFacts DEF PutToken, Typed, TypeOK
  <2>2. \A s \in Tasks : PastAt(s, i)' => PastAt(s, i) /\ s # t
    BY <1>4, <2>1 DEF PastAt
  <2>3. \A s \in Tasks : MakingAt(s, i)' => MakingAt(s, i) /\ s # t
    BY <1>4, <2>1 DEF MakingAt
  <2>4. i # k.invite => \A s \in Tasks : pc[s] = "putToken" /\ MakingAt(s, i) =>
          pc'[s] = "putToken" /\ MakingAt(s, i)'
    BY <1>4 DEF MakingAt
  <2>5. Fresh(i)'
    BY <1>3, <1>4, <1>6, <1>7, <2>1, NoneIsNoInvite DEF Fresh, NoJob
  <2>6. Made(i)' /\ CutOff(i)'
    BY <1>3, <1>6, <1>7, <2>1, <2>2, <2>3 DEF Made, CutOff
  <2>7. Dropped(i)'
    BY <1>3, <1>4, <1>6, <2>1, <2>2 DEF Dropped
  <2>8. Usable(i)'
    BY <1>2, <1>3, <1>6, <2>1, <2>4 DEF Usable
  <2>9. Used(i)'
    BY <1>3, <1>6, <1>7, <2>1 DEF Used
  <2> QED BY <2>5, <2>6, <2>7, <2>8, <2>9
<1> QED BY <1>8, <1>9

LEMMA DropTokens ==
  ASSUME Typed, TokenInv, NEW t \in Tasks,
         GetToken(t) \/ FindToken(t) \/ DelInvite(t) \/ DelToken(t)
  PROVE  TokenInv'
<1> DEFINE k == job[t]
           to == pc'[t]
<1>1. k \in Job /\ JobShape(pc[t], k) /\ pc[t] \in {"getToken", "findToken", "delInvite", "delToken"}
  BY HasShape DEF GetToken, FindToken, DelInvite, DelToken, Go, Goto
<1>2. k.op \in {"revoke", "accept"} /\ k.invite \in Invites
  BY <1>1 DEF JobShape
<1>3. UNCHANGED <<issued, expired, cut>>
  BY DEF GetToken, FindToken, DelInvite, DelToken, invites, history
<1>4. PICK q : Go(t, pc[t], q, k)
  BY DEF GetToken, FindToken, DelInvite, DelToken, Go, Goto
<1>5. /\ to = q /\ job'[t] = IF q = "idle" THEN NoJob ELSE k
      /\ \A s \in Tasks \ {t} : pc'[s] = pc[s] /\ job'[s] = job[s]
  BY <1>4, GoFacts
<1> SUFFICES ASSUME NEW i \in Invites
             PROVE  (Fresh(i) /\ Made(i) /\ CutOff(i) /\ Dropped(i) /\ Usable(i) /\ Used(i))'
  BY DEF TokenInv
<1>6. Fresh(i) /\ Made(i) /\ CutOff(i) /\ Dropped(i) /\ Usable(i) /\ Used(i)
  BY DEF TokenInv
<1>7. k.invite \in issued
  BY <1>2 DEF TokenInv, Fresh
<1>8. /\ GetToken(t) => pc[t] = "getToken" /\ UNCHANGED <<inviteRow, tokenRow, accepted>>
           /\ q = IF tokenRow[k.invite] = None THEN "idle" ELSE "getInvite"
      /\ FindToken(t) => pc[t] = "findToken" /\ UNCHANGED <<inviteRow, tokenRow, accepted>>
           /\ q = IF tokenRow[k.invite] = None THEN "delToken" ELSE "delInvite"
      /\ DelInvite(t) => pc[t] = "delInvite" /\ UNCHANGED <<tokenRow, accepted>> /\ q = "delToken"
           /\ inviteRow'[i] = IF i = k.invite THEN None ELSE inviteRow[i]
      /\ DelToken(t) => pc[t] = "delToken" /\ UNCHANGED inviteRow /\ q = "idle"
           /\ tokenRow'[i] = (IF i = k.invite THEN None ELSE tokenRow[i])
           /\ accepted' \in {accepted, accepted \cup {k.invite}}
  <2>1. inviteRow \in [Invites -> Invite \cup {None}] /\ tokenRow \in [Invites -> Accounts \cup {None}]
        /\ pc \in [Tasks -> Pcs]
    BY DEF Typed, TypeOK
  <2>2. pc'[t] = q
    BY <1>5
  <2>3. GetToken(t) => pc[t] = "getToken" /\ UNCHANGED <<inviteRow, tokenRow, accepted>>
           /\ q = IF tokenRow[k.invite] = None THEN "idle" ELSE "getInvite"
    BY <2>1, <2>2 DEF GetToken, Go, Goto, invites, history
  <2>4. FindToken(t) => pc[t] = "findToken" /\ UNCHANGED <<inviteRow, tokenRow, accepted>>
           /\ q = IF tokenRow[k.invite] = None THEN "delToken" ELSE "delInvite"
    BY <2>1, <2>2 DEF FindToken, Go, Goto, invites, history
  <2>5. DelInvite(t) => pc[t] = "delInvite" /\ UNCHANGED <<tokenRow, accepted>> /\ q = "delToken"
           /\ inviteRow'[i] = IF i = k.invite THEN None ELSE inviteRow[i]
    BY <2>1, <2>2 DEF DelInvite, Go, Goto, history
  <2>6. DelToken(t) => pc[t] = "delToken" /\ UNCHANGED inviteRow /\ q = "idle"
           /\ tokenRow'[i] = (IF i = k.invite THEN None ELSE tokenRow[i])
           /\ accepted' \in {accepted, accepted \cup {k.invite}}
    BY <2>1, <2>2 DEF DelToken, Go, Goto
  <2> QED BY <2>3, <2>4, <2>5, <2>6
<1>9. ~GetToken(t) => PastAt(t, k.invite)
  BY <1>1, <1>2, <1>8 DEF FindToken, DelInvite, DelToken, Go, Goto, PastAt
<1>10. q # "idle" /\ i = k.invite =>
         i \notin cut /\ \A s \in Tasks : ~MakingAt(s, i)
  <2>1. CASE GetToken(t)
    BY <1>6, <1>8, <2>1 DEF Made, CutOff
  <2>2. CASE ~GetToken(t)
    BY <1>6, <1>9, <2>2 DEF Made, CutOff
  <2> QED BY <2>1, <2>2
<1>11. ~GetToken(t) /\ i = k.invite => i \notin cut /\ \A s \in Tasks : ~MakingAt(s, i)
  BY <1>6, <1>9 DEF Made, CutOff
<1>12. \A s \in Tasks : MakingAt(s, i)' => MakingAt(s, i)
  BY <1>5, <1>8 DEF MakingAt
<1>13. \A s \in Tasks : MakingAt(s, i) => pc'[s] = pc[s] /\ MakingAt(s, i)'
  BY <1>1, <1>5 DEF MakingAt
<1>14. \A s \in Tasks : PastAt(s, i)' => PastAt(s, i) \/ (s = t /\ i = k.invite /\ q # "idle")
  BY <1>5 DEF PastAt, NoJob
<1>15. tokenRow'[i] = tokenRow[i] \/ tokenRow'[i] = None
  BY <1>8
<1>16. inviteRow'[i] = inviteRow[i] \/ inviteRow'[i] = None
  BY <1>8
<1>17. accepted' \subseteq accepted \cup {k.invite} /\ (~DelToken(t) => accepted' = accepted)
  BY <1>8
<1>18. Fresh(i)'
  <2>1. i \notin issued => \A s \in Tasks : job'[s].invite # i
    BY <1>5, <1>6, <1>7, NoneIsNoInvite DEF Fresh, NoJob
  <2> QED BY <1>3, <1>6, <1>7, <1>15, <1>16, <1>17, <2>1 DEF Fresh
<1>19. Made(i)'
  <2> SUFFICES ASSUME NEW s \in Tasks, MakingAt(s, i)'
               PROVE  /\ tokenRow'[i] = None /\ i \notin cut' /\ i \notin accepted'
                      /\ \A r \in Tasks : ~PastAt(r, i)' /\ (MakingAt(r, i)' => r = s)
    BY DEF Made
  <2>1. MakingAt(s, i)
    BY <1>12
  <2>2. i = k.invite => q = "idle" /\ GetToken(t)
    BY <1>10, <1>11, <2>1
  <2>3. i \notin accepted'
    BY <1>6, <1>8, <1>17, <2>1, <2>2 DEF Made
  <2> QED BY <1>3, <1>6, <1>12, <1>14, <1>15, <2>1, <2>2, <2>3 DEF Made
<1>20. CutOff(i)'
  BY <1>3, <1>6, <1>10, <1>14, <1>15 DEF CutOff
<1>21. Usable(i)'
  <2> SUFFICES ASSUME i \notin expired \cup cut, inviteRow'[i] # None
               PROVE  tokenRow'[i] # None \/ \E s \in Tasks : pc'[s] = "putToken" /\ MakingAt(s, i)'
    BY <1>3 DEF Usable
  <2>1. inviteRow[i] # None
    BY <1>16
  <2>2. tokenRow[i] # None \/ \E s \in Tasks : pc[s] = "putToken" /\ MakingAt(s, i)
    BY <1>6, <2>1 DEF Usable
  <2>3. CASE tokenRow[i] # None
    <3>1. ~(DelToken(t) /\ i = k.invite)
      BY <1>6, <1>8, <1>9, <2>1, <2>3 DEF Dropped, GetToken, Go, Goto
    <3> QED BY <1>8, <2>3, <3>1
  <2>4. CASE \E s \in Tasks : pc[s] = "putToken" /\ MakingAt(s, i)
    BY <1>13, <2>4
  <2> QED BY <2>2, <2>3, <2>4
<1>22. Dropped(i)'
  <2> SUFFICES ASSUME NEW s \in Tasks, pc'[s] = "delToken", PastAt(s, i)'
               PROVE  inviteRow'[i] = None \/ i \in expired'
    BY DEF Dropped
  <2>1. CASE s # t
    <3>1. pc[s] = "delToken" /\ PastAt(s, i)
      BY <1>5, <2>1 DEF PastAt
    <3> QED BY <1>3, <1>6, <1>16, <3>1 DEF Dropped
  <2>2. CASE s = t
    <3>1. q = "delToken" /\ i = k.invite
      BY <1>5, <2>2 DEF PastAt
    <3>2. CASE DelInvite(t)
      BY <1>8, <3>1, <3>2
    <3>3. CASE FindToken(t)
      <4>1. tokenRow[i] = None /\ inviteRow'[i] = inviteRow[i]
        BY <1>8, <3>1, <3>3
      <4>2. i \notin cut /\ \A r \in Tasks : ~MakingAt(r, i)
        BY <1>10, <3>1
      <4> QED BY <1>3, <1>6, <4>1, <4>2 DEF Usable
    <3> QED BY <1>8, <3>1, <3>2, <3>3
  <2> QED BY <2>1, <2>2
<1>23. Used(i)'
  <2>1. CASE i \in accepted
    BY <1>3, <1>6, <1>15, <1>16, <2>1 DEF Used
  <2>2. CASE i \notin accepted /\ i \in accepted'
    <3>1. DelToken(t) /\ i = k.invite
      BY <1>17, <2>2
    <3>2. pc[t] = "delToken" /\ tokenRow'[i] = None /\ inviteRow'[i] = inviteRow[i] /\ ~GetToken(t)
      BY <1>8, <3>1 DEF GetToken, Go, Goto
    <3>3. inviteRow[i] = None \/ i \in expired
      BY <1>6, <1>9, <3>1, <3>2 DEF Dropped
    <3> QED BY <1>3, <3>2, <3>3 DEF Used
  <2> QED BY <2>1, <2>2 DEF Used
<1> QED BY <1>18, <1>19, <1>20, <1>21, <1>22, <1>23

LEMMA FailTokens == ASSUME Typed, TokenInv, NEW t \in Tasks, Fail(t) PROVE TokenInv'
<1> DEFINE k == job[t]
<1>1. k \in Job /\ JobShape(pc[t], k)
  BY HasShape
<1>2. UNCHANGED <<inviteRow, tokenRow, issued, expired, accepted>>
  BY DEF Fail, invites
<1>3. /\ pc'[t] = "idle" /\ job'[t] = NoJob
      /\ \A s \in Tasks \ {t} : pc'[s] = pc[s] /\ job'[s] = job[s]
  BY GoFacts DEF Fail
<1>4. CASE pc[t] \notin {"putInvite", "putToken"}
  <2>1. UNCHANGED cut
    BY <1>4 DEF Fail
  <2>2. QuietMove(t)
    BY <1>3, <1>4 DEF QuietMove, PastAt, NoJob
  <2> QED BY <1>2, <2>1, <2>2, QuietTokens
<1>5. CASE pc[t] \in {"putInvite", "putToken"}
  <2>1. cut' = cut \cup {k.invite}
    BY <1>5 DEF Fail
  <2>2. MakingAt(t, k.invite) /\ k.invite \in Invites
    BY <1>1, <1>5 DEF MakingAt, JobShape
  <2> SUFFICES ASSUME NEW i \in Invites
               PROVE  (Fresh(i) /\ Made(i) /\ CutOff(i) /\ Dropped(i) /\ Usable(i) /\ Used(i))'
    BY DEF TokenInv
  <2>3. Fresh(i) /\ Made(i) /\ CutOff(i) /\ Dropped(i) /\ Usable(i) /\ Used(i)
    BY DEF TokenInv
  <2>4. \A s \in Tasks : PastAt(s, i)' => PastAt(s, i) /\ s # t
    BY <1>3 DEF PastAt
  <2>5. \A s \in Tasks : MakingAt(s, i)' => MakingAt(s, i) /\ s # t
    BY <1>3 DEF MakingAt
  <2>6. i = k.invite =>
          /\ i \in issued /\ tokenRow[i] = None
          /\ \A s \in Tasks : ~PastAt(s, i) /\ (MakingAt(s, i) => s = t)
    BY <2>2, <2>3 DEF Made, Fresh, MakingAt
  <2>7. i # k.invite => \A s \in Tasks : pc[s] = "putToken" /\ MakingAt(s, i) =>
          pc'[s] = "putToken" /\ MakingAt(s, i)'
    BY <1>3 DEF MakingAt
  <2>8. Fresh(i)'
    BY <1>2, <1>3, <2>1, <2>3, <2>6, NoneIsNoInvite DEF Fresh, NoJob
  <2>9. Made(i)'
    BY <1>2, <2>1, <2>3, <2>4, <2>5, <2>6 DEF Made
  <2>10. CutOff(i)'
    BY <1>2, <2>1, <2>3, <2>4, <2>6 DEF CutOff
  <2>11. Dropped(i)'
    BY <1>2, <1>3, <2>3, <2>4 DEF Dropped
  <2>12. Usable(i)' /\ Used(i)'
    BY <1>2, <2>1, <2>3, <2>7 DEF Usable, Used
  <2> QED BY <2>8, <2>9, <2>10, <2>11, <2>12
<1> QED BY <1>4, <1>5

LEMMA TimeTokens ==
  ASSUME Typed, TokenInv, NEW e \in Invites, Expire(e) \/ TimeToLive(e) PROVE TokenInv'
<1>1. UNCHANGED <<issued, pc, job, cut, accepted>> /\ expired \subseteq expired'
  BY DEF Expire, TimeToLive, history
<1> SUFFICES ASSUME NEW i \in Invites
             PROVE  (Fresh(i) /\ Made(i) /\ CutOff(i) /\ Dropped(i) /\ Usable(i) /\ Used(i))'
  BY DEF TokenInv
<1>2. Fresh(i) /\ Made(i) /\ CutOff(i) /\ Dropped(i) /\ Usable(i) /\ Used(i)
  BY DEF TokenInv
<1>3. \A s \in Tasks : (PastAt(s, i)' <=> PastAt(s, i)) /\ (MakingAt(s, i)' <=> MakingAt(s, i))
  BY <1>1 DEF PastAt, MakingAt
<1>4. /\ tokenRow'[i] = tokenRow[i] \/ (tokenRow'[i] = None /\ i \in expired)
      /\ inviteRow'[i] = inviteRow[i] \/ inviteRow'[i] = None
  BY DEF Expire, TimeToLive, Typed, TypeOK
<1>5. Fresh(i)' /\ Made(i)' /\ CutOff(i)'
  BY <1>1, <1>2, <1>3, <1>4 DEF Fresh, Made, CutOff
<1>6. Dropped(i)' /\ Usable(i)' /\ Used(i)'
  BY <1>1, <1>2, <1>3, <1>4 DEF Dropped, Usable, Used
<1> QED BY <1>5, <1>6

LEMMA NextTokens == Typed /\ TokenInv /\ [Next]_vars => TokenInv'
<1> SUFFICES ASSUME Typed, TokenInv, [Next]_vars PROVE TokenInv'
  OBVIOUS
<1>1. CASE UNCHANGED vars
  BY <1>1 DEF vars, TokenInv, Fresh, Made, CutOff, Dropped, Usable, Used, MakingAt, PastAt
<1>2. ASSUME NEW t \in Tasks, Step(t) PROVE TokenInv'
  BY <1>2, SignInTokens, AcceptTokens, ReadTeamToInviteTokens, MakeTokens, DropTokens DEF Step
<1> QED BY <1>1, <1>2, ArriveTokens, FailTokens, TimeTokens DEF Next

LEMMA InitTokens == Init => TokenInv
<1> SUFFICES ASSUME Init, NEW i \in Invites
             PROVE  Fresh(i) /\ Made(i) /\ CutOff(i) /\ Dropped(i) /\ Usable(i) /\ Used(i)
  BY DEF TokenInv
<1>1. PICK inv \in [issued -> Invite] :
        /\ inviteRow = [e \in Invites |-> IF e \in issued THEN inv[e] ELSE None]
        /\ tokenRow = [e \in Invites |-> IF e \in issued THEN inv[e].account ELSE None]
  BY DEF Init
<1>2. i \in issued => tokenRow[i] # None
  BY <1>1, NoneAssumption DEF Invite, Accounts
<1>3. /\ \A t \in Tasks : pc[t] = "idle" /\ job[t].invite = None
      /\ cut = {} /\ accepted = {}
  BY DEF Init, NoJob
<1>4. \A t \in Tasks : ~MakingAt(t, i) /\ ~PastAt(t, i)
  BY <1>3 DEF MakingAt, PastAt
<1>5. Fresh(i)
  BY <1>1, <1>3, NoneIsNoInvite DEF Fresh
<1>6. Usable(i)
  BY <1>1, <1>2 DEF Usable
<1> QED BY <1>3, <1>4, <1>5, <1>6 DEF Made, CutOff, Dropped, Used

LEMMA AlwaysTokens == Spec => [](Typed /\ TokenInv)
<1>1. Typed /\ TokenInv /\ [Next]_vars => (Typed /\ TokenInv)'
  BY NextTyped, NextTokens
<1> QED BY <1>1, InitTyped, InitTokens, PTL DEF Spec

\* An invite on the team page can be accepted and revoked, unless it is too
\* old or its creation was cut short.
THEOREM ListedInvitesAreUsable == Spec => []ListedInviteIsUsable
<1>1. TokenInv => ListedInviteIsUsable
  BY DEF TokenInv, Usable, MakingAt, ListedInviteIsUsable
<1> QED BY <1>1, AlwaysTokens, PTL

\* An accepted invite is used up, whoever else accepts or revokes it.
THEOREM AcceptedInvitesAreGone == Spec => []AcceptedInviteIsGone
<1>1. Typed /\ TokenInv => AcceptedInviteIsGone
  BY DEF Typed, TypeOK, TokenInv, Used, AcceptedInviteIsGone
<1> QED BY <1>1, AlwaysTokens, PTL

----------------------------------------------------------------------------
(* The two rows of a user *)

\* The rows of user u agree and nobody else lists u.
Agree(u) ==
  \A a \in Accounts :
    memberRow[a][u] = IF userRow[u] # None /\ userRow[u].account = a THEN userRow[u] ELSE None

\* Only row x of a user's membership rows is there; all are gone.
OnlyRow(u, x) == \A a \in Accounts : memberRow[a][u] = IF a = x.account THEN x ELSE None
NoRow(u)      == \A a \in Accounts : memberRow[a][u] = None

\* A user who is in an account at all is in account a.
InOrOut(u, a) == userRow[u] # None => userRow[u].account = a

\* Whose rows a request at q writes.
Concerned(q, j) == IF q \in {"signInMember", "signInUser"} THEN j.caller ELSE Subject(j)

Joining(q)    == q \in {"signInMember", "putMember"}
Joined1(q)    == q \in {"signInUser", "putUser"}
Leaving(q, j) == q = "delMember" \/ (q = "readTeam" /\ j.op = "accept")

\* The rows of user u while the only request about u stands at q.
RowState(u, q, j) ==
  /\ u = Concerned(q, j) /\ Joining(q) => InOrOut(u, j.record.account)
  /\ u = Concerned(q, j) /\ Leaving(q, j) => InOrOut(u, j.leaving)
  /\ u = Concerned(q, j) /\ Joined1(q) => OnlyRow(u, j.record)
  /\ u = Concerned(q, j) /\ q = "delUser" => NoRow(u)
  /\ ~(u = Concerned(q, j) /\ (Joined1(q) \/ q = "delUser")) => Agree(u)

RowsInv ==
  /\ \A t \in Tasks : pc[t] = "idle" => job[t] = NoJob
  /\ \A u \in Users \ disturbed :
       /\ \A t, s \in Tasks : u \in About(job[t]) /\ u \in About(job[s]) => t = s
       /\ (\A t \in Tasks : u \notin About(job[t])) => Agree(u)
       /\ \A t \in Tasks : u \in About(job[t]) => RowState(u, pc[t], job[t])

LEMMA NoJobIsAboutNobody == About(NoJob) = {}
  BY DEF About, NoJob

\* What keeps the rows of u keeps what is said about them.
LEMMA SameRows ==
  ASSUME NEW u, userRow'[u] = userRow[u], \A a \in Accounts : memberRow'[a][u] = memberRow[a][u]
  PROVE  /\ Agree(u)' <=> Agree(u)
         /\ \A q, j : RowState(u, q, j)' <=> RowState(u, q, j)
<1>1. /\ Agree(u)' <=> Agree(u)
      /\ NoRow(u)' <=> NoRow(u)
      /\ \A x : OnlyRow(u, x)' <=> OnlyRow(u, x)
      /\ \A a : InOrOut(u, a)' <=> InOrOut(u, a)
  BY DEF Agree, NoRow, OnlyRow, InOrOut
<1> QED BY <1>1 DEF RowState

\* Request t moves on about the same users, or ends, and writes only their rows.
LEMMA RowsMove ==
  ASSUME Typed, RowsInv, NEW t \in Tasks, NEW to, NEW j,
         Go(t, pc[t], to, j),
         to # "idle" => j.op = job[t].op /\ j.caller = job[t].caller /\ j.target = job[t].target,
         disturbed \subseteq disturbed',
         \A u \in Users \ About(job[t]) :
           userRow'[u] = userRow[u] /\ \A a \in Accounts : memberRow'[a][u] = memberRow[a][u],
         \A u \in Users \ disturbed' : u \in About(job[t]) /\ RowState(u, pc[t], job[t]) =>
           IF to = "idle" THEN Agree(u)' ELSE RowState(u, to, j)'
  PROVE  RowsInv'
<1>1. /\ pc'[t] = to /\ job'[t] = (IF to = "idle" THEN NoJob ELSE j)
      /\ \A s \in Tasks \ {t} : pc'[s] = pc[s] /\ job'[s] = job[s]
  BY GoFacts
<1>2. About(job'[t]) = IF to = "idle" THEN {} ELSE About(job[t])
  BY <1>1, NoJobIsAboutNobody DEF About
<1>3. \A s \in Tasks : pc'[s] = "idle" => job'[s] = NoJob
  BY <1>1 DEF RowsInv
<1>4. ASSUME NEW u \in Users \ disturbed'
      PROVE  /\ \A r, s \in Tasks : u \in About(job'[r]) /\ u \in About(job'[s]) => r = s
             /\ (\A s \in Tasks : u \notin About(job'[s])) => Agree(u)'
             /\ \A s \in Tasks : u \in About(job'[s]) => RowState(u, pc[s], job[s])'
  <2>1. /\ \A r, s \in Tasks : u \in About(job[r]) /\ u \in About(job[s]) => r = s
        /\ (\A s \in Tasks : u \notin About(job[s])) => Agree(u)
        /\ \A s \in Tasks : u \in About(job[s]) => RowState(u, pc[s], job[s])
    BY DEF RowsInv
  <2>2. \A s \in Tasks : u \in About(job'[s]) => u \in About(job[s])
    BY <1>1, <1>2
  <2>3. \A r, s \in Tasks : u \in About(job'[r]) /\ u \in About(job'[s]) => r = s
    BY <2>1, <2>2
  <2>4. CASE u \in About(job[t])
    <3>1. IF to = "idle" THEN Agree(u)' ELSE RowState(u, to, j)'
      BY <2>1, <2>4
    <3>2. (\A s \in Tasks : u \notin About(job'[s])) => Agree(u)'
      BY <1>2, <2>4, <3>1
    <3>3. ASSUME NEW s \in Tasks, u \in About(job'[s]) PROVE RowState(u, pc[s], job[s])'
      <4>1. s = t
        BY <2>1, <2>2, <2>4, <3>3
      <4>2. to # "idle"
        BY <1>2, <3>3, <4>1
      <4> QED BY <1>1, <3>1, <4>1, <4>2
    <3> QED BY <2>3, <3>2, <3>3
  <2>5. CASE u \notin About(job[t])
    <3>1. /\ Agree(u)' <=> Agree(u)
          /\ \A q, k : RowState(u, q, k)' <=> RowState(u, q, k)
      BY <2>5, SameRows
    <3>2. \A s \in Tasks : u \in About(job'[s]) => s # t
      BY <1>2, <2>5
    <3>3. (\A s \in Tasks : u \notin About(job'[s])) => Agree(u)'
      BY <1>1, <2>1, <2>5, <3>1
    <3>4. \A s \in Tasks : u \in About(job'[s]) => RowState(u, pc[s], job[s])'
      BY <1>1, <2>1, <3>1, <3>2
    <3> QED BY <2>3, <3>3, <3>4
  <2> QED BY <2>4, <2>5
<1> QED BY <1>3, <1>4 DEF RowsInv

\* A place where no request is about to change a row of anybody.
Plain(q, j) ==
  /\ q \notin {"signInMember", "signInUser", "delMember", "delUser", "putMember", "putUser"}
  /\ ~(q = "readTeam" /\ j.op = "accept")

LEMMA PlainAgrees == \A u, q, j : Plain(q, j) => (RowState(u, q, j) <=> Agree(u))
  BY DEF Plain, RowState, Joining, Joined1, Leaving

LEMMA PlainAgreesNext == \A u, q, j : Plain(q, j) => (RowState(u, q, j)' <=> Agree(u)')
  BY DEF Plain, RowState, Joining, Joined1, Leaving

\* From one such place to another without a write.
LEMMA PlainMove ==
  ASSUME Typed, RowsInv, NEW t \in Tasks, NEW to, NEW j, Go(t, pc[t], to, j),
         to # "idle" => j.op = job[t].op /\ j.caller = job[t].caller /\ j.target = job[t].target,
         UNCHANGED <<memberRow, userRow, disturbed>>,
         Plain(pc[t], job[t]), to # "idle" => Plain(to, j)
  PROVE  RowsInv'
<1>1. \A u : Agree(u)' <=> Agree(u)
  BY DEF Agree
<1>2. \A u : RowState(u, pc[t], job[t]) => Agree(u)'
  BY <1>1, PlainAgrees
<1>3. \A u : to # "idle" => (RowState(u, to, j)' <=> Agree(u)')
  BY PlainAgreesNext
<1> QED BY <1>2, <1>3, RowsMove

LEMMA ArriveRows == ASSUME Typed, RowsInv, NEW t \in Tasks, Arrive(t) PROVE RowsInv'
<1>1. PICK u, op, v, i, role, p : Call(t, u, op, v, i, role, p)
  BY DEF Arrive
<1>2. PICK j : Go(t, "idle", "resolve", j)
  BY <1>1 DEF Call
<1>3. /\ pc[t] = "idle" /\ pc'[t] = "resolve"
      /\ \A s \in Tasks \ {t} : pc'[s] = pc[s] /\ job'[s] = job[s]
  BY <1>2, GoFacts
<1>4. /\ disturbed' = disturbed \cup UNION {About(job[s]) \cap About(job'[t]) : s \in Tasks \ {t}}
      /\ UNCHANGED <<memberRow, userRow>>
  BY <1>1 DEF Call, members
<1>5. \A s \in Tasks : pc'[s] = "idle" => job'[s] = NoJob
  BY <1>3 DEF RowsInv
<1>6. About(job[t]) = {}
  BY <1>3, NoJobIsAboutNobody DEF RowsInv
<1>7. ASSUME NEW w \in Users \ disturbed'
      PROVE  /\ \A r, s \in Tasks : w \in About(job'[r]) /\ w \in About(job'[s]) => r = s
             /\ (\A s \in Tasks : w \notin About(job'[s])) => Agree(w)'
             /\ \A s \in Tasks : w \in About(job'[s]) => RowState(w, pc[s], job[s])'
  <2>1. /\ \A r, s \in Tasks : w \in About(job[r]) /\ w \in About(job[s]) => r = s
        /\ (\A s \in Tasks : w \notin About(job[s])) => Agree(w)
        /\ \A s \in Tasks : w \in About(job[s]) => RowState(w, pc[s], job[s])
    BY <1>4 DEF RowsInv
  <2>2. w \in About(job'[t]) => \A s \in Tasks \ {t} : w \notin About(job[s])
    BY <1>4
  <2>3. /\ Agree(w)' <=> Agree(w)
        /\ \A q, k : RowState(w, q, k)' <=> RowState(w, q, k)
    BY <1>4, SameRows
  <2>4. w \in About(job'[t]) => RowState(w, pc[t], job[t])'
    <3>1. Plain("resolve", job'[t])
      BY DEF Plain
    <3>2. w \in About(job'[t]) => Agree(w)'
      BY <1>6, <2>1, <2>2, <2>3
    <3> QED BY <1>3, <3>1, <3>2, PlainAgreesNext
  <2>5. \A r, s \in Tasks : w \in About(job'[r]) /\ w \in About(job'[s]) => r = s
    BY <1>3, <2>1, <2>2
  <2>6. (\A s \in Tasks : w \notin About(job'[s])) => Agree(w)'
    BY <1>3, <1>6, <2>1, <2>3
  <2>7. \A s \in Tasks : w \in About(job'[s]) => RowState(w, pc[s], job[s])'
    BY <1>3, <2>1, <2>3, <2>4
  <2> QED BY <2>5, <2>6, <2>7
<1> QED BY <1>5, <1>7 DEF RowsInv

LEMMA FailRows == ASSUME Typed, RowsInv, NEW t \in Tasks, Fail(t) PROVE RowsInv'
<1>1. /\ Go(t, pc[t], "idle", NoJob) /\ UNCHANGED <<memberRow, userRow>>
      /\ disturbed' = disturbed \cup About(job[t])
  BY DEF Fail, members
<1> QED BY <1>1, RowsMove

LEMMA InviteRows ==
  ASSUME Typed, RowsInv, NEW t \in Tasks,
         \/ ReadTeamToInvite(t) \/ PutInvite(t) \/ PutToken(t) \/ GetToken(t) \/ GetInvite(t)
         \/ FindToken(t) \/ DelInvite(t) \/ DelToken(t)
  PROVE  RowsInv'
<1>0. PICK k : k = job[t]
  OBVIOUS
<1> USE <1>0
<1>1. k \in Job /\ JobShape(pc[t], k)
  BY HasShape
<1>2. UNCHANGED <<memberRow, userRow, disturbed>>
  BY DEF ReadTeamToInvite, PutInvite, PutToken, GetToken, GetInvite, FindToken, DelInvite,
         DelToken, members, history
<1>3. CASE ReadTeamToInvite(t)
  <2>1. pc[t] = "readTeam" /\ k.op = "create"
    BY <1>3 DEF ReadTeamToInvite
  <2>2. Plain(pc[t], k)
    BY <2>1 DEF Plain
  <2>3. CASE Conflict(k.account, k.target)
    <3>1. Go(t, pc[t], "idle", k)
      BY <1>3, <2>1, <2>3 DEF ReadTeamToInvite
    <3> QED BY <1>2, <2>2, <3>1, PlainMove
  <2>4. CASE ~Conflict(k.account, k.target)
    <3>1. PICK i \in Invites \ issued : Go(t, "readTeam", "putInvite", [k EXCEPT !.invite = i])
      BY <1>3, <2>4 DEF ReadTeamToInvite
    <3> DEFINE j == [k EXCEPT !.invite = i]
    <3>2. j.op = k.op /\ j.caller = k.caller /\ j.target = k.target
      BY <1>1 DEF Job
    <3> HIDE DEF j
    <3>3. Plain("putInvite", j)
      BY DEF Plain
    <3>4. Go(t, pc[t], "putInvite", j)
      BY <2>1, <3>1 DEF j
    <3> QED BY <1>2, <2>2, <3>2, <3>3, <3>4, PlainMove
  <2> QED BY <2>3, <2>4
<1>4. CASE GetInvite(t)
  <2> DEFINE inv == inviteRow[k.invite]
             to  == CASE inv = None -> "idle"
                      [] inv # None /\ k.op = "revoke" ->
                           IF inv.account = k.account THEN "findToken" ELSE "idle"
                      [] inv # None /\ k.op = "accept" ->
                           IF k.invite \in expired THEN "findToken"
                           ELSE IF MayAccept(inv, k.caller) THEN "getUser" ELSE "idle"
                      [] OTHER -> "idle"
             x   == IF to = "getUser" THEN Joined(inv, k) ELSE None
             j   == [k EXCEPT !.record = x]
  <2>1. Go(t, pc[t], to, j) /\ pc[t] = "getInvite"
    BY <1>4 DEF GetInvite, Go, Goto
  <2>2. to \in {"idle", "findToken", "getUser"}
    OBVIOUS
  <2> HIDE DEF to, x
  <2>3. j.op = k.op /\ j.caller = k.caller /\ j.target = k.target
    BY <1>1 DEF Job
  <2> HIDE DEF j
  <2>4. Plain(pc[t], k) /\ Plain(to, j)
    BY <2>1, <2>2 DEF Plain
  <2> QED BY <1>2, <2>1, <2>3, <2>4, PlainMove
<1>5. CASE PutInvite(t) \/ PutToken(t) \/ GetToken(t) \/ FindToken(t) \/ DelInvite(t) \/ DelToken(t)
  <2>1. PICK to : /\ Go(t, pc[t], to, k)
                  /\ to \in {"idle", "putToken", "getInvite", "delToken", "delInvite"}
    BY <1>5 DEF PutInvite, PutToken, GetToken, FindToken, DelInvite, DelToken, Go, Goto
  <2>2. pc[t] \in {"putInvite", "putToken", "getToken", "findToken", "delInvite", "delToken"}
    BY <1>5 DEF PutInvite, PutToken, GetToken, FindToken, DelInvite, DelToken, Go, Goto
  <2>3. Plain(pc[t], k) /\ Plain(to, k)
    BY <2>1, <2>2 DEF Plain
  <2> QED BY <1>2, <2>1, <2>3, PlainMove
<1> QED BY <1>3, <1>4, <1>5

LEMMA ResolveRows == ASSUME Typed, RowsInv, NEW t \in Tasks, Resolve(t) PROVE RowsInv'
<1>0. PICK k : k = job[t]
  OBVIOUS
<1> USE <1>0
<1> DEFINE row == userRow[k.caller]
           own == [account |-> k.caller, role |-> "owner", profile |-> k.profile]
           rec == CASE row = None -> own
                    [] row # None /\ k.profile = None -> row
                    [] row # None /\ k.profile # None ->
                         [account |-> row.account, role |-> row.role, profile |-> k.profile]
<1>9. PICK to, x, j :
        /\ to = IF rec = row THEN Handler(k, row.role) ELSE "signInMember"
        /\ x = IF rec = row THEN None ELSE rec
        /\ j = [k EXCEPT !.account = rec.account, !.role = rec.role, !.record = x]
  OBVIOUS
<1>1. k \in Job /\ JobShape("resolve", k) /\ pc[t] = "resolve"
  BY HasShape DEF Resolve, Go, Goto
<1>2. Go(t, pc[t], to, j) /\ UNCHANGED <<memberRow, userRow, disturbed>>
  BY <1>1, <1>9 DEF Resolve, members, history
<1>3. row # None => rec.account = row.account
  OBVIOUS
<1> HIDE DEF rec
<1>4. j.op = k.op /\ j.caller = k.caller /\ j.target = k.target /\ j.record = x
  BY <1>1, <1>9 DEF Job
<1>5. k.op \in AllOps
  BY <1>1 DEF JobShape
<1>6. Plain(pc[t], k)
  BY <1>1 DEF Plain
<1>7. CASE rec = row
  <2>1. \/ to \in {"idle", "getToken", "getMember"} \/ (to = "readTeam" /\ k.op = "create")
    BY <1>5, <1>7, <1>9, HandlerGoes
  <2>2. Plain(to, j)
    BY <1>4, <2>1 DEF Plain
  <2> QED BY <1>2, <1>4, <1>6, <2>2, PlainMove
<1>8. CASE rec # row
  <2>1. to = "signInMember" /\ x = rec
    BY <1>8, <1>9
  <2>2. ASSUME NEW u \in Users, RowState(u, pc[t], k) PROVE RowState(u, to, j)'
    <3>1. Agree(u) /\ (Agree(u)' <=> Agree(u))
      BY <1>2, <1>6, <2>2, PlainAgrees, SameRows
    <3>2. Concerned(to, j) = k.caller
      BY <1>4, <2>1 DEF Concerned
    <3>3. u = k.caller => InOrOut(u, j.record.account)'
      BY <1>2, <1>3, <1>4, <2>1 DEF InOrOut
    <3>4. Joining(to) /\ ~Joined1(to) /\ ~Leaving(to, j) /\ to # "delUser"
      BY <2>1 DEF Joining, Joined1, Leaving
    <3> QED BY <3>1, <3>2, <3>3, <3>4 DEF RowState
  <2> QED BY <1>2, <1>4, <2>1, <2>2, RowsMove
<1> QED BY <1>7, <1>8

\* The caller of a request, and whom it removes or changes, are whom it is about.
LEMMA ConcernedIsAbout ==
  ASSUME NEW q, NEW j, JobShape(q, j),
         q \in {"signInMember", "signInUser", "delMember", "delUser", "putMember", "putUser"}
  PROVE  Concerned(q, j) \in About(j) /\ Concerned(q, j) \in Users
<1>1. j.caller \in Users /\ j.caller # None
  BY NoneAssumption DEF JobShape
<1>2. q \in {"delMember", "delUser", "putMember", "putUser"} /\ j.op # "accept" =>
        j.op \in {"remove", "patch"} /\ j.target \in Users /\ j.target # None
  BY NoneAssumption DEF JobShape
<1> QED BY <1>1, <1>2 DEF Concerned, Subject, About

LEMMA SignInRows ==
  ASSUME Typed, RowsInv, NEW t \in Tasks, SignInMember(t) \/ SignInUser(t) PROVE RowsInv'
<1>0. PICK k : k = job[t]
  OBVIOUS
<1> USE <1>0
<1> DEFINE c == k.caller
<1>1. k \in Job /\ JobShape(pc[t], k) /\ pc[t] \in {"signInMember", "signInUser"}
  BY HasShape DEF SignInMember, SignInUser, Go, Goto
<1>2. /\ k.record \in Member /\ k.record # None /\ k.record.account \in Accounts /\ k.op \in AllOps
      /\ c \in Users /\ c \in About(k) /\ Concerned(pc[t], k) = c
  BY <1>1, ConcernedIsAbout, NoneAssumption DEF JobShape, Member, Concerned
<1> HIDE DEF c
<1>3. CASE SignInMember(t)
  <2>1. /\ Go(t, pc[t], "signInUser", k) /\ pc[t] = "signInMember"
        /\ memberRow' = [memberRow EXCEPT ![k.record.account][c] = k.record]
        /\ UNCHANGED <<userRow, disturbed>>
    BY <1>3 DEF SignInMember, Go, Goto, history, c
  <2>2. \A a \in Accounts, u \in Users :
          memberRow'[a][u] = IF a = k.record.account /\ u = c THEN k.record ELSE memberRow[a][u]
    BY <1>2, <2>1 DEF Typed, TypeOK
  <2>3. ASSUME NEW u \in Users, RowState(u, "signInMember", k) PROVE RowState(u, "signInUser", k)'
    <3>1. /\ Agree(u)
          /\ u = c => InOrOut(u, k.record.account)
      BY <1>2, <2>1, <2>3 DEF RowState, Joining, Joined1, Leaving
    <3>2. u = c => OnlyRow(u, k.record)'
      BY <2>2, <3>1 DEF Agree, InOrOut, OnlyRow
    <3>3. u # c => (Agree(u)' <=> Agree(u))
      BY <2>1, <2>2, SameRows
    <3>4. Concerned("signInUser", k) = c
      BY DEF Concerned, c
    <3>5. ~Joining("signInUser") /\ ~Leaving("signInUser", k)
      BY DEF Joining, Leaving
    <3> QED BY <3>1, <3>2, <3>3, <3>4, <3>5 DEF RowState, Joined1
  <2> QED BY <1>2, <2>1, <2>2, <2>3, RowsMove
<1>4. CASE SignInUser(t)
  <2>0. PICK j, to : j = [k EXCEPT !.record = None] /\ to = Handler(k, k.role)
    OBVIOUS
  <2>1. /\ Go(t, pc[t], to, j) /\ pc[t] = "signInUser"
        /\ userRow' = [userRow EXCEPT ![c] = k.record]
        /\ UNCHANGED <<memberRow, disturbed>>
    BY <1>4, <2>0 DEF SignInUser, Go, Goto, history, c
  <2>2. j.op = k.op /\ j.caller = k.caller /\ j.target = k.target
    BY <1>1, <2>0 DEF Job
  <2>3. \/ to \in {"idle", "getToken", "getMember"} \/ (to = "readTeam" /\ k.op = "create")
    BY <1>2, <2>0, HandlerGoes
  <2>4. \A u \in Users : userRow'[u] = IF u = c THEN k.record ELSE userRow[u]
    BY <1>2, <2>1, UserWritten
  <2>5. Plain(to, j)
    BY <2>2, <2>3 DEF Plain
  <2>6. ASSUME NEW u \in Users, RowState(u, "signInUser", k) PROVE Agree(u)'
    <3>1. CASE u = c
      <4>1. OnlyRow(u, k.record)
        BY <1>2, <2>1, <2>6, <3>1 DEF RowState, Joined1
      <4> QED BY <1>2, <2>1, <2>4, <3>1, <4>1 DEF OnlyRow, Agree
    <3>2. CASE u # c
      <4>1. Agree(u)
        BY <1>2, <2>1, <2>6, <3>2 DEF RowState
      <4> QED BY <2>1, <2>4, <3>2, <4>1, SameRows
    <3> QED BY <3>1, <3>2
  <2>7. \A u \in Users : RowState(u, "signInUser", k) => RowState(u, to, j)'
    BY <2>5, <2>6, PlainAgreesNext
  <2> QED BY <1>2, <2>1, <2>2, <2>4, <2>6, <2>7, RowsMove
<1> QED BY <1>3, <1>4

LEMMA GetUserRows == ASSUME Typed, RowsInv, NEW t \in Tasks, GetUser(t) PROVE RowsInv'
<1>0. PICK k : k = job[t]
  OBVIOUS
<1> USE <1>0
<1> DEFINE row == userRow[k.caller]
           goes == CASE row = None -> "putMember"
                    [] row # None /\ row.account = k.record.account -> "idle"
                    [] row # None /\ row.account # k.record.account ->
                         IF row.role = "owner" THEN "readTeam" ELSE "delMember"
<1>7. PICK to, a, j : /\ to = goes
                      /\ a = IF to \in {"readTeam", "delMember"} THEN row.account ELSE None
                      /\ j = [k EXCEPT !.leaving = a]
  OBVIOUS
<1>1. k \in Job /\ JobShape("getUser", k) /\ pc[t] = "getUser"
  BY HasShape DEF GetUser, Go, Goto
<1>2. Go(t, pc[t], to, j) /\ UNCHANGED <<memberRow, userRow, disturbed>>
  BY <1>1, <1>7 DEF GetUser, members, history
<1>3. k.op = "accept"
  BY <1>1 DEF JobShape
<1>4. /\ to \in {"putMember", "idle", "readTeam", "delMember"}
      /\ to = "putMember" => row = None
      /\ to \in {"readTeam", "delMember"} => a = row.account
  BY <1>7
<1> HIDE DEF goes
<1>5. j.op = k.op /\ j.caller = k.caller /\ j.target = k.target /\ j.leaving = a
  BY <1>1, <1>7 DEF Job
<1>6. ASSUME NEW u \in Users, RowState(u, pc[t], k)
      PROVE  Agree(u)' /\ (to # "idle" => RowState(u, to, j)')
  <2>1. Plain(pc[t], k)
    BY <1>1 DEF Plain
  <2>2. Agree(u)'
    BY <1>2, <1>6, <2>1, PlainAgrees, SameRows
  <2>3. Concerned(to, j) = k.caller
    BY <1>3, <1>4, <1>5 DEF Concerned, Subject
  <2>4. u = k.caller /\ Joining(to) => InOrOut(u, j.record.account)'
    BY <1>2, <1>4 DEF Joining, InOrOut
  <2>5. u = k.caller /\ Leaving(to, j) => InOrOut(u, j.leaving)'
    BY <1>2, <1>4, <1>5 DEF Leaving, InOrOut
  <2>6. to # "idle" => ~Joined1(to) /\ to # "delUser"
    BY <1>4 DEF Joined1
  <2> QED BY <2>2, <2>3, <2>4, <2>5, <2>6 DEF RowState
<1> QED BY <1>2, <1>5, <1>6, RowsMove

LEMMA ReadTeamToLeaveRows ==
  ASSUME Typed, RowsInv, NEW t \in Tasks, ReadTeamToLeave(t) PROVE RowsInv'
<1>0. PICK k : k = job[t]
  OBVIOUS
<1> USE <1>0
<1>5. PICK to : to = IF Cardinality(TeamOf(k.leaving)) > 1 \/ LiveInvites(k.leaving) # {}
                      THEN "idle" ELSE "delMember"
  OBVIOUS
<1>1. k.op = "accept" /\ pc[t] = "readTeam" /\ Go(t, pc[t], to, k)
      /\ UNCHANGED <<memberRow, userRow, disturbed>>
  BY <1>5 DEF ReadTeamToLeave, Go, Goto, members, history
<1>2. to \in {"idle", "delMember"}
  BY <1>5
<1>3. ASSUME NEW u \in Users, RowState(u, pc[t], k)
      PROVE  Agree(u)' /\ (to # "idle" => RowState(u, to, k)')
  <2>1. Concerned(pc[t], k) = k.caller /\ Concerned("delMember", k) = k.caller
    BY <1>1 DEF Concerned, Subject
  <2>2. Agree(u) /\ (u = k.caller => InOrOut(u, k.leaving))
    BY <1>1, <1>3, <2>1 DEF RowState, Leaving, Joined1
  <2>3. Agree(u)' /\ (u = k.caller => InOrOut(u, k.leaving)')
    BY <1>1, <2>2, SameRows DEF InOrOut
  <2>4. ~Joining("delMember") /\ ~Joined1("delMember")
    BY DEF Joining, Joined1
  <2> QED BY <1>2, <2>1, <2>3, <2>4 DEF RowState
<1> QED BY <1>1, <1>3, RowsMove

LEMMA GetMemberRows == ASSUME Typed, RowsInv, NEW t \in Tasks, GetMember(t) PROVE RowsInv'
<1>0. PICK k : k = job[t]
  OBVIOUS
<1> USE <1>0
<1> DEFINE row == memberRow[k.account][k.target]
<1>1. k \in Job /\ JobShape("getMember", k) /\ pc[t] = "getMember"
  BY HasShape DEF GetMember
<1>2. k.account \in Accounts /\ k.op \in {"remove", "patch"}
  BY <1>1 DEF JobShape
<1>3. UNCHANGED <<memberRow, userRow, disturbed>>
  BY DEF GetMember, members
<1>4. Plain(pc[t], k)
  BY <1>1 DEF Plain
<1>5. CASE Go(t, "getMember", "idle", k)
  BY <1>1, <1>3, <1>4, <1>5, PlainMove
<1>6. ASSUME NEW to \in {"delMember", "putMember"}, NEW j, Go(t, pc[t], to, j), row # None,
             j.op = k.op, j.caller = k.caller, j.target = k.target,
             to = "delMember" => j.leaving = k.account,
             to = "putMember" => j.record.account = row.account
      PROVE  RowsInv'
  <2>1. ASSUME NEW u \in Users, RowState(u, pc[t], k) PROVE RowState(u, to, j)'
    <3>1. Agree(u) /\ Agree(u)'
      BY <1>3, <1>4, <2>1, PlainAgrees, SameRows
    <3>2. Concerned(to, j) = k.target
      BY <1>2, <1>6 DEF Concerned, Subject
    <3>3. u = k.target => userRow[u] # None /\ userRow[u].account = k.account /\ row = userRow[u]
      BY <1>2, <1>6, <3>1 DEF Agree
    <3>4. u = k.target /\ to = "delMember" => InOrOut(u, j.leaving)'
      BY <1>3, <1>6, <3>3 DEF InOrOut
    <3>5. u = k.target /\ to = "putMember" => InOrOut(u, j.record.account)'
      BY <1>3, <1>6, <3>3 DEF InOrOut
    <3>6. Joining(to) <=> to = "putMember"
      BY <1>6 DEF Joining
    <3>7. (Leaving(to, j) <=> to = "delMember") /\ ~Joined1(to) /\ to # "delUser"
      BY <1>6 DEF Leaving, Joined1
    <3> QED BY <3>1, <3>2, <3>4, <3>5, <3>6, <3>7 DEF RowState
  <2> QED BY <1>3, <1>6, <2>1, RowsMove
<1>7. CASE row # None /\ Go(t, "getMember", "delMember", [k EXCEPT !.leaving = k.account])
  <2>0. PICK j : j = [k EXCEPT !.leaving = k.account]
    OBVIOUS
  <2>1. j.op = k.op /\ j.caller = k.caller /\ j.target = k.target /\ j.leaving = k.account
    BY <1>1, <2>0 DEF Job
  <2>2. Go(t, pc[t], "delMember", j)
    BY <1>1, <1>7, <2>0
  <2> QED BY <1>6, <1>7, <2>1, <2>2
<1>8. CASE row # None /\
           Go(t, "getMember", "putMember",
              [k EXCEPT !.record =
                 [account |-> row.account, role |-> k.grant, profile |-> row.profile]])
  <2> DEFINE r == [account |-> row.account, role |-> k.grant, profile |-> row.profile]
  <2>0. PICK j : j = [k EXCEPT !.record = r]
    OBVIOUS
  <2>1. r.account = row.account
    OBVIOUS
  <2>2. Go(t, pc[t], "putMember", j)
    BY <1>1, <1>8, <2>0
  <2> HIDE DEF r
  <2>3. j.op = k.op /\ j.caller = k.caller /\ j.target = k.target /\ j.record = r
    BY <1>1, <2>0 DEF Job
  <2> QED BY <1>6, <1>8, <2>1, <2>2, <2>3
<1> QED BY <1>5, <1>7, <1>8 DEF GetMember, Untouchable

LEMMA DeleteRows ==
  ASSUME Typed, RowsInv, NEW t \in Tasks, DelMember(t) \/ DelUser(t) PROVE RowsInv'
<1>0. PICK k : k = job[t]
  OBVIOUS
<1> USE <1>0
<1> DEFINE c == Subject(k)
<1>1. k \in Job /\ JobShape(pc[t], k) /\ pc[t] \in {"delMember", "delUser"}
  BY HasShape DEF DelMember, DelUser, Go, Goto
<1>2. /\ k.leaving \in Accounts /\ c \in Users /\ c \in About(k)
      /\ \A q \in {"delMember", "delUser", "putMember"} : Concerned(q, k) = c
  BY <1>1, ConcernedIsAbout DEF JobShape, Concerned
<1> HIDE DEF c
<1>3. CASE DelMember(t)
  <2>1. /\ Go(t, pc[t], "delUser", k) /\ pc[t] = "delMember"
        /\ memberRow' = [memberRow EXCEPT ![k.leaving][c] = None]
        /\ UNCHANGED <<userRow, disturbed>>
    BY <1>3 DEF DelMember, Go, Goto, history, c
  <2>2. \A a \in Accounts, u \in Users :
          memberRow'[a][u] = IF a = k.leaving /\ u = c THEN None ELSE memberRow[a][u]
    BY <1>2, <2>1 DEF Typed, TypeOK
  <2>3. ASSUME NEW u \in Users, RowState(u, "delMember", k) PROVE RowState(u, "delUser", k)'
    <3>1. Agree(u) /\ (u = c => InOrOut(u, k.leaving))
      BY <1>2, <2>3 DEF RowState, Joined1, Leaving
    <3>2. u = c => NoRow(u)'
      BY <2>2, <3>1 DEF Agree, InOrOut, NoRow
    <3>3. u # c => (Agree(u)' <=> Agree(u))
      BY <2>1, <2>2, SameRows
    <3>4. ~Joining("delUser") /\ ~Leaving("delUser", k) /\ ~Joined1("delUser")
      BY DEF Joining, Leaving, Joined1
    <3> QED BY <1>2, <3>1, <3>2, <3>3, <3>4 DEF RowState
  <2> QED BY <1>2, <2>1, <2>2, <2>3, RowsMove
<1>4. CASE DelUser(t)
  <2>0. PICK to : to = IF k.op = "accept" THEN "putMember" ELSE "idle"
    OBVIOUS
  <2>1. /\ Go(t, pc[t], to, k) /\ pc[t] = "delUser"
        /\ userRow' = [userRow EXCEPT ![c] = None]
        /\ UNCHANGED <<memberRow, disturbed>>
    BY <1>4, <2>0 DEF DelUser, Go, Goto, history, c
  <2>2. to \in {"idle", "putMember"}
    BY <2>0
  <2>3. \A u \in Users : userRow'[u] = IF u = c THEN None ELSE userRow[u]
    BY <1>2, <2>1, UserWritten
  <2>4. ASSUME NEW u \in Users, RowState(u, "delUser", k)
        PROVE  Agree(u)' /\ RowState(u, "putMember", k)'
    <3>1. u = c => NoRow(u)
      BY <1>2, <2>4 DEF RowState
    <3>2. u # c => Agree(u)
      BY <1>2, <2>4 DEF RowState
    <3>3. u = c => Agree(u)' /\ InOrOut(u, k.record.account)'
      BY <2>1, <2>3, <3>1 DEF NoRow, Agree, InOrOut
    <3>4. u # c => (Agree(u)' <=> Agree(u))
      BY <2>1, <2>3, SameRows
    <3>5. ~Leaving("putMember", k) /\ ~Joined1("putMember")
      BY DEF Leaving, Joined1
    <3> QED BY <1>2, <3>2, <3>3, <3>4, <3>5 DEF RowState
  <2> QED BY <1>2, <2>1, <2>2, <2>3, <2>4, RowsMove
<1> QED BY <1>3, <1>4

LEMMA PutRows ==
  ASSUME Typed, RowsInv, NEW t \in Tasks, PutMember(t) \/ PutUser(t) PROVE RowsInv'
<1>0. PICK k : k = job[t]
  OBVIOUS
<1> USE <1>0
<1> DEFINE c == Subject(k)
<1>1. k \in Job /\ JobShape(pc[t], k) /\ pc[t] \in {"putMember", "putUser"}
  BY HasShape DEF PutMember, PutUser, Go, Goto
<1>2. /\ k.record \in Member /\ k.record # None /\ k.record.account \in Accounts
      /\ c \in Users /\ c \in About(k)
      /\ \A q \in {"putMember", "putUser"} : Concerned(q, k) = c
  BY <1>1, ConcernedIsAbout, NoneAssumption DEF JobShape, Concerned, Member
<1> HIDE DEF c
<1>3. CASE PutMember(t)
  <2>1. /\ Go(t, pc[t], "putUser", k) /\ pc[t] = "putMember"
        /\ memberRow' = [memberRow EXCEPT ![k.record.account][c] = k.record]
        /\ UNCHANGED <<userRow, disturbed>>
    BY <1>3 DEF PutMember, Go, Goto, history, c
  <2>2. \A a \in Accounts, u \in Users :
          memberRow'[a][u] = IF a = k.record.account /\ u = c THEN k.record ELSE memberRow[a][u]
    BY <1>2, <2>1 DEF Typed, TypeOK
  <2>3. ASSUME NEW u \in Users, RowState(u, "putMember", k) PROVE RowState(u, "putUser", k)'
    <3>1. Agree(u) /\ (u = c => InOrOut(u, k.record.account))
      BY <1>2, <2>3 DEF RowState, Joining, Joined1
    <3>2. u = c => OnlyRow(u, k.record)'
      BY <2>2, <3>1 DEF Agree, InOrOut, OnlyRow
    <3>3. u # c => (Agree(u)' <=> Agree(u))
      BY <2>1, <2>2, SameRows
    <3>4. ~Joining("putUser") /\ ~Leaving("putUser", k)
      BY DEF Joining, Leaving
    <3> QED BY <1>2, <3>1, <3>2, <3>3, <3>4 DEF RowState, Joined1
  <2> QED BY <1>2, <2>1, <2>2, <2>3, RowsMove
<1>4. CASE PutUser(t)
  <2>0. PICK to : to = IF k.op = "accept" THEN "findToken" ELSE "idle"
    OBVIOUS
  <2>1. /\ Go(t, pc[t], to, k) /\ pc[t] = "putUser"
        /\ userRow' = [userRow EXCEPT ![c] = k.record]
        /\ UNCHANGED <<memberRow, disturbed>>
    BY <1>4, <2>0 DEF PutUser, Go, Goto, history, c
  <2>2. to \in {"idle", "findToken"}
    BY <2>0
  <2>3. Plain(to, k)
    BY <2>2 DEF Plain
  <2>4. \A u \in Users : userRow'[u] = IF u = c THEN k.record ELSE userRow[u]
    BY <1>2, <2>1, UserWritten
  <2>5. ASSUME NEW u \in Users, RowState(u, "putUser", k) PROVE Agree(u)'
    <3>1. CASE u = c
      <4>1. OnlyRow(u, k.record)
        BY <1>2, <2>5, <3>1 DEF RowState, Joined1
      <4> QED BY <1>2, <2>1, <2>4, <3>1, <4>1 DEF OnlyRow, Agree
    <3>2. CASE u # c
      <4>1. Agree(u)
        BY <1>2, <2>5, <3>2 DEF RowState
      <4> QED BY <2>1, <2>4, <3>2, <4>1, SameRows
    <3> QED BY <3>1, <3>2
  <2>6. \A u \in Users : RowState(u, "putUser", k) => RowState(u, to, k)'
    BY <2>3, <2>5, PlainAgreesNext
  <2> QED BY <1>2, <2>1, <2>4, <2>5, <2>6, RowsMove
<1> QED BY <1>3, <1>4

LEMMA NextRows == Typed /\ RowsInv /\ [Next]_vars => RowsInv'
<1> SUFFICES ASSUME Typed, RowsInv, [Next]_vars PROVE RowsInv'
  OBVIOUS
<1>1. ASSUME UNCHANGED <<memberRow, userRow, pc, job, disturbed>> PROVE RowsInv'
  <2>1. \A u : (Agree(u)' <=> Agree(u)) /\ \A q, j : RowState(u, q, j)' <=> RowState(u, q, j)
    BY <1>1, SameRows
  <2> QED BY <1>1, <2>1 DEF RowsInv
<1>2. ASSUME NEW t \in Tasks, Step(t) PROVE RowsInv'
  BY <1>2, ResolveRows, SignInRows, InviteRows, GetUserRows, ReadTeamToLeaveRows, GetMemberRows,
     DeleteRows, PutRows DEF Step
<1>3. ASSUME NEW i \in Invites, Expire(i) \/ TimeToLive(i) PROVE RowsInv'
  BY <1>1, <1>3 DEF Expire, TimeToLive, members, history
<1>4. CASE UNCHANGED vars
  BY <1>1, <1>4 DEF vars
<1> QED BY <1>2, <1>3, <1>4, ArriveRows, FailRows DEF Next

LEMMA InitRows == Init => RowsInv
<1> SUFFICES ASSUME Init PROVE RowsInv
  OBVIOUS
<1>1. \A t \in Tasks : job[t] = NoJob
  BY DEF Init
<1>2. userRow \in [Users -> Member]
      /\ memberRow = [a \in Accounts |-> [u \in Users |->
                        IF userRow[u].account = a THEN userRow[u] ELSE None]]
  BY DEF Init
<1>3. \A u \in Users : userRow[u] # None
  BY <1>2, NoneAssumption
<1>4. \A u \in Users : Agree(u)
  BY <1>2, <1>3 DEF Agree
<1> QED BY <1>1, <1>4, NoJobIsAboutNobody DEF RowsInv

\* The row that lists a user and the row their requests resolve to agree
\* between requests, as long as requests about that user did not overlap or
\* fail, whatever happens to everybody else.
THEOREM MembershipRowsAgree == Spec => []RowsAgree
<1>1. RowsInv => RowsAgree
  BY DEF RowsInv, RowsAgree, Agree
<1>2. Typed /\ RowsInv /\ [Next]_vars => (Typed /\ RowsInv)'
  BY NextTyped, NextRows
<1> QED BY <1>1, <1>2, InitTyped, InitRows, PTL DEF Spec

=============================================================================
