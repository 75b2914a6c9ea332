-------------------------------- MODULE Team --------------------------------
(***************************************************************************)
(* Team membership on DynamoDB (table prokuro-members).  A membership is   *)
(* two rows: ACCOUNT#a/MEMBER#u, which lists user u in account a, and      *)
(* USER#u/ACCOUNT, which every request of u resolves to an account and a   *)
(* role.  An invite is two rows as well: ACCOUNT#a/INVITE#i and TOKEN#i.   *)
(* No operation is a transaction and nothing holds a lock: one step of     *)
(* this model is one access to the table.                                  *)
(*                                                                         *)
(* An account is named after the user who owns it, an email after the user *)
(* who signs in with it.  The profile stands for the names in the identity *)
(* token, which a request copies to the rows when they differ.             *)
(***************************************************************************)
EXTENDS Naturals, FiniteSets

CONSTANTS
  Users,      (* Cognito subjects; each also names an account and an email.  *)
  Invites,    (* Invite ids (UUIDs); also a bound on the invites made.       *)
  Tasks,      (* Concurrent requests.                                        *)
  Profiles,   (* What identity tokens can say about a user's name.           *)
  Ops,        (* The endpoints that are called.                              *)
  MaxCalls,   (* Bound: requests made.                                       *)
  MaxFaults,  (* Bound: failed accesses, dropped requests and crashes.       *)
  None        (* No row, no invite.                                          *)

Accounts == Users
Roles    == {"owner", "admin", "read_only"}
Managers == {"owner", "admin"}
Granted  == {"admin", "read_only"}      \* roles an invite or a patch may name
Member   == [account: Accounts, role: Roles, profile: Profiles \cup {None}]
Invite   == [account: Accounts, email: Users, role: Granted]
AllOps   == {"list", "create", "revoke", "remove", "patch", "accept"}

ASSUME NoneAssumption == None \notin Users \cup Invites \cup Member \cup Invite
ASSUME BoundsAssumption == MaxFaults \in Nat /\ MaxCalls \in Nat /\ Ops \subseteq AllOps
ASSUME ProfilesAssumption == Profiles # {}

VARIABLES
  memberRow,  (* memberRow[a][u]: the row ACCOUNT#a/MEMBER#u.               *)
  userRow,    (* userRow[u]: the row USER#u/ACCOUNT.                        *)
  inviteRow,  (* inviteRow[i]: the row ACCOUNT#a/INVITE#i.                  *)
  tokenRow,   (* tokenRow[i]: the account in the row TOKEN#i/INVITE.        *)
  issued,     (* The invite ids handed out.                                 *)
  expired,    (* The invites that are more than seven days old.             *)
  pc,         (* pc[t]: the next access of task t.                          *)
  job,        (* job[t]: the locals of task t.                              *)
  calls,      (* Requests so far.                                           *)
  faults,     (* Faults so far.                                             *)
  grants,     (* History: what a manager of an account let whom be in it.   *)
  cut,        (* History: invites whose creation was cut short.             *)
  accepted,   (* History: invites whose acceptance was confirmed.           *)
  disturbed   (* History: users about whom requests overlapped or failed.   *)

members == <<memberRow, userRow>>
invites == <<inviteRow, tokenRow, issued, expired>>
history == <<grants, cut, accepted, disturbed>>
vars == <<memberRow, userRow, inviteRow, tokenRow, issued, expired, pc, job,
          calls, faults, grants, cut, accepted, disturbed>>

\* The locals: the caller, the account and role it was resolved to, whom the
\* request is about, the invite and role it names, the record to be written
\* and the account to be left.
Job == [op: AllOps \cup {"none"}, caller: Users \cup {None},
        account: Accounts \cup {None}, role: Roles \cup {"none"},
        target: Users \cup {None}, invite: Invites \cup {None},
        grant: Granted \cup {"none"}, profile: Profiles \cup {None},
        record: Member \cup {None}, leaving: Accounts \cup {None}]
NoJob == [op |-> "none", caller |-> None, account |-> None, role |-> "none",
          target |-> None, invite |-> None, grant |-> "none", profile |-> None,
          record |-> None, leaving |-> None]

Grant == [account: Accounts, user: Users, role: Granted]

Pcs == {"idle", "resolve", "signInMember", "signInUser", "readTeam", "putInvite",
        "putToken", "getToken", "getInvite", "getUser", "getMember", "delMember",
        "delUser", "putMember", "putUser", "findToken", "delInvite", "delToken"}

Writes == {"signInMember", "signInUser", "putInvite", "putToken", "delMember",
           "delUser", "putMember", "putUser", "delInvite", "delToken"}

TypeOK ==
  /\ memberRow \in [Accounts -> [Users -> Member \cup {None}]]
  /\ userRow \in [Users -> Member \cup {None}]
  /\ inviteRow \in [Invites -> Invite \cup {None}]
  /\ tokenRow \in [Invites -> Accounts \cup {None}]
  /\ issued \in SUBSET Invites /\ expired \in SUBSET Invites
  /\ pc \in [Tasks -> Pcs]
  /\ job \in [Tasks -> Job]
  /\ calls \in 0..MaxCalls /\ faults \in 0..MaxFaults
  /\ grants \in SUBSET Grant
  /\ cut \in SUBSET Invites /\ accepted \in SUBSET Invites
  /\ disturbed \in SUBSET Users

\* Teams at rest: everybody is in some account, as its owner or because a
\* manager of it let them in, and both rows say so; some are invited, and
\* nobody has signed in with a name yet.
Init ==
  /\ userRow \in [Users -> Member]
  /\ \A u \in Users : userRow[u].role = "owner" <=> userRow[u].account = u
  /\ \A u \in Users : /\ userRow[userRow[u].account].role = "owner"
                      /\ userRow[u].profile = None
  /\ memberRow = [a \in Accounts |-> [u \in Users |->
                    IF userRow[u].account = a THEN userRow[u] ELSE None]]
  /\ issued \in SUBSET Invites
  /\ \E inv \in [issued -> Invite] :
       /\ \A i \in issued :
            /\ userRow[inv[i].account].role = "owner"
            /\ userRow[inv[i].email].account # inv[i].account
       /\ inviteRow = [i \in Invites |-> IF i \in issued THEN inv[i] ELSE None]
       /\ tokenRow = [i \in Invites |-> IF i \in issued THEN inv[i].account ELSE None]
       /\ grants =
            {[account |-> userRow[u].account, user |-> u, role |-> userRow[u].role] :
               u \in {v \in Users : userRow[v].role # "owner"}} \cup
            {[account |-> inv[i].account, user |-> inv[i].email, role |-> inv[i].role] :
               i \in issued}
  /\ expired = {}
  /\ pc = [t \in Tasks |-> "idle"]
  /\ job = [t \in Tasks |-> NoJob]
  /\ calls = 0 /\ faults = 0
  /\ cut = {} /\ accepted = {} /\ disturbed = {}

Goto(t, from, to) == pc[t] = from /\ pc' = [pc EXCEPT ![t] = to]

\* Task t goes on with locals j, which are gone once it has answered.
Go(t, from, to, j) ==
  /\ Goto(t, from, to)
  /\ job' = [job EXCEPT ![t] = IF to = "idle" THEN NoJob ELSE j]

\* A grant counts when the caller manages the account.
Granting(a, u, j) ==
  IF j.role \in Managers /\ j.account = a
  THEN grants \cup {[account |-> a, user |-> u, role |-> j.grant]}
  ELSE grants

----------------------------------------------------------------------------
(* Sign-in: AppState::authenticate, TeamStore::resolve_membership *)

\* The users whose rows a request may write.
About(j) == ({j.caller} \cup IF j.op \in {"remove", "patch"} THEN {j.target} ELSE {}) \ {None}

\* A request of u: the user and the role it names are its path and body.
Call(t, u, op, target, i, role, p) ==
  /\ Go(t, "idle", "resolve",
        [op |-> op, caller |-> u, account |-> None, role |-> "none",
         target |-> target, invite |-> i, grant |-> role, profile |-> p,
         record |-> None, leaving |-> None])
  /\ disturbed' = disturbed \cup
       UNION {About(job[s]) \cap About(job'[t]) : s \in Tasks \ {t}}
  /\ calls < MaxCalls /\ calls' = calls + 1
  /\ UNCHANGED <<members, invites, faults, grants, cut, accepted>>

\* Bound: an id is left for every invite that is being made.
InvitesLeft ==
  Cardinality({t \in Tasks : job[t].op = "create" /\ job[t].invite = None}) <
    Cardinality(Invites \ issued)

\* Every endpoint with the arguments it takes; an invite id is a UUID, known
\* to whoever was told it.  Sign-in is the same for all of them: names are
\* enumerated for list requests only.
Arrive(t) ==
  \E u \in Users :
    \/ /\ "list" \in Ops
       /\ \E p \in Profiles : Call(t, u, "list", None, None, "none", p)
    \/ /\ "create" \in Ops /\ InvitesLeft
       /\ \E v \in Users, role \in Granted : Call(t, u, "create", v, None, role, None)
    \/ /\ "revoke" \in Ops
       /\ \E i \in issued : Call(t, u, "revoke", None, i, "none", None)
    \/ /\ "remove" \in Ops
       /\ \E v \in Users : Call(t, u, "remove", v, None, "none", None)
    \/ /\ "patch" \in Ops
       /\ \E v \in Users, role \in Granted : Call(t, u, "patch", v, None, role, None)
    \/ /\ "accept" \in Ops
       /\ \E i \in issued : Call(t, u, "accept", None, i, "none", None)

\* The first access of the handler, or its early return: only owners and
\* admins manage the team, and nobody removes or changes themselves.
Handler(j, role) ==
  CASE j.op = "accept" -> "getToken"
    [] j.op = "create" /\ role \in Managers -> "readTeam"
    [] j.op = "revoke" /\ role \in Managers -> "getToken"
    [] j.op \in {"remove", "patch"} /\ role \in Managers /\ j.target # j.caller -> "getMember"
    [] OTHER -> "idle"

\* Who has no account becomes the owner of one; a new name is written back
\* with the row that was read; a token without a name changes nothing.
Resolve(t) ==
  LET j   == job[t]
      row == userRow[j.caller]
      own == [account |-> j.caller, role |-> "owner", profile |-> j.profile]
      rec == CASE row = None -> own
               [] row # None /\ j.profile = None -> row
               [] row # None /\ j.profile # None ->
                    [account |-> row.account, role |-> row.role, profile |-> j.profile]
      to  == IF rec = row THEN Handler(j, row.role) ELSE "signInMember"
  IN /\ Go(t, "resolve", to,
           [j EXCEPT !.account = rec.account, !.role = rec.role,
                     !.record = IF rec = row THEN None ELSE rec])
     /\ UNCHANGED <<members, invites, calls, faults, history>>

\* put_member of the sign-in.
SignInMember(t) ==
  LET j == job[t] IN
  /\ Go(t, "signInMember", "signInUser", j)
  /\ memberRow' = [memberRow EXCEPT ![j.record.account][j.caller] = j.record]
  /\ UNCHANGED <<userRow, invites, calls, faults, history>>

SignInUser(t) ==
  LET j == job[t] IN
  /\ Go(t, "signInUser", Handler(j, j.role), [j EXCEPT !.record = None])
  /\ userRow' = [userRow EXCEPT ![j.caller] = j.record]
  /\ UNCHANGED <<memberRow, invites, calls, faults, history>>

----------------------------------------------------------------------------
(* create_invite *)

TeamOf(a)      == {u \in Users : memberRow[a][u] # None}
LiveInvites(a) == {i \in Invites \ expired : inviteRow[i] # None /\ inviteRow[i].account = a}

\* A pending invite or a membership of the invited email is a conflict.
Conflict(a, v) == v \in TeamOf(a) \/ \E i \in LiveInvites(a) : inviteRow[i].email = v

ReadTeamToInvite(t) ==
  LET j == job[t] IN
  /\ pc[t] = "readTeam" /\ j.op = "create"
  /\ \/ /\ Conflict(j.account, j.target)
        /\ Go(t, "readTeam", "idle", j)
        /\ UNCHANGED <<issued, grants>>
     \/ /\ ~Conflict(j.account, j.target)
        /\ \E i \in Invites \ issued :
             /\ Go(t, "readTeam", "putInvite", [j EXCEPT !.invite = i])
             /\ issued' = issued \cup {i}
        /\ grants' = Granting(j.account, j.target, j)
  /\ UNCHANGED <<members, inviteRow, tokenRow, expired, calls, faults, cut, accepted, disturbed>>

PutInvite(t) ==
  LET j == job[t] IN
  /\ Go(t, "putInvite", "putToken", j)
  /\ inviteRow' = [inviteRow EXCEPT ![j.invite] =
                     [account |-> j.account, email |-> j.target, role |-> j.grant]]
  /\ UNCHANGED <<members, tokenRow, issued, expired, calls, faults, history>>

PutToken(t) ==
  LET j == job[t] IN
  /\ Go(t, "putToken", "idle", j)
  /\ tokenRow' = [tokenRow EXCEPT ![j.invite] = j.account]
  /\ UNCHANGED <<members, inviteRow, issued, expired, calls, faults, history>>

----------------------------------------------------------------------------
(* get_invite and delete_invite, for revoke_invite and accept_invite *)

GetToken(t) ==
  LET j == job[t] IN
  /\ Go(t, "getToken", IF tokenRow[j.invite] = None THEN "idle" ELSE "getInvite", j)
  /\ UNCHANGED <<members, invites, calls, faults, history>>

\* Mutation: whoever knows the token may accept the invite.
MayAccept_Anyone(inv, u) == TRUE

\* Only the invited email may accept.
MayAccept(inv, u) == inv.email = u

\* Mutation: the names of the identity are left out.
Joined_Nameless(inv, j) == [account |-> inv.account, role |-> inv.role]

\* What the caller becomes by accepting the invite.
Joined(inv, j) == [account |-> inv.account, role |-> inv.role, profile |-> j.profile]

\* Another account's invite is not found; an expired one is deleted.
GetInvite(t) ==
  LET j   == job[t]
      inv == inviteRow[j.invite]
      to  == CASE inv = None -> "idle"
               [] inv # None /\ j.op = "revoke" ->
                    IF inv.account = j.account THEN "findToken" ELSE "idle"
               [] inv # None /\ j.op = "accept" ->
                    IF j.invite \in expired THEN "findToken"
                    ELSE IF MayAccept(inv, j.caller) THEN "getUser" ELSE "idle"
               [] OTHER -> "idle"
  IN /\ Go(t, "getInvite", to,
           [j EXCEPT !.record = IF to = "getUser" THEN Joined(inv, j) ELSE None])
     /\ UNCHANGED <<members, invites, calls, faults, history>>

\* Mutation: only the token row is deleted.
FindToken_TokenOnly(t) ==
  LET j == job[t] IN
  /\ Go(t, "findToken", "delToken", j)
  /\ UNCHANGED <<members, invites, calls, faults, history>>

FindToken(t) ==
  LET j == job[t] IN
  /\ Go(t, "findToken", IF tokenRow[j.invite] = None THEN "delToken" ELSE "delInvite", j)
  /\ UNCHANGED <<members, invites, calls, faults, history>>

DelInvite(t) ==
  LET j == job[t] IN
  /\ Go(t, "delInvite", "delToken", j)
  /\ inviteRow' = [inviteRow EXCEPT ![j.invite] = None]
  /\ UNCHANGED <<members, tokenRow, issued, expired, calls, faults, history>>

\* Mutation: the token row stays.
DelToken_Kept(t) ==
  LET j == job[t] IN
  /\ Go(t, "delToken", "idle", j)
  /\ accepted' = IF j.record # None THEN accepted \cup {j.invite} ELSE accepted
  /\ UNCHANGED <<members, invites, calls, faults, grants, cut, disturbed>>

DelToken(t) ==
  LET j == job[t] IN
  /\ Go(t, "delToken", "idle", j)
  /\ tokenRow' = [tokenRow EXCEPT ![j.invite] = None]
  /\ accepted' = IF j.record # None THEN accepted \cup {j.invite} ELSE accepted
  /\ UNCHANGED <<members, inviteRow, issued, expired, calls, faults, grants, cut, disturbed>>

----------------------------------------------------------------------------
(* accept_invite: leave the old account, join the new one *)

\* Whoever is in the account already has nothing to join; a manager of
\* others must not leave them; a member just leaves.
GetUser(t) ==
  LET j   == job[t]
      row == userRow[j.caller]
      to  == CASE row = None -> "putMember"
               [] row # None /\ row.account = j.record.account -> "idle"
               [] row # None /\ row.account # j.record.account ->
                    IF row.role = "owner" THEN "readTeam" ELSE "delMember"
  IN /\ Go(t, "getUser", to,
           [j EXCEPT !.leaving = IF to \in {"readTeam", "delMember"} THEN row.account ELSE None])
     /\ UNCHANGED <<members, invites, calls, faults, history>>

\* An owner may leave only an account with nobody else in it or invited.
ReadTeamToLeave(t) ==
  LET j == job[t] IN
  /\ j.op = "accept"
  /\ Go(t, "readTeam",
        IF Cardinality(TeamOf(j.leaving)) > 1 \/ LiveInvites(j.leaving) # {}
        THEN "idle" ELSE "delMember", j)
  /\ UNCHANGED <<members, invites, calls, faults, history>>

----------------------------------------------------------------------------
(* remove_member, patch_member_role *)

\* Whom the rows being written belong to.
Subject(j) == IF j.op = "accept" THEN j.caller ELSE j.target

\* Whom nobody removes and nobody gives another role: no member, or the owner.
Untouchable(row) == row # None => row.role = "owner"

GetMember(t) ==
  LET j   == job[t]
      row == memberRow[j.account][j.target]
  IN /\ pc[t] = "getMember"
     /\ \/ /\ Untouchable(row)
           /\ Go(t, "getMember", "idle", j)
           /\ UNCHANGED grants
        \/ /\ ~Untouchable(row) /\ j.op = "remove"
           /\ Go(t, "getMember", "delMember", [j EXCEPT !.leaving = j.account])
           /\ UNCHANGED grants
        \/ /\ ~Untouchable(row) /\ j.op = "patch"
           /\ Go(t, "getMember", "putMember",
                 [j EXCEPT !.record =
                    [account |-> row.account, role |-> j.grant, profile |-> row.profile]])
           /\ grants' = Granting(row.account, j.target, j)
     /\ UNCHANGED <<members, invites, calls, faults, cut, accepted, disturbed>>

\* Mutation: delete_member deletes the row of the account only.
DelMember_Alone(t) ==
  LET j == job[t] IN
  /\ Go(t, "delMember", IF j.op = "accept" THEN "putMember" ELSE "idle", j)
  /\ memberRow' = [memberRow EXCEPT ![j.leaving][Subject(j)] = None]
  /\ UNCHANGED <<userRow, invites, calls, faults, history>>

\* delete_member
DelMember(t) ==
  LET j == job[t] IN
  /\ Go(t, "delMember", "delUser", j)
  /\ memberRow' = [memberRow EXCEPT ![j.leaving][Subject(j)] = None]
  /\ UNCHANGED <<userRow, invites, calls, faults, history>>

\* The row goes whatever account it names by now.
DelUser(t) ==
  LET j == job[t] IN
  /\ Go(t, "delUser", IF j.op = "accept" THEN "putMember" ELSE "idle", j)
  /\ userRow' = [userRow EXCEPT ![Subject(j)] = None]
  /\ UNCHANGED <<memberRow, invites, calls, faults, history>>

\* put_member
PutMember(t) ==
  LET j == job[t] IN
  /\ Go(t, "putMember", "putUser", j)
  /\ memberRow' = [memberRow EXCEPT ![j.record.account][Subject(j)] = j.record]
  /\ UNCHANGED <<userRow, invites, calls, faults, history>>

PutUser(t) ==
  LET j == job[t] IN
  /\ Go(t, "putUser", IF j.op = "accept" THEN "findToken" ELSE "idle", j)
  /\ userRow' = [userRow EXCEPT ![Subject(j)] = j.record]
  /\ UNCHANGED <<memberRow, invites, calls, faults, history>>

----------------------------------------------------------------------------
(* Time and faults *)

\* Seven days pass; no request lasts that long.
Expire(i) ==
  /\ i \in issued \ expired
  /\ \A t \in Tasks : job[t].invite = i => pc[t] \notin {"putInvite", "putToken"}
  /\ expired' = expired \cup {i}
  /\ UNCHANGED <<members, inviteRow, tokenRow, issued, pc, job, calls, faults, history>>

\* DynamoDB deletes rows whose ttl is over, each in its own time.
TimeToLive(i) ==
  /\ i \in expired
  /\ \/ /\ inviteRow[i] # None
        /\ inviteRow' = [inviteRow EXCEPT ![i] = None] /\ UNCHANGED tokenRow
     \/ /\ tokenRow[i] # None
        /\ tokenRow' = [tokenRow EXCEPT ![i] = None] /\ UNCHANGED inviteRow
  /\ UNCHANGED <<members, issued, expired, pc, job, calls, faults, history>>

\* The next write fails, the request is dropped or the process dies before
\* it.  (A request that fails at a read has written what one that is refused
\* there has.)
Fail(t) ==
  /\ faults < MaxFaults /\ pc[t] \in Writes
  /\ Go(t, pc[t], "idle", NoJob)
  /\ cut' = IF pc[t] \in {"putInvite", "putToken"} THEN cut \cup {job[t].invite} ELSE cut
  /\ disturbed' = disturbed \cup About(job[t])
  /\ faults' = faults + 1
  /\ UNCHANGED <<members, invites, calls, grants, accepted>>

----------------------------------------------------------------------------

Step(t) ==
  \/ Resolve(t) \/ SignInMember(t) \/ SignInUser(t)
  \/ ReadTeamToInvite(t) \/ PutInvite(t) \/ PutToken(t)
  \/ GetToken(t) \/ GetInvite(t) \/ FindToken(t) \/ DelInvite(t) \/ DelToken(t)
  \/ GetUser(t) \/ ReadTeamToLeave(t)
  \/ GetMember(t) \/ DelMember(t) \/ DelUser(t) \/ PutMember(t) \/ PutUser(t)

Next ==
  \/ \E t \in Tasks : Arrive(t) \/ Step(t) \/ Fail(t)
  \/ \E i \in Invites : Expire(i) \/ TimeToLive(i)

Spec == Init /\ [][Next]_vars

----------------------------------------------------------------------------
(* Properties *)

LetIn(a, u, row) ==
  IF row.role = "owner" THEN a = u
  ELSE [account |-> a, user |-> u, role |-> row.role] \in grants

\* Nobody is in another user's account, in either row, with a role that no
\* manager of that account gave them by invite or patch, and nobody owns an
\* account but their own, whatever stale records are written back.
EveryMemberWasLetIn ==
  \A u \in Users :
    /\ userRow[u] # None => LetIn(userRow[u].account, u, userRow[u])
    /\ \A a \in Accounts : memberRow[a][u] # None => LetIn(a, u, memberRow[a][u])

\* An invite the team page lists can be accepted and revoked: its token row
\* is there or about to be written, unless its creation was cut short.
ListedInviteIsUsable ==
  \A i \in Invites \ (expired \cup cut) :
    inviteRow[i] # None =>
      tokenRow[i] # None \/ \E t \in Tasks : pc[t] = "putToken" /\ job[t].invite = i

\* Once an acceptance is confirmed the invite is used up, whoever else was
\* accepting, revoking or expiring it meanwhile.
AcceptedInviteIsGone ==
  \A i \in accepted : tokenRow[i] = None /\ (inviteRow[i] # None => i \in expired)

\* Between requests the two rows of a user agree and nobody else lists the
\* user, as long as requests about that user neither overlapped nor failed:
\* what happens to other members of the team does not matter.
RowsAgree ==
  \A u \in Users \ disturbed :
    (\A t \in Tasks : u \notin About(job[t])) =>
      \A a \in Accounts :
        memberRow[a][u] = IF userRow[u] # None /\ userRow[u].account = a
                          THEN userRow[u] ELSE None

=============================================================================
