\* Two requests at a time, one of which may fail, and one invite.
CONSTANTS
  u1 = u1  u2 = u2  u3 = u3  i1 = i1  i2 = i2  t1 = t1  t2 = t2
  Users = {u1, u2, u3}
  Invites = {i1}
  Tasks = {t1, t2}
  Profiles = {p1}
  Ops = {"list", "create", "revoke", "remove", "patch", "accept"}
  MaxCalls = 2
  MaxFaults = 1
  None = None
SYMMETRY Symmetric
SPECIFICATION Spec
INVARIANTS TypeOK EveryMemberWasLetIn ListedInviteIsUsable AcceptedInviteIsGone RowsAgree
CHECK_DEADLOCK FALSE
