SPECIFICATION MCSpec
CONSTANTS
  s1=s1 s2=s2 a1=a1 a2=a2 gu=gu nu=nu None=None
  Users={a1,a2,gu,nu}
  Superusers={}
  Guardians={g1,g2}
  Installs={i1,i2}
  Tokens={x,y}
  Events={e1}
  Tx={t1,t2}
  Limit=1
  Requests={r1,r2}
  Sessions={s1,s2}
  Stages={"primary"}
  Children <- MCChildren
  NewRoles <- MCRoles
  Grants <- MCGrants
  NewScopes <- MCScopes
  Scenarios <- MCScenarios
  MaxVersion=3
SYMMETRY Symmetric
INVARIANT TypeOK
INVARIANT RevokedStaysOut
INVARIANT ScopeMatchesRole
INVARIANT DevicesInOrder
INVARIANT NobodyIsMissed
PROPERTY ManagersRemain
CHECK_DEADLOCK FALSE
