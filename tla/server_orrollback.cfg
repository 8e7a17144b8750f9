SPECIFICATION Spec
CONSTANTS
  all = all  read = read  admin = admin
  a = a  b = b  sel = sel  ins = ins
  None = None
  Sources = {a}
  Pstmts = {ins}
  Roles = {}
  DefRole = None
  RoleSrcs <- NoRoles
  RoleStmts <- NoRoles
  RoleNext <- NoRoles
  OrRollback = {ins}
  MaxId = 2
  MaxTrans = 2
INVARIANT NamedTransactionIsOpen
CHECK_DEADLOCK FALSE
