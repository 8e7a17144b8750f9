SPECIFICATION Spec
CONSTANTS
  all = all  read = read  admin = admin
  a = a  b = b  sel = sel  ins = ins
  None = None
  Sources = {a, b}
  Pstmts = {sel, ins}
  Roles = {all, read, admin}
  DefRole = all
  RoleSrcs <- MCRoleSrcs
  RoleStmts <- MCRoleStmts
  RoleNext <- MCRoleNext
  OrRollback = {}
  MaxId = 4
  MaxTrans = 2
INVARIANTS TypeOK QueuesAgree HandlesOwned LastMeansNewest HeldWithinReach NamedTransactionIsOpen NoHiddenTransaction
PROPERTIES IdsNeverReused CloseDiscardsNothing ServerExits
CHECK_DEADLOCK FALSE
