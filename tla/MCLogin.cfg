\* One login; two accounts that may have its name one after the other.
CONSTANTS
  p1 = p1
  i1 = i1
  i2 = i2
  alice = alice
  bob = bob
  old = old
  new = new
  r1 = r1
  r2 = r2
  Logins <- OneLogin
  Ids <- TwoIds
  NoAccount = NoAccount
  Names <- OneName
  Passwords <- TwoPasswords
  Roles <- TwoRoles
SPECIFICATION Spec
SYMMETRY Symmetry
INVARIANTS
  TypeOK
  PasswordWasRight
  RolesWereHeld
  RefusedForCause
