SPECIFICATION Spec
CONSTANTS
  Clients = {c1, c2}
  Shell = shell
  Names = {"ann", "bob"}
  Logins = {"t"}
  Databases <- MCDatabases
  Roles = {"admin"}
  MaxFailures = 1
  MaxInputs = 3
SYMMETRY Symmetry
INVARIANTS TypeOK CookieOwner KeyOpens TriesBounded
PROPERTIES LastKeyKept
