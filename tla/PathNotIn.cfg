SPECIFICATION Spec
CONSTANTS
  Char <- MCChar
  Slash = "/"
  Star = "*"
  Ssh = ".ssh"
  Home <- MCHome
  User = {"u", "v"}
  Bundles <- ExceptBundles
  Inputs <- MCInputs
  Absent = Absent
  Files <- MCFiles
  Named <- MCNamed
  Disks <- MCDisks
  MaxChanges = 1
INVARIANT ExcludedNotDenied
CHECK_DEADLOCK FALSE
