SPECIFICATION Spec
CONSTANTS
  Char <- MCChar
  Slash = "/"
  Star = "*"
  Ssh = ".ssh"
  Home <- MCHome
  User = {"u", "v"}
  Bundles <- ExactBundles
  Inputs <- MCInputs
  Absent = Absent
  Files <- MCFiles
  Named <- MCNamed
  Disks <- MCDisks
  MaxChanges = 1
INVARIANT EntryMatched
CHECK_DEADLOCK FALSE
