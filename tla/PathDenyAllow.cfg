SPECIFICATION Spec
CONSTANTS
  Char <- MCChar
  Slash = "/"
  Star = "*"
  Ssh = ".ssh"
  Home <- MCHome
  User = {"u", "v"}
  Bundles <- PlainBundles
  Inputs <- MCInputs
  Absent = Absent
  Files <- MCFiles
  Named <- MCNamed
  Disks <- MCDisks
  MaxChanges = 1
INVARIANT DenyBeatsAllow
CHECK_DEADLOCK FALSE
