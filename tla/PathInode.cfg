SPECIFICATION Spec
CONSTANTS
  Char <- MCChar
  Slash = "/"
  Star = "*"
  Ssh = ".ssh"
  Home <- MCHome
  User = {"u", "v"}
  Bundles <- FileBundles
  Inputs <- MCInputs
  Absent = Absent
  Files <- MCFiles
  Named <- MCNamed
  Disks <- MCDisks
  MaxChanges = 1
INVARIANT InodeKeyMirrors
CHECK_DEADLOCK FALSE
