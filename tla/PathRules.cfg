SPECIFICATION Spec
CONSTANTS
  Char <- MCChar
  Slash = "/"
  Star = "*"
  Ssh = ".ssh"
  Home <- MCHome
  User = {"u", "v"}
  Bundles <- AllBundles
  Inputs <- MCInputs
  Absent = Absent
  Files <- MCFiles
  Named <- MCNamed
  Disks <- MCDisks
  MaxChanges = 2
INVARIANTS KernelDenySound DenialAttributed DenyListComplete FileRuleFollowsFile
CHECK_DEADLOCK FALSE
