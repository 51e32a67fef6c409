SPECIFICATION TarSpec
CONSTANTS
  Name <- MCName
  Cwd <- MCCwd
  Hidden = {".c", ".e"}
  Tree <- MCTree
  Initials <- MCInitials
  ArgLists <- MCArgLists
  Flags <- MCFlags
  Dest <- MCDest
  Formats = {"goxa", "tar"}
  Locked <- MCLocked
  Optioned <- MCOptioned
  MaxChanges = 1
INVARIANTS TypeOK NothingMissed DirectoriesKept OnlyEmptyListed OwnPlace RootSelectable
INVARIANTS NothingMissedTar RestoresAll Extractable
