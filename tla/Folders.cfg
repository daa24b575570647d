SPECIFICATION Spec
CONSTANTS
  Providers <- AllProviders
  Callers = {c1}
  Home = Home
  Plain = Plain
  Shared = Shared
  Inner = Inner
  Nested = Nested
  New = {x}
  NoNode = NoNode
  Names = {"c"}
  FirstNames <- Labels
  MaxTries = 2
  SharedRoots = {"shared_folder", "team_folder"}
  KeepRootType = FALSE
  Movers = {"sharepoint"}
  MaxMoves = 1
INVARIANTS TypeOK  FoldersAreAddressed
PROPERTIES CreatedWhereListed 
CHECK_DEADLOCK FALSE
