CONSTANTS
  Users = {"ann", "bob", "cid"}
  Viewer = "ann"
  TeamGames = {9}
  Links <- MCLinks
  LineGame <- MCLineGame
  Worlds <- MCWorlds
  Drafts <- MCDrafts
  Limit = 2
  MaxPosts = 7
  MaxWrites = 2
SPECIFICATION Spec
CHECK_DEADLOCK FALSE
INVARIANTS PagesCoverTheList HiddenIsNotShown PlaceholdersAreHonest CountMatchesThread
