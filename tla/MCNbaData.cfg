CONSTANTS
  FIRST_SEASON_START = 2003
  TEAMS = {1, 2}
  MINUTES_TOLERANCE = 10
  GameRows <- MCGameRows
  TeamRows <- MCTeamRows
  BoxRows <- MCBoxRows
  PlayerRows <- MCPlayerRows
  MaxRows <- MCMaxRows
SPECIFICATION Spec
CHECK_DEADLOCK FALSE
INVARIANTS ColumnsAreRecovered GamesInAnyOrder ReportAccountsForEveryRow
PROPERTIES StoredResultsStay
