CONSTANTS
  FINALS_WINS = 1
  GAMES_RULE_FROM = 2023
  GAMES_RULE_MINIMUM = 1
  TEAM_GAMES_PERCENT = 70
  Tens = 2
  HoursADay = 24
  LIST_CAP = 2
  HOLDERS_CAP = 2
  GAME_MINIMUMS <- MCGame
  SEASON_MINIMUMS <- MCSeason
  CAREER_MINIMUMS <- MCCareer
  SEASON_AVERAGE_GAMES = 1
  CAREER_AVERAGE_GAMES = 2
  Teams <- MCTeams
  Players <- MCPlayers
  Dataset <- MCDataset
SPECIFICATION RecordsSpec
CHECK_DEADLOCK FALSE
INVARIANTS HolderHeadsTheList TotalsAgree FiguresAgree PagesAgree
