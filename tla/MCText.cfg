SPECIFICATION TextSpec

CONSTANTS
  Characters = {1, 32, 37, 43, 47, 65, 160}
  MaxText = 4
  StringCharacters = {63, 65, 97}
  PatternCharacters = {42, 63, 97}
  MaxString = 4
  MaxPattern = 4
  UriCharacters = {46, 47, 63, 97}
  MaxUri = 7
  Lines = {1, 2, 3}
  Capacity = 2
  MaxLines = 7

INVARIANTS
  RoundTrip
  EncodedIsSafe
  MatchesMeaning
  SlashesCollapsed
  PathNormal
  DotSegmentsGo
  LogIsTail

CHECK_DEADLOCK FALSE
