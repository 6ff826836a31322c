CONSTANTS
  None = None
  station = station
  multicast = multicast
  host = host
  Stations = {station}
  PrivateHosts = {host}
  MaxLogResponse = 7
  MaxLogText = 4
  MaxScanHosts = 256
  SystemInfos <- MCSystemInfos
  SystemAsics <- MCSystemAsics
  Messages <- MCMessages
  Fleets <- MCFleets
  Histories <- MCHistories
  LogResponses <- MCLogResponses
  Networks <- MCNetworks

SPECIFICATION Spec

INVARIANTS
  SettingsSurviveEveryForm
  SpellingIsIrrelevant
  CapabilitiesUsable
  TotalsMatchCoverage
  HistoryKeepsEnds
  LogsAreNewestWholeLines
