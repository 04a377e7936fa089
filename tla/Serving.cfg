CONSTANTS
  Nil = Nil
  Unknown = Unknown
  Exchanges <- MCExchanges
  MaxPointers = 3
  PlainUdpSize = 16
  LeastUdpSize = 5
  DefaultTtl = 2
  Rankings <- MCRankings
  MaxAge = 3
  Watched <- MCWatched
  WatchedName <- www
  Lookups <- MCLookups
  Askers = {a1}
  Dead = {"two"}
  FailureThreshold = 2
  SuccessThreshold = 1
  WebhookRetries = 1
  MaxMinutes = 1
  MaxAlarms = 2
SPECIFICATION ServingSpec
CHECK_DEADLOCK FALSE
INVARIANTS OptMirrorsRequest SentFits NamesSurviveOwnQuestion AlarmsSpaced
PROPERTY DeadIsFound
