SPECIFICATION TrafficSpec
CHECK_DEADLOCK FALSE
CONSTANTS
  ShortSecret <- MCShortSecret
  BotToken <- MCBotToken
  WebhookSecret <- MCWebhookSecret
  PublicName = {"hub.example", "hub2.example", "hub.lan"}
  HomeName = {"hub.lan"}
  PublicIpv6 = {"2001:4860::1"}
  MaxConnections = 2
  MaxInboxes = 2
  MaxPrincipals = 2
  NextConnections <- MCNextConnections
  NextInboxes <- MCNextInboxes
  NextDashboards <- MCNextDashboards
  Settings <- MCSettings
  Earlier <- MCEarlier
  LegacyRow <- MCLegacyRow
  Traffic <- MCTraffic
  Workers <- MCWorkers
  MaxEnvelopes = 2
  MaxFailures = 2
INVARIANTS
  CredentialsSeparated
  VerdictIsPairwise
  AcceptedUrlsArePublic
  CatalogsAgree
  AcknowledgedIsStored
  StoredIsAddressed
  ReceiptsAreTrue
PROPERTIES
  EventuallyStored
