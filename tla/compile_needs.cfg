SPECIFICATION Spec
CHECK_DEADLOCK FALSE
CONSTANTS
  Identifiers <- MCIdentifiers
  Nodes <- MCNodes
  AxisOrder <- MCAxisOrder
  UsesOf <- MCUsesOf
  Registry <- MCRegistry
  Nearest <- MCNearest
  Negated <- MCNegated
  Glob <- MCGlob
  SecretName <- MCSecretName
  ShortName <- MCShortName
  ActionMeta <- MCActionMeta
  InputOf <- MCInputOf
  Repos <- MCRepos
  Repositories <- MCRepositories
  Fires <- MCFires
  Webhooks <- MCWebhooks
  Misspelt = {"bogus"}
  Horizon = 5
  Window = 3
  MaxFaults = 2
INVARIANT NeedsPresent
