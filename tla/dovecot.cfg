\* One Sync; a call fails and the context is cancelled anywhere; it ends when Sync returns.
SPECIFICATION FairSpec
CONSTANTS
  alice = alice
  bob = bob
  inbox = inbox
  sent = sent
  pattern = pattern
  lookup = lookup
  post = post
  Users = {alice, bob}
  Mailboxes = {inbox, sent}
  Patterns = {pattern}
  Rights = {lookup, post}
  Lookup = lookup
  Anyone = anyone
  None = {none}
  Matches <- SmallMatches
  Attributes <- SmallAttributes
  InitialACLs <- SmallACLs
  DefaultAcls = {lookup}
  Configs <- SmallConfigs
  MaxFaults = 1
INVARIANTS TypeOK Settled AuditTruthful
PROPERTIES KeepsAccess ImplementsContract SyncEnds
CHECK_DEADLOCK FALSE
