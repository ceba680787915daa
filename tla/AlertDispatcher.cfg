SPECIFICATION Spec
CONSTANTS
  ann = ann
  bob = bob
  email = email
  push = push
  w1 = w1
  w2 = w2
  NoUser = NoUser
  NoChannel = NoChannel
  Workers = {w1, w2}
  Users = {ann, bob}
  Channels = {email, push}
  Wants = {ann, bob}
  Chosen <- MCChosen
  Default = {email}
  Preset <- MCAllOn
  Views <- MCViews
  MaxPasses = 2
  MaxChanges = 1
  MaxFaults = 1
INVARIANTS
  AlertedOnce
  QuietReaderHearsNothing
PROPERTIES
  SettledOnce
  FollowersHear
CHECK_DEADLOCK FALSE
