CONSTANTS
  alice = alice
  bob = bob
  reply = reply
  repost = repost
  follow = follow
  Users <- MCUsers
  Replies = {reply}
  Reposts = {repost}
  Follows = {}
  Actor <- MCActor
  Recipient <- MCRecipient
  BatchSize = 2
  MaxReceive = 2
  MaxFaults = 1
SPECIFICATION Spec
CHECK_DEADLOCK FALSE
INVARIANTS EventsAreTold GoneIsNotTold RedeliveryIsBounded
PROPERTY EveryEventIsSettled
