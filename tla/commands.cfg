SPECIFICATION WSpec
CONSTANTS
  Levels <- MCLevels
  QueueCap = 2
  EffectCap = 3
  TimerRetry = 1
INVARIANT ArmedRecordsHaveOneEffect
INVARIANT FailedConditionsRunTheirElse
PROPERTY ServedFollowUpsAreNotDropped
PROPERTY FollowUpsAreEarned
PROPERTY TravelKeepsEffects
PROPERTY DelaysExpire
