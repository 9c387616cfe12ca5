SPECIFICATION FairSpec
CONSTANTS
    r1 = r1  r2 = r2  m1 = m1
    NoData = NoData  NotYet = NotYet  Nothing = Nothing
    Rules <- TwoRules  Metrics <- OneMetric  MetricOf <- SameMetric
    Window <- OneAndTwoHours
    Condition <- BelowAndNoData  Threshold <- AtOne  Numbers <- JustZero
    MaxFaults = 2
INVARIANTS StateIsTold NoFalseAlarm
PROPERTIES AtMostDaily TroubleIsHeard
