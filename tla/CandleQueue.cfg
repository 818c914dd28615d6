SPECIFICATION Spec
CONSTANTS
  day = day
  month = month
  Job <- Jobs
  Wide <- Month
  Batch = 2
  MaxAttempts = 2
  MaxFaults = 2
INVARIANTS
  TypeOK
  ChunksTrue
  OutcomesEarned
PROPERTIES
  OneAttemptPerPass
  JobsEnd
