\* Three workers in two pods; the ratio of the three times is that of 120 s, 30 * 2 s and 60 s.
SPECIFICATION Spec
CONSTANTS
  Pods = {{w1, w2}, {w3}}
  LockTTL = 4
  Polls = 2
  StartupTimeout = 2
  MaxFaults = 2
INVARIANTS
  TypeOK OneMigrator LockOutlivesMigration OldSchemaExcused
PROPERTIES
  EveryoneServes
