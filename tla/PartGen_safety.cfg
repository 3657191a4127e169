SPECIFICATION RetrySpec
CONSTANTS
  Requests = {r1}
  Values = {v1, v2}
  Labels = {{t1}, {t1, t2}}
  Combined = all
  NoPDF = none
  MaxJobs = 2
  MaxEdits = 1
  MaxFaults = 1
CHECK_DEADLOCK FALSE
INVARIANT IntactStaysExact
PROPERTIES PartsImplementCache LabelsImplementCache RetryHelps
