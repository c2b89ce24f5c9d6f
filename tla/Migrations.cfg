\* An upgrade, two writers and two runs of the script, over three months.
SPECIFICATION FairSpec
CONSTANTS
  w1 = w1
  w2 = w2
  r1 = r1
  r2 = r2
  Calendar <- MCCalendar
  FirstPartition <- Six
  Writers = {w1, w2}
  Runs = {r1, r2}
  Inputs <- MCInputs
  None = None
INVARIANTS
  MigrationsTypeOK
  KeptUnlessBetween
  MonthCovered
PROPERTY
  AllEnd
CHECK_DEADLOCK FALSE
