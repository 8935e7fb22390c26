\* One command at a time, two faults, each archive replaced once.
SPECIFICATION FairSpec
CONSTANTS
  good = good
  bad = bad
  Absent = Absent
  Torn = Torn
  Procs = {p1}
  p1 = p1
  p2 = p2
  Versions = {good, bad}
  Members <- MCMembers
  Speakers <- MCSpeakers
  Requests <- MCRequests
  MaxFaults = 2
  MaxChanges = 1
INVARIANTS
  PublishedComplete
  ResultTruthful
PROPERTIES
  NeverOverwritten
  RerunPublishes
