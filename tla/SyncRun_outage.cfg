CONSTANTS
  Device = {d1, d2, d3}
  Ci = {c1, c2, c3}
  d1 = d1
  d2 = d2
  d3 = d3
  c1 = c1
  c2 = c2
  c3 = c3
  CiOf <- OneCiEach
  Permanent = {d3}
  Configs <- Scheduled
  Faults = {"outage"}
SPECIFICATION Spec
PROPERTY BatchFailureContained
