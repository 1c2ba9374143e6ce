SPECIFICATION Spec
CONSTANTS
  Vendors = {"connext"}
  MaxFailures = 1
  DataRepr = 2
INVARIANT PassMeansCreated
CHECK_DEADLOCK FALSE
