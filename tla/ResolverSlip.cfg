SPECIFICATION Spec
CONSTANTS
  Instances = {"a", "b"}
  Hosts = {"g", "h"}
  Entries = {"e1", "e2"}
INVARIANT OwedIsPumped
