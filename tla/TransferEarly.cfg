\* A run is finalized although a transfer before its summary failed.
SPECIFICATION Spec
CONSTANTS
  text = text
  raw = raw
  summary = summary
  evidence = evidence
  c1 = c1
  c2 = c2
  Texts <- OneText
  Raws <- OneRaw
  Summary <- summary
  Bundle <- evidence
  Slots <- TwoCalls
  Settings <- OnlyNetFails
  MaxFaults = 1
INVARIANTS
  PublishedIsArchived
CHECK_DEADLOCK FALSE
