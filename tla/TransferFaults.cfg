\* A text, a raw file and the summary; with bundling and eviction, and a large raw
\* file without; any three faults.
SPECIFICATION FairSpec
CONSTANTS
  text = text
  raw = raw
  summary = summary
  evidence = evidence
  c1 = c1
  c2 = c2
  Texts <- OneText
  Raws <- OneRaw
  Summary <- summary
  Bundle <- evidence
  Slots <- TwoCalls
  Settings <- AnyAgent
  MaxFaults = 3
INVARIANTS
  TypeOK
  ArtifactKept
  PublishedIsHeld
  FinalizedHoldsRows
  UploadedOnce
PROPERTIES
  FinishedIsPublished
CHECK_DEADLOCK FALSE
