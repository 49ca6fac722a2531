SPECIFICATION FairRetentionSpec
CONSTANTS
  Blobs = {b1, b2}
  Types = {"raw-evidence-pdf", "raw-evidence-screenshot", "api-key"}
  Runs = {cron, manual}
  ExpiryJobs = {j1}
  BatchSize = 1
  Jumps = {30}
  OldestAge = 90
  NoBlob = NoBlob
INVARIANTS RetentionTypeOK OneRunAtATime
PROPERTIES DeletionsAreDue NoSilentDeletion LimitedDataGoes
