\* Two directories with one name are uploaded in one batch, to one existing and one new
\* file, with a clean-up that waits for them, failures, a cancellation and a restart.
SPECIFICATION LiveSpec
CONSTANTS
  t1 = t1  t2 = t2  b1 = b1  b2 = b2  a = a  b = b  NONE = NONE
  Tasks = {t1, t2}
  Batches = {b1, b2}
  BatchOf <- OneBatch
  FilesOf <- TwoDirs
  Uploads = {t1, t2}
  Existing = {a}
  Permits = 2
  Answers = {"skip", "overwrite", "rename"}
  Cancellable = {t1}
  Deployed = {b1}
  MaxAttempt = 1
  Faults = TRUE
  Restarts = TRUE
CHECK_DEADLOCK FALSE
INVARIANTS OneQuestion ReplacedByConsent NothingLost RecordsTell
PROPERTY QueueDrains
