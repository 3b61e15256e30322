\* A task that meets a conflict is cancelled while another one meets one too.
SPECIFICATION LiveSpec
CONSTANTS
  t1 = t1  t2 = t2  b1 = b1  b2 = b2  a = a  b = b  NONE = NONE
  Tasks = {t1, t2}
  Batches = {b1, b2}
  BatchOf <- Alone
  FilesOf <- TwoFiles
  Uploads = {t1}
  Existing = {a, b}
  Permits = 2
  Answers = {"skip"}
  Cancellable = {t1}
  Deployed = {}
  MaxAttempt = 1
  Faults = FALSE
  Restarts = FALSE
CHECK_DEADLOCK FALSE
PROPERTY ConflictsAnswered
