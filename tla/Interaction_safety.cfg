\* Interactions, automation, desktop input and interrupts share the gates of two
\* Runtimes; two keys may be retried on either.
SPECIFICATION Spec
CONSTANTS
  c1 = c1  c2 = c2
  Calls = {c1, c2}
  Owners = {agent}
  Runtimes = {r1, r2}
  Keys = {k1, k2}
  Sigs = {s1}
  Kinds <- Senders
  MaxRecords = 3
  MaxBytes = 2
  MinRead = 2
  Capacity = 2
  MaxOut = 0
  NONE = NONE
SYMMETRY Symmetry
CHECK_DEADLOCK FALSE
INVARIANTS SendAtMostOnce RecordTellsWhatWasSent OneWriter SingleActive NoForeignInput
