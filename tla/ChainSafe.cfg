\* Two ledgers that may share a beginning; a copy changed up to three times.
CONSTANTS
  Ledgers = {l1, l2}
  Payloads = {plain, secret}
  Secrets = {secret}
  Redacted = redacted
  Unknown = unknown
  MaxEntries = 3
  MaxEdits = 3
SYMMETRY SymmetricLedgers
SPECIFICATION Spec
INVARIANTS
  TypeOK
  EntryVouchesForItsPast
  CountPinsTheCopy
