SPECIFICATION FairSpec
CONSTANTS
  Collections = {1, 2}
  Repositories = {repo}
  repo = repo
  NoName = NoName
  Unset = Unset
  BackupSpecs <- MCBackupSpecs
  Named = {{}, {1, 2}}
  Names = {NoName}
  Recurrences = {"enabled", "disabled"}
  InitialPresent = {{1, 2}, {2}}
  MaxSaved = 1
  MaxDisturbances = 2
INVARIANTS TypeOK SuccessIsOfThisBackup SuccessfulUnlessHindered
PROPERTIES BackupFinishes BackupRecurs
\* A backup that is not to be repeated is at rest.
CHECK_DEADLOCK FALSE
