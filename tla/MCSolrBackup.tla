--------------------------- MODULE MCSolrBackup ---------------------------
(* Small instances of SolrBackup for TLC.                                  *)
EXTENDS SolrBackup

CONSTANTS Named, Names, Recurrences

\* A backup that is not repeated is of all collections.
MCBackupSpecs ==
  {s \in [collections : Named, repository : Names, recurrence : Recurrences] :
     s.recurrence = "enabled" \/ s.collections = {}}
=============================================================================
