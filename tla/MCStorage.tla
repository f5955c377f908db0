----------------------------- MODULE MCStorage -----------------------------
(* Small instances of Storage for TLC.                                     *)
EXTENDS Storage

CONSTANTS Replicas, RequestedSizes, Policies, InitialReplicas, InitialSize

MCCloudSpecs == [replicas : Replicas, size : RequestedSizes, policy : Policies]
MCInitialSpecs == [replicas : InitialReplicas, size : {InitialSize}, policy : Policies]
=============================================================================
