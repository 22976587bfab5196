--------------------------- MODULE MCInstallation ---------------------------
(* Instances of DataDirectory and AssetRefresh for TLC, one at a time: the *)
(* lock and the state of two watches and a reader, without requests; the   *)
(* counts of one watch and a reader, without commits; the refresh.         *)
EXTENDS DataDirectory, AssetRefresh, TLC

CONSTANTS w1, w2

VARIABLE part

InstallationInit ==
    /\ part \in {"state", "usage", "assets"}
    /\ DirectoryInit /\ AssetInit
    /\ part # "assets" => settled = NoFiles

InstallationNext ==
    \/ part = "state" /\ DirectoryNext /\ paid' = 0 /\ month' = 0 /\ UNCHANGED <<part, assetVars>>
    \/ /\ part = "usage" /\ DirectoryNext /\ committed' = {} /\ stage'[w2] = "off"
       /\ UNCHANGED <<part, assetVars>>
    \/ part = "assets" /\ AssetNext /\ UNCHANGED <<part, directoryVars>>

InstallationSpec ==
    InstallationInit /\ [][InstallationNext]_<<part, directoryVars, assetVars>>
=============================================================================
