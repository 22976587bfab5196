----------------------------- MODULE AssetRefresh -----------------------------
(***************************************************************************)
(* `refresh-assets xstocks` (src/scripts/refresh-asset-catalog.js): one    *)
(* source, read page by page, becomes a catalog for each of several        *)
(* chains, and the catalogs are replaced together: every new file and a    *)
(* backup of every old one is written first, then a journal, then the new  *)
(* files are renamed into place, and the journal is removed.  Whatever     *)
(* finds the journal puts the old catalogs back.  The application          *)
(* (createAssetRuntime) refuses to start while it finds the journal.       *)
(*                                                                         *)
(* A file is a document: nothing, a part of one, or the set of its assets. *)
(* Temporary files and backups carry the name of their batch: those of a   *)
(* batch that left no journal are never looked at again.  A copy empties   *)
(* its target first, and removes it when it fails.                         *)
(***************************************************************************)
EXTENDS Naturals

CONSTANTS
    Files,          \* how many catalogs a batch has
    Asset,          \* the assets the source lists
    Refreshes,      \* bound: how often the refresh is run
    MaxFileFaults   \* bound: operations that fail, and crashes

File == 1 .. Files

Absent == [state |-> "absent", assets |-> {}]
Torn == [state |-> "torn", assets |-> {}]
Catalog(S) == [state |-> "ok", assets |-> S]
Document == {Absent, Torn} \cup {Catalog(S) : S \in SUBSET Asset}

ASSUME AssetAssumption ==
    /\ Files \in Nat \ {0}
    /\ Refreshes \in Nat
    /\ MaxFileFaults \in Nat

NoFiles == [f \in File |-> Absent]
NoJournal == [there |-> FALSE, had |-> {}]

VARIABLES
    \* config/assets
    target,         \* per chain: <chain>.json
    temp, backup,   \* the files of the batch that runs, or that the journal names
    journal,        \* .xstocks-refresh-transaction.json: the targets that existed
    \* the refresh
    phase,          \* what it is doing
    i,              \* the next entry
    copying,        \* whether the copy of that entry has emptied its target
    caught,         \* whether it is in the catch block
    had,            \* hadTarget of the entries
    fresh,          \* the documents of the batch
    \* an application that starts for one chain
    reader,         \* "off", "checked" or "started"
    chain,          \* its chain
    loaded,         \* the document it found
    \* history
    settled,        \* the catalogs as the last whole batch left them
    unlucky,        \* a fault hit a restoration that no journal protects
    raced,          \* a batch was published between the check and the load
    runs, fileFaults

catalogs == <<target, temp, backup, journal>>
batch == <<phase, i, copying, caught, had, fresh>>
application == <<reader, chain, loaded>>
assetHistory == <<settled, unlucky, raced, runs, fileFaults>>
assetVars == <<catalogs, batch, application, assetHistory>>

Phase == {"idle", "fetch", "stage", "backup", "mark", "publish", "unmark",
          "restore", "recover", "clean"}

AssetTypeOK ==
    /\ {target, temp, backup, settled, fresh} \subseteq [File -> Document]
    /\ journal \in [there : BOOLEAN, had : SUBSET File]
    /\ phase \in Phase
    /\ i \in 0 .. Files + 1
    /\ {copying, caught, unlucky, raced} \subseteq BOOLEAN
    /\ had \subseteq File
    /\ reader \in {"off", "checked", "started"}
    /\ chain \in File
    /\ loaded \in Document
    /\ runs \in 0 .. Refreshes
    /\ fileFaults \in 0 .. MaxFileFaults

(* The repository ships a catalog for some of the chains.                  *)
AssetInit ==
    /\ \E S \in SUBSET Asset, shipped \in SUBSET File :
         target = [f \in File |-> IF f \in shipped THEN Catalog(S) ELSE Absent]
    /\ temp = NoFiles /\ backup = NoFiles /\ journal = NoJournal
    /\ phase = "idle" /\ i = 1 /\ copying = FALSE /\ caught = FALSE
    /\ had = {} /\ fresh = NoFiles
    /\ reader = "off" /\ chain = 1 /\ loaded = Absent
    /\ settled = target
    /\ unlucky = FALSE /\ raced = FALSE
    /\ runs = 0 /\ fileFaults = 0

Turns(ph, n) == phase' = ph /\ i' = n /\ copying' = FALSE

FileFault == fileFaults < MaxFileFaults /\ fileFaults' = fileFaults + 1

-----------------------------------------------------------------------------
(* The documents.                                                          *)

(* The refresh first looks for the journal of one that did not end.        *)
StartRefresh ==
    /\ phase = "idle" /\ runs < Refreshes
    /\ runs' = runs + 1
    /\ IF journal.there
       THEN Turns("recover", 1) /\ UNCHANGED <<temp, backup>>
       ELSE Turns("fetch", 1) /\ temp' = NoFiles /\ backup' = NoFiles
    /\ caught' = FALSE
    /\ UNCHANGED <<target, journal, had, fresh, application,
                   settled, unlucky, raced, fileFaults>>

(* The pages list assets of every chain, each of which exists on its       *)
(* chain; what the old catalogs list besides is kept.                      *)
Fetch ==
    /\ phase = "fetch"
    /\ \A f \in File : target[f] # Torn
    /\ \E listed \in [File -> SUBSET Asset \ {{}}] :
         fresh' = [f \in File |-> Catalog(target[f].assets \cup listed[f])]
    /\ had' = {f \in File : target[f] # Absent}
    /\ Turns("stage", 1)
    /\ settled' = target /\ unlucky' = FALSE
    /\ UNCHANGED <<catalogs, caught, application, raced, runs, fileFaults>>

(* A page out of order, an asset that does not exist or has another        *)
(* issuer, no asset for one of the chains, or an old catalog that cannot   *)
(* be parsed: nothing is written.                                          *)
FetchFails ==
    /\ phase = "fetch"
    /\ Turns("idle", 1)
    /\ UNCHANGED <<catalogs, caught, had, fresh, application, assetHistory>>

-----------------------------------------------------------------------------
(* The batch.                                                              *)

(* Entry i is done; `then` follows the last one.                           *)
NextEntry(then) == IF i < Files THEN Turns(phase, i + 1) ELSE Turns(then, 1)

Stage ==
    /\ phase = "stage"
    /\ temp' = [temp EXCEPT ![i] = fresh[i]]
    /\ NextEntry("backup")
    /\ UNCHANGED <<target, backup, journal, caught, had, fresh, application, assetHistory>>

Backup ==
    /\ phase = "backup"
    /\ backup' = IF i \in had THEN [backup EXCEPT ![i] = target[i]] ELSE backup
    /\ NextEntry("mark")
    /\ UNCHANGED <<target, temp, journal, caught, had, fresh, application, assetHistory>>

(* The journal is written under another name and renamed.                  *)
Mark ==
    /\ phase = "mark"
    /\ journal' = [there |-> TRUE, had |-> had]
    /\ Turns("publish", 1)
    /\ raced' = (raced \/ reader = "checked")
    /\ UNCHANGED <<target, temp, backup, caught, had, fresh, application,
                   settled, unlucky, runs, fileFaults>>

Publish ==
    /\ phase = "publish"
    /\ target' = [target EXCEPT ![i] = temp[i]]
    /\ temp' = [temp EXCEPT ![i] = Absent]
    /\ NextEntry("unmark")
    /\ UNCHANGED <<backup, journal, caught, had, fresh, application, assetHistory>>

Unmark ==
    /\ phase = "unmark"
    /\ journal' = NoJournal
    /\ settled' = fresh
    /\ Turns("clean", 1)
    /\ UNCHANGED <<target, temp, backup, caught, had, fresh, application,
                   unlucky, raced, runs, fileFaults>>

(* An operation of the batch fails.  The backup that could not be written  *)
(* is removed; the journal decides what the catch block does.              *)
BatchFails ==
    /\ phase \in {"stage", "backup", "mark", "publish", "unmark"}
    /\ FileFault
    /\ caught' = TRUE
    /\ IF journal.there THEN Turns("recover", 1) ELSE Turns("restore", Files)
    /\ UNCHANGED <<catalogs, had, fresh, application, settled, unlucky, raced, runs>>

(* The `finally` block: without a journal the batch's files are removed.   *)
Clean ==
    /\ phase = "clean"
    /\ IF journal.there THEN UNCHANGED <<temp, backup>>
                        ELSE temp' = NoFiles /\ backup' = NoFiles
    /\ Turns("idle", 1)
    /\ UNCHANGED <<target, journal, caught, had, fresh, application, assetHistory>>

-----------------------------------------------------------------------------
(* Putting the old catalogs back.                                          *)

(* A copy over target i, in two steps.                                     *)
Emptied == ~copying /\ copying' = TRUE /\ target' = [target EXCEPT ![i] = Torn] /\ UNCHANGED <<phase, i>>
Filled == copying /\ target' = [target EXCEPT ![i] = backup[i]]

(* The catch block without a journal: every backup is copied over its      *)
(* target, which was not touched yet, the last one first.                  *)
Restored == IF i > 1 THEN Turns("restore", i - 1) ELSE Turns("clean", 1)

Restore ==
    /\ phase = "restore"
    /\ \/ backup[i] # Absent /\ Emptied
       \/ backup[i] # Absent /\ Filled /\ Restored
       \/ backup[i] = Absent /\ Restored /\ UNCHANGED target
    /\ UNCHANGED <<temp, backup, journal, caught, had, fresh, application, assetHistory>>

(* recoverAtomicJsonBatch, in the catch block or at the start of a run.    *)
(* Mutant: the journal is removed with the first entry.                    *)
RecoverOne ==
    /\ phase = "recover" /\ i <= Files
    /\ target' = [target EXCEPT ![i] = backup[i]]
    /\ journal' = NoJournal
    /\ Turns(IF caught THEN "clean" ELSE "fetch", 1)
    /\ UNCHANGED <<temp, backup, caught, had, fresh, application, assetHistory>>

Recover ==
    /\ phase = "recover" /\ i <= Files
    /\ \/ i \in journal.had /\ backup[i] # Absent /\ Emptied
       \/ i \in journal.had /\ backup[i] # Absent /\ Filled /\ Turns("recover", i + 1)
       \/ i \notin journal.had /\ target' = [target EXCEPT ![i] = Absent] /\ Turns("recover", i + 1)
    /\ UNCHANGED <<temp, backup, journal, caught, had, fresh, application, assetHistory>>

Recovered ==
    /\ phase = "recover" /\ i = Files + 1
    /\ journal' = NoJournal /\ temp' = NoFiles /\ backup' = NoFiles
    /\ Turns(IF caught THEN "clean" ELSE "fetch", 1)
    /\ UNCHANGED <<target, caught, had, fresh, application, assetHistory>>

(* A step of it fails, a copy with its target removed: the journal stays,  *)
(* and a run that began with the recovery ends.                            *)
RecoverFails ==
    /\ phase = "recover"
    /\ \/ FileFault
       \/ i \in journal.had /\ backup[i] = Absent /\ UNCHANGED fileFaults
    /\ target' = IF copying THEN [target EXCEPT ![i] = Absent] ELSE target
    /\ Turns(IF caught THEN "clean" ELSE "idle", 1)
    /\ UNCHANGED <<temp, backup, journal, caught, had, fresh, application,
                   settled, unlucky, raced, runs>>

(* A restoration goes on with the next entry.                              *)
RestoreFails ==
    /\ phase = "restore" /\ FileFault
    /\ target' = IF copying THEN [target EXCEPT ![i] = Absent] ELSE target
    /\ unlucky' = TRUE
    /\ Restored
    /\ UNCHANGED <<temp, backup, journal, caught, had, fresh, application, settled, raced, runs>>

RefreshCrash ==
    /\ phase # "idle" /\ FileFault
    /\ unlucky' = (unlucky \/ phase = "restore")
    /\ Turns("idle", 1)
    /\ UNCHANGED <<catalogs, caught, had, fresh, application, settled, raced, runs>>

-----------------------------------------------------------------------------
(* An application starts.                                                  *)

(* Mutant: the journal is not looked for.                                  *)
AssertNothing(f) ==
    /\ reader = "off"
    /\ reader' = "checked" /\ chain' = f /\ loaded' = Absent
    /\ raced' = FALSE
    /\ UNCHANGED <<catalogs, batch, settled, unlucky, runs, fileFaults>>

AssertNoPending(f) ==
    /\ reader = "off" /\ ~journal.there
    /\ reader' = "checked" /\ chain' = f /\ loaded' = Absent
    /\ raced' = FALSE
    /\ UNCHANGED <<catalogs, batch, settled, unlucky, runs, fileFaults>>

(* A catalog that is missing or torn keeps it from starting.               *)
LoadCatalog ==
    /\ reader = "checked"
    /\ loaded' = target[chain]
    /\ reader' = IF target[chain].state = "ok" THEN "started" ELSE "off"
    /\ UNCHANGED <<catalogs, batch, chain, assetHistory>>

ApplicationEnds ==
    /\ reader = "started"
    /\ reader' = "off"
    /\ UNCHANGED <<catalogs, batch, chain, loaded, assetHistory>>

AssetNext ==
    \/ StartRefresh \/ Fetch \/ FetchFails
    \/ Stage \/ Backup \/ Mark \/ Publish \/ Unmark \/ BatchFails \/ Clean
    \/ Restore \/ Recover \/ Recovered \/ RecoverFails \/ RestoreFails \/ RefreshCrash
    \/ \E f \in File : AssertNoPending(f)
    \/ LoadCatalog \/ ApplicationEnds

AssetSpec == AssetInit /\ [][AssetNext]_assetVars

-----------------------------------------------------------------------------
(* Between two runs without a journal, the catalogs are those of one batch:*)
(* all of the last one that ended, or all of the one before, wherever a    *)
(* write, a copy, a rename or the process failed, in recoveries too.  The  *)
(* one exception is a second fault: it hits the copying back of backups    *)
(* over targets the failed batch had not touched (BatchFails before Mark). *)
AllOrNothing ==
    phase = "idle" /\ ~journal.there /\ ~unlucky => target = settled

(* An application never starts with a catalog of a batch that may be       *)
(* rolled back later, nor with a part of one, although it runs beside the  *)
(* refresh: unless a batch began to publish between its check for the      *)
(* journal and the load.                                                   *)
StartsSettled ==
    [][reader = "checked" /\ reader' = "started" /\ ~raced /\ ~unlucky
         => loaded' = settled[chain]]_assetVars
=============================================================================
