------------------------- MODULE InstallationProofs -------------------------
(***************************************************************************)
(* Proofs about DataDirectory, for every number of processes, legacy       *)
(* files, commits, requests and faults, and about AssetRefresh, for every  *)
(* number of catalogs, runs and faults.                                    *)
(***************************************************************************)
EXTENDS DataDirectory, AssetRefresh, FiniteSetTheorems, TLAPS

-----------------------------------------------------------------------------
(***************************************************************************)
(* The lock.                                                               *)
(***************************************************************************)

(* What follows the port: from the moment it is taken until it is closed   *)
(* it belongs to the process, and only a watch gets that far.              *)
Listening == {"name", "running", "unlock", "unname", "close"}
WatchOnly == {"lock", "name", "unlock", "unname", "close"}

LockInv ==
    /\ stage \in [Process -> ProcessStage]
    /\ \A p \in Process : stage[p] \in WatchOnly => p \in Watch
    /\ \A p \in Watch : stage[p] \in Listening => port = p
    /\ \A p \in Watch : stage[p] = "running" => lockFile = p

LEMMA Lock_Init == DirectoryInit => LockInv
  BY DEF DirectoryInit, LockInv, ProcessStage, Listening, WatchOnly, Process

(* Steps that leave the port, the file and the stages as they are, or only *)
(* move a process between stages without the port.                         *)
LEMMA Lock_Elsewhere ==
    ASSUME LockInv, NEW p \in Process, NEW s \in ProcessStage \ (Listening \cup WatchOnly),
           stage' = stage \/ Goes(p, s), UNCHANGED <<port, lockFile>>
    PROVE  LockInv'
  BY DEF LockInv, Goes, ProcessStage, Listening, WatchOnly, Process

(* A process without the port becomes a reader that runs, or a watch that  *)
(* waits for the lock.                                                     *)
LEMMA Lock_Verified ==
    ASSUME LockInv, NEW p \in Process, Verified(p)
    PROVE  LockInv'
<1>1. UNCHANGED <<port, lockFile>>
  BY DEF Verified, directory
<1>2. Goes(p, IF p \in Watch THEN "lock" ELSE "running")
  BY DEF Verified
<1> QED
  BY <1>1, <1>2 DEF LockInv, Goes, ProcessStage, Listening, WatchOnly

(* The port is taken when nobody listens, so nobody has it.                *)
LEMMA Lock_Taken ==
    ASSUME LockInv, NEW p \in Process, TakePort(p) \/ NameLock(p) \/ NameFails(p)
    PROVE  LockInv'
<1> USE DirectoryAssumption DEF LockInv, Goes, ProcessStage, Listening, WatchOnly, Process
<1>1. CASE TakePort(p)
  BY <1>1 DEF TakePort
<1>2. CASE NameLock(p)
  BY <1>2 DEF NameLock
<1>3. CASE NameFails(p)
  BY <1>3 DEF NameFails
<1> QED
  BY <1>1, <1>2, <1>3

(* The file is removed by the process that has the port, and the port is   *)
(* closed after it.                                                        *)
LEMMA Lock_Released ==
    ASSUME LockInv, NEW p \in Process,
           EndRun(p) \/ ReadLock(p) \/ RemoveLock(p) \/ ClosePort(p)
    PROVE  LockInv'
<1> USE DirectoryAssumption DEF LockInv, Goes, ProcessStage, Listening, WatchOnly, Process
<1>1. CASE EndRun(p)
  BY <1>1 DEF EndRun, directory
<1>2. CASE ReadLock(p)
  BY <1>2 DEF ReadLock, directory
<1>3. CASE RemoveLock(p)
  BY <1>3 DEF RemoveLock
<1>4. CASE ClosePort(p)
  BY <1>4 DEF ClosePort
<1> QED
  BY <1>1, <1>2, <1>3, <1>4

LEMMA Lock_Crash ==
    ASSUME LockInv, NEW p \in Process, ProcessCrash(p)
    PROVE  LockInv'
<1>1. Goes(p, "off") /\ port' = (IF port = p THEN NoOne ELSE port) /\ lockFile' = lockFile
  BY DEF ProcessCrash, Off
<1> QED
  BY <1>1, DirectoryAssumption DEF LockInv, Goes, ProcessStage, Listening, WatchOnly, Process

LEMMA Lock_Next == LockInv /\ [DirectoryNext]_directoryVars => LockInv'
<1> SUFFICES ASSUME LockInv, [DirectoryNext]_directoryVars PROVE LockInv'
  OBVIOUS
<1>1. CASE UNCHANGED directoryVars
  BY <1>1 DEF LockInv, directoryVars, directory, processes
<1>2. CASE NewMonth
  BY <1>2 DEF LockInv, NewMonth, directory, processes
<1>3. ASSUME NEW p \in Process,
             \/ Launch(p) \/ CheckLegacy(p) \/ CopyDone(p) \/ Load(p) \/ Save(p)
             \/ VerifyFails(p) \/ PortTaken(p) \/ Closed(p)
      PROVE  LockInv'
  <2>1. UNCHANGED <<port, lockFile>>
    BY <1>3 DEF Launch, CheckLegacy, CopyDone, Load, Loaded, Save, VerifyFails, PortTaken,
                Closed, directory
  <2>2. \E s \in {"migrate", "copy", "load", "save", "verify", "flush"} : Goes(p, s)
    BY <1>3 DEF Launch, CheckLegacy, CopyDone, Load, Save, VerifyFails, PortTaken, Closed
  <2>3. PICK s \in {"migrate", "copy", "load", "save", "verify", "flush"} : Goes(p, s)
    BY <2>2
  <2>4. s \in ProcessStage \ (Listening \cup WatchOnly)
    BY <2>3 DEF ProcessStage, Listening, WatchOnly
  <2> QED
    BY <2>1, <2>3, <2>4, Lock_Elsewhere
<1>4. ASSUME NEW p \in Process, Verified(p) PROVE LockInv'
  BY <1>4, Lock_Verified
<1>5. ASSUME NEW p \in Process, TakePort(p) \/ NameLock(p) \/ NameFails(p) PROVE LockInv'
  BY <1>5, Lock_Taken
<1>6. ASSUME NEW p \in Process, EndRun(p) \/ ReadLock(p) \/ RemoveLock(p) \/ ClosePort(p)
      PROVE  LockInv'
  BY <1>6, Lock_Released
<1>7. ASSUME NEW p \in Process,
             \/ Commit(p) \/ FlushTimer(p) \/ FlushLast(p) \/ FlushFails(p)
             \/ \E f \in Legacy : Copy(p, f)
             \/ \E n \in Batches : Request(p, n)
      PROVE  LockInv'
  <2>1. UNCHANGED <<port, lockFile>>
    BY <1>7 DEF Commit, FlushTimer, FlushLast, FlushFails, Copy, Request, directory
  <2>2. stage' = stage \/ Goes(p, "off")
    BY <1>7 DEF Commit, FlushTimer, FlushLast, FlushFails, Copy, Request, Off
  <2>3. "off" \in ProcessStage \ (Listening \cup WatchOnly)
    BY DEF ProcessStage, Listening, WatchOnly
  <2> QED
    BY <2>1, <2>2, <2>3, Lock_Elsewhere
<1>8. ASSUME NEW p \in Process, ProcessCrash(p) PROVE LockInv'
  BY <1>8, Lock_Crash
<1> QED
  BY <1>1, <1>2, <1>3, <1>4, <1>5, <1>6, <1>7, <1>8 DEF DirectoryNext

(* However many watches and readers start, are refused, end or crash, the  *)
(* one that runs is the one that listens on the lock port, and the one the *)
(* lock file names (acquireInstanceLock, releaseOwnedLock).                *)
THEOREM LockCorrect == DirectorySpec => []LockNamesHolder
<1>1. DirectorySpec => []LockInv
  BY Lock_Init, Lock_Next, PTL DEF DirectorySpec
<1>2. LockInv => LockNamesHolder
  BY DEF LockInv, LockNamesHolder, Listening
<1> QED
  BY <1>1, <1>2, PTL

-----------------------------------------------------------------------------
(***************************************************************************)
(* Type correctness of the directory.                                      *)
(***************************************************************************)
LEMMA Dir_Init == DirectoryInit => DirectoryTypeOK
<1> SUFFICES ASSUME DirectoryInit PROVE DirectoryTypeOK
  OBVIOUS
<1>1. stage \in [Process -> ProcessStage]
  BY DEF DirectoryInit, ProcessStage
<1>2. 0 \in 0 .. Months /\ 0 \in 0 .. MaxPaid /\ 0 \in 0 .. MaxProcessFaults
  BY DirectoryAssumption
<1>3. count \in [Process -> [month : 0 .. Months, total : Nat, dirty : BOOLEAN]]
  BY <1>2 DEF DirectoryInit, NoCount
<1> QED
  BY <1>1, <1>2, <1>3 DEF DirectoryInit, DirectoryTypeOK, NoState

LEMMA Counts_Typed ==
    ASSUME DirectoryTypeOK
    PROVE  /\ month \in Nat /\ paid \in Nat /\ lost \in Nat /\ Written \in Nat
           /\ \A p \in Process : Counted(p) \in Nat /\ Unwritten(p) \in Nat
BY DirectoryAssumption DEF DirectoryTypeOK, Counted, Written, Unwritten

(* What a process does with its stage.                                     *)
LEMMA Goes_Typed ==
    ASSUME DirectoryTypeOK, NEW p \in Process, NEW s \in ProcessStage, Goes(p, s)
    PROVE  stage' \in [Process -> ProcessStage]
BY DEF DirectoryTypeOK, Goes

LEMMA Stages_Typed ==
    ASSUME DirectoryTypeOK, DirectoryNext
    PROVE  stage' \in [Process -> ProcessStage]
<1>1. ASSUME NEW p \in Process,
             \/ Launch(p) \/ CheckLegacy(p) \/ CopyDone(p) \/ Load(p) \/ Save(p)
             \/ Verified(p) \/ VerifyFails(p) \/ TakePort(p) \/ PortTaken(p) \/ NameLock(p)
             \/ NameFails(p) \/ EndRun(p) \/ ReadLock(p) \/ RemoveLock(p) \/ ClosePort(p)
             \/ Closed(p) \/ FlushLast(p) \/ FlushFails(p) \/ ProcessCrash(p)
      PROVE  \E s \in ProcessStage : Goes(p, s)
  BY <1>1 DEF Launch, CheckLegacy, CopyDone, Load, Save, Verified, VerifyFails, TakePort,
              PortTaken, NameLock, NameFails, EndRun, ReadLock, RemoveLock, ClosePort,
              Closed, FlushLast, FlushFails, ProcessCrash, Off, ProcessStage
<1>2. ASSUME NEW p \in Process,
             \/ Commit(p) \/ FlushTimer(p)
             \/ \E f \in Legacy : Copy(p, f)
             \/ \E n \in Batches : Request(p, n)
      PROVE  stage' = stage
  BY <1>2 DEF Commit, FlushTimer, Copy, Request
<1>3. NewMonth => stage' = stage
  BY DEF NewMonth, processes
<1>4. (\E p \in Process : \E s \in ProcessStage : Goes(p, s)) \/ stage' = stage
  BY <1>1, <1>2, <1>3 DEF DirectoryNext
<1>5. stage \in [Process -> ProcessStage]
  BY DEF DirectoryTypeOK
<1> QED
  BY <1>4, <1>5, Goes_Typed

LEMMA Flushed_Typed ==
    ASSUME DirectoryTypeOK, NEW p \in Process, Flushed(p)
    PROVE  /\ usage' \in [month : 0 .. Months, total : Nat]
           /\ count' \in [Process -> [month : 0 .. Months, total : Nat, dirty : BOOLEAN]]
<1>0. month \in 0 .. Months /\ Counted(p) \in Nat
  BY Counts_Typed DEF DirectoryTypeOK
<1>1. [month |-> month, total |-> Counted(p)] \in [month : 0 .. Months, total : Nat]
  BY <1>0
<1>2. [month |-> month, total |-> Counted(p), dirty |-> FALSE]
        \in [month : 0 .. Months, total : Nat, dirty : BOOLEAN]
  BY <1>0
<1>3. \/ /\ usage' = [month |-> month, total |-> Counted(p)]
         /\ count' = [count EXCEPT ![p] =
                        [month |-> month, total |-> Counted(p), dirty |-> FALSE]]
      \/ UNCHANGED <<usage, count>>
  BY DEF Flushed
<1>4. /\ usage \in [month : 0 .. Months, total : Nat]
      /\ count \in [Process -> [month : 0 .. Months, total : Nat, dirty : BOOLEAN]]
  BY DEF DirectoryTypeOK
<1>5. CASE UNCHANGED <<usage, count>>
  BY <1>4, <1>5
<1>6. CASE /\ usage' = [month |-> month, total |-> Counted(p)]
           /\ count' = [count EXCEPT ![p] =
                         [month |-> month, total |-> Counted(p), dirty |-> FALSE]]
  BY <1>1, <1>2, <1>4, <1>6
<1> QED
  BY <1>3, <1>5, <1>6

LEMMA Fault_Typed ==
    ASSUME DirectoryTypeOK, ProcessFault
    PROVE  processFaults' \in 0 .. MaxProcessFaults
BY DirectoryAssumption DEF DirectoryTypeOK, ProcessFault

LEMMA Dir_Step ==
    ASSUME DirectoryTypeOK, NEW p \in Process, stage' \in [Process -> ProcessStage],
           \/ Launch(p) \/ CheckLegacy(p) \/ CopyDone(p) \/ Load(p) \/ Save(p)
           \/ Verified(p) \/ VerifyFails(p)
           \/ TakePort(p) \/ PortTaken(p) \/ NameLock(p) \/ NameFails(p)
           \/ EndRun(p) \/ ReadLock(p) \/ RemoveLock(p) \/ ClosePort(p) \/ Closed(p)
           \/ Commit(p) \/ FlushTimer(p) \/ FlushLast(p) \/ FlushFails(p) \/ ProcessCrash(p)
           \/ \E f \in Legacy : Copy(p, f)
           \/ \E n \in Batches : Request(p, n)
    PROVE  DirectoryTypeOK'
<1> USE DEF DirectoryTypeOK, directory, directoryHistory
<1>1. CASE Launch(p)
  <2>1. NoCount \in [month : 0 .. Months, total : Nat, dirty : BOOLEAN]
    BY DirectoryAssumption DEF NoCount
  <2> QED
    BY <1>1, <2>1 DEF Launch
<1>2. CASE CheckLegacy(p)
  BY <1>2 DEF CheckLegacy
<1>3. CASE CopyDone(p)
  BY <1>3 DEF CopyDone
<1>4. CASE Load(p)
  <2>1. [month |-> month, total |-> Written, dirty |-> FALSE]
          \in [month : 0 .. Months, total : Nat, dirty : BOOLEAN]
    BY Counts_Typed
  <2>2. (IF state.there THEN state.holds ELSE copied) \in SUBSET (LegacyNames \cup Commits)
    OBVIOUS
  <2> QED
    BY <1>4, <2>1, <2>2 DEF Load, Loaded
<1>5. CASE Save(p)
  BY <1>5 DEF Save
<1>6. CASE Verified(p) \/ VerifyFails(p) \/ PortTaken(p) \/ EndRun(p) \/ ReadLock(p) \/ Closed(p)
  BY <1>6 DEF Verified, VerifyFails, PortTaken, EndRun, ReadLock, Closed
<1>7. CASE TakePort(p)
  BY <1>7 DEF TakePort
<1>8. CASE NameLock(p)
  BY <1>8 DEF NameLock
<1>9. CASE NameFails(p)
  BY <1>9, Fault_Typed DEF NameFails
<1>10. CASE RemoveLock(p) \/ ClosePort(p)
  BY <1>10 DEF RemoveLock, ClosePort
<1>11. CASE Commit(p)
  <2>1. PICK c \in Commits \ committed :
          /\ store' = [store EXCEPT ![p] = @ \cup {c}]
          /\ state' = [there |-> TRUE, holds |-> store[p] \cup {c}]
          /\ committed' = committed \cup {c}
    <3>1. \E c \in Commits \ committed : TRUE
      BY <1>11 DEF Commit
    <3>2. (CHOOSE c \in Commits \ committed : TRUE) \in Commits \ committed
      BY <3>1
    <3> QED
      BY <1>11, <3>2 DEF Commit
  <2> QED
    BY <1>11, <2>1 DEF Commit
<1>12. CASE FlushTimer(p)
  BY <1>12, Flushed_Typed DEF FlushTimer
<1>13. CASE FlushLast(p)
  BY <1>13, Flushed_Typed DEF FlushLast, Off
<1>14. CASE FlushFails(p)
  BY <1>14, Fault_Typed, Counts_Typed DEF FlushFails, Off
<1>15. CASE ProcessCrash(p)
  BY <1>15, Fault_Typed, Counts_Typed DEF ProcessCrash, Off
<1>16. ASSUME NEW f \in Legacy, Copy(p, f) PROVE DirectoryTypeOK'
  <2>1. f \in LegacyNames
    BY DirectoryAssumption
  <2>2. [there |-> TRUE, holds |-> {"state"}]
          \in [there : BOOLEAN, holds : SUBSET (LegacyNames \cup Commits)]
    BY DEF LegacyNames
  <2>3. store' \in [Process -> SUBSET (LegacyNames \cup Commits)]
    BY <1>16, <2>1 DEF Copy
  <2> QED
    BY <1>16, <2>1, <2>2, <2>3 DEF Copy
<1>17. ASSUME NEW n \in Batches, Request(p, n) PROVE DirectoryTypeOK'
  <2>1. n \in Nat /\ paid + n \in 0 .. MaxPaid
    BY <1>17, DirectoryAssumption DEF Request
  <2>2. [month |-> month, total |-> Counted(p) + n, dirty |-> TRUE]
          \in [month : 0 .. Months, total : Nat, dirty : BOOLEAN]
    BY <2>1, Counts_Typed
  <2> QED
    BY <1>17, <2>1, <2>2 DEF Request
<1> QED
  BY <1>1, <1>2, <1>3, <1>4, <1>5, <1>6, <1>7, <1>8, <1>9, <1>10, <1>11, <1>12, <1>13, <1>14,
     <1>15, <1>16, <1>17

LEMMA Dir_Next == DirectoryTypeOK /\ [DirectoryNext]_directoryVars => DirectoryTypeOK'
<1> SUFFICES ASSUME DirectoryTypeOK, [DirectoryNext]_directoryVars PROVE DirectoryTypeOK'
  OBVIOUS
<1>1. CASE NewMonth
  <2>1. month' \in 0 .. Months /\ 0 \in 0 .. MaxPaid
    BY <1>1, DirectoryAssumption DEF NewMonth, DirectoryTypeOK
  <2> QED
    BY <1>1, <2>1 DEF NewMonth, DirectoryTypeOK, directory, processes
<1>2. CASE DirectoryNext /\ ~NewMonth
  BY <1>2, Stages_Typed, Dir_Step DEF DirectoryNext
<1>3. CASE UNCHANGED directoryVars
  BY <1>3 DEF DirectoryTypeOK, directoryVars, directory, processes, directoryHistory
<1> QED
  BY <1>1, <1>2, <1>3

(* Every variable keeps its type, for every set of processes and legacy    *)
(* files.                                                                  *)
THEOREM DirectoryTypeCorrect == DirectorySpec => []DirectoryTypeOK
BY Dir_Init, Dir_Next, PTL DEF DirectorySpec

-----------------------------------------------------------------------------
(***************************************************************************)
(* Who has loaded a store, and who writes one.                             *)
(***************************************************************************)
Settling == {"save", "verify", "lock", "name", "running", "unlock", "unname", "close",
             "closing", "flush"}
Writing  == WatchOnly \cup {"migrate", "copy", "save", "closing"}

(* Only a watch copies, saves, locks and commits; the port belongs to one  *)
(* from its taking until its closing; a process that starts has no store;  *)
(* and beyond the save there is a state.json.                              *)
PortInv ==
    /\ \A p \in Process : stage[p] \in Writing => p \in Watch
    /\ \A p \in Process : port = p => p \in Watch /\ stage[p] \in Listening
    /\ \A p \in Process : stage[p] \in {"off", "migrate"} => store[p] = {}
    /\ \A p \in Watch : stage[p] \in Settling \ {"save"} => state.there
    /\ ~state.there => state.holds = {}

LEMMA Port_Init == DirectoryInit => PortInv
BY DirectoryAssumption
   DEF DirectoryInit, PortInv, NoState, Writing, WatchOnly, Settling, Process

(* A step of p alone, to a stage it may go to.                             *)
LEMMA Port_Goes ==
    ASSUME DirectoryTypeOK, PortInv, NEW p \in Process, NEW s \in ProcessStage,
           stage' = [stage EXCEPT ![p] = s],
           s \in Writing => p \in Watch,
           port' \in {port, NoOne, p},
           port' = p => p \in Watch /\ s \in Listening,
           \A q \in Process : q # p => store'[q] = store[q],
           s \in {"off", "migrate"} => store'[p] = {},
           state.there => state'.there,
           p \in Watch /\ s \in Settling \ {"save"} => state'.there,
           ~state'.there => state'.holds = {}
    PROVE  PortInv'
<1>1. \A q \in Process : stage'[q] = IF q = p THEN s ELSE stage[q]
  BY DEF DirectoryTypeOK
<1>2. Watch \subseteq Process /\ NoOne \notin Process
  BY DirectoryAssumption DEF Process
<1> QED
  BY <1>1, <1>2 DEF PortInv

LEMMA Port_Step ==
    ASSUME DirectoryTypeOK, PortInv, NEW p \in Process,
           \/ Launch(p) \/ CheckLegacy(p) \/ CopyDone(p) \/ Load(p) \/ Save(p)
           \/ Verified(p) \/ VerifyFails(p)
           \/ TakePort(p) \/ PortTaken(p) \/ NameLock(p) \/ NameFails(p)
           \/ EndRun(p) \/ ReadLock(p) \/ RemoveLock(p) \/ ClosePort(p) \/ Closed(p)
           \/ FlushLast(p) \/ FlushFails(p) \/ ProcessCrash(p)
    PROVE  PortInv'
<1>a. /\ port = p => p \in Watch /\ stage[p] \in Listening
      /\ p \in Watch /\ stage[p] \in Settling \ {"save"} => state.there
      /\ ~state.there => state.holds = {}
      /\ stage[p] \in Writing => p \in Watch
  BY DEF PortInv
<1>b. store \in [Process -> SUBSET (LegacyNames \cup Commits)]
  BY DEF DirectoryTypeOK
<1> USE DEF Goes, directory, Listening, Writing, WatchOnly, Settling, ProcessStage
<1>1. CASE Launch(p)
  <2>1. store' = store /\ store[p] = {}
    BY <1>1 DEF Launch, PortInv
  <2> QED
    BY <1>a, <1>1, <2>1, Port_Goes DEF Launch, Process
<1>2. CASE CheckLegacy(p)
  BY <1>a, <1>2, Port_Goes DEF CheckLegacy
<1>3. CASE CopyDone(p)
  <2>1. \A q \in Process : q # p => store'[q] = store[q]
    BY <1>b, <1>3 DEF CopyDone
  <2> QED
    BY <1>a, <1>3, <2>1, Port_Goes DEF CopyDone
<1>4. CASE Load(p)
  BY <1>a, <1>b, <1>4, Port_Goes DEF Load, Loaded
<1>5. CASE Save(p)
  BY <1>a, <1>5, Port_Goes DEF Save
<1>6. CASE Verified(p)
  BY <1>a, <1>6, Port_Goes DEF Verified
<1>7. CASE VerifyFails(p) \/ PortTaken(p) \/ Closed(p)
  BY <1>a, <1>7, Port_Goes DEF VerifyFails, PortTaken, Closed
<1>8. CASE TakePort(p)
  BY <1>a, <1>8, Port_Goes DEF TakePort
<1>9. CASE NameLock(p)
  BY <1>a, <1>9, Port_Goes DEF NameLock
<1>10. CASE NameFails(p)
  BY <1>a, <1>10, DirectoryAssumption, Port_Goes DEF NameFails
<1>11. CASE EndRun(p)
  BY <1>a, <1>11, Port_Goes DEF EndRun
<1>12. CASE ReadLock(p) \/ RemoveLock(p)
  BY <1>a, <1>12, Port_Goes DEF ReadLock, RemoveLock
<1>13. CASE ClosePort(p)
  BY <1>a, <1>13, DirectoryAssumption, Port_Goes DEF ClosePort
<1>14. CASE FlushLast(p) \/ FlushFails(p)
  BY <1>a, <1>b, <1>14, Port_Goes DEF FlushLast, FlushFails, Off
<1>15. CASE ProcessCrash(p)
  <2>1. /\ \A q \in Process : q # p => store'[q] = store[q]
        /\ store'[p] = {}
    BY <1>b, <1>15 DEF ProcessCrash, Off
  <2> QED
    BY <1>a, <1>15, <2>1, DirectoryAssumption, Port_Goes DEF ProcessCrash, Off
<1> QED
  BY <1>1, <1>2, <1>3, <1>4, <1>5, <1>6, <1>7, <1>8, <1>9, <1>10, <1>11, <1>12, <1>13, <1>14,
     <1>15

LEMMA Port_Next == DirectoryTypeOK /\ PortInv /\ [DirectoryNext]_directoryVars => PortInv'
<1> SUFFICES ASSUME DirectoryTypeOK, PortInv, [DirectoryNext]_directoryVars PROVE PortInv'
  OBVIOUS
<1>1. CASE NewMonth \/ UNCHANGED directoryVars
  BY <1>1 DEF NewMonth, PortInv, directoryVars, directory, processes
<1>2. ASSUME NEW p \in Process,
             \/ Launch(p) \/ CheckLegacy(p) \/ CopyDone(p) \/ Load(p) \/ Save(p)
             \/ Verified(p) \/ VerifyFails(p)
             \/ TakePort(p) \/ PortTaken(p) \/ NameLock(p) \/ NameFails(p)
             \/ EndRun(p) \/ ReadLock(p) \/ RemoveLock(p) \/ ClosePort(p) \/ Closed(p)
             \/ FlushLast(p) \/ FlushFails(p) \/ ProcessCrash(p)
      PROVE  PortInv'
  BY <1>2, Port_Step
<1>3. ASSUME NEW p \in Process,
             Commit(p) \/ FlushTimer(p) \/ (\E n \in Batches : Request(p, n))
      PROVE  PortInv'
  <2>1. UNCHANGED <<stage, port>> /\ (state' = state \/ state'.there)
    BY <1>3 DEF Commit, FlushTimer, Request, directory
  <2>2. store' = store \/ (Commit(p) /\ \A q \in Process : q # p => store'[q] = store[q])
    BY <1>3 DEF Commit, FlushTimer, Request, DirectoryTypeOK
  <2>3. Commit(p) => stage[p] \notin {"off", "migrate"}
    BY DEF Commit
  <2> QED
    BY <2>1, <2>2, <2>3 DEF PortInv
<1>4. ASSUME NEW p \in Process, NEW f \in Legacy, Copy(p, f) PROVE PortInv'
  <2>1. UNCHANGED <<stage, port>> /\ (state' = state \/ state'.there)
    BY <1>4 DEF Copy
  <2>2. stage[p] = "copy" /\ \A q \in Process : q # p => store'[q] = store[q]
    BY <1>4 DEF Copy, DirectoryTypeOK
  <2> QED
    BY <2>1, <2>2 DEF PortInv
<1> QED
  BY <1>1, <1>2, <1>3, <1>4 DEF DirectoryNext

-----------------------------------------------------------------------------
(***************************************************************************)
(* What state.json holds.                                                  *)
(***************************************************************************)
Past(p) == p \in Watch /\ stage[p] \in Settling \cup {"load"}

Whole     == copied = Legacy \ {"state"} /\ ("state" \in Legacy => state.there)
Untouched == copied = {} /\ ~state.there

(* One process at most copies, it has copied what is there, and no watch   *)
(* is past it; when none copies, all was copied or nothing.                *)
CopyInv ==
    /\ \A p \in Process : stage[p] = "copy" =>
         /\ Legacy # {} /\ store[p] \subseteq Legacy
         /\ copied = store[p] \ {"state"}
         /\ state.there <=> "state" \in store[p]
    /\ \A p, q \in Process : stage[p] = "copy" /\ stage[q] = "copy" => p = q
    /\ \A p, q \in Process : Past(p) => Whole /\ stage[q] # "copy"
    /\ (\A p \in Process : stage[p] # "copy") => Untouched \/ Whole

(* state.json holds what was inherited and every commit, and nothing else; *)
(* a store that was loaded may miss commits, but not that of the process   *)
(* with the port.                                                          *)
HoldsInv ==
    /\ state.there => state.holds = Inherited \cup committed
    /\ ~state.there => committed = {}
    /\ \A p \in Watch : stage[p] \in Settling =>
         Inherited \subseteq store[p] /\ store[p] \subseteq Inherited \cup committed
    /\ \A p \in Process : port = p => state.holds = store[p]

StateInv == ~halfway /\ ~stale => CopyInv /\ HoldsInv

LEMMA State_Init == DirectoryInit => StateInv
<1> SUFFICES ASSUME DirectoryInit PROVE CopyInv /\ HoldsInv
  BY DEF StateInv
<1>1. /\ \A p \in Process : stage[p] = "off" /\ port # p
      /\ copied = {} /\ ~state.there /\ committed = {}
  BY DirectoryAssumption DEF DirectoryInit, NoState
<1>2. Watch \subseteq Process
  BY DEF Process
<1> QED
  BY <1>1, <1>2 DEF CopyInv, HoldsInv, Past, Untouched, Settling

(* A process that does not copy moves between stages and changes nothing   *)
(* of what is there.                                                       *)
LEMMA State_Moves ==
    ASSUME DirectoryTypeOK, PortInv, CopyInv, HoldsInv,
           NEW p \in Process, NEW s \in ProcessStage \ {"copy"},
           stage' = [stage EXCEPT ![p] = s], stage[p] # "copy",
           UNCHANGED <<copied, state, committed>>,
           \A q \in Process : q # p => store'[q] = store[q],
           p \in Watch /\ s \in Settling \cup {"load"} =>
               Whole /\ \A q \in Process : stage[q] # "copy",
           p \in Watch /\ s \in Settling =>
               Inherited \subseteq store'[p] /\ store'[p] \subseteq Inherited \cup committed,
           port' \in {port, NoOne, p}, port' = p => state.holds = store'[p]
    PROVE  CopyInv' /\ HoldsInv'
<1>1. \A q \in Process : stage'[q] = IF q = p THEN s ELSE stage[q]
  BY DEF DirectoryTypeOK
<1>2. Watch \subseteq Process /\ NoOne \notin Process
  BY DirectoryAssumption DEF Process
<1>3. CopyInv'
  <2>1. ASSUME NEW q \in Process, stage'[q] = "copy"
        PROVE  q # p /\ stage[q] = "copy" /\ store'[q] = store[q]
    BY <1>1, <2>1
  <2>2. ASSUME NEW q \in Process, Past(q)'
        PROVE  Whole /\ \A r \in Process : stage[r] # "copy"
    BY <1>1, <2>2 DEF Past, CopyInv
  <2>3. (\A q \in Process : stage'[q] # "copy") => (\A q \in Process : stage[q] # "copy")
    BY <1>1
  <2>4. (Whole => Whole') /\ (Untouched => Untouched')
    BY DEF Whole, Untouched
  <2> QED
    BY <2>1, <2>2, <2>3, <2>4 DEF CopyInv
<1>4. HoldsInv'
  <2>1. ASSUME NEW q \in Process, port' = q PROVE state.holds = store'[q]
    BY <1>2, <2>1 DEF HoldsInv
  <2>2. ASSUME NEW q \in Watch, stage'[q] \in Settling
        PROVE  Inherited \subseteq store'[q] /\ store'[q] \subseteq Inherited \cup committed
    BY <1>1, <1>2, <2>2 DEF HoldsInv
  <2> QED
    BY <2>1, <2>2 DEF HoldsInv
<1> QED
  BY <1>3, <1>4

(* The moves of a process that has its store.                              *)
LEMMA State_Settling ==
    ASSUME DirectoryTypeOK, PortInv, CopyInv, HoldsInv, ~stale',
           NEW p \in Process,
           \/ Verified(p) \/ VerifyFails(p) \/ TakePort(p) \/ PortTaken(p) \/ NameLock(p)
           \/ NameFails(p) \/ EndRun(p) \/ ReadLock(p) \/ RemoveLock(p) \/ ClosePort(p)
           \/ Closed(p)
    PROVE  CopyInv' /\ HoldsInv'
<1>1. PICK s \in Settling : stage' = [stage EXCEPT ![p] = s]
  BY DEF Verified, VerifyFails, TakePort, PortTaken, NameLock, NameFails, EndRun, ReadLock,
         RemoveLock, ClosePort, Closed, Goes, Settling
<1>2. stage[p] \in Settling
  BY DEF Verified, VerifyFails, TakePort, PortTaken, NameLock, NameFails, EndRun, ReadLock,
         RemoveLock, ClosePort, Closed, Settling
<1>3. UNCHANGED <<copied, state, committed, store>>
  BY DEF Verified, VerifyFails, TakePort, PortTaken, NameLock, NameFails, EndRun, ReadLock,
         RemoveLock, ClosePort, Closed, directory, directoryHistory
<1>4. port' \in {port, NoOne, p} /\ (port' = p => state.holds = store[p])
  <2>1. CASE TakePort(p)
    BY <2>1 DEF TakePort
  <2>2. CASE ~TakePort(p)
    BY <2>2, DirectoryAssumption
       DEF Verified, VerifyFails, PortTaken, NameLock, NameFails, EndRun, ReadLock,
           RemoveLock, ClosePort, Closed, directory, HoldsInv
  <2> QED
    BY <2>1, <2>2
<1>5. s \in ProcessStage \ {"copy"} /\ stage[p] # "copy"
  BY <1>2 DEF Settling, ProcessStage
<1>6. p \in Watch => /\ Whole /\ \A q \in Process : stage[q] # "copy"
                     /\ Inherited \subseteq store[p]
                     /\ store[p] \subseteq Inherited \cup committed
  BY <1>2 DEF CopyInv, HoldsInv, Past
<1> QED
  BY <1>1, <1>3, <1>4, <1>5, <1>6, State_Moves

(* A process ends; one that was copying leaves the files half copied.      *)
LEMMA State_Off ==
    ASSUME DirectoryTypeOK, PortInv, CopyInv, HoldsInv, ~halfway',
           NEW p \in Process, FlushLast(p) \/ FlushFails(p) \/ ProcessCrash(p)
    PROVE  CopyInv' /\ HoldsInv'
<1>1. stage' = [stage EXCEPT ![p] = "off"] /\ store' = [store EXCEPT ![p] = {}]
  BY DEF FlushLast, FlushFails, ProcessCrash, Off, Goes
<1>2. stage[p] # "copy"
  BY DEF FlushLast, FlushFails, ProcessCrash
<1>3. UNCHANGED <<copied, state, committed>>
  BY DEF FlushLast, FlushFails, ProcessCrash, directory, directoryHistory
<1>4. port' \in {port, NoOne} /\ port' # p
  <2>1. stage[p] = "flush" => port # p
    BY DEF PortInv, Listening
  <2> QED
    BY <2>1, DirectoryAssumption DEF FlushLast, FlushFails, ProcessCrash, directory
<1>5. \A q \in Process : q # p => store'[q] = store[q]
  BY <1>1 DEF DirectoryTypeOK
<1>6. "off" \in ProcessStage \ {"copy"} /\ "off" \notin Settling \cup {"load"}
  BY DEF ProcessStage, Settling
<1> QED
  BY <1>1, <1>2, <1>3, <1>4, <1>5, <1>6, State_Moves

LEMMA State_Starts ==
    ASSUME DirectoryTypeOK, PortInv, CopyInv, HoldsInv, ~halfway',
           NEW p \in Process, Launch(p) \/ CheckLegacy(p)
    PROVE  CopyInv' /\ HoldsInv'
<1>1. UNCHANGED <<copied, state, port, committed, store>>
  BY DEF Launch, CheckLegacy, directory
<1>2. port # p
  BY DEF PortInv, Listening, Launch, CheckLegacy
<1>3. "migrate" \in ProcessStage \ {"copy"} /\ "load" \in ProcessStage \ {"copy"}
      /\ "migrate" \notin Settling /\ "load" \notin Settling
  BY DEF ProcessStage, Settling
<1>4. CASE Launch(p)
  <2>1. PICK s \in {"migrate", "load"} :
          stage' = [stage EXCEPT ![p] = s] /\ (p \in Watch => s = "migrate")
    BY <1>4 DEF Launch, Goes
  <2>2. stage[p] # "copy"
    BY <1>4 DEF Launch
  <2> QED
    BY <1>1, <1>2, <1>3, <2>1, <2>2, State_Moves
<1>5. CASE CheckLegacy(p)
  <2>1. stage[p] = "migrate" /\ store[p] = {} /\ p \in Watch
    BY <1>5 DEF CheckLegacy, PortInv, Writing
  <2>2. \A q \in Process : stage[q] # "copy"
    BY <1>5, <2>1 DEF CheckLegacy
  <2>3. Untouched \/ Whole
    BY <2>2 DEF CopyInv
  <2>4. CASE state.there \/ copied # {} \/ Legacy = {}
    <3>1. stage' = [stage EXCEPT ![p] = "load"]
      BY <1>5, <2>4 DEF CheckLegacy, Goes
    <3>2. Whole
      BY <2>3, <2>4 DEF Untouched, Whole
    <3> QED
      BY <1>1, <1>2, <1>3, <2>1, <2>2, <3>1, <3>2, State_Moves
  <2>5. CASE ~(state.there \/ copied # {} \/ Legacy = {})
    <3>1. stage' = [stage EXCEPT ![p] = "copy"]
      BY <1>5, <2>5 DEF CheckLegacy, Goes
    <3>2. \A q \in Process : stage'[q] = IF q = p THEN "copy" ELSE stage[q]
      BY <3>1 DEF DirectoryTypeOK
    <3>3. ~Whole
      BY <2>5 DEF Whole
    <3>4. \A q \in Process : ~Past(q)'
      BY <3>2, <3>3 DEF CopyInv, Past, Settling
    <3>5. CopyInv'
      BY <1>1, <2>1, <2>2, <2>5, <3>2, <3>4 DEF CopyInv
    <3>6. HoldsInv'
      BY <1>1, <3>2 DEF HoldsInv, Settling, Process
    <3> QED
      BY <3>5, <3>6
  <2> QED
    BY <2>4, <2>5
<1> QED
  BY <1>4, <1>5

LEMMA State_Copies ==
    ASSUME DirectoryTypeOK, PortInv, CopyInv, HoldsInv, NEW p \in Process,
           CopyDone(p) \/ \E f \in Legacy : Copy(p, f)
    PROVE  CopyInv' /\ HoldsInv'
<1>1. /\ stage[p] = "copy"
      /\ \A q \in Process : q # p => store'[q] = store[q] /\ stage[q] # "copy" /\ ~Past(q)
      /\ ~Past(p)
  BY DEF CopyDone, Copy, DirectoryTypeOK, CopyInv
<1>2. \A q \in Process : port # q
  BY <1>1 DEF PortInv, Past, Listening, Settling
<1>3. Watch \subseteq Process /\ Settling \subseteq ProcessStage
  BY DEF Process, Settling, ProcessStage
<1>4. CASE CopyDone(p)
  <2>1. /\ store[p] = Legacy
        /\ UNCHANGED <<copied, state, port, committed>>
        /\ stage' = [stage EXCEPT ![p] = "load"]
    BY <1>4 DEF CopyDone, Goes, directory, directoryHistory
  <2>2. \A q \in Process : stage'[q] = IF q = p THEN "load" ELSE stage[q]
    BY <2>1 DEF DirectoryTypeOK
  <2>3. Whole /\ Whole'
    BY <1>1, <2>1 DEF CopyInv, Whole
  <2>4. CopyInv'
    BY <1>1, <2>2, <2>3 DEF CopyInv
  <2>5. HoldsInv'
    BY <1>1, <1>2, <1>3, <2>1, <2>2 DEF HoldsInv, Past, Settling
  <2> QED
    BY <2>4, <2>5
<1>5. ASSUME NEW f \in Legacy, Copy(p, f)
      PROVE  CopyInv' /\ HoldsInv'
  <2>1. /\ UNCHANGED <<stage, port, committed>>
        /\ store'[p] = store[p] \cup {f}
        /\ f \notin store[p] /\ ("state" \in Legacy \ store[p] => f = "state")
    BY <1>5 DEF Copy, DirectoryTypeOK, directoryHistory
  <2>2. \A q \in Process : ~Past(q)'
    BY <1>1, <2>1 DEF Past
  <2>3. /\ Legacy # {} /\ store[p] \subseteq Legacy
        /\ copied = store[p] \ {"state"}
        /\ state.there <=> "state" \in store[p]
    BY <1>1 DEF CopyInv
  <2>4. CASE f = "state"
    <3>1. state' = [there |-> TRUE, holds |-> {"state"}] /\ copied' = copied
      BY <1>5, <2>4 DEF Copy
    <3>2. Inherited = {"state"} /\ committed = {}
      BY <2>1, <2>3, <2>4 DEF Inherited, HoldsInv
    <3>3. CopyInv'
      BY <1>1, <2>1, <2>2, <2>3, <2>4, <3>1 DEF CopyInv
    <3>4. HoldsInv'
      BY <1>1, <1>2, <1>3, <2>1, <2>2, <3>1, <3>2 DEF HoldsInv, Past
    <3> QED
      BY <3>3, <3>4
  <2>5. CASE f # "state"
    <3>1. state' = state /\ copied' = copied \cup {f}
      BY <1>5, <2>5 DEF Copy
    <3>2. CopyInv'
      BY <1>1, <2>1, <2>2, <2>3, <2>5, <3>1 DEF CopyInv
    <3>3. HoldsInv'
      BY <1>1, <1>2, <1>3, <2>1, <2>2, <3>1 DEF HoldsInv, Past
    <3> QED
      BY <3>2, <3>3
  <2> QED
    BY <2>4, <2>5
<1> QED
  BY <1>4, <1>5

LEMMA State_Loads ==
    ASSUME DirectoryTypeOK, PortInv, CopyInv, HoldsInv, NEW p \in Process, Load(p)
    PROVE  CopyInv' /\ HoldsInv'
<1>1. PICK s \in {"save", "verify"} : stage' = [stage EXCEPT ![p] = s]
  BY DEF Load, Goes
<1>2. /\ stage[p] = "load"
      /\ UNCHANGED <<copied, state, port, committed>>
      /\ store' = [store EXCEPT ![p] = IF state.there THEN state.holds ELSE copied]
  BY DEF Load, Loaded, directory, directoryHistory
<1>3. /\ store'[p] = (IF state.there THEN state.holds ELSE copied)
      /\ \A q \in Process : q # p => store'[q] = store[q]
  BY <1>2 DEF DirectoryTypeOK
<1>4. p \in Watch => Whole /\ \A q \in Process : stage[q] # "copy"
  BY <1>2 DEF CopyInv, Past
<1>5. p \in Watch => Inherited \subseteq store'[p] /\ store'[p] \subseteq Inherited \cup committed
  BY <1>3, <1>4 DEF HoldsInv, Whole, Inherited
<1>6. port' # p
  BY <1>2 DEF PortInv, Listening
<1>7. s \in ProcessStage \ {"copy"}
  BY DEF ProcessStage
<1> QED
  BY <1>1, <1>2, <1>3, <1>4, <1>5, <1>6, <1>7, State_Moves

(* A save and a commit write the store of a watch, which is not stale.     *)
LEMMA State_Writes ==
    ASSUME DirectoryTypeOK, PortInv, CopyInv, HoldsInv, ~stale',
           NEW p \in Process, Save(p) \/ Commit(p)
    PROVE  CopyInv' /\ HoldsInv'
<1>1. p \in Watch /\ stage[p] \in Settling
  BY DEF Save, Commit, PortInv, Writing, Settling
<1>2. /\ Whole /\ \A q \in Process : stage[q] # "copy"
      /\ Inherited \subseteq store[p] /\ store[p] \subseteq Inherited \cup committed
  BY <1>1 DEF CopyInv, HoldsInv, Past
<1>3. Watch \subseteq Process /\ \A q \in Process : stage[q] \in ProcessStage
  BY DEF Process, DirectoryTypeOK
<1>4. CASE Save(p)
  <2>1. /\ state' = [there |-> TRUE, holds |-> store[p]]
        /\ UNCHANGED <<copied, port, store, committed>>
        /\ state.holds \subseteq store[p]
        /\ stage' = [stage EXCEPT ![p] = "verify"]
    BY <1>1, <1>4 DEF Save, Goes
  <2>2. \A q \in Process : stage'[q] = IF q = p THEN "verify" ELSE stage[q]
    BY <2>1 DEF DirectoryTypeOK
  <2>3. store[p] = Inherited \cup committed
    BY <1>2, <2>1 DEF HoldsInv
  <2>4. CopyInv'
    BY <1>2, <2>1, <2>2 DEF CopyInv, Whole
  <2>5. ASSUME NEW q \in Process, port' = q PROVE state'.holds = store'[q]
    <3>1. q \in Watch /\ stage[q] \in Listening
      BY <2>1, <2>5 DEF PortInv
    <3>2. state.there
      BY <3>1 DEF PortInv, Listening, Settling
    <3> QED
      BY <2>1, <2>3, <2>5, <3>2 DEF HoldsInv
  <2>6. HoldsInv'
    BY <1>1, <1>3, <2>1, <2>2, <2>3, <2>5 DEF HoldsInv
  <2> QED
    BY <2>4, <2>6
<1>5. CASE Commit(p)
  <2>1. PICK c :
          /\ store' = [store EXCEPT ![p] = @ \cup {c}]
          /\ state' = [there |-> TRUE, holds |-> store[p] \cup {c}]
          /\ committed' = committed \cup {c}
    BY <1>5 DEF Commit
  <2>2. /\ UNCHANGED <<copied, port, stage>>
        /\ stage[p] \in {"running", "closing"}
        /\ port = p \/ (port = NoOne /\ state.holds = store[p])
    BY <1>5 DEF Commit
  <2>3. state.there /\ state.holds = store[p]
    BY <1>1, <2>2 DEF PortInv, HoldsInv, Settling
  <2>4. store[p] = Inherited \cup committed
    BY <2>3 DEF HoldsInv
  <2>5. \A q \in Process : store'[q] = IF q = p THEN store[p] \cup {c} ELSE store[q]
    BY <2>1 DEF DirectoryTypeOK
  <2>6. CopyInv'
    BY <1>2, <2>1, <2>2 DEF CopyInv, Whole
  <2>7. ASSUME NEW q \in Process, port' = q PROVE state'.holds = store'[q]
    BY <2>1, <2>2, <2>5, <2>7, DirectoryAssumption
  <2>8. ASSUME NEW q \in Watch, stage'[q] \in Settling
        PROVE  Inherited \subseteq store'[q] /\ store'[q] \subseteq Inherited \cup committed'
    BY <1>3, <2>1, <2>2, <2>4, <2>5, <2>8 DEF HoldsInv
  <2>9. HoldsInv'
    BY <2>1, <2>4, <2>7, <2>8 DEF HoldsInv
  <2> QED
    BY <2>6, <2>9
<1> QED
  BY <1>4, <1>5

LEMMA State_Next ==
    DirectoryTypeOK /\ PortInv /\ StateInv /\ [DirectoryNext]_directoryVars => StateInv'
<1> SUFFICES ASSUME DirectoryTypeOK, PortInv, StateInv, [DirectoryNext]_directoryVars,
                    ~halfway', ~stale'
             PROVE  CopyInv' /\ HoldsInv'
  BY DEF StateInv
<1>0. CopyInv /\ HoldsInv
  <2>1. ASSUME NewMonth \/ UNCHANGED directoryVars
        PROVE  ~halfway /\ ~stale
    BY <2>1 DEF NewMonth, directoryVars, directoryHistory
  <2>2. ASSUME NEW p \in Process,
               \/ CopyDone(p) \/ Load(p) \/ Verified(p) \/ VerifyFails(p) \/ PortTaken(p)
               \/ NameLock(p) \/ EndRun(p) \/ ReadLock(p) \/ RemoveLock(p) \/ ClosePort(p)
               \/ Closed(p) \/ FlushTimer(p) \/ FlushLast(p)
               \/ \E f \in Legacy : Copy(p, f)
        PROVE  ~halfway /\ ~stale
    BY <2>2 DEF CopyDone, Load, Loaded, Verified, VerifyFails, PortTaken, NameLock, EndRun,
                ReadLock, RemoveLock, ClosePort, Closed, FlushTimer, FlushLast, Copy,
                directoryHistory
  <2>3. ASSUME NEW p \in Process,
               \/ Launch(p) \/ CheckLegacy(p) \/ Save(p) \/ TakePort(p) \/ NameFails(p)
               \/ Commit(p) \/ FlushFails(p) \/ ProcessCrash(p)
               \/ \E n \in Batches : Request(p, n)
        PROVE  ~halfway /\ ~stale
    <3>1. halfway \in BOOLEAN /\ stale \in BOOLEAN
      BY DEF DirectoryTypeOK
    <3>2. CASE Launch(p) \/ CheckLegacy(p) \/ Save(p) \/ TakePort(p) \/ NameFails(p)
      BY <2>3, <3>1, <3>2 DEF Launch, CheckLegacy, Save, TakePort, NameFails
    <3>3. CASE Commit(p)
      BY <2>3, <3>1, <3>3 DEF Commit
    <3>4. CASE FlushFails(p) \/ ProcessCrash(p) \/ \E n \in Batches : Request(p, n)
      BY <2>3, <3>1, <3>4 DEF FlushFails, ProcessCrash, Request
    <3> QED
      BY <2>3, <3>2, <3>3, <3>4
  <2>4. ~halfway /\ ~stale
    BY <2>1, <2>2, <2>3 DEF DirectoryNext
  <2> QED
    BY <2>4 DEF StateInv
<1>1. CASE \/ NewMonth
           \/ \E p \in Process : FlushTimer(p) \/ \E n \in Batches : Request(p, n)
           \/ UNCHANGED directoryVars
  <2>1. UNCHANGED <<copied, state, port, stage, store, committed>>
    BY <1>1 DEF NewMonth, FlushTimer, Request, directoryVars, directory, processes,
                directoryHistory
  <2> QED
    BY <1>0, <2>1 DEF CopyInv, HoldsInv, Past, Whole, Untouched
<1> QED
  BY <1>0, <1>1, State_Settling, State_Off, State_Starts, State_Copies, State_Loads, State_Writes
     DEF DirectoryNext

(* state.json holds every commit ever made and what the older version      *)
(* left, whoever starts, reads, is refused, ends or crashes (migrateLegacy *)
(* Data, JsonStore, acquireInstanceLock), unless the files were half       *)
(* copied, or a store was loaded before the commit of another process.     *)
THEOREM StateKept == DirectorySpec => []NothingLost
<1>1. StateInv => NothingLost
  BY DEF StateInv, HoldsInv, NothingLost
<1> QED
  BY <1>1, Dir_Init, Dir_Next, Port_Init, Port_Next, State_Init, State_Next, PTL
     DEF DirectorySpec

-----------------------------------------------------------------------------
(***************************************************************************)
(* The monthly count.                                                      *)
(***************************************************************************)
On == {p \in Process : stage[p] # "off"}

(* Finitely many processes run, and no count is of a month to come.        *)
MonthInv ==
    /\ IsFiniteSet(On)
    /\ usage.month <= month
    /\ \A p \in Process : count[p].month <= month

(* What was paid is in the count of the process that loaded it, or in the  *)
(* file; a clean count of this month is in the file too.                   *)
Accounted(p) ==
    /\ paid <= Counted(p) + lost
    /\ ~count[p].dirty /\ count[p].month = month => Counted(p) <= Written

AccountInv ==
    /\ \A p, q \in Process : stage[p] # "off" /\ stage[q] # "off" => p = q
    /\ \A p \in Process : stage[p] \in Settling => Accounted(p)
    /\ (\A p \in Process : stage[p] \notin Settling) => paid <= Written + lost
    /\ BudgetHolds

UsageInv == ~mixed => AccountInv

LEMMA Month_Init == DirectoryInit => MonthInv
<1> SUFFICES ASSUME DirectoryInit PROVE MonthInv
  OBVIOUS
<1>1. On = {}
  BY DEF DirectoryInit, On
<1> QED
  BY <1>1, FS_EmptySet DEF DirectoryInit, MonthInv, NoCount

LEMMA Month_Next ==
    DirectoryTypeOK /\ MonthInv /\ [DirectoryNext]_directoryVars => MonthInv'
<1> SUFFICES ASSUME DirectoryTypeOK, MonthInv, [DirectoryNext]_directoryVars PROVE MonthInv'
  OBVIOUS
<1>1. stage' = stage \/ \E p \in Process : \A q \in Process : q # p => stage'[q] = stage[q]
  <2>1. CASE NewMonth \/ UNCHANGED directoryVars
    BY <2>1 DEF NewMonth, directoryVars, processes
  <2>2. ASSUME NEW p \in Process,
               \/ Commit(p) \/ FlushTimer(p) \/ (\E f \in Legacy : Copy(p, f))
               \/ \E n \in Batches : Request(p, n)
        PROVE  stage' = stage
    BY <2>2 DEF Commit, FlushTimer, Copy, Request
  <2> QED
    BY <2>1, <2>2
       DEF DirectoryNext, Launch, CheckLegacy, CopyDone, Load, Save, Verified, VerifyFails,
           TakePort, PortTaken, NameLock, NameFails, EndRun, ReadLock, RemoveLock, ClosePort,
           Closed, FlushLast, FlushFails, ProcessCrash, Off, Goes, DirectoryTypeOK
<1>2. IsFiniteSet(On')
  <2>1. PICK p : On' \subseteq On \cup {p}
    BY <1>1 DEF On
  <2> QED
    BY <2>1, FS_AddElement, FS_Subset DEF MonthInv
<1>3. month \in Nat /\ (NewMonth => month' = month + 1) /\ (~NewMonth => month' = month)
  BY Counts_Typed
     DEF DirectoryNext, Launch, CheckLegacy, CopyDone, Load, Loaded, Save, Verified,
         VerifyFails, TakePort, PortTaken, NameLock, NameFails, EndRun, ReadLock, RemoveLock,
         ClosePort, Closed, Commit, FlushTimer, FlushLast, FlushFails, ProcessCrash, Copy,
         Request, NewMonth, directoryVars, directoryHistory
<1>4. usage' = usage \/ usage'.month = month
  BY DEF DirectoryNext, Launch, CheckLegacy, CopyDone, Load, Loaded, Save, Verified,
         VerifyFails, TakePort, PortTaken, NameLock, NameFails, EndRun, ReadLock, RemoveLock,
         ClosePort, Closed, Commit, FlushTimer, FlushLast, FlushFails, ProcessCrash, Copy,
         Request, NewMonth, directoryVars, directory, Flushed
<1>5. ASSUME NEW q \in Process
      PROVE  count'[q] = count[q] \/ count'[q].month \in {0, month}
  <2>1. CASE \/ NewMonth \/ UNCHANGED directoryVars
             \/ \E p \in Process :
                  \/ CheckLegacy(p) \/ CopyDone(p) \/ Save(p) \/ Verified(p)
                  \/ VerifyFails(p) \/ TakePort(p) \/ PortTaken(p) \/ NameLock(p)
                  \/ NameFails(p) \/ EndRun(p) \/ ReadLock(p) \/ RemoveLock(p) \/ ClosePort(p)
                  \/ Closed(p) \/ Commit(p) \/ FlushFails(p) \/ ProcessCrash(p)
                  \/ \E f \in Legacy : Copy(p, f)
    BY <2>1 DEF CheckLegacy, CopyDone, Save, Verified, VerifyFails, TakePort, PortTaken,
                NameLock, NameFails, EndRun, ReadLock, RemoveLock, ClosePort, Closed, Commit,
                FlushFails, ProcessCrash, Copy, NewMonth, directoryVars, processes
  <2>2. ASSUME NEW p \in Process,
               Launch(p) \/ Load(p) \/ FlushTimer(p) \/ FlushLast(p)
                 \/ \E n \in Batches : Request(p, n)
        PROVE  count'[q] = count[q] \/ count'[q].month \in {0, month}
    <3>1. count \in [Process -> [month : 0 .. Months, total : Nat, dirty : BOOLEAN]]
      BY DEF DirectoryTypeOK
    <3>2. CASE Launch(p)
      BY <3>1, <3>2 DEF Launch, NoCount
    <3>3. CASE Load(p)
      BY <3>1, <3>3 DEF Load, Loaded
    <3>4. CASE FlushTimer(p) \/ FlushLast(p)
      BY <3>1, <3>4 DEF FlushTimer, FlushLast, Flushed
    <3>5. CASE \E n \in Batches : Request(p, n)
      BY <3>1, <3>5 DEF Request
    <3> QED
      BY <2>2, <3>2, <3>3, <3>4, <3>5
  <2> QED
    BY <2>1, <2>2 DEF DirectoryNext
<1>6. usage.month \in Nat /\ \A q \in Process : count[q].month \in Nat
  BY DirectoryAssumption DEF DirectoryTypeOK
<1>7. month <= month'
  BY <1>3
<1>8. (usage.month <= month)'
  BY <1>3, <1>4, <1>6, <1>7 DEF MonthInv
<1>9. \A q \in Process : (count[q].month <= month)'
  BY <1>3, <1>5, <1>6, <1>7 DEF MonthInv
<1> QED
  BY <1>2, <1>8, <1>9 DEF MonthInv

LEMMA Usage_Init == DirectoryInit => UsageInv
<1> SUFFICES ASSUME DirectoryInit PROVE AccountInv
  BY DEF UsageInv
<1>1. PICK n \in Batches : n \in Nat \ {0}
  BY DirectoryAssumption
<1>2. paid = 0 /\ lost = 0 /\ Written = 0
  BY DEF DirectoryInit, Written
<1>3. BudgetHolds
  BY <1>1, <1>2, DirectoryAssumption DEF BudgetHolds
<1>4. \A p \in Process : stage[p] = "off"
  BY DEF DirectoryInit
<1> QED
  BY <1>2, <1>3, <1>4 DEF AccountInv, Settling

(* A process moves between stages on the same side of its load.            *)
LEMMA Usage_Moves ==
    ASSUME DirectoryTypeOK, AccountInv, NEW p \in Process, NEW s \in ProcessStage \ {"off"},
           stage' = [stage EXCEPT ![p] = s], stage[p] # "off",
           s \in Settling <=> stage[p] \in Settling,
           UNCHANGED <<usage, count, month, paid, lost, mixed>>
    PROVE  AccountInv'
<1>1. \A q \in Process : stage'[q] = IF q = p THEN s ELSE stage[q]
  BY DEF DirectoryTypeOK
<1> QED
  BY <1>1 DEF AccountInv, Accounted, Counted, Written, BudgetHolds

LEMMA Usage_Stages ==
    ASSUME DirectoryTypeOK, AccountInv, NEW p \in Process,
           \/ CheckLegacy(p) \/ CopyDone(p) \/ Save(p)
           \/ Verified(p) \/ VerifyFails(p)
           \/ TakePort(p) \/ PortTaken(p) \/ NameLock(p) \/ NameFails(p)
           \/ EndRun(p) \/ ReadLock(p) \/ RemoveLock(p) \/ ClosePort(p) \/ Closed(p)
    PROVE  AccountInv'
<1> USE DEF Goes, Settling, ProcessStage, directory, directoryHistory
<1>1. CASE CheckLegacy(p)
  BY <1>1, Usage_Moves DEF CheckLegacy
<1>2. CASE CopyDone(p)
  BY <1>2, Usage_Moves DEF CopyDone
<1>3. CASE Save(p)
  BY <1>3, Usage_Moves DEF Save
<1>4. CASE Verified(p)
  BY <1>4, Usage_Moves DEF Verified
<1>5. CASE VerifyFails(p) \/ PortTaken(p) \/ Closed(p)
  BY <1>5, Usage_Moves DEF VerifyFails, PortTaken, Closed
<1>6. CASE TakePort(p)
  BY <1>6, Usage_Moves DEF TakePort
<1>7. CASE NameLock(p) \/ NameFails(p)
  BY <1>7, Usage_Moves DEF NameLock, NameFails
<1>8. CASE EndRun(p) \/ ReadLock(p)
  BY <1>8, Usage_Moves DEF EndRun, ReadLock
<1>9. CASE RemoveLock(p) \/ ClosePort(p)
  BY <1>9, Usage_Moves DEF RemoveLock, ClosePort
<1> QED
  BY <1>1, <1>2, <1>3, <1>4, <1>5, <1>6, <1>7, <1>8, <1>9

(* The count of the file is what a process goes by when it has loaded it.  *)
LEMMA Usage_Loads ==
    ASSUME DirectoryTypeOK, AccountInv, NEW p \in Process, Load(p)
    PROVE  AccountInv'
<1>1. PICK s \in {"save", "verify"} : stage' = [stage EXCEPT ![p] = s]
  BY DEF Load, Goes
<1>2. \A q \in Process : stage'[q] = IF q = p THEN s ELSE stage[q]
  BY <1>1 DEF DirectoryTypeOK
<1>3. /\ stage[p] = "load"
      /\ UNCHANGED <<usage, month, paid, lost, mixed>>
      /\ count'[p] = [month |-> month, total |-> Written, dirty |-> FALSE]
  BY DEF Load, Loaded, DirectoryTypeOK, directory, directoryHistory
<1>4. \A q \in Process : stage[q] # "off" <=> q = p
  BY <1>3 DEF AccountInv
<1>5. paid <= Written + lost
  BY <1>3, <1>4 DEF AccountInv, Settling
<1>6. Counted(p)' = Written /\ Written' = Written
  BY <1>3 DEF Counted, Written
<1>7. Accounted(p)'
  BY <1>3, <1>5, <1>6, Counts_Typed DEF Accounted
<1>8. \A q \in Process : stage'[q] # "off" <=> q = p
  BY <1>2, <1>4
<1>9. stage'[p] \in Settling
  BY <1>2 DEF Settling
<1>10. \A q \in Process : stage'[q] \in Settling => q = p
  BY <1>8 DEF Settling
<1>11. BudgetHolds'
  BY <1>3 DEF AccountInv, BudgetHolds
<1> QED
  BY <1>7, <1>8, <1>9, <1>10, <1>11 DEF AccountInv

(* A payload is paid for below the limit of the process that sends it, the *)
(* only one that counts.                                                   *)
LEMMA Usage_Request ==
    ASSUME DirectoryTypeOK, AccountInv, NEW p \in Process, NEW n \in Batches, Request(p, n)
    PROVE  AccountInv'
<1>1. /\ stage[p] \in Settling /\ stage[p] # "off"
      /\ UNCHANGED <<usage, stage, month, lost, mixed>>
      /\ Counted(p) < Limit /\ paid' = paid + n
      /\ count'[p] = [month |-> month, total |-> Counted(p) + n, dirty |-> TRUE]
  BY DEF Request, DirectoryTypeOK, directory, Settling
<1>2. paid \in Nat /\ lost \in Nat /\ Counted(p) \in Nat /\ n \in Nat /\ Limit \in Nat
  BY Counts_Typed, DirectoryAssumption
<1>3. Counted(p)' = Counted(p) + n
  BY <1>1 DEF Counted
<1>4. paid <= Counted(p) + lost
  BY <1>1 DEF AccountInv, Accounted
<1>5. paid' <= Counted(p)' + lost' /\ paid' < Limit + n + lost'
  BY <1>1, <1>2, <1>3, <1>4
<1>6. Accounted(p)'
  BY <1>1, <1>5 DEF Accounted
<1>7. \A q \in Process : stage'[q] # "off" <=> q = p
  BY <1>1 DEF AccountInv
<1>8. \A q \in Process : stage'[q] \in Settling => q = p
  BY <1>7 DEF Settling
<1>9. BudgetHolds'
  BY <1>5 DEF BudgetHolds
<1> QED
  BY <1>1, <1>6, <1>7, <1>8, <1>9 DEF AccountInv

(* The count is written, or it is in the file.                             *)
LEMMA Flushed_Written ==
    ASSUME DirectoryTypeOK, NEW p \in Process, Flushed(p), Accounted(p), month' = month
    PROVE  /\ paid <= Written' + lost
           /\ Counted(p)' = Counted(p)
           /\ ~count'[p].dirty /\ count'[p].month = month => Counted(p)' <= Written'
<1>1. paid <= Counted(p) + lost /\ paid \in Nat /\ lost \in Nat /\ Counted(p) \in Nat
      /\ Written \in Nat
  BY Counts_Typed DEF Accounted
<1>2. CASE count[p].dirty \/ count[p].month # month
  <2>1. /\ usage' = [month |-> month, total |-> Counted(p)]
        /\ count'[p] = [month |-> month, total |-> Counted(p), dirty |-> FALSE]
    BY <1>2 DEF Flushed, DirectoryTypeOK
  <2>2. Written' = Counted(p) /\ Counted(p)' = Counted(p)
    BY <2>1 DEF Written, Counted
  <2> QED
    BY <1>1, <2>2
<1>3. CASE ~count[p].dirty /\ count[p].month = month
  <2>1. UNCHANGED <<usage, count>> /\ Counted(p) <= Written
    BY <1>3 DEF Flushed, Accounted
  <2>2. Written' = Written /\ Counted(p)' = Counted(p)
    BY <2>1 DEF Written, Counted
  <2> QED
    BY <1>1, <2>1, <2>2
<1> QED
  BY <1>2, <1>3

LEMMA Usage_Timer ==
    ASSUME DirectoryTypeOK, AccountInv, NEW p \in Process, FlushTimer(p)
    PROVE  AccountInv'
<1>1. /\ stage[p] \in Settling /\ stage[p] # "off" /\ Flushed(p)
      /\ UNCHANGED <<stage, month, paid, lost, mixed>>
  BY DEF FlushTimer, Settling, directoryHistory
<1>2. Accounted(p)
  BY <1>1 DEF AccountInv
<1>3. Accounted(p)'
  BY <1>1, <1>2, Flushed_Written DEF Accounted
<1>4. \A q \in Process : stage'[q] # "off" <=> q = p
  BY <1>1 DEF AccountInv
<1>5. \A q \in Process : stage'[q] \in Settling => q = p
  BY <1>4 DEF Settling
<1>6. BudgetHolds'
  BY <1>1 DEF AccountInv, BudgetHolds
<1> QED
  BY <1>1, <1>3, <1>4, <1>5, <1>6 DEF AccountInv

(* The last process ends.                                                  *)
LEMMA Usage_Off ==
    ASSUME DirectoryTypeOK, AccountInv, NEW p \in Process,
           FlushLast(p) \/ FlushFails(p) \/ ProcessCrash(p)
    PROVE  AccountInv'
<1>1. /\ stage[p] # "off" /\ stage' = [stage EXCEPT ![p] = "off"]
      /\ UNCHANGED <<month, paid, mixed>>
  BY DEF FlushLast, FlushFails, ProcessCrash, Off, Goes, directoryHistory
<1>2. \A q \in Process : stage'[q] = "off"
  BY <1>1 DEF AccountInv, DirectoryTypeOK
<1>3. paid \in Nat /\ lost \in Nat /\ Counted(p) \in Nat /\ Written \in Nat
  BY Counts_Typed
<1>4. stage[p] \in Settling => paid <= Counted(p) + lost
  BY DEF AccountInv, Accounted
<1>5. stage[p] \notin Settling => paid <= Written + lost
  BY <1>1 DEF AccountInv, Settling
<1>6. lost' \in Nat /\ lost <= lost' /\ paid <= Written' + lost'
  <2>1. CASE FlushLast(p)
    <3>1. Accounted(p) /\ Flushed(p) /\ lost' = lost
      BY <2>1 DEF FlushLast, AccountInv, Settling, directoryHistory
    <3> QED
      BY <1>1, <1>3, <3>1, Flushed_Written
  <2>2. CASE FlushFails(p) \/ ProcessCrash(p)
    <3>1. lost' = lost + Unwritten(p) /\ usage' = usage
      BY <2>2 DEF FlushFails, ProcessCrash, directory
    <3>2. Written' = Written
      BY <1>1, <3>1 DEF Written
    <3>3. Unwritten(p) \in Nat /\ Counted(p) <= Written + Unwritten(p)
      BY <1>3 DEF Unwritten
    <3> QED
      BY <1>3, <1>4, <1>5, <3>1, <3>2, <3>3
  <2> QED
    BY <2>1, <2>2
<1>7. BudgetHolds'
  <2>1. CASE mixed
    BY <1>1, <2>1 DEF BudgetHolds
  <2>2. CASE ~mixed
    <3>1. PICK n \in Batches : n \in Nat /\ paid < Limit + n + lost
      BY <2>2, DirectoryAssumption DEF AccountInv, BudgetHolds
    <3>2. paid' < Limit + n + lost'
      BY <1>1, <1>3, <1>6, <3>1, DirectoryAssumption
    <3> QED
      BY <3>2 DEF BudgetHolds
  <2> QED
    BY <2>1, <2>2
<1> QED
  BY <1>1, <1>2, <1>6, <1>7 DEF AccountInv, Settling

(* A process starts beside no other.                                       *)
LEMMA Usage_Launch ==
    ASSUME DirectoryTypeOK, UsageInv, NEW p \in Process, Launch(p), ~mixed'
    PROVE  AccountInv'
<1>1. /\ stage[p] = "off" /\ \A q \in Process \ {p} : stage[q] = "off"
      /\ UNCHANGED <<usage, month, paid, lost>>
      /\ ~mixed
  BY DEF Launch, directory, DirectoryTypeOK
<1>2. AccountInv
  BY <1>1 DEF UsageInv
<1>3. paid <= Written + lost
  BY <1>1, <1>2 DEF AccountInv, Settling
<1>4. Written' = Written
  BY <1>1 DEF Written
<1>5. PICK s \in {"migrate", "load"} : stage' = [stage EXCEPT ![p] = s]
  BY DEF Launch, Goes
<1>6. \A q \in Process : stage'[q] = IF q = p THEN s ELSE "off"
  BY <1>1, <1>5 DEF DirectoryTypeOK
<1>7. BudgetHolds'
  BY <1>1, <1>2 DEF AccountInv, BudgetHolds
<1>8. \A q \in Process : stage'[q] \notin Settling
  BY <1>6 DEF Settling
<1> QED
  BY <1>1, <1>3, <1>4, <1>6, <1>7, <1>8 DEF AccountInv

(* In a new month nothing was paid, and every count is of another month.   *)
LEMMA Usage_Month ==
    ASSUME DirectoryTypeOK, MonthInv, NewMonth, ~mixed'
    PROVE  AccountInv'
<1>1. /\ paid' = 0 /\ lost' = 0 /\ month' = month + 1
      /\ UNCHANGED <<usage, stage, count>>
      /\ ~(Cardinality(On) > 1)
  BY DEF NewMonth, On, directory, processes
<1>2. ASSUME NEW p \in On, NEW q \in On, p # q
      PROVE  FALSE
  <2>1. IsFiniteSet({p}) /\ Cardinality({p}) = 1
    BY FS_Singleton
  <2>2. Cardinality({p} \cup {q}) = 2
    BY <1>2, <2>1, FS_AddElement
  <2>3. {p} \cup {q} \in SUBSET On
    OBVIOUS
  <2>4. Cardinality({p} \cup {q}) <= Cardinality(On) /\ Cardinality(On) \in Nat
    BY <2>3, FS_Subset, FS_CardinalityType DEF MonthInv
  <2> QED
    BY <1>1, <2>2, <2>4
<1>3. month \in Nat /\ usage.month \in Nat /\ \A p \in Process : count[p].month \in Nat
  BY DirectoryAssumption DEF DirectoryTypeOK
<1>4. usage.month # month' /\ \A p \in Process : count[p].month # month'
  BY <1>1, <1>3 DEF MonthInv
<1>5. Written' = 0 /\ \A p \in Process : Counted(p)' = 0 /\ count'[p].month # month'
  BY <1>1, <1>4 DEF Written, Counted
<1>6. BudgetHolds'
  <2>1. PICK n \in Batches : n \in Nat \ {0}
    BY DirectoryAssumption
  <2> QED
    BY <1>1, <2>1, DirectoryAssumption DEF BudgetHolds
<1>7. \A p, q \in Process : stage'[p] # "off" /\ stage'[q] # "off" => p = q
  BY <1>1, <1>2 DEF On
<1> QED
  BY <1>1, <1>5, <1>6, <1>7 DEF AccountInv, Accounted

LEMMA Usage_Next ==
    DirectoryTypeOK /\ MonthInv /\ UsageInv /\ [DirectoryNext]_directoryVars => UsageInv'
<1> SUFFICES ASSUME DirectoryTypeOK, MonthInv, UsageInv, [DirectoryNext]_directoryVars,
                    ~mixed'
             PROVE  AccountInv'
  BY DEF UsageInv
<1>1. CASE NewMonth
  BY <1>1, Usage_Month
<1>2. CASE \E p \in Process : Launch(p)
  BY <1>2, Usage_Launch
<1>3. CASE ~NewMonth /\ ~\E p \in Process : Launch(p)
  <2>1. mixed' = mixed
    BY <1>3
       DEF DirectoryNext, CheckLegacy, CopyDone, Load, Loaded, Save, Verified, VerifyFails,
           TakePort, PortTaken, NameLock, NameFails, EndRun, ReadLock, RemoveLock, ClosePort,
           Closed, Commit, FlushTimer, FlushLast, FlushFails, ProcessCrash, Copy, Request,
           directoryVars, directoryHistory
  <2>2. AccountInv
    BY <2>1 DEF UsageInv
  <2>3. CASE \/ UNCHANGED directoryVars
             \/ \E p \in Process : Commit(p) \/ \E f \in Legacy : Copy(p, f)
    <3>1. UNCHANGED <<usage, count, stage, month, paid, lost>>
      BY <2>3 DEF Commit, Copy, directoryVars, directory, processes, directoryHistory
    <3> QED
      BY <2>1, <2>2, <3>1 DEF AccountInv, Accounted, Counted, Written, BudgetHolds
  <2> QED
    BY <1>3, <2>2, <2>3, Usage_Stages, Usage_Loads, Usage_Request, Usage_Timer, Usage_Off
       DEF DirectoryNext
<1> QED
  BY <1>1, <1>2, <1>3

(* No more is paid in a month than the limit, one payload that began below *)
(* it, and what crashes and failed writes left uncounted, unless two       *)
(* processes counted at once (RpcMonthlyBudget): for every limit, payload, *)
(* number of restarts and turn of the month.                               *)
THEOREM BudgetKept == DirectorySpec => []BudgetHolds
<1>1. UsageInv => BudgetHolds
  BY DEF UsageInv, AccountInv, BudgetHolds
<1> QED
  BY <1>1, Dir_Init, Dir_Next, Month_Init, Month_Next, Usage_Init, Usage_Next, PTL
     DEF DirectorySpec

-----------------------------------------------------------------------------
(***************************************************************************)
(* Type correctness of the refresh.                                        *)
(***************************************************************************)
EntryInv == i \in 1 .. Files + 1 /\ (phase # "recover" => i \in File)

LEMMA Documents ==
    /\ Absent \in Document /\ Torn \in Document
    /\ \A S \in SUBSET Asset : Catalog(S) \in Document /\ Catalog(S).state = "ok"
    /\ \A d \in Document : d.assets \in SUBSET Asset /\ (d.state = "ok" => d # Torn)
    /\ Absent # Torn /\ Absent.state # "ok" /\ Torn.state # "ok"
    /\ NoFiles \in [File -> Document]
<1>1. /\ Absent \in Document /\ Torn \in Document
      /\ Absent # Torn /\ Absent.state # "ok" /\ Torn.state # "ok"
  BY DEF Absent, Torn, Document
<1>2. ASSUME NEW S \in SUBSET Asset
      PROVE  Catalog(S) \in Document /\ Catalog(S).state = "ok"
  BY DEF Catalog, Document
<1>3. ASSUME NEW d \in Document
      PROVE  d.assets \in SUBSET Asset /\ (d.state = "ok" => d # Torn)
  BY <1>1, <1>3 DEF Absent, Torn, Catalog, Document
<1> QED
  BY <1>1, <1>2, <1>3 DEF NoFiles

LEMMA Files_Typed ==
    ASSUME AssetTypeOK
    PROVE  /\ target \in [File -> Document] /\ temp \in [File -> Document]
           /\ backup \in [File -> Document] /\ settled \in [File -> Document]
           /\ fresh \in [File -> Document]
           /\ copying \in BOOLEAN /\ caught \in BOOLEAN /\ unlucky \in BOOLEAN
           /\ raced \in BOOLEAN
BY DEF AssetTypeOK

LEMMA Asset_Init == AssetInit => AssetTypeOK /\ EntryInv
<1> SUFFICES ASSUME AssetInit PROVE AssetTypeOK /\ EntryInv
  OBVIOUS
<1>1. /\ 1 \in File /\ 1 \in 0 .. Files + 1 /\ 1 \in 1 .. Files + 1
      /\ 0 \in 0 .. Refreshes /\ 0 \in 0 .. MaxFileFaults
  BY AssetAssumption DEF File
<1>2. PICK S \in SUBSET Asset, shipped \in SUBSET File :
        target = [f \in File |-> IF f \in shipped THEN Catalog(S) ELSE Absent]
  BY DEF AssetInit
<1>3. target \in [File -> Document]
  BY <1>2, Documents
<1>4. NoJournal \in [there : BOOLEAN, had : SUBSET File]
  BY DEF NoJournal
<1> QED
  BY <1>1, <1>3, <1>4, Documents DEF AssetInit, AssetTypeOK, EntryInv, Phase

LEMMA Entry_Next == AssetTypeOK /\ EntryInv /\ [AssetNext]_assetVars => EntryInv'
<1> SUFFICES ASSUME AssetTypeOK, EntryInv, [AssetNext]_assetVars PROVE EntryInv'
  OBVIOUS
<1>1. Files \in Nat \ {0} /\ i \in Nat
  BY AssetAssumption DEF EntryInv
<1> USE DEF EntryInv, File, Turns
<1>2. CASE StartRefresh \/ Fetch \/ FetchFails \/ Mark \/ Unmark \/ BatchFails \/ Clean
  BY <1>1, <1>2 DEF StartRefresh, Fetch, FetchFails, Mark, Unmark, BatchFails, Clean
<1>3. CASE Stage \/ Backup \/ Publish
  BY <1>1, <1>3 DEF Stage, Backup, Publish, NextEntry
<1>4. CASE Restore \/ RestoreFails
  BY <1>1, <1>4 DEF Restore, RestoreFails, Restored, Emptied
<1>5. CASE Recover \/ Recovered \/ RecoverFails \/ RefreshCrash
  BY <1>1, <1>5 DEF Recover, Recovered, RecoverFails, RefreshCrash, Emptied
<1>6. CASE \/ \E f \in File : AssertNoPending(f)
           \/ LoadCatalog \/ ApplicationEnds \/ UNCHANGED assetVars
  BY <1>6 DEF AssertNoPending, LoadCatalog, ApplicationEnds, assetVars, batch
<1> QED
  BY <1>2, <1>3, <1>4, <1>5, <1>6 DEF AssetNext

LEMMA Asset_Next ==
    AssetTypeOK /\ EntryInv /\ [AssetNext]_assetVars => AssetTypeOK'
<1> SUFFICES ASSUME AssetTypeOK, EntryInv, [AssetNext]_assetVars PROVE AssetTypeOK'
  OBVIOUS
<1>1. /\ Files \in Nat \ {0} /\ i \in Nat
      /\ \A n \in 1 .. Files + 1 : n \in 0 .. Files + 1
      /\ \A n \in 1 .. Files : n \in File
  BY AssetAssumption DEF EntryInv, File
<1>2. FileFault => fileFaults' \in 0 .. MaxFileFaults
  BY AssetAssumption DEF FileFault, AssetTypeOK
<1>3. i' \in 0 .. Files + 1
  BY <1>1, Entry_Next DEF EntryInv
<1>4. /\ target' \in [File -> Document] /\ temp' \in [File -> Document]
      /\ backup' \in [File -> Document] /\ settled' \in [File -> Document]
      /\ fresh' \in [File -> Document]
  <2> USE Files_Typed, Documents
  <2>1. CASE StartRefresh
    BY <2>1 DEF StartRefresh
  <2>2. CASE Fetch
    BY <2>2 DEF Fetch, catalogs
  <2>3. CASE FetchFails \/ Mark \/ Unmark \/ BatchFails \/ RefreshCrash
    BY <2>3 DEF FetchFails, Mark, Unmark, BatchFails, RefreshCrash, catalogs, assetHistory
  <2>4. CASE Stage \/ Backup \/ Publish
    <3>1. i \in File
      BY <2>4 DEF EntryInv, Stage, Backup, Publish
    <3> QED
      BY <2>4, <3>1 DEF Stage, Backup, Publish, assetHistory
  <2>5. CASE Clean \/ Recovered
    BY <2>5 DEF Clean, Recovered, assetHistory
  <2>6. CASE Restore
    <3>1. i \in File
      BY <2>6 DEF EntryInv, Restore
    <3> QED
      BY <2>6, <3>1 DEF Restore, Emptied, Filled, assetHistory
  <2>7. CASE Recover
    <3>1. i \in File
      BY <1>1, <2>7 DEF EntryInv, Recover
    <3> QED
      BY <2>7, <3>1 DEF Recover, Emptied, Filled, assetHistory
  <2>8. CASE RecoverFails \/ RestoreFails
    BY <2>8 DEF RecoverFails, RestoreFails
  <2>9. CASE \/ \E f \in File : AssertNoPending(f)
             \/ LoadCatalog \/ ApplicationEnds \/ UNCHANGED assetVars
    BY <2>9 DEF AssertNoPending, LoadCatalog, ApplicationEnds, assetVars, catalogs, batch,
                assetHistory
  <2> QED
    BY <2>1, <2>2, <2>3, <2>4, <2>5, <2>6, <2>7, <2>8, <2>9 DEF AssetNext
<1>5. /\ copying' \in BOOLEAN /\ caught' \in BOOLEAN /\ unlucky' \in BOOLEAN
      /\ raced' \in BOOLEAN
  <2> USE Files_Typed
  <2>1. CASE StartRefresh \/ Fetch \/ FetchFails \/ BatchFails \/ Clean \/ Recovered
    BY <2>1 DEF StartRefresh, Fetch, FetchFails, BatchFails, Clean, Recovered, Turns,
                assetHistory
  <2>2. CASE Mark
    BY <2>2 DEF Mark, Turns
  <2>3. CASE Stage \/ Backup \/ Publish \/ Unmark
    BY <2>3 DEF Stage, Backup, Publish, Unmark, NextEntry, Turns, assetHistory
  <2>4. CASE Restore \/ Recover \/ RecoverFails
    BY <2>4 DEF Restore, Recover, RecoverFails, Restored, Emptied, Turns, assetHistory
  <2>5. CASE RestoreFails
    BY <2>5 DEF RestoreFails, Restored, Turns
  <2>6. CASE RefreshCrash
    BY <2>6 DEF RefreshCrash, Turns
  <2>7. CASE \/ \E f \in File : AssertNoPending(f)
             \/ LoadCatalog \/ ApplicationEnds \/ UNCHANGED assetVars
    BY <2>7 DEF AssertNoPending, LoadCatalog, ApplicationEnds, assetVars, batch, assetHistory
  <2> QED
    BY <2>1, <2>2, <2>3, <2>4, <2>5, <2>6, <2>7 DEF AssetNext
<1>6. journal' \in [there : BOOLEAN, had : SUBSET File] /\ had' \subseteq File
  <2>0. /\ journal \in [there : BOOLEAN, had : SUBSET File] /\ had \subseteq File
        /\ NoJournal \in [there : BOOLEAN, had : SUBSET File]
        /\ [there |-> TRUE, had |-> had] \in [there : BOOLEAN, had : SUBSET File]
    BY DEF AssetTypeOK, NoJournal
  <2>1. CASE StartRefresh \/ Fetch \/ FetchFails \/ Stage \/ Backup \/ Mark \/ Publish
             \/ Unmark \/ BatchFails \/ Clean
    BY <2>0, <2>1 DEF StartRefresh, Fetch, FetchFails, Stage, Backup, Mark, Publish,
                Unmark, BatchFails, Clean, catalogs
  <2>2. CASE \/ Restore \/ Recover \/ Recovered \/ RecoverFails \/ RestoreFails
             \/ RefreshCrash
             \/ \E f \in File : AssertNoPending(f)
             \/ LoadCatalog \/ ApplicationEnds \/ UNCHANGED assetVars
    BY <2>0, <2>2 DEF Restore, Recover, Recovered, RecoverFails, RestoreFails,
                RefreshCrash, AssertNoPending, LoadCatalog, ApplicationEnds,
                assetVars, catalogs, batch
  <2> QED
    BY <2>1, <2>2 DEF AssetNext
<1>7. phase' \in Phase
  <2>0. phase \in Phase
    BY DEF AssetTypeOK
  <2>1. CASE StartRefresh \/ Fetch \/ FetchFails \/ Stage \/ Backup \/ Mark \/ Publish
             \/ Unmark \/ BatchFails \/ Clean
    BY <2>0, <2>1 DEF StartRefresh, Fetch, FetchFails, Stage, Backup, Mark, Publish,
                Unmark, BatchFails, Clean, NextEntry, Turns, Phase
  <2>2. CASE \/ Restore \/ Recover \/ Recovered \/ RecoverFails \/ RestoreFails
             \/ RefreshCrash
             \/ \E f \in File : AssertNoPending(f)
             \/ LoadCatalog \/ ApplicationEnds \/ UNCHANGED assetVars
    BY <2>0, <2>2 DEF Restore, Recover, Recovered, RecoverFails, RestoreFails,
                RefreshCrash, AssertNoPending, LoadCatalog, ApplicationEnds, Restored,
                Emptied, Turns, Phase, assetVars, batch
  <2> QED
    BY <2>1, <2>2 DEF AssetNext
<1>8. /\ reader' \in {"off", "checked", "started"} /\ chain' \in File
      /\ loaded' \in Document /\ runs' \in 0 .. Refreshes
      /\ fileFaults' \in 0 .. MaxFileFaults
  <2>1. CASE StartRefresh
    BY <2>1, AssetAssumption DEF AssetTypeOK, StartRefresh, application
  <2>2. CASE \/ Fetch \/ FetchFails \/ Stage \/ Backup \/ Mark \/ Publish \/ Unmark
             \/ BatchFails \/ Clean
    BY <1>2, <2>2
       DEF AssetTypeOK, Fetch, FetchFails, Stage, Backup, Mark, Publish, Unmark, BatchFails,
           Clean, application, assetHistory
  <2>3. CASE \/ Restore \/ Recover \/ Recovered \/ RecoverFails \/ RestoreFails
             \/ RefreshCrash
    BY <1>2, <2>3
       DEF AssetTypeOK, Restore, Recover, Recovered, RecoverFails, RestoreFails,
           RefreshCrash, application, assetHistory
  <2>4. CASE \/ \E f \in File : AssertNoPending(f)
             \/ LoadCatalog \/ ApplicationEnds \/ UNCHANGED assetVars
    <3>1. target[chain] \in Document
      BY Files_Typed DEF AssetTypeOK
    <3> QED
      BY <2>4, <3>1, Documents
         DEF AssetTypeOK, AssertNoPending, LoadCatalog, ApplicationEnds, assetVars,
             application, assetHistory
  <2> QED
    BY <2>1, <2>2, <2>3, <2>4 DEF AssetNext
<1> QED
  BY <1>3, <1>4, <1>5, <1>6, <1>7, <1>8 DEF AssetTypeOK

(* Every variable of the refresh keeps its type, for every number of       *)
(* catalogs and set of assets.                                             *)
THEOREM AssetTypeCorrect == AssetSpec => []AssetTypeOK
BY Asset_Init, Asset_Next, Entry_Next, PTL DEF AssetSpec

-----------------------------------------------------------------------------
(***************************************************************************)
(* The catalogs, all or nothing.                                           *)
(***************************************************************************)
(* The journal is there from the first catalog that is replaced to the     *)
(* last, or to the end of a recovery, and names what the backups restore.  *)
Backed ==
    /\ journal.had = {f \in File : settled[f] # Absent}
    /\ \A f \in journal.had : backup[f] = settled[f]

JournalInv ==
    /\ phase \in {"fetch", "stage", "backup", "mark", "restore"} => ~journal.there
    /\ phase \in {"publish", "unmark", "recover"} => journal.there
    /\ journal.there => Backed
    /\ reader = "checked" /\ ~raced => ~journal.there

(* How far the batch is: the new catalogs, the backups, what is published. *)
BatchInv ==
    /\ phase = "fetch" => backup = NoFiles
    /\ phase \in {"stage", "backup", "mark"} =>
         target = settled /\ had = {f \in File : target[f] # Absent}
    /\ phase = "stage" => backup = NoFiles /\ \A f \in File : f < i => temp[f] = fresh[f]
    /\ phase \in {"backup", "mark"} =>
         /\ \A f \in File : temp[f] = fresh[f]
         /\ \A f \in File : backup[f] = IF f \in had /\ (phase = "mark" \/ f < i)
                                        THEN target[f] ELSE Absent
    /\ phase = "publish" =>
         \A f \in File : IF f < i THEN target[f] = fresh[f] ELSE temp[f] = fresh[f]
    /\ phase = "unmark" => target = fresh

(* What the way back has reached: the catalogs before entry i are those of *)
(* the last whole batch; without a journal, all but the one it copies are. *)
BackInv ==
    /\ copying => phase \in {"restore", "recover"} /\ i \in File /\ backup[i] # Absent
    /\ phase \in {"idle", "fetch", "clean"} /\ ~journal.there /\ ~unlucky => target = settled
    /\ phase = "restore" =>
         /\ \A f \in File : backup[f] \in {Absent, settled[f]}
         /\ ~unlucky => \A f \in File :
              target[f] = IF copying /\ f = i THEN Torn ELSE settled[f]
    /\ phase = "recover" => \A f \in File : f < i => target[f] = settled[f]

RefreshInv == AssetTypeOK /\ EntryInv /\ JournalInv /\ BatchInv /\ BackInv

LEMMA SameFiles ==
    ASSUME NEW S, NEW T, S \in [File -> Document], T \in [File -> Document],
           \A f \in File : S[f] = T[f]
    PROVE  S = T
OBVIOUS

LEMMA Refresh_Init == AssetInit => RefreshInv
BY Asset_Init DEF AssetInit, RefreshInv, JournalInv, BatchInv, BackInv, NoJournal

LEMMA Refresh_Starts ==
    ASSUME RefreshInv, StartRefresh \/ Fetch \/ FetchFails
    PROVE  JournalInv' /\ BatchInv' /\ BackInv'
<1>1. Files \in Nat \ {0} /\ i \in Nat
  BY AssetAssumption DEF RefreshInv, EntryInv
<1>2. \A f \in File : ~(f < 1)
  BY <1>1 DEF File
<1> USE DEF RefreshInv, JournalInv, BatchInv, BackInv, Turns
<1>3. CASE StartRefresh
  BY <1>1, <1>2, <1>3 DEF StartRefresh, Backed, application
<1>4. CASE Fetch
  BY <1>1, <1>2, <1>4 DEF Fetch, Backed, catalogs, application
<1>5. CASE FetchFails
  BY <1>1, <1>2, <1>5 DEF FetchFails, Backed, catalogs, application, assetHistory
<1> QED
  BY <1>3, <1>4, <1>5

LEMMA Refresh_Batch ==
    ASSUME RefreshInv, Stage \/ Backup \/ Mark \/ Publish \/ Unmark
    PROVE  JournalInv' /\ BatchInv' /\ BackInv'
<1>1. /\ Files \in Nat \ {0} /\ i \in Nat /\ i \in File
      /\ \A f \in File : f \in Nat /\ f >= 1 /\ f <= Files
  BY AssetAssumption
     DEF RefreshInv, EntryInv, File, Stage, Backup, Mark, Publish, Unmark
<1>2. /\ target \in [File -> Document] /\ temp \in [File -> Document]
      /\ backup \in [File -> Document] /\ fresh \in [File -> Document]
      /\ settled \in [File -> Document]
  BY Files_Typed DEF RefreshInv
<1>3. \A f \in File : (f < i + 1 <=> f < i \/ f = i) /\ ~(f < 1) /\ (i = Files => f < i \/ f = i)
                      /\ ~(i < i)
  BY <1>1
<1>4. i < Files \/ i = Files
  BY <1>1
<1> USE DEF RefreshInv, JournalInv, BatchInv, BackInv, Turns
<1>5. CASE Stage
  <2>1. \A f \in File : temp'[f] = IF f = i THEN fresh[i] ELSE temp[f]
    BY <1>2, <1>5 DEF Stage
  <2>2. CASE i < Files
    <3>1. phase' = "stage" /\ i' = i + 1 /\ ~copying'
      BY <1>5, <2>2 DEF Stage, NextEntry
    <3> QED
      BY <1>1, <1>3, <1>5, <2>1, <3>1 DEF Stage, Backed, application, assetHistory
  <2>3. CASE i = Files
    <3>1. phase' = "backup" /\ i' = 1 /\ ~copying'
      BY <1>1, <1>5, <2>3 DEF Stage, NextEntry
    <3> QED
      BY <1>1, <1>3, <1>5, <2>1, <2>3, <3>1
         DEF Stage, Backed, application, assetHistory, NoFiles
  <2> QED
    BY <1>4, <2>2, <2>3
<1>6. CASE Backup
  <2>1. \A f \in File : backup'[f] = IF f = i /\ i \in had THEN target[i] ELSE backup[f]
    BY <1>1, <1>2, <1>6 DEF Backup
  <2>2. CASE i < Files
    <3>1. phase' = "backup" /\ i' = i + 1 /\ ~copying'
      BY <1>6, <2>2 DEF Backup, NextEntry
    <3> QED
      BY <1>1, <1>3, <1>6, <2>1, <3>1 DEF Backup, Backed, application, assetHistory
  <2>3. CASE i = Files
    <3>1. phase' = "mark" /\ i' = 1 /\ ~copying'
      BY <1>1, <1>6, <2>3 DEF Backup, NextEntry
    <3> QED
      BY <1>1, <1>3, <1>6, <2>1, <2>3, <3>1 DEF Backup, Backed, application, assetHistory
  <2> QED
    BY <1>4, <2>2, <2>3
<1>7. CASE Mark
  <2>1. /\ UNCHANGED <<target, temp, backup, settled, fresh, unlucky, reader>>
        /\ phase = "mark" /\ phase' = "publish" /\ i' = 1 /\ ~copying'
        /\ journal' = [there |-> TRUE, had |-> had]
    BY <1>7 DEF Mark, application
  <2>2. raced \in BOOLEAN
    BY Files_Typed
  <2>3. reader' = "checked" => raced'
    BY <1>7, <2>1, <2>2 DEF Mark
  <2>4. Backed'
    BY <2>1 DEF Backed
  <2> QED
    BY <1>3, <2>1, <2>3, <2>4
<1>8. CASE Publish
  <2>1. \A f \in File : /\ target'[f] = IF f = i THEN temp[i] ELSE target[f]
                        /\ f # i => temp'[f] = temp[f]
    BY <1>1, <1>2, <1>8 DEF Publish
  <2>2. UNCHANGED <<backup, journal, settled, fresh, reader, raced, unlucky>>
    BY <1>8 DEF Publish, application, assetHistory
  <2>3. JournalInv'
    BY <1>4, <1>8, <2>2 DEF Publish, NextEntry, Backed
  <2>4. CASE i < Files
    <3>1. phase' = "publish" /\ i' = i + 1 /\ ~copying'
      BY <1>8, <2>4 DEF Publish, NextEntry
    <3> QED
      BY <1>1, <1>3, <1>8, <2>1, <2>2, <2>3, <3>1 DEF Publish
  <2>5. CASE i = Files
    <3>1. phase' = "unmark" /\ i' = 1 /\ ~copying'
      BY <1>1, <1>8, <2>5 DEF Publish, NextEntry
    <3>2. \A f \in File : target'[f] = fresh[f]
      BY <1>1, <1>3, <1>8, <2>1, <2>5 DEF Publish
    <3>3. target' \in [File -> Document]
      BY <1>1, <1>2, <1>8 DEF Publish
    <3>4. target' = fresh
      BY <1>2, <3>2, <3>3, SameFiles
    <3> QED
      BY <1>8, <2>2, <2>3, <3>1, <3>4
  <2> QED
    BY <1>4, <2>4, <2>5
<1>9. CASE Unmark
  BY <1>9 DEF Unmark, Backed, NoJournal, application
<1> QED
  BY <1>5, <1>6, <1>7, <1>8, <1>9

LEMMA Refresh_Back ==
    ASSUME RefreshInv,
           \/ BatchFails \/ Clean \/ Restore \/ Recover \/ Recovered \/ RecoverFails
           \/ RestoreFails \/ RefreshCrash
    PROVE  JournalInv' /\ BatchInv' /\ BackInv'
<1>1. /\ Files \in Nat \ {0} /\ i \in Nat /\ i \in 1 .. Files + 1
      /\ \A f \in File : f \in Nat /\ f >= 1 /\ f <= Files
  BY AssetAssumption DEF RefreshInv, EntryInv, File
<1>2. /\ target \in [File -> Document] /\ backup \in [File -> Document]
      /\ settled \in [File -> Document]
  BY Files_Typed DEF RefreshInv
<1>3. \A f \in File : (f < i + 1 <=> f < i \/ f = i) /\ ~(f < 1)
  BY <1>1
<1> USE DEF RefreshInv, JournalInv, BatchInv, BackInv, Turns
<1>4. CASE BatchFails
  <2>1. UNCHANGED <<target, temp, backup, journal, settled, unlucky, reader, raced>>
    BY <1>4 DEF BatchFails, catalogs, application
  <2>2. CASE journal.there
    BY <1>3, <1>4, <2>1, <2>2 DEF BatchFails, Backed
  <2>3. CASE ~journal.there
    <3>1. phase \in {"stage", "backup", "mark"}
      BY <1>4, <2>3 DEF BatchFails
    <3>2. \A f \in File : backup[f] \in {Absent, settled[f]}
      BY <1>2, <3>1 DEF NoFiles
    <3>3. phase' = "restore" /\ ~copying'
      BY <1>4, <2>3 DEF BatchFails
    <3>4. target = settled
      BY <3>1
    <3> QED
      BY <2>1, <2>3, <3>2, <3>3, <3>4
  <2> QED
    BY <2>2, <2>3
<1>5. CASE Clean
  BY <1>5 DEF Clean, Backed, application, assetHistory
<1>6. CASE Restore
  <2>1. phase = "restore" /\ i \in File /\ ~journal.there
    BY <1>6 DEF Restore, EntryInv
  <2>2. UNCHANGED <<backup, journal, settled, unlucky, reader, raced>>
    BY <1>6 DEF Restore, application, assetHistory
  <2>3. CASE backup[i] # Absent /\ Emptied
    <3>1. phase' = phase /\ i' = i /\ copying' /\ ~copying
      BY <2>3 DEF Emptied
    <3>2. \A f \in File : target'[f] = IF f = i THEN Torn ELSE target[f]
      BY <1>2, <2>3 DEF Emptied
    <3> QED
      BY <2>1, <2>2, <2>3, <3>1, <3>2
  <2>4. CASE /\ Restored
             /\ \/ backup[i] = Absent /\ UNCHANGED target
                \/ backup[i] # Absent /\ Filled
    <3>1. ~copying' /\ phase' \in {"restore", "clean"}
      BY <2>4 DEF Restored
    <3>2. target' \in [File -> Document]
      BY <1>2, <2>1, <2>4 DEF Filled
    <3>3. ~unlucky => \A f \in File : target'[f] = settled[f]
      BY <1>2, <2>1, <2>4 DEF Filled
    <3>4. ~unlucky => target' = settled
      BY <1>2, <3>2, <3>3, SameFiles
    <3> QED
      BY <2>1, <2>2, <3>1, <3>3, <3>4
  <2> QED
    BY <1>6, <2>3, <2>4 DEF Restore
<1>7. CASE Recover
  <2>1. phase = "recover" /\ i \in File /\ journal.there
    BY <1>1, <1>7 DEF Recover, File
  <2>2. UNCHANGED <<backup, journal, settled, unlucky, reader, raced>>
    BY <1>7 DEF Recover, application, assetHistory
  <2>3. CASE i \in journal.had /\ backup[i] # Absent /\ Emptied
    <3>1. phase' = phase /\ i' = i
      BY <2>3 DEF Emptied
    <3>2. \A f \in File : f < i => target'[f] = target[f]
      BY <1>1, <1>2, <2>3 DEF Emptied
    <3> QED
      BY <2>1, <2>2, <2>3, <3>1, <3>2 DEF Backed
  <2>4. CASE /\ Turns("recover", i + 1)
             /\ \/ i \in journal.had /\ Filled
                \/ i \notin journal.had /\ target' = [target EXCEPT ![i] = Absent]
    <3>1. target'[i] = settled[i] /\ \A f \in File : f # i => target'[f] = target[f]
      BY <1>2, <2>1, <2>4 DEF Filled, Backed
    <3> QED
      BY <1>1, <1>3, <2>1, <2>2, <2>4, <3>1 DEF Backed
  <2> QED
    BY <1>7, <2>3, <2>4 DEF Recover
<1>8. CASE Recovered
  <2>1. \A f \in File : target[f] = settled[f]
    BY <1>1, <1>8 DEF Recovered
  <2>2. target = settled
    BY <1>2, <2>1, SameFiles
  <2> QED
    BY <1>8, <2>2 DEF Recovered, NoJournal, NoFiles, application, assetHistory
<1>9. CASE RecoverFails
  BY <1>9 DEF RecoverFails, Backed, application
<1>10. CASE RestoreFails
  <2>1. phase = "restore" /\ unlucky' /\ ~copying' /\ phase' \in {"restore", "clean"}
    BY <1>10 DEF RestoreFails, Restored
  <2> QED
    BY <1>10, <2>1 DEF RestoreFails, application
<1>11. CASE RefreshCrash
  <2>1. phase \in Phase /\ unlucky \in BOOLEAN
    BY Files_Typed DEF AssetTypeOK
  <2>2. /\ UNCHANGED <<target, temp, backup, journal, settled, reader, raced>>
        /\ phase' = "idle" /\ ~copying'
    BY <1>11 DEF RefreshCrash, catalogs, application
  <2>3. ~unlucky' => ~unlucky /\ phase # "restore"
    BY <1>11, <2>1 DEF RefreshCrash
  <2>4. ~journal.there /\ ~unlucky' => target = settled
    BY <2>1, <2>3 DEF Phase
  <2> QED
    BY <2>2, <2>4 DEF Backed
<1> QED
  BY <1>4, <1>5, <1>6, <1>7, <1>8, <1>9, <1>10, <1>11

LEMMA Refresh_Application ==
    ASSUME RefreshInv,
           \/ \E f \in File : AssertNoPending(f)
           \/ LoadCatalog \/ ApplicationEnds \/ UNCHANGED assetVars
    PROVE  JournalInv' /\ BatchInv' /\ BackInv'
<1>1. UNCHANGED <<catalogs, batch, settled, unlucky>>
  BY DEF AssertNoPending, LoadCatalog, ApplicationEnds, assetVars, assetHistory
<1>2. reader' = "checked" /\ ~raced' => ~journal.there
  BY DEF AssertNoPending, LoadCatalog, ApplicationEnds, assetVars, assetHistory, application,
         RefreshInv, JournalInv
<1> QED
  BY <1>1, <1>2 DEF RefreshInv, JournalInv, BatchInv, BackInv, Backed, catalogs, batch

LEMMA Refresh_Next == RefreshInv /\ [AssetNext]_assetVars => RefreshInv'
<1> SUFFICES ASSUME RefreshInv, [AssetNext]_assetVars PROVE RefreshInv'
  OBVIOUS
<1>1. AssetTypeOK' /\ EntryInv'
  BY Asset_Next, Entry_Next DEF RefreshInv
<1>2. JournalInv' /\ BatchInv' /\ BackInv'
  BY Refresh_Starts, Refresh_Batch, Refresh_Back, Refresh_Application DEF AssetNext
<1> QED
  BY <1>1, <1>2 DEF RefreshInv

LEMMA Refresh_Always == AssetSpec => []RefreshInv
BY Refresh_Init, Refresh_Next, PTL DEF AssetSpec

(* Between two runs without a journal, the catalogs are those of one batch,*)
(* whatever failed and wherever the process ended, in recoveries too       *)
(* (writeAtomicJsonBatch, recoverAtomicJsonBatch); the exception is a      *)
(* second fault in the restoration that no journal protects.               *)
THEOREM CatalogsWhole == AssetSpec => []AllOrNothing
<1>1. RefreshInv => AllOrNothing
  BY DEF RefreshInv, BackInv, AllOrNothing
<1> QED
  BY <1>1, Refresh_Always, PTL

(* An application that starts beside the refresh has a catalog of a whole  *)
(* batch (assertNoPendingAtomicJsonBatch, then the load), unless a batch   *)
(* began to publish between its check and its load.                        *)
THEOREM CatalogSettled == AssetSpec => StartsSettled
<1>1. RefreshInv /\ [AssetNext]_assetVars
        => [reader = "checked" /\ reader' = "started" /\ ~raced /\ ~unlucky
              => loaded' = settled[chain]]_assetVars
  <2> SUFFICES ASSUME RefreshInv, AssetNext, reader = "checked", reader' = "started",
                      ~raced, ~unlucky
               PROVE  loaded' = settled[chain]
    OBVIOUS
  <2>1. LoadCatalog
    BY DEF AssetNext, StartRefresh, Fetch, FetchFails, Stage, Backup, Mark, Publish, Unmark,
           BatchFails, Clean, Restore, Recover, Recovered, RecoverFails, RestoreFails,
           RefreshCrash, AssertNoPending, ApplicationEnds, application
  <2>2. chain \in File /\ target[chain] \in Document /\ target[chain] # Torn
    BY <2>1, Files_Typed, Documents DEF RefreshInv, AssetTypeOK, LoadCatalog
  <2>3. ~journal.there
    BY DEF RefreshInv, JournalInv
  <2>4. phase \in {"idle", "fetch", "stage", "backup", "mark", "clean", "restore"}
    BY <2>3 DEF RefreshInv, JournalInv, AssetTypeOK, Phase
  <2>5. target[chain] = settled[chain]
    BY <2>2, <2>3, <2>4 DEF RefreshInv, BatchInv, BackInv
  <2> QED
    BY <2>1, <2>5 DEF LoadCatalog
<1> QED
  BY <1>1, Refresh_Always, PTL DEF AssetSpec, StartsSettled
=============================================================================
