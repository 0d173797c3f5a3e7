---------------------------- MODULE WalFileProofs ----------------------------
(* Proofs about WalFile, for every set of sequence numbers and every bound:  *)
(* types, and, when new directory entries reach the disk before the log is   *)
(* used, the durability of acknowledged records, the identity of the open    *)
(* handle, and the refinement of DurableLog.                                 *)
EXTENDS WalFile, TLAPS

-----------------------------------------------------------------------------
(* The inductive invariants *)

\* What holds of the files: unused ones are empty, unsynced records are the last ones.
FilesOk ==
    /\ \A i \in Inodes : i > inodes => files[i] = Empty
    /\ \A i \in Inodes :
          /\ files[i].synced \subseteq files[i].recs
          /\ \A r \in files[i].recs : r.at <= appended
          /\ \A q \in files[i].synced, r \in files[i].recs \ files[i].synced : q.at < r.at

\* A running call has an open file, and a compaction past its copy has the copy.
OpenOk ==
    /\ step \in {"idle", "written", "copy", "copied", "complete"} => handle # 0 /\ entry # 0
    /\ step \in {"copied", "complete"} => temp # 0
    /\ step \in {"renamed", "reopened"} => entry # 0
    /\ step = "reopened" => handle # 0

FileInv == TypeOK /\ FilesOk /\ OpenOk

\* The records of S that a compaction keeps.
KeptOf(S) == {r \in S : r.seq >= floor}

FullySynced(i) == files[i].synced = files[i].recs

\* An entry that has not reached the disk names an unused file or a synced copy of what
\* the old file keeps.
EntriesOk ==
    /\ diskEntry # 0 => entry # 0
    /\ diskEntry = 0 => acked = {} /\ (entry # 0 => files[entry] = Empty)
    /\ diskEntry # entry => step \in {"down", "failed", "renamed", "reopened"}
    /\ diskEntry = 0 /\ entry # 0 => step = "down"
    /\ diskEntry # entry /\ diskEntry # 0 =>
          /\ FullySynced(entry) /\ FullySynced(diskEntry)
          /\ files[entry].synced = KeptOf(files[diskEntry].synced)

\* A running process has its handle on the log, and its compaction is where step says.
StepOk ==
    /\ step \in {"idle", "written", "copy", "copied", "complete"} =>
          handle = entry /\ diskEntry = entry
    /\ step \in {"idle", "written"} => ~files[handle].torn
    /\ step = "idle" /\ record # {} => FullySynced(handle)
    /\ step = "written" =>
          /\ \E r \in files[handle].recs : record = {r} /\ r.at = appended
          /\ \A q \in files[handle].synced : q.at < appended
    /\ step \in {"copy", "copied", "complete"} => FullySynced(entry)
    /\ step \in {"copied", "complete"} =>
          /\ temp # entry /\ ~files[temp].torn
          /\ files[temp].recs = KeptOf(files[entry].recs)
    /\ step = "complete" => FullySynced(temp)
    /\ step \in {"renamed", "reopened"} =>
          entry = temp /\ FullySynced(entry) /\ ~files[entry].torn /\ diskEntry # 0
    /\ step = "reopened" => handle = entry
    /\ step = "down" => record = {}

WalInv == FileInv /\ EntriesOk /\ StepOk /\ AckedDurable

-----------------------------------------------------------------------------
(* Files and types *)

\* One file is truncated, extended, synced or filled at a time; the rest of its shape stays.
LEMMA InitFileInv == Init => FileInv
  BY WalAssumption DEF Init, FileInv, TypeOK, FilesOk, OpenOk, Files, Records, Inodes, Empty,
     File, Steps

\* A file of the log when n records have been written.
Sound(f, n) ==
    /\ f \in Files /\ f.synced \subseteq f.recs
    /\ \A r \in f.recs : r.at <= n
    /\ \A q \in f.synced, r \in f.recs \ f.synced : q.at < r.at
    /\ \A r, q \in f.recs : r.at = q.at => r = q

LEMMA EachSound ==
  ASSUME FileInv, NEW i \in Inodes
  PROVE  Sound(files[i], appended)
  BY DEF FileInv, TypeOK, FilesOk, Sound

\* All of FileInv that speaks of the contents of files.
ContentsOk ==
    /\ files \in [Inodes -> Files]
    /\ \A i \in Inodes : \A r, q \in files[i].recs : r.at = q.at => r = q
    /\ FilesOk

LEMMA AllSound ==
  ASSUME FileInv, files' \in [Inodes -> Files],
         \A i \in Inodes : Sound(files'[i], appended'),
         \A i \in Inodes : i > inodes' => files'[i] = Empty
  PROVE  ContentsOk'
  BY DEF FileInv, TypeOK, FilesOk, Sound, ContentsOk

\* One file is extended, synced or filled at a time.
LEMMA OneFileChanges ==
  ASSUME FileInv, NEW i \in Inodes, NEW f,
         files' = [files EXCEPT ![i] = f], Sound(f, appended'),
         appended' \in Nat, appended <= appended',
         inodes' \in Nat, inodes <= inodes', i <= inodes'
  PROVE  ContentsOk'
<1>1. files' \in [Inodes -> Files]
  BY DEF FileInv, TypeOK, Sound
<1>2. \A j \in Inodes : files'[j] = IF j = i THEN f ELSE files[j]
  BY DEF FileInv, TypeOK
<1>3. ASSUME NEW j \in Inodes PROVE Sound(files'[j], appended')
  <2>1. CASE j = i
    BY <1>2, <2>1
  <2>2. CASE j # i
    <3>1. files'[j] = files[j] /\ Sound(files[j], appended)
      BY <1>2, <2>2, EachSound
    <3>2. \A r \in files[j].recs : r.at \in Nat
      BY <3>1 DEF Sound, Files, Records
    <3> QED
      BY <3>1, <3>2 DEF FileInv, TypeOK, Sound
  <2> QED
    BY <2>1, <2>2
<1>4. \A j \in Inodes : j > inodes' => files'[j] = Empty
  BY <1>2 DEF FileInv, TypeOK, FilesOk, Inodes
<1> QED
  BY <1>1, <1>3, <1>4, AllSound

\* sync_data and sync_all
LEMMA SyncOneFile ==
  ASSUME FileInv, NEW i \in Inodes, i <= inodes, files' = Synced(i),
         UNCHANGED <<appended, inodes>>
  PROVE  ContentsOk'
<1>1. files' = [files EXCEPT ![i] = File(files[i].recs, files[i].recs, files[i].torn)]
  BY DEF Synced
<1>2. Sound(File(files[i].recs, files[i].recs, files[i].torn), appended)
  BY EachSound DEF Sound, File, Files
<1>3. appended' \in Nat /\ appended <= appended' /\ inodes' \in Nat /\ inodes <= inodes' /\ i <= inodes'
  BY DEF FileInv, TypeOK
<1>4. Sound(File(files[i].recs, files[i].recs, files[i].torn), appended')
  BY <1>2
<1> QED
  BY <1>1, <1>3, <1>4, OneFileChanges

LEMMA StepFileInv == FileInv /\ [Next]_vars => FileInv'
<1>0. SUFFICES ASSUME FileInv, [Next]_vars PROVE FileInv'
  OBVIOUS
<1> USE WalAssumption
<1>1. CASE Create
  <2>1. inodes' \in 0 .. MaxInodes /\ inodes <= inodes'
    BY <1>0, <1>1 DEF Create, history, process, disk, FileInv, TypeOK
  <2>2. FilesOk'
    BY <1>0, <1>1, <2>1 DEF Create, history, process, disk, FileInv, TypeOK, FilesOk, Inodes
  <2> QED
    BY <1>0, <1>1, <2>1, <2>2 DEF Create, history, process, disk, FileInv, TypeOK, OpenOk, Steps
<1>2. CASE Open
  <2>1. FilesOk'
    BY <1>0, <1>2 DEF Open, history, process, disk, FileInv, FilesOk
  <2>2. TypeOK'
    BY <1>0, <1>2 DEF Open, history, process, disk, FileInv, TypeOK, OpenOk, Steps
  <2> QED
    BY <1>0, <1>2, <2>1, <2>2 DEF Open, history, process, disk, FileInv, TypeOK, OpenOk
<1>3. ASSUME NEW s \in Seqs, Write(s) PROVE FileInv'
  <2> DEFINE f == File(files[handle].recs \cup {[at |-> appended + 1, seq |-> s]},
                 files[handle].synced, files[handle].torn)
  <2>1. handle \in Inodes /\ handle <= inodes
    BY <1>0, <1>3 DEF Write, history, process, disk, FileInv, TypeOK, OpenOk, Inodes
  <2>2. Sound(files[handle], appended)
    BY <1>0, <2>1, EachSound
  <2>3. Sound(f, appended')
    BY <1>0, <1>3, <2>2 DEF Write, history, process, disk,
           FileInv, TypeOK, Sound, File, Files, Records
  <2>4. /\ files' = [files EXCEPT ![handle] = f]
        /\ appended' \in Nat /\ appended <= appended'
        /\ inodes' \in Nat /\ inodes <= inodes' /\ handle <= inodes'
    BY <1>0, <1>3, <2>1 DEF Write, history, process, disk, FileInv, TypeOK
  <2> HIDE DEF f
  <2>5. ContentsOk'
    BY <1>0, <2>1, <2>3, <2>4, OneFileChanges
  <2>6. record' \subseteq Records /\ step' \in Steps
    BY <1>0, <1>3 DEF Write, history, process, disk,
           FileInv, TypeOK, Steps, Records
  <2>7. inodes' \in 0 .. MaxInodes /\ temp' \in 0 .. inodes'
    BY <1>0, <1>3, <2>1 DEF Write, history, process, disk, FileInv, TypeOK, Inodes
  <2>8. entry' \in 0 .. inodes' /\ diskEntry' \in 0 .. inodes' /\ handle' \in 0 .. inodes'
    BY <1>0, <1>3, <2>7 DEF Write, history, process, disk, FileInv, TypeOK
  <2>9. acked' \subseteq Records /\ appended' \in Nat /\ floor' \in Nat /\ crashes' \in Nat
    BY <1>0, <1>3 DEF Write, history, process, disk, FileInv, TypeOK, Records
  <2>10. TypeOK'
    BY <2>5, <2>6, <2>7, <2>8, <2>9 DEF TypeOK, ContentsOk
  <2>11. OpenOk'
    BY <1>0, <1>3, <2>1 DEF Write, history, process, disk, FileInv, TypeOK, OpenOk, Inodes
  <2> QED
    BY <2>5, <2>10, <2>11 DEF FileInv, ContentsOk
<1>4. CASE SyncData
  <2>1. handle \in Inodes /\ handle <= inodes
    BY <1>0, <1>4 DEF SyncData, history, process, disk, FileInv, TypeOK, OpenOk, Inodes
  <2>2. ContentsOk'
    BY <1>0, <1>4, <2>1, SyncOneFile DEF SyncData, history, process, disk
  <2>3. record' \subseteq Records /\ step' \in Steps
    BY <1>0, <1>4 DEF SyncData, history, process, disk,
           FileInv, TypeOK, Steps, Records
  <2>4. inodes' \in 0 .. MaxInodes /\ temp' \in 0 .. inodes'
    BY <1>0, <1>4, <2>1 DEF SyncData, history, process, disk, FileInv, TypeOK, Inodes
  <2>5. entry' \in 0 .. inodes' /\ diskEntry' \in 0 .. inodes' /\ handle' \in 0 .. inodes'
    BY <1>0, <1>4, <2>4 DEF SyncData, history, process, disk, FileInv, TypeOK
  <2>6. acked' \subseteq Records /\ appended' \in Nat /\ floor' \in Nat /\ crashes' \in Nat
    BY <1>0, <1>4 DEF SyncData, history, process, disk, FileInv, TypeOK, Records
  <2>7. TypeOK'
    BY <2>2, <2>3, <2>4, <2>5, <2>6 DEF TypeOK, ContentsOk
  <2>8. OpenOk'
    BY <1>0, <1>4, <2>1 DEF SyncData, history, process, disk, FileInv, TypeOK, OpenOk, Inodes
  <2> QED
    BY <2>2, <2>7, <2>8 DEF FileInv, ContentsOk
<1>5. CASE WriteFails
  <2> DEFINE f == File(files[handle].recs, files[handle].synced, TRUE)
  <2>1. handle \in Inodes /\ handle <= inodes
    BY <1>0, <1>5 DEF WriteFails, history, process, disk, FileInv, TypeOK, OpenOk, Inodes
  <2>2. Sound(files[handle], appended)
    BY <1>0, <2>1, EachSound
  <2>3. Sound(f, appended')
    BY <1>0, <1>5, <2>2 DEF WriteFails, history, process, disk,
           FileInv, TypeOK, Sound, File, Files, Records
  <2>4. /\ files' = [files EXCEPT ![handle] = f]
        /\ appended' \in Nat /\ appended <= appended'
        /\ inodes' \in Nat /\ inodes <= inodes' /\ handle <= inodes'
    BY <1>0, <1>5, <2>1 DEF WriteFails, history, process, disk, FileInv, TypeOK
  <2> HIDE DEF f
  <2>5. ContentsOk'
    BY <1>0, <2>1, <2>3, <2>4, OneFileChanges
  <2>6. record' \subseteq Records /\ step' \in Steps
    BY <1>0, <1>5 DEF WriteFails, history, process, disk,
           FileInv, TypeOK, Steps, Records
  <2>7. inodes' \in 0 .. MaxInodes /\ temp' \in 0 .. inodes'
    BY <1>0, <1>5, <2>1 DEF WriteFails, history, process, disk, FileInv, TypeOK, Inodes
  <2>8. entry' \in 0 .. inodes' /\ diskEntry' \in 0 .. inodes' /\ handle' \in 0 .. inodes'
    BY <1>0, <1>5, <2>7 DEF WriteFails, history, process, disk, FileInv, TypeOK
  <2>9. acked' \subseteq Records /\ appended' \in Nat /\ floor' \in Nat /\ crashes' \in Nat
    BY <1>0, <1>5 DEF WriteFails, history, process, disk, FileInv, TypeOK, Records
  <2>10. TypeOK'
    BY <2>5, <2>6, <2>7, <2>8, <2>9 DEF TypeOK, ContentsOk
  <2>11. OpenOk'
    BY <1>0, <1>5, <2>1 DEF WriteFails, history, process, disk, FileInv, TypeOK, OpenOk, Inodes
  <2> QED
    BY <2>5, <2>10, <2>11 DEF FileInv, ContentsOk
<1>6. CASE Prune
  <2>1. handle \in Inodes /\ handle <= inodes
    BY <1>0, <1>6 DEF Prune, history, process, disk, FileInv, TypeOK, OpenOk, Inodes
  <2>2. ContentsOk'
    BY <1>0, <1>6, <2>1, SyncOneFile DEF Prune, history, process, disk
  <2>3. record' \subseteq Records /\ step' \in Steps
    BY <1>0, <1>6 DEF Prune, history, process, disk,
           FileInv, TypeOK, Steps, Records
  <2>4. inodes' \in 0 .. MaxInodes /\ temp' \in 0 .. inodes'
    BY <1>0, <1>6, <2>1 DEF Prune, history, process, disk, FileInv, TypeOK, Inodes
  <2>5. entry' \in 0 .. inodes' /\ diskEntry' \in 0 .. inodes' /\ handle' \in 0 .. inodes'
    BY <1>0, <1>6, <2>4 DEF Prune, history, process, disk, FileInv, TypeOK
  <2>6. acked' \subseteq Records /\ appended' \in Nat /\ floor' \in Nat /\ crashes' \in Nat
    BY <1>0, <1>6 DEF Prune, history, process, disk, FileInv, TypeOK, Records
  <2>7. TypeOK'
    BY <2>2, <2>3, <2>4, <2>5, <2>6 DEF TypeOK, ContentsOk
  <2>8. OpenOk'
    BY <1>0, <1>6, <2>1 DEF Prune, history, process, disk, FileInv, TypeOK, OpenOk, Inodes
  <2> QED
    BY <2>2, <2>7, <2>8 DEF FileInv, ContentsOk
<1>7. CASE Copy
  <2> DEFINE f == File({r \in files[entry].recs : r.seq >= floor}, {}, FALSE)
  <2>1. temp' \in Inodes /\ temp' <= inodes' /\ entry \in Inodes
    BY <1>0, <1>7 DEF Copy, history, process, disk, FileInv, TypeOK, OpenOk, Inodes
  <2>2. Sound(files[entry], appended)
    BY <1>0, <2>1, EachSound
  <2>3. Sound(f, appended')
    BY <1>7, <2>2 DEF Copy, history, process, disk, Sound, File, Files
  <2>4. /\ files' = [files EXCEPT ![temp'] = f]
        /\ appended' \in Nat /\ appended <= appended'
        /\ inodes' \in Nat /\ inodes <= inodes' /\ temp' <= inodes'
    BY <1>0, <1>7, <2>1 DEF Copy, history, process, disk, FileInv, TypeOK
  <2> HIDE DEF f
  <2>5. ContentsOk'
    BY <1>0, <2>1, <2>3, <2>4, OneFileChanges
  <2>6. record' \subseteq Records /\ step' \in Steps
    BY <1>0, <1>7 DEF Copy, history, process, disk,
           FileInv, TypeOK, Steps, Records
  <2>7. inodes' \in 0 .. MaxInodes /\ temp' \in 0 .. inodes'
    BY <1>0, <1>7, <2>1 DEF Copy, history, process, disk, FileInv, TypeOK, Inodes
  <2>8. entry' \in 0 .. inodes' /\ diskEntry' \in 0 .. inodes' /\ handle' \in 0 .. inodes'
    BY <1>0, <1>7, <2>7 DEF Copy, history, process, disk, FileInv, TypeOK
  <2>9. acked' \subseteq Records /\ appended' \in Nat /\ floor' \in Nat /\ crashes' \in Nat
    BY <1>0, <1>7 DEF Copy, history, process, disk, FileInv, TypeOK, Records
  <2>10. TypeOK'
    BY <2>5, <2>6, <2>7, <2>8, <2>9 DEF TypeOK, ContentsOk
  <2>11. OpenOk'
    BY <1>0, <1>7, <2>1 DEF Copy, history, process, disk, FileInv, TypeOK, OpenOk, Inodes
  <2> QED
    BY <2>5, <2>10, <2>11 DEF FileInv, ContentsOk
<1>8. CASE SyncTemp
  <2>1. temp \in Inodes /\ temp <= inodes
    BY <1>0, <1>8 DEF SyncTemp, history, process, disk, FileInv, TypeOK, OpenOk, Inodes
  <2>2. ContentsOk'
    BY <1>0, <1>8, <2>1, SyncOneFile DEF SyncTemp, history, process, disk
  <2>3. record' \subseteq Records /\ step' \in Steps
    BY <1>0, <1>8 DEF SyncTemp, history, process, disk,
           FileInv, TypeOK, Steps, Records
  <2>4. inodes' \in 0 .. MaxInodes /\ temp' \in 0 .. inodes'
    BY <1>0, <1>8, <2>1 DEF SyncTemp, history, process, disk, FileInv, TypeOK, Inodes
  <2>5. entry' \in 0 .. inodes' /\ diskEntry' \in 0 .. inodes' /\ handle' \in 0 .. inodes'
    BY <1>0, <1>8, <2>4 DEF SyncTemp, history, process, disk, FileInv, TypeOK
  <2>6. acked' \subseteq Records /\ appended' \in Nat /\ floor' \in Nat /\ crashes' \in Nat
    BY <1>0, <1>8 DEF SyncTemp, history, process, disk, FileInv, TypeOK, Records
  <2>7. TypeOK'
    BY <2>2, <2>3, <2>4, <2>5, <2>6 DEF TypeOK, ContentsOk
  <2>8. OpenOk'
    BY <1>0, <1>8, <2>1 DEF SyncTemp, history, process, disk, FileInv, TypeOK, OpenOk, Inodes
  <2> QED
    BY <2>2, <2>7, <2>8 DEF FileInv, ContentsOk
<1>9. CASE Rename
  <2>1. FilesOk'
    BY <1>0, <1>9 DEF Rename, history, process, disk, FileInv, FilesOk
  <2>2. TypeOK'
    BY <1>0, <1>9 DEF Rename, history, process, disk, FileInv, TypeOK, OpenOk, Steps
  <2> QED
    BY <1>0, <1>9, <2>1, <2>2 DEF Rename, history, process, disk, FileInv, TypeOK, OpenOk
<1>10. CASE Reopen
  <2>1. FilesOk'
    BY <1>0, <1>10 DEF Reopen, history, process, disk, FileInv, FilesOk
  <2>2. TypeOK'
    BY <1>0, <1>10 DEF Reopen, history, process, disk, FileInv, TypeOK, OpenOk, Steps
  <2> QED
    BY <1>0, <1>10, <2>1, <2>2 DEF Reopen, history, process, disk, FileInv, TypeOK, OpenOk
<1>11. CASE SyncDir
  <2>1. FilesOk'
    BY <1>0, <1>11 DEF SyncDir, history, process, disk, FileInv, FilesOk
  <2>2. TypeOK'
    BY <1>0, <1>11 DEF SyncDir, history, process, disk, FileInv, TypeOK, OpenOk, Steps
  <2> QED
    BY <1>0, <1>11, <2>1, <2>2 DEF SyncDir, history, process, disk, FileInv, TypeOK, OpenOk
<1>12. CASE CallFails
  <2>1. FilesOk'
    BY <1>0, <1>12 DEF CallFails, history, process, disk, FileInv, FilesOk
  <2>2. TypeOK'
    BY <1>0, <1>12 DEF CallFails, history, process, disk, FileInv, TypeOK, OpenOk, Steps
  <2> QED
    BY <1>0, <1>12, <2>1, <2>2 DEF CallFails, history, process, disk, FileInv, TypeOK, OpenOk
<1>13. CASE WriteBack
  <2>1. FilesOk'
    BY <1>0, <1>13 DEF WriteBack, history, process, disk, FileInv, FilesOk
  <2>2. TypeOK'
    BY <1>0, <1>13 DEF WriteBack, history, process, disk, FileInv, TypeOK, OpenOk, Steps
  <2> QED
    BY <1>0, <1>13, <2>1, <2>2 DEF WriteBack, history, process, disk, FileInv, TypeOK, OpenOk
<1>14. CASE Kill
  <2>1. FilesOk'
    BY <1>0, <1>14 DEF Kill, Stops, history, process, disk, FileInv, FilesOk
  <2>2. TypeOK'
    BY <1>0, <1>14 DEF Kill, Stops, history, process, disk, FileInv, TypeOK, OpenOk, Steps
  <2> QED
    BY <1>0, <1>14, <2>1, <2>2 DEF Kill, Stops, history, process, disk, FileInv, TypeOK, OpenOk
<1>15. CASE PowerLoss
  <2>1. PICK cut \in 0 .. appended, part \in BOOLEAN :
           files' = [i \in Inodes |-> Remains(files[i], cut, part)]
    BY <1>15 DEF PowerLoss
  <2>2. ASSUME NEW i \in Inodes
         PROVE  Sound(Remains(files[i], cut, part), appended)
    <3> DEFINE kept == files[i].synced \cup {r \in files[i].recs : r.at <= cut}
               torn == part /\ (files[i].torn \/ kept # files[i].recs)
    <3>1. Remains(files[i], cut, part) = File(kept, kept, torn)
      BY DEF Remains
    <3>2. Sound(files[i], appended)
      BY <1>0, EachSound
    <3>3. kept \subseteq files[i].recs
      BY <3>2 DEF Sound
    <3>4. torn \in BOOLEAN
      BY <2>1
    <3> HIDE DEF kept, torn
    <3>5. File(kept, kept, torn) \in Files
      BY <3>2, <3>3, <3>4 DEF Sound, File, Files
    <3>6. File(kept, kept, torn).recs = kept /\ File(kept, kept, torn).synced = kept
      BY DEF File
    <3>7. Sound(File(kept, kept, torn), appended)
      <4>1. /\ \A r \in kept : r.at <= appended
            /\ \A r, q \in kept : r.at = q.at => r = q
        BY <3>2, <3>3 DEF Sound
      <4> QED
        BY <3>5, <3>6, <4>1 DEF Sound
    <3> QED
      BY <3>1, <3>7
  <2>3. \A i \in Inodes : i > inodes => Remains(files[i], cut, part) = Empty
    <3>1. Empty.recs = {} /\ Empty.synced = {} /\ Empty.torn = FALSE
      BY DEF Empty, File
    <3>2. Empty.synced \cup {r \in Empty.recs : r.at <= cut} = {}
      BY <3>1
    <3>3. (part /\ (Empty.torn \/ {} # Empty.recs)) = FALSE
      BY <3>1
    <3>4. Remains(Empty, cut, part) = File({}, {}, FALSE)
      BY <3>2, <3>3 DEF Remains
    <3> QED
      BY <1>0, <3>4 DEF FileInv, FilesOk, Empty
  <2>4. UNCHANGED <<appended, inodes>>
    BY <1>15 DEF PowerLoss, Stops
  <2>5. files' \in [Inodes -> Files]
    BY <2>1, <2>2 DEF Sound
  <2>6. \A i \in Inodes : Sound(files'[i], appended')
    BY <2>1, <2>2, <2>4
  <2>7. ContentsOk'
    BY <1>0, <2>3, <2>4, <2>1, <2>6, <2>5, AllSound
  <2> QED
    BY <1>0, <1>15, <2>7 DEF PowerLoss, Stops, history, process, disk, FileInv, TypeOK,
       OpenOk, ContentsOk, Steps
<1>16. CASE UNCHANGED vars
  BY <1>0, <1>16 DEF vars, history, process, disk, FileInv, TypeOK, FilesOk, OpenOk
<1> QED
  BY <1>0, <1>1, <1>2, <1>3, <1>4, <1>5, <1>6, <1>7, <1>8, <1>9, <1>10, <1>11, <1>12, <1>13,
     <1>14, <1>15, <1>16 DEF Next, Append, Compact

-----------------------------------------------------------------------------
(* Durability and refinement *)

\* What a step must establish beyond FileInv: the rest of WalInv and a step of DurableLog.
Holds == EntriesOk' /\ StepOk' /\ AckedDurable' /\ [Log!Next]_<<Durable, acked, floor>>

LEMMA InitWalInv == Init => WalInv
  BY InitFileInv DEF Init, WalInv, EntriesOk, StepOk, AckedDurable

\* The parts of an inode and of the entries in a state of FileInv.
LEMMA FileFacts ==
  ASSUME FileInv
  PROVE  /\ \A i \in Inodes : files[i] \in Files /\ files[i].synced \subseteq files[i].recs
         /\ \A i \in Inodes : files[i].torn \in BOOLEAN
         /\ \A n \in {entry, diskEntry, handle, temp} : n # 0 => n \in Inodes /\ n <= inodes
         /\ Empty.recs = {} /\ Empty.synced = {} /\ Empty.torn = FALSE
         /\ floor \in Nat /\ appended \in Nat /\ inodes \in Nat
  BY WalAssumption DEF FileInv, TypeOK, FilesOk, Files, Inodes, Empty, File

LEMMA CreateHolds ==
  ASSUME WalInv, FileInv', Create
  PROVE  Holds
<1>1. inodes + 1 \in Inodes /\ files[inodes + 1] = Empty
  BY WalAssumption DEF Create, WalInv, FileInv, TypeOK, FilesOk, Inodes
<1>2. EntriesOk'
  BY <1>1, FileFacts DEF Create, history, process, disk, WalInv, EntriesOk, StepOk,
     AckedDurable, FullySynced, KeptOf, FileInv, OpenOk, TypeOK, FilesOk
<1>3. StepOk'
  BY FileFacts DEF Create, history, process, disk, WalInv, EntriesOk, StepOk, AckedDurable,
     FullySynced, KeptOf, FileInv, OpenOk, TypeOK
<1>4. AckedDurable'
  BY FileFacts DEF Create, history, process, disk, WalInv, EntriesOk, StepOk, AckedDurable,
     Durable, KeptOf
<1>5. [Log!Next]_<<Durable, acked, floor>>
  BY FileFacts DEF Create, history, process, disk, WalInv, EntriesOk, StepOk, AckedDurable,
     KeptOf, Durable,
     Log!Next, Log!Append, Log!Cover, Log!Compact
<1> QED
  BY <1>2, <1>3, <1>4, <1>5 DEF Holds

LEMMA OpenHolds ==
  ASSUME WalInv, FileInv', EntriesReachDisk, Open
  PROVE  Holds
<1>1. diskEntry = entry
  BY Zenon DEF Open
<1>2. EntriesOk'
  BY FileFacts DEF Open, history, process, disk, WalInv, EntriesOk, StepOk, AckedDurable,
     FullySynced, KeptOf, FileInv, OpenOk, TypeOK, FilesOk
<1>3. StepOk'
  BY <1>1, FileFacts DEF Open, history, process, disk, WalInv, EntriesOk, StepOk,
     AckedDurable, FullySynced, KeptOf, FileInv, OpenOk, TypeOK
<1>4. AckedDurable'
  BY FileFacts DEF Open, history, process, disk, WalInv, EntriesOk, StepOk, AckedDurable,
     Durable, KeptOf
<1>5. [Log!Next]_<<Durable, acked, floor>>
  BY FileFacts DEF Open, history, process, disk, WalInv, EntriesOk, StepOk, AckedDurable,
     KeptOf, Durable,
     Log!Next, Log!Append, Log!Cover, Log!Compact
<1> QED
  BY <1>2, <1>3, <1>4, <1>5 DEF Holds

LEMMA WriteHolds ==
  ASSUME WalInv, FileInv', NEW s \in Seqs, Write(s)
  PROVE  Holds
<1>1. handle \in Inodes
  BY FileFacts, WalAssumption DEF Write, history, process, disk, WalInv, FileInv, OpenOk,
     TypeOK, Inodes
<1>2. \A i \in Inodes : files'[i] = IF i = handle
         THEN File(files[handle].recs \cup {[at |-> appended + 1, seq |-> s]},
                files[handle].synced, files[handle].torn)
         ELSE files[i]
  BY <1>1 DEF Write, history, process, disk, WalInv, FileInv, TypeOK
<1>3. \A i \in Inodes :
         /\ files'[i].recs = IF i = handle THEN files[i].recs \cup {[at |-> appended + 1, seq |-> s]} ELSE files[i].recs
         /\ files'[i].synced = files[i].synced
         /\ files'[i].torn = files[i].torn
  BY <1>2 DEF File
<1>4. EntriesOk'
  BY <1>1, <1>2, <1>3, FileFacts DEF Write, history, process, disk, WalInv, EntriesOk, StepOk,
     AckedDurable, FullySynced, KeptOf, FileInv, OpenOk
<1>5. \A r \in files[handle].synced : r.at < appended + 1
  BY <1>1, FileFacts DEF WalInv, FileInv, TypeOK, FilesOk, Files, Records
<1>6. LET r == [at |-> appended + 1, seq |-> s]
      IN  r \in files'[handle].recs /\ record' = {r} /\ r.at = appended'
  BY <1>1, <1>3 DEF Write
<1>7. files'[handle].synced = files[handle].synced /\ files'[handle].torn = files[handle].torn
  BY <1>1, <1>3
<1>8. StepOk'
  BY <1>1, <1>5, <1>6, <1>7, FileFacts DEF Write, history, process, disk, WalInv, EntriesOk,
     StepOk, AckedDurable, FullySynced, KeptOf, FileInv, OpenOk
<1>9. AckedDurable'
  BY <1>1, <1>2, <1>3, FileFacts DEF Write, history, process, disk, WalInv, EntriesOk, StepOk,
     AckedDurable, Durable, FileInv, OpenOk
<1>10. Durable' = Durable /\ UNCHANGED <<acked, floor>>
  BY <1>1, <1>3, FileFacts DEF Write, history, WalInv, EntriesOk, StepOk, Durable
<1> QED
  BY <1>4, <1>8, <1>9, <1>10 DEF Holds

LEMMA SyncDataHolds ==
  ASSUME WalInv, FileInv', SyncData
  PROVE  Holds
<1>1. handle \in Inodes
  BY FileFacts, WalAssumption DEF SyncData, Synced, history, process, disk, WalInv, FileInv,
     OpenOk, TypeOK, Inodes
<1>2. \A i \in Inodes : files'[i] = IF i = handle
         THEN File(files[handle].recs, files[handle].recs, files[handle].torn)
         ELSE files[i]
  BY <1>1 DEF SyncData, Synced, history, process, disk, WalInv, FileInv, TypeOK
<1>3. \A i \in Inodes :
         /\ files'[i].recs = files[i].recs
         /\ files'[i].synced = IF i = handle THEN files[i].recs ELSE files[i].synced
         /\ files'[i].torn = files[i].torn
  BY <1>2 DEF File
<1>4. EntriesOk'
  BY <1>1, <1>2, <1>3, FileFacts DEF SyncData, Synced, history, process, disk, WalInv,
     EntriesOk, StepOk, AckedDurable, FullySynced, KeptOf, FileInv, OpenOk
<1>5. StepOk'
  BY <1>1, <1>2, <1>3, FileFacts DEF SyncData, Synced, history, process, disk, WalInv,
     EntriesOk, StepOk, AckedDurable, FullySynced, KeptOf, FileInv, OpenOk
<1>6. AckedDurable'
  BY <1>1, <1>2, <1>3, FileFacts DEF SyncData, Synced, history, process, disk, WalInv,
     EntriesOk, StepOk, AckedDurable, Durable, FileInv, OpenOk
<1>7. [Log!Next]_<<Durable, acked, floor>>
  BY <1>1, <1>2, <1>3, FileFacts DEF SyncData, Synced, history, process, disk, WalInv,
     EntriesOk, StepOk, AckedDurable, FullySynced, Durable, FileInv, OpenOk,
     Log!Next, Log!Append, Log!Cover, Log!Compact, TypeOK, FilesOk
<1> QED
  BY <1>4, <1>5, <1>6, <1>7 DEF Holds

LEMMA WriteFailsHolds ==
  ASSUME WalInv, FileInv', WriteFails
  PROVE  Holds
<1>1. handle \in Inodes
  BY FileFacts, WalAssumption DEF WriteFails, history, process, disk, WalInv, FileInv, OpenOk,
     TypeOK, Inodes
<1>2. \A i \in Inodes : files'[i] = IF i = handle
         THEN File(files[handle].recs, files[handle].synced, TRUE)
         ELSE files[i]
  BY <1>1 DEF WriteFails, history, process, disk, WalInv, FileInv, TypeOK
<1>3. \A i \in Inodes :
         /\ files'[i].recs = files[i].recs
         /\ files'[i].synced = files[i].synced
  BY <1>2 DEF File
<1>4. EntriesOk'
  BY <1>1, <1>2, <1>3, FileFacts DEF WriteFails, history, process, disk, WalInv, EntriesOk,
     StepOk, AckedDurable, FullySynced, KeptOf, FileInv, OpenOk
<1>5. StepOk'
  BY <1>1, <1>2, <1>3, FileFacts DEF WriteFails, history, process, disk, WalInv, EntriesOk,
     StepOk, AckedDurable, FullySynced, KeptOf, FileInv, OpenOk
<1>6. AckedDurable'
  BY <1>1, <1>2, <1>3, FileFacts DEF WriteFails, history, process, disk, WalInv, EntriesOk,
     StepOk, AckedDurable, Durable, FileInv, OpenOk
<1>7. Durable' = Durable /\ UNCHANGED <<acked, floor>>
  BY <1>1, <1>3, FileFacts DEF WriteFails, history, WalInv, EntriesOk, StepOk, Durable
<1> QED
  BY <1>4, <1>5, <1>6, <1>7 DEF Holds

LEMMA PruneHolds ==
  ASSUME WalInv, FileInv', Prune
  PROVE  Holds
<1>1. handle \in Inodes
  BY FileFacts, WalAssumption DEF Prune, Synced, history, process, disk, WalInv, FileInv,
     OpenOk, TypeOK, Inodes
<1>2. \A i \in Inodes : files'[i] = IF i = handle
         THEN File(files[handle].recs, files[handle].recs, files[handle].torn)
         ELSE files[i]
  BY <1>1 DEF Prune, Synced, history, process, disk, WalInv, FileInv, TypeOK
<1>3. \A i \in Inodes :
         /\ files'[i].recs = files[i].recs
         /\ files'[i].synced = IF i = handle THEN files[i].recs ELSE files[i].synced
         /\ files'[i].torn = files[i].torn
  BY <1>2 DEF File
<1>4. EntriesOk'
  BY <1>1, <1>2, <1>3, FileFacts DEF Prune, Synced, history, process, disk, WalInv, EntriesOk,
     StepOk, AckedDurable, FullySynced, KeptOf, FileInv, OpenOk
<1>5. StepOk'
  BY <1>1, <1>2, <1>3, FileFacts DEF Prune, Synced, history, process, disk, WalInv, EntriesOk,
     StepOk, AckedDurable, FullySynced, KeptOf, FileInv, OpenOk
<1>6. \A r \in acked : r.seq >= floor' => r.seq >= floor
  <2>1. PICK q \in record : q.seq > floor /\ floor' = q.seq
    BY DEF Prune
  <2>2. floor \in Nat /\ q.seq \in Nat /\ \A r \in acked : r.seq \in Nat
    BY WalAssumption, <2>1 DEF WalInv, FileInv, TypeOK, Records
  <2> QED
    BY <2>1, <2>2
<1>7. AckedDurable'
  BY <1>1, <1>3, <1>6, FileFacts DEF Prune, Synced, history, process, disk, WalInv, EntriesOk,
     StepOk, AckedDurable, Durable, FileInv, OpenOk
<1>8. [Log!Next]_<<Durable, acked, floor>>
  BY <1>1, <1>2, <1>3, FileFacts DEF Prune, Synced, history, process, disk, WalInv, EntriesOk,
     StepOk, AckedDurable, FullySynced, Durable, FileInv, OpenOk,
     Log!Next, Log!Append, Log!Cover, Log!Compact, TypeOK, FilesOk
<1> QED
  BY <1>4, <1>5, <1>7, <1>8 DEF Holds

LEMMA CopyHolds ==
  ASSUME WalInv, FileInv', Copy
  PROVE  Holds
<1>1. temp' \in Inodes
  BY FileFacts, WalAssumption DEF Copy, history, process, disk, WalInv, FileInv, OpenOk,
     TypeOK, Inodes
<1>2. \A i \in Inodes : files'[i] = IF i = temp'
         THEN File(KeptOf(files[entry].recs), {}, FALSE)
         ELSE files[i]
  BY <1>1 DEF Copy, history, process, disk, WalInv, FileInv, TypeOK, KeptOf
<1>3. \A i \in Inodes :
         /\ files'[i].recs = IF i = temp' THEN KeptOf(files[entry].recs) ELSE files[i].recs
         /\ files'[i].synced = IF i = temp' THEN {} ELSE files[i].synced
         /\ i = temp' => ~files'[i].torn
         /\ i # temp' => files'[i].torn = files[i].torn
  BY <1>2 DEF File
<1>4. temp' # entry /\ temp' # diskEntry /\ entry \in Inodes /\ diskEntry = entry
  BY FileFacts DEF Copy, WalInv, StepOk, FileInv, OpenOk
<1>5. /\ files'[temp'].recs = KeptOf(files[entry].recs) /\ ~files'[temp'].torn
      /\ files'[entry].recs = files[entry].recs /\ files'[entry].synced = files[entry].synced
  BY <1>1, <1>3, <1>4
<1>6. /\ step' = "copied" /\ UNCHANGED <<entry, handle, diskEntry>>
       /\ handle = entry /\ diskEntry = entry /\ FullySynced(entry)
  BY <1>4 DEF Copy, WalInv, StepOk
<1>7. temp' # 0
  BY <1>1, WalAssumption DEF Inodes
<1>8. KeptOf(files[entry].recs)' = KeptOf(files[entry].recs)
  BY <1>1, <1>3, <1>4 DEF Copy, history, KeptOf
<1>9. EntriesOk'
  BY <1>1, <1>2, <1>3, <1>4, FileFacts DEF Copy, history, process, disk, WalInv, EntriesOk,
     StepOk, AckedDurable, FullySynced, KeptOf, FileInv, OpenOk
<1>10. StepOk'
  BY <1>4, <1>5, <1>8, <1>6, <1>7 DEF StepOk, FullySynced
<1>11. AckedDurable'
  BY <1>1, <1>2, <1>3, <1>4, FileFacts DEF Copy, history, process, disk, WalInv, EntriesOk,
     StepOk, AckedDurable, Durable, FileInv, OpenOk
<1>12. Durable' = Durable /\ UNCHANGED <<acked, floor>>
  BY <1>1, <1>3, <1>4, FileFacts DEF Copy, history, WalInv, EntriesOk, StepOk, Durable
<1> QED
  BY <1>9, <1>10, <1>11, <1>12 DEF Holds

LEMMA SyncTempHolds ==
  ASSUME WalInv, FileInv', SyncTemp
  PROVE  Holds
<1>1. temp \in Inodes
  BY FileFacts, WalAssumption DEF SyncTemp, Synced, history, process, disk, WalInv, FileInv,
     OpenOk, TypeOK, Inodes
<1>2. \A i \in Inodes : files'[i] = IF i = temp
         THEN File(files[temp].recs, files[temp].recs, files[temp].torn)
         ELSE files[i]
  BY <1>1 DEF SyncTemp, Synced, history, process, disk, WalInv, FileInv, TypeOK
<1>3. \A i \in Inodes :
         /\ files'[i].recs = files[i].recs
         /\ files'[i].synced = IF i = temp THEN files[i].recs ELSE files[i].synced
         /\ files'[i].torn = files[i].torn
  BY <1>2 DEF File
<1>4. EntriesOk'
  BY <1>1, <1>2, <1>3, FileFacts DEF SyncTemp, Synced, history, process, disk, WalInv,
     EntriesOk, StepOk, AckedDurable, FullySynced, KeptOf, FileInv, OpenOk
<1>5. StepOk'
  BY <1>1, <1>2, <1>3, FileFacts DEF SyncTemp, Synced, history, process, disk, WalInv,
     EntriesOk, StepOk, AckedDurable, FullySynced, KeptOf, FileInv, OpenOk
<1>6. AckedDurable'
  BY <1>1, <1>2, <1>3, FileFacts DEF SyncTemp, Synced, history, process, disk, WalInv,
     EntriesOk, StepOk, AckedDurable, Durable, FileInv, OpenOk
<1>7. [Log!Next]_<<Durable, acked, floor>>
  BY <1>1, <1>2, <1>3, FileFacts DEF SyncTemp, Synced, history, process, disk, WalInv,
     EntriesOk, StepOk, AckedDurable, FullySynced, Durable, FileInv, OpenOk,
     Log!Next, Log!Append, Log!Cover, Log!Compact, TypeOK, FilesOk
<1> QED
  BY <1>4, <1>5, <1>6, <1>7 DEF Holds

LEMMA RenameHolds ==
  ASSUME WalInv, FileInv', Rename
  PROVE  Holds
<1>1. EntriesOk'
  BY FileFacts DEF Rename, history, process, disk, WalInv, EntriesOk, StepOk, AckedDurable,
     FullySynced, KeptOf, FileInv, OpenOk, TypeOK, FilesOk
<1>2. StepOk'
  BY FileFacts DEF Rename, history, process, disk, WalInv, EntriesOk, StepOk, AckedDurable,
     FullySynced, KeptOf, FileInv, OpenOk, TypeOK
<1>3. AckedDurable'
  BY FileFacts DEF Rename, history, process, disk, WalInv, EntriesOk, StepOk, AckedDurable,
     Durable, KeptOf
<1>4. [Log!Next]_<<Durable, acked, floor>>
  BY FileFacts DEF Rename, history, process, disk, WalInv, EntriesOk, StepOk, AckedDurable,
     KeptOf, Durable,
     Log!Next, Log!Append, Log!Cover, Log!Compact
<1> QED
  BY <1>1, <1>2, <1>3, <1>4 DEF Holds

LEMMA ReopenHolds ==
  ASSUME WalInv, FileInv', Reopen
  PROVE  Holds
<1>1. EntriesOk'
  BY FileFacts DEF Reopen, history, process, disk, WalInv, EntriesOk, StepOk, AckedDurable,
     FullySynced, KeptOf, FileInv, OpenOk, TypeOK, FilesOk
<1>2. StepOk'
  BY FileFacts DEF Reopen, history, process, disk, WalInv, EntriesOk, StepOk, AckedDurable,
     FullySynced, KeptOf, FileInv, OpenOk, TypeOK
<1>3. AckedDurable'
  BY FileFacts DEF Reopen, history, process, disk, WalInv, EntriesOk, StepOk, AckedDurable,
     Durable, KeptOf
<1>4. [Log!Next]_<<Durable, acked, floor>>
  BY FileFacts DEF Reopen, history, process, disk, WalInv, EntriesOk, StepOk, AckedDurable,
     KeptOf, Durable,
     Log!Next, Log!Append, Log!Cover, Log!Compact
<1> QED
  BY <1>1, <1>2, <1>3, <1>4 DEF Holds

LEMMA SyncDirHolds ==
  ASSUME WalInv, FileInv', SyncDir
  PROVE  Holds
<1>1. EntriesOk'
  BY FileFacts DEF SyncDir, history, process, disk, WalInv, EntriesOk, StepOk, AckedDurable,
     FullySynced, KeptOf, FileInv, OpenOk, TypeOK, FilesOk
<1>2. StepOk'
  BY FileFacts DEF SyncDir, history, process, disk, WalInv, EntriesOk, StepOk, AckedDurable,
     FullySynced, KeptOf, FileInv, OpenOk, TypeOK
<1>3. AckedDurable'
  BY FileFacts DEF SyncDir, history, process, disk, WalInv, EntriesOk, StepOk, AckedDurable,
     Durable, KeptOf
<1>4. [Log!Next]_<<Durable, acked, floor>>
  BY FileFacts DEF SyncDir, history, process, disk, WalInv, EntriesOk, StepOk, AckedDurable,
     KeptOf, Durable,
     Log!Next, Log!Append, Log!Cover, Log!Compact
<1> QED
  BY <1>1, <1>2, <1>3, <1>4 DEF Holds

LEMMA CallFailsHolds ==
  ASSUME WalInv, FileInv', CallFails
  PROVE  Holds
<1>1. EntriesOk'
  BY FileFacts DEF CallFails, history, process, disk, WalInv, EntriesOk, StepOk, AckedDurable,
     FullySynced, KeptOf, FileInv, OpenOk, TypeOK, FilesOk
<1>2. StepOk'
  BY FileFacts DEF CallFails, history, process, disk, WalInv, EntriesOk, StepOk, AckedDurable,
     FullySynced, KeptOf, FileInv, OpenOk, TypeOK
<1>3. AckedDurable'
  BY FileFacts DEF CallFails, history, process, disk, WalInv, EntriesOk, StepOk, AckedDurable,
     Durable, KeptOf
<1>4. [Log!Next]_<<Durable, acked, floor>>
  BY FileFacts DEF CallFails, history, process, disk, WalInv, EntriesOk, StepOk, AckedDurable,
     KeptOf, Durable,
     Log!Next, Log!Append, Log!Cover, Log!Compact
<1> QED
  BY <1>1, <1>2, <1>3, <1>4 DEF Holds

LEMMA WriteBackHolds ==
  ASSUME WalInv, FileInv', WriteBack
  PROVE  Holds
<1>1. EntriesOk'
  BY FileFacts DEF WriteBack, history, process, disk, WalInv, EntriesOk, StepOk, AckedDurable,
     FullySynced, KeptOf, FileInv, OpenOk, TypeOK, FilesOk
<1>2. StepOk'
  BY FileFacts DEF WriteBack, history, process, disk, WalInv, EntriesOk, StepOk, AckedDurable,
     FullySynced, KeptOf, FileInv, OpenOk, TypeOK
<1>3. AckedDurable'
  BY FileFacts DEF WriteBack, history, process, disk, WalInv, EntriesOk, StepOk, AckedDurable,
     Durable, KeptOf
<1>4. [Log!Next]_<<Durable, acked, floor>>
  BY FileFacts DEF WriteBack, history, process, disk, WalInv, EntriesOk, StepOk, AckedDurable,
     KeptOf, Durable,
     Log!Next, Log!Append, Log!Cover, Log!Compact
<1> QED
  BY <1>1, <1>2, <1>3, <1>4 DEF Holds

LEMMA KillHolds ==
  ASSUME WalInv, FileInv', Kill
  PROVE  Holds
<1>1. EntriesOk'
  BY FileFacts DEF Kill, Stops, history, process, disk, WalInv, EntriesOk, StepOk,
     AckedDurable, FullySynced, KeptOf, FileInv, OpenOk, TypeOK, FilesOk
<1>2. StepOk'
  BY FileFacts DEF Kill, Stops, history, process, disk, WalInv, EntriesOk, StepOk,
     AckedDurable, FullySynced, KeptOf, FileInv, OpenOk, TypeOK
<1>3. AckedDurable'
  BY FileFacts DEF Kill, Stops, history, process, disk, WalInv, EntriesOk, StepOk,
     AckedDurable, Durable, KeptOf
<1>4. [Log!Next]_<<Durable, acked, floor>>
  BY FileFacts DEF Kill, Stops, history, process, disk, WalInv, EntriesOk, StepOk,
     AckedDurable, KeptOf, Durable,
     Log!Next, Log!Append, Log!Cover, Log!Compact
<1> QED
  BY <1>1, <1>2, <1>3, <1>4 DEF Holds

LEMMA PowerLossHolds ==
  ASSUME WalInv, FileInv', PowerLoss
  PROVE  Holds
<1>1. PICK cut \in 0 .. appended, part \in BOOLEAN :
         files' = [i \in Inodes |-> Remains(files[i], cut, part)]
  BY DEF PowerLoss
<1>2. \A i \in Inodes :
         /\ files'[i].recs = files[i].synced \cup {r \in files[i].recs : r.at <= cut}
         /\ files'[i].synced = files'[i].recs
  BY <1>1 DEF Remains, File
<1>3. \A i \in Inodes : files[i] = Empty => files'[i].synced = {}
  BY <1>2, FileFacts DEF WalInv
<1>4. EntriesOk'
  BY DEF PowerLoss, Stops, history, process, disk, WalInv, EntriesOk, StepOk, AckedDurable
<1>5. StepOk'
  BY DEF PowerLoss, Stops, history, process, disk, StepOk
<1>6. AckedDurable'
  BY <1>2, FileFacts DEF PowerLoss, Stops, history, process, disk, WalInv, EntriesOk, StepOk,
     AckedDurable, Durable, FullySynced, KeptOf
<1>7. [Log!Next]_<<Durable, acked, floor>>
  <2>1. UNCHANGED <<acked, floor>>
    BY DEF PowerLoss, Stops
  <2>2. CASE diskEntry' = diskEntry
    <3>1. CASE diskEntry = 0
      BY <2>1, <2>2, <3>1 DEF Durable
    <3>2. CASE diskEntry # 0
      <4>1. diskEntry \in Inodes
        BY <3>2, FileFacts DEF WalInv
      <4>2. /\ Durable = files[diskEntry].synced
            /\ Durable' = files[diskEntry].synced \cup {r \in files[diskEntry].recs : r.at <= cut}
        BY <1>2, <2>2, <3>2, <4>1 DEF Durable
      <4>3. \A q \in files[diskEntry].synced, r \in files[diskEntry].recs \ files[diskEntry].synced :
               q.at < r.at
        BY <4>1 DEF WalInv, FileInv, FilesOk
      <4>4. Log!Append
        BY <2>1, <4>2, <4>3 DEF Log!Append
      <4> QED
        BY <4>4 DEF Log!Next
    <3> QED
      BY <3>1, <3>2
  <2>3. CASE diskEntry' # diskEntry
    <3>1. diskEntry' = entry /\ diskEntry # entry
      BY <2>3 DEF PowerLoss
    <3>2. CASE diskEntry = 0
      <4>1. entry \in Inodes /\ files[entry] = Empty
        BY <2>3, <3>1, <3>2, FileFacts DEF WalInv, EntriesOk
      <4> QED
        BY <1>3, <2>1, <2>3, <3>1, <3>2, <4>1 DEF Durable
    <3>3. CASE diskEntry # 0
      <4>1. entry \in Inodes /\ entry # 0
        BY <3>3, FileFacts DEF WalInv, EntriesOk
      <4>2. FullySynced(entry) /\ files[entry].synced = KeptOf(files[diskEntry].synced)
        BY <3>1, <3>3 DEF WalInv, EntriesOk
      <4>3. files'[entry].synced = files[entry].synced
        BY <1>2, <4>1, <4>2 DEF FullySynced
      <4>4. Log!Compact
        BY <2>1, <3>1, <3>3, <4>1, <4>2, <4>3 DEF Log!Compact, Durable, KeptOf
      <4> QED
        BY <4>4 DEF Log!Next
    <3> QED
      BY <3>2, <3>3
  <2> QED
    BY <2>2, <2>3
<1> QED
  BY <1>4, <1>5, <1>6, <1>7 DEF Holds

LEMMA StepHolds ==
  ASSUME EntriesReachDisk, WalInv, [Next]_vars
  PROVE  WalInv' /\ [Log!Next]_<<Durable, acked, floor>>
<1>1. FileInv'
  BY StepFileInv DEF WalInv
<1>2. CASE UNCHANGED vars
  BY <1>1, <1>2 DEF vars, history, process, disk, WalInv, EntriesOk, StepOk, AckedDurable,
     FullySynced, KeptOf, Durable
<1>3. CASE Next
  <2>1. Holds
    BY <1>1, <1>3, CreateHolds, OpenHolds, WriteHolds, SyncDataHolds, WriteFailsHolds,
       PruneHolds, CopyHolds, SyncTempHolds, RenameHolds, ReopenHolds,
       SyncDirHolds, CallFailsHolds, WriteBackHolds, KillHolds, PowerLossHolds
    DEF Next, Append, Compact
  <2> QED
    BY <1>1, <2>1 DEF Holds, WalInv
<1> QED
  BY <1>2, <1>3

-----------------------------------------------------------------------------
(* Theorems *)

\* Every variable keeps its type and offsets stay unique in a file, also when directory
\* entries may be lost (wal.rs:23-179).
THEOREM TypeCorrect == Spec => []TypeOK
<1>1. Spec => []FileInv
  BY InitFileInv, StepFileInv, PTL DEF Spec
<1>2. FileInv => TypeOK
  BY DEF FileInv
<1> QED
  BY <1>1, <1>2, PTL

\* If new directory entries reach the disk before the log is used, an acknowledged record
\* is on the disk until a compaction gives it up, at every point of a compaction and
\* through every kill and power loss (wal.rs:67-68, 111-178).
THEOREM AcknowledgedStays == ASSUME EntriesReachDisk PROVE Spec => []AckedDurable
<1>1. Init => WalInv
  BY InitWalInv
<1>2. WalInv /\ [Next]_vars => WalInv'
  BY StepHolds
<1>3. WalInv => AckedDurable
  BY DEF WalInv
<1> QED
  BY <1>1, <1>2, <1>3, PTL DEF Spec

\* Where the handle points does not depend on what has reached the disk: while calls run the
\* handle is on the named file, but between rename and reopen, and no file it is or will be
\* on has an incomplete record.
HandleInv ==
    /\ step \in {"idle", "written", "copy", "copied", "complete", "reopened"} =>
          handle = entry /\ entry # 0 /\ ~files[entry].torn
    /\ step \in {"copied", "complete"} => temp # 0 /\ ~files[temp].torn
    /\ step = "renamed" => entry # 0 /\ ~files[entry].torn

\* Every step keeps the handle on the log.
LEMMA StepHandle ==
  ASSUME TypeOK, HandleInv, [Next]_vars
  PROVE  HandleInv'
<1>1. /\ files \in [Inodes -> Files] /\ inodes \in 0 .. MaxInodes
      /\ entry \in 0 .. inodes /\ temp \in 0 .. inodes /\ handle \in 0 .. inodes
      /\ MaxInodes \in Nat
  BY WalAssumption DEF TypeOK
<1>2. \A i \in 1 .. inodes : i \in Inodes
  BY <1>1 DEF Inodes
<1>3. CASE Create \/ Kill \/ PowerLoss \/ CallFails \/ WriteFails
  BY <1>3 DEF Create, Kill, PowerLoss, Stops, CallFails, WriteFails, HandleInv, process
<1>4. CASE Open
  BY <1>4 DEF Open, disk, HandleInv
<1>5. ASSUME NEW s \in Seqs, Write(s) PROVE HandleInv'
  <2>1. /\ step = "idle" /\ step' = "written" /\ UNCHANGED <<entry, handle>>
        /\ entry \in Inodes /\ handle = entry /\ ~files[entry].torn
    BY <1>1, <1>2, <1>5 DEF Write, HandleInv
  <2>2. files'[entry].torn = files[entry].torn
    BY <1>1, <1>5, <2>1 DEF Write, File
  <2>3. QED
    BY <2>1, <2>2 DEF HandleInv
<1>6. CASE SyncData \/ Prune
  <2>1. /\ step \in {"written", "idle"} /\ step' \in {"idle", "copy"}
        /\ UNCHANGED <<entry, handle>> /\ files' = Synced(handle)
        /\ entry \in Inodes /\ handle = entry /\ ~files[entry].torn
    BY <1>1, <1>2, <1>6 DEF SyncData, Prune, HandleInv
  <2>2. files'[entry].torn = files[entry].torn
    BY <1>1, <2>1 DEF Synced, File
  <2>3. QED
    BY <2>1, <2>2 DEF HandleInv
<1>7. CASE Copy
  <2>1. /\ step = "copy" /\ step' = "copied" /\ UNCHANGED <<entry, handle>>
        /\ temp' = inodes + 1 /\ temp' \in Inodes /\ temp' # entry /\ temp' # 0
        /\ entry \in Inodes /\ handle = entry /\ ~files[entry].torn
    BY <1>1, <1>2, <1>7 DEF Copy, HandleInv, Inodes
  <2>2. files'[entry] = files[entry] /\ files'[temp'].torn = FALSE
    BY <1>1, <1>7, <2>1 DEF Copy, File
  <2>3. QED
    BY <2>1, <2>2 DEF HandleInv
<1>8. CASE SyncTemp
  <2>1. /\ step = "copied" /\ step' = "complete" /\ UNCHANGED <<entry, handle, temp>>
        /\ files' = Synced(temp) /\ temp \in Inodes /\ ~files[temp].torn
        /\ entry \in Inodes /\ handle = entry /\ ~files[entry].torn /\ temp # 0 /\ entry # 0
    BY <1>1, <1>2, <1>8 DEF SyncTemp, HandleInv
  <2>2. files'[entry].torn = files[entry].torn /\ files'[temp].torn = files[temp].torn
    BY <1>1, <2>1 DEF Synced, File
  <2>3. QED
    BY <2>1, <2>2 DEF HandleInv
<1>9. CASE Rename \/ Reopen \/ SyncDir
  BY <1>9 DEF Rename, Reopen, SyncDir, HandleInv, disk
<1>10. CASE WriteBack \/ UNCHANGED vars
  BY <1>10 DEF WriteBack, vars, disk, process, HandleInv
<1>11. QED
  BY <1>3, <1>4, <1>5, <1>6, <1>7, <1>8, <1>9, <1>10 DEF Next, Append, Compact

\* No record is written to an unlinked or damaged file, whether or not directory entries
\* have reached the disk (wal.rs:25-32, 154-163).
THEOREM HandleAlwaysLog == Spec => []HandleIsLog
<1>1. Init => HandleInv
  BY DEF Init, HandleInv
<1>2. TypeOK /\ HandleInv /\ [Next]_vars => HandleInv'
  BY StepHandle
<1>3. HandleInv => HandleIsLog
  BY DEF HandleInv, HandleIsLog
<1> QED
  BY <1>1, <1>2, <1>3, TypeCorrect, PTL DEF Spec

\* When directory entries reach the disk first, the file implements the abstract log: what is stable grows in
\* order and shrinks only to what was kept (wal.rs:44-178).
THEOREM RefinesDurableLog == ASSUME EntriesReachDisk PROVE Spec => ImplementsDurableLog
<1>1. Init => WalInv
  BY InitWalInv
<1>2. WalInv /\ [Next]_vars => WalInv'
  BY StepHolds
<1>3. Init => Log!Init
  BY DEF Init, Log!Init, Durable
<1>4. WalInv /\ [Next]_vars => [Log!Next]_<<Durable, acked, floor>>
  BY StepHolds
<1> QED
  BY <1>1, <1>2, <1>3, <1>4, PTL DEF Spec, ImplementsDurableLog, Log!Spec
=============================================================================
