------------------------------ MODULE WalFile ------------------------------
(***************************************************************************)
(* The file behind rust_engine/src/wal.rs, system call by system call: the *)
(* page cache and the disk, the directory entry of the log, the open       *)
(* handle, and the steps of append_entry and prune_before.  The process    *)
(* may be killed and the machine may lose power between any two of them.   *)
(*                                                                         *)
(* The user is PbftState: it appends under a lock, compacts at the         *)
(* sequence of the record it has just appended, and stops for good at the  *)
(* first error (wal_failed) until the process is started again.            *)
(*                                                                         *)
(* A power loss keeps what was synced, and of the rest a prefix, the last  *)
(* record of which may be incomplete.  A partial copy at temp_path is      *)
(* truncated by the next prune_before, so that each copy is a new inode.   *)
(***************************************************************************)
EXTENDS Naturals

CONSTANTS
    Seqs,            \* sequence numbers of records
    MaxAppends,      \* bound: records ever written
    MaxInodes,       \* bound: files ever created
    MaxCrashes,      \* bound: kills and power losses
    EntriesReachDisk \* TRUE: a new directory entry reaches the disk before the log is opened

ASSUME WalAssumption ==
    /\ Seqs \subseteq Nat \ {0}
    /\ MaxAppends \in Nat /\ MaxInodes \in Nat /\ MaxCrashes \in Nat
    /\ EntriesReachDisk \in BOOLEAN

Inodes  == 1 .. MaxInodes
Records == [at : Nat, seq : Seqs]

VARIABLES
    files,      \* per inode: records in the cache, those synced, and an incomplete last one
    inodes,     \* inodes created so far
    entry,      \* inode the path of the log names, 0 when there is none
    diskEntry,  \* the same on the disk
    handle,     \* inode open as self.file, 0 when no process runs
    temp,       \* inode at temp_path
    step,       \* where append_entry or prune_before is
    appended,   \* records written so far
    record,     \* record of the last append_entry, or {}
    acked,      \* records whose append_entry returned Ok
    floor,      \* min_seq of the last prune_before
    crashes     \* kills and power losses so far

disk    == <<files, inodes, entry, diskEntry>>
process == <<handle, temp, step, record>>
history == <<appended, acked, floor, crashes>>
vars    == <<disk, process, history>>

\* A file: its records in the cache, those on the disk, and whether the last is incomplete.
File(recs, synced, torn) == [recs |-> recs, synced |-> synced, torn |-> torn]

Empty == File({}, {}, FALSE)

\* sync_data and sync_all on inode i.
Synced(i) == [files EXCEPT ![i] = File(@.recs, @.recs, @.torn)]

-----------------------------------------------------------------------------
(* open *)

\* The log does not exist yet: open creates it.
Create ==
    /\ step = "down" /\ entry = 0 /\ inodes < MaxInodes
    /\ inodes' = inodes + 1 /\ entry' = inodes'
    /\ UNCHANGED <<files, diskEntry, process, history>>

\* open and replay_log, which refuses an incomplete last record.
Open ==
    /\ step = "down" /\ entry # 0
    /\ EntriesReachDisk => diskEntry = entry
    /\ handle' = entry
    /\ step' = IF files[entry].torn THEN "refused" ELSE "idle"
    /\ UNCHANGED <<disk, temp, record, history>>

-----------------------------------------------------------------------------
(* append_entry *)

\* Mutant: the offset does not advance.
WriteInPlace(s) ==
    LET r == [at |-> appended, seq |-> s]
    IN  /\ step = "idle" /\ appended < MaxAppends
        /\ files' = [files EXCEPT ![handle] = File(@.recs \cup {r}, @.synced, @.torn)]
        /\ record' = {r} /\ step' = "written"
        /\ UNCHANGED <<inodes, entry, diskEntry, handle, temp, history>>

\* write_all
Write(s) ==
    LET r == [at |-> appended + 1, seq |-> s]
    IN  /\ step = "idle" /\ appended < MaxAppends
        /\ files' = [files EXCEPT ![handle] = File(@.recs \cup {r}, @.synced, @.torn)]
        /\ appended' = appended + 1
        /\ record' = {r} /\ step' = "written"
        /\ UNCHANGED <<inodes, entry, diskEntry, handle, temp, acked, floor, crashes>>

\* Mutant: append_entry returns without syncing.
ReturnUnsynced ==
    /\ step = "written"
    /\ acked' = acked \cup record
    /\ step' = "idle"
    /\ UNCHANGED <<disk, handle, temp, record, appended, floor, crashes>>

\* sync_data, and append_entry returns Ok.
SyncData ==
    /\ step = "written"
    /\ files' = Synced(handle)
    /\ acked' = acked \cup record
    /\ step' = "idle"
    /\ UNCHANGED <<inodes, entry, diskEntry, handle, temp, record, appended, floor, crashes>>

\* write_all fails after some bytes.
WriteFails ==
    /\ step = "idle" /\ appended < MaxAppends
    /\ files' = [files EXCEPT ![handle] = File(@.recs, @.synced, TRUE)]
    /\ step' = "failed"
    /\ UNCHANGED <<inodes, entry, diskEntry, handle, temp, record, history>>

-----------------------------------------------------------------------------
(* prune_before *)

\* The user compacts at the record it has just appended; sync_data comes first.
Prune ==
    /\ step = "idle"
    /\ \E r \in record : r.seq > floor /\ floor' = r.seq
    /\ files' = Synced(handle)
    /\ step' = "copy"
    /\ UNCHANGED <<inodes, entry, diskEntry, handle, temp, record, appended, acked, crashes>>

\* The records at min_seq and above go to a new file.
Copy ==
    /\ step = "copy" /\ inodes < MaxInodes
    /\ inodes' = inodes + 1 /\ temp' = inodes'
    /\ files' = [files EXCEPT ![temp'] =
                    File({r \in files[entry].recs : r.seq >= floor}, {}, FALSE)]
    /\ step' = "copied"
    /\ UNCHANGED <<entry, diskEntry, handle, record, history>>

\* Mutant: the copy is not synced.
SkipSyncTemp ==
    /\ step = "copied" /\ step' = "complete"
    /\ UNCHANGED <<disk, handle, temp, record, history>>

\* sync_all on the copy
SyncTemp ==
    /\ step = "copied"
    /\ files' = Synced(temp)
    /\ step' = "complete"
    /\ UNCHANGED <<inodes, entry, diskEntry, handle, temp, record, history>>

Rename ==
    /\ step = "complete"
    /\ entry' = temp /\ step' = "renamed"
    /\ UNCHANGED <<files, inodes, diskEntry, handle, temp, record, history>>

\* Mutant: self.file is left as it was.
KeepHandle ==
    /\ step = "renamed" /\ step' = "reopened"
    /\ UNCHANGED <<disk, handle, temp, record, history>>

\* self.file is the replacement from here on.
Reopen ==
    /\ step = "renamed"
    /\ handle' = entry /\ step' = "reopened"
    /\ UNCHANGED <<disk, temp, record, history>>

\* sync_all on the parent directory
SyncDir ==
    /\ step = "reopened"
    /\ diskEntry' = entry /\ step' = "idle"
    /\ UNCHANGED <<files, inodes, entry, handle, temp, record, history>>

\* Any call of append_entry or prune_before may return an error.
CallFails ==
    /\ step \in {"idle", "written", "copy", "copied", "complete", "renamed", "reopened"}
    /\ step' = "failed"
    /\ UNCHANGED <<disk, handle, temp, record, history>>

-----------------------------------------------------------------------------
(* The machine *)

\* The kernel writes the directory entry back on its own.
WriteBack ==
    /\ diskEntry # entry /\ diskEntry' = entry
    /\ UNCHANGED <<files, inodes, entry, process, history>>

Stops ==
    /\ crashes < MaxCrashes /\ crashes' = crashes + 1
    /\ step' = "down" /\ handle' = 0 /\ temp' = 0 /\ record' = {}
    /\ UNCHANGED <<inodes, appended, acked, floor>>

\* The process dies, the cache stays.
Kill ==
    /\ step # "down" /\ Stops
    /\ UNCHANGED <<files, entry, diskEntry>>

\* What is left of file f when the unsynced records after offset cut are lost.
Remains(f, cut, part) ==
    LET kept == f.synced \cup {r \in f.recs : r.at <= cut}
    IN  File(kept, kept, part /\ (f.torn \/ kept # f.recs))

PowerLoss ==
    /\ Stops
    /\ diskEntry' \in {diskEntry, entry} /\ entry' = diskEntry'
    /\ \E cut \in 0 .. appended, part \in BOOLEAN :
          files' = [i \in Inodes |-> Remains(files[i], cut, part)]

-----------------------------------------------------------------------------
(* The log file *)

Init ==
    /\ files = [i \in Inodes |-> Empty]
    /\ inodes = 0 /\ entry = 0 /\ diskEntry = 0
    /\ handle = 0 /\ temp = 0 /\ step = "down" /\ record = {}
    /\ appended = 0 /\ acked = {} /\ floor = 0 /\ crashes = 0

Append == (\E s \in Seqs : Write(s)) \/ SyncData \/ WriteFails

Compact == Prune \/ Copy \/ SyncTemp \/ Rename \/ Reopen \/ SyncDir

Next == Create \/ Open \/ Append \/ Compact \/ CallFails \/ WriteBack \/ Kill \/ PowerLoss

Spec == Init /\ [][Next]_vars

-----------------------------------------------------------------------------
(* Properties *)

Steps == {"down", "refused", "failed", "idle", "written", "copy", "copied", "complete",
          "renamed", "reopened"}

Files == [recs : SUBSET Records, synced : SUBSET Records, torn : BOOLEAN]

\* Every variable has its type, and offsets identify the records of a file.
TypeOK ==
    /\ files \in [Inodes -> Files]
    /\ inodes \in 0 .. MaxInodes
    /\ entry \in 0 .. inodes /\ diskEntry \in 0 .. inodes
    /\ handle \in 0 .. inodes /\ temp \in 0 .. inodes
    /\ step \in Steps
    /\ appended \in Nat /\ floor \in Nat /\ crashes \in Nat
    /\ record \subseteq Records /\ acked \subseteq Records
    /\ \A i \in Inodes : \A r, q \in files[i].recs : r.at = q.at => r = q

\* The records that survive a power loss, whatever is in flight.
Durable == IF diskEntry = 0 THEN {} ELSE files[diskEntry].synced

\* An acknowledged record that no compaction gave up is on the disk under the path of the
\* log at every moment, also between the calls of a compaction (wal.rs:67-68, 111-178;
\* docs/PBFT_DURABILITY_FLOW.md:41-43; THREAT_MODEL.md:37).
AckedDurable == \A r \in acked : r.seq >= floor => r \in Durable

\* While the log takes records, the handle is open on the file its path names: none goes
\* to a file that a rename has unlinked, even if a compaction failed after the rename
\* (wal.rs:154-163).
HandleIsLog == step \in {"idle", "written"} => handle = entry /\ ~files[handle].torn

\* The file implements a durable log: records become stable in order, are acknowledged only
\* then, and leave only below what was given up, all at once (wal.rs:44-178).
Log == INSTANCE DurableLog WITH stable <- Durable

ImplementsDurableLog == Log!Spec

-----------------------------------------------------------------------------
(* A statement of the repository the code does not keep *)

\* THREAT_MODEL.md:37: state mutations are durably flushed to disk before the engine
\* processes them.  No directory sync follows the creation of the log (wal.rs:25-32), and
\* none follows a restart after a kill between rename and directory sync (wal.rs:154-175).
FlushedBeforeAck == AckedDurable
=============================================================================
