---------------------------- MODULE IngestStore ----------------------------
(***************************************************************************)
(* The ingest store (modules/docqa/ingest.py) and the /ingest and /chat    *)
(* endpoints that use it (core/gateway.py): files under _ingest/<id>/ on   *)
(* disk, and the records the process keeps of them in memory.              *)
(*                                                                         *)
(* The critical section of an upload has no await, so an upload is one     *)
(* step; but the disk may fail in the middle of it, and the process may be *)
(* killed there.  A file is its size in units; the size it was meant to    *)
(* have is kept beside it, which the code does not know.                   *)
(***************************************************************************)
EXTENDS Integers, FiniteSets, Functions

CONSTANTS
    UploadIds,      \* ids uuid4().hex can produce
    Sizes,          \* sizes of the bodies that clients post
    MaxFileBytes,   \* ingest_max_file_bytes
    MaxFiles,       \* ingest_max_files
    MaxTotalBytes   \* ingest_max_total_bytes

ASSUME CapsArePositive ==
    MaxFileBytes \in Nat \ {0} /\ MaxFiles \in Nat \ {0} /\ MaxTotalBytes \in Nat \ {0}
ASSUME SizesAreNat == Sizes \subseteq Nat

VARIABLES
    disk,       \* id -> [size, meant] of the one file of its directory
    records,    \* _records: id -> size, in the memory of the process
    acked,      \* ids that were returned to a client (history)
    failed      \* ids whose write failed or was cut off (history)

ingestVars == <<disk, records, acked, failed>>

Used == DOMAIN disk \cup failed

\* The id of the next upload.  Ids are only compared, so any unused one will do.
NextId == CHOOSE id \in UploadIds : id \notin Used
IdsLeft == UploadIds \ Used # {}

\* The bytes of the files, each of them by its file and its place there.
Bytes(sizeOf) == UNION {{id} \X (1 .. sizeOf[id]) : id \in DOMAIN sizeOf}
TotalBytes(sizeOf) == Cardinality(Bytes(sizeOf))

\* Mutant of Admits: the count is off by one.
AdmitsOneMore(size) ==
    /\ size <= MaxFileBytes
    /\ Cardinality(DOMAIN records) <= MaxFiles
    /\ TotalBytes(records) + size <= MaxTotalBytes

\* validate and check_admission
Admits(size) ==
    /\ size <= MaxFileBytes
    /\ Cardinality(DOMAIN records) + 1 <= MaxFiles
    /\ TotalBytes(records) + size <= MaxTotalBytes

Put(f, id, v) == [x \in DOMAIN f \cup {id} |-> IF x = id THEN v ELSE f[x]]

\* The file is written whole and registered, and its id goes to the client.
Upload(size) ==
    /\ IdsLeft /\ Admits(size)
    /\ disk' = Put(disk, NextId, [size |-> size, meant |-> size])
    /\ records' = Put(records, NextId, size)
    /\ acked' = acked \cup {NextId}
    /\ UNCHANGED failed

\* What a write that does not end well leaves: no file, or a part of one.
CutOff(size) ==
    /\ IdsLeft /\ Admits(size)
    /\ \/ UNCHANGED disk
       \/ \E part \in 0 .. size : disk' = Put(disk, NextId, [size |-> part, meant |-> size])
    /\ failed' = failed \cup {NextId}
    /\ UNCHANGED acked

\* mkdir or write_bytes raises OSError: a 500, no record, nothing undone.
UploadFails(size) == CutOff(size) /\ UNCHANGED records

\* The process is killed inside the critical section, or just after it.
KilledInUpload(size) == CutOff(size) /\ records' = <<>>
Killed == records' = <<>> /\ UNCHANGED <<disk, acked, failed>>

\* Mutant of Rebuild: the ids are not read back.
RebuildNothing == records' = <<>> /\ UNCHANGED <<disk, acked, failed>>

\* rebuild_from_disk: every id directory with one file, whatever its size.
Rebuild ==
    /\ records' = [id \in DOMAIN disk |-> disk[id].size]
    /\ UNCHANGED <<disk, acked, failed>>

IngestInit == disk = <<>> /\ records = <<>> /\ acked = {} /\ failed = {}

-----------------------------------------------------------------------------
\* Every record names a file that is there, with its size; a file without a
\* record comes from a write that failed since the process started.
RecordsMatchDisk ==
    /\ \A id \in DOMAIN records : id \in DOMAIN disk /\ records[id] = disk[id].size
    /\ \A id \in DOMAIN disk \ DOMAIN records : id \in failed

\* An id a client was given resolves to the whole file, after any restart.
AckedFilesAreWhole ==
    \A id \in acked : id \in DOMAIN records /\ disk[id].size = disk[id].meant

\* Only failed writes push the store over its caps (the rebuild checks no
\* cap): without the files they left, count and bytes are within them.
OnlyFailedWritesOverrun ==
    LET sound == Restrict(records, DOMAIN records \ failed) IN
    /\ Cardinality(DOMAIN sound) <= MaxFiles
    /\ TotalBytes(sound) <= MaxTotalBytes
=============================================================================
