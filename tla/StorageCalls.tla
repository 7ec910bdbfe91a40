---------------------------- MODULE StorageCalls ----------------------------
(***************************************************************************)
(* The operations of storage_impl.cpp: what they answer and which memory   *)
(* they hold.  The references they keep alive are the module InFlight's.   *)
(***************************************************************************)
EXTENDS Boundary

Storage(op, refuses, results, answer, handler) ==
  Async("storage", refuses, op, results, answer, handler, SaysCode)

NoPath   == <<"path", -2>>
NoMemory == <<"memory", -3>>

fdb_storage_use_emulator == UseEmulator("storage")

\* A failure is the three parts, a success the payload.
PostMetadataResult ==
  [f \in Futures |->
     CASE f.error # 0 -> fdb_post_outcome(FALSE, f.error, Message(f))
       [] f.error = 0 /\ f.result = "big" ->
            fdb_post_outcome(FALSE, -2, "cannot be encoded")
       [] OTHER -> fdb_post_buffer(1, f.result)]
fdb_storage_metadata ==
  Storage("GetMetadata", <<NoPath>>, {"v", "big"}, PostMetadataResult, "AwaitBuffer")

\* The caller's bytes are copied, and the completion frees the copy.
fdb_storage_put ==
  [Storage("PutBytes", <<NoPath, NoMemory>>, {"v", "big"}, PostMetadataResult,
           "AwaitBuffer") EXCEPT !.buffer = "copy"]

\* The download lands in the buffer that is posted, which a failure frees.
Download ==
  [f \in Futures |-> IF f.error # 0
                     THEN fdb_post_outcome(FALSE, f.error, Message(f))
                     ELSE fdb_post_buffer(1, f.result)]
fdb_storage_get ==
  [Storage("GetBytes", <<NoPath, NoMemory>>, {"v"}, Download, "AwaitBuffer")
     EXCEPT !.buffer = "posted"]

fdb_storage_delete ==
  Storage("Delete", <<NoPath>>, {"done"}, Outcome, "AwaitOutcome")

DownloadUrl ==
  [f \in Futures |-> IF f.error # 0
                     THEN fdb_post_outcome(FALSE, f.error, Message(f))
                     ELSE fdb_post_outcome(TRUE, 0, f.result)]
fdb_storage_download_url ==
  Storage("GetDownloadUrl", <<NoPath>>, {"v"}, DownloadUrl, "AwaitText")

StorageFunctions ==
  [fdb_storage_use_emulator |-> fdb_storage_use_emulator,
   fdb_storage_metadata |-> fdb_storage_metadata,
   fdb_storage_put |-> fdb_storage_put, fdb_storage_get |-> fdb_storage_get,
   fdb_storage_delete |-> fdb_storage_delete,
   fdb_storage_download_url |-> fdb_storage_download_url]
=============================================================================
