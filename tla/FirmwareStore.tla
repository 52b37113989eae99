--------------------------- MODULE FirmwareStore ---------------------------
(***************************************************************************)
(* Firmware images: the object store holds the bytes, the database a row   *)
(* that names them, and no transaction spans both.  Uploads, deletions and *)
(* downloads are sequences of calls to the one and the other, each of      *)
(* which may fail, and any of which may be the last one that a process     *)
(* makes (backend-core/application/firmware.rs, the adapters' firmware.rs, *)
(* backend/domains/firmware).                                              *)
(*                                                                         *)
(* A download link names a row's id and outlives the row.  The adapters    *)
(* differ there: Turso hands out the ids of deleted rows again and refuses *)
(* to delete a row that was deployed, PostgreSQL deletes the deployments   *)
(* with the row and never repeats an id.                                   *)
(*                                                                         *)
(* Bytes are the key of the upload that wrote them; names, versions and    *)
(* hashes are left out.                                                    *)
(***************************************************************************)
EXTENDS Naturals

CONSTANTS
    MaxUploads,     \* bound: objects and rows ever made
    Backends,       \* object stores a process can be configured with
    Callers         \* requests in progress

ASSUME FirmwareStoreAssumption == MaxUploads \in Nat \ {0} /\ Backends # {}

VARIABLES
    adapter,    \* turso, postgres
    backend,    \* the object store of the configuration
    objects,    \* stored objects: a store and a key
    keys,       \* number of keys allocated so far
    images,     \* tables firmware_updates and firmware_blobs, by id
    lastId,     \* the sequence of PostgreSQL
    deployed,   \* ids that ota_deployments refers to
    links,      \* download links given to devices: an id and the image meant
    call,       \* the requests
    reported    \* history: keys whose upload was answered with success

storeVars ==
    <<adapter, backend, objects, keys, images, lastId, deployed, links, call, reported>>

Ids == 1 .. MaxUploads
NoRow == [key |-> 0, backend |-> "none"]
NoCall == [step |-> "none", id |-> 0, key |-> 0, backend |-> "none"]

Rows == {i \in Ids : images[i].key # 0}

StoreInit ==
    /\ adapter \in {"turso", "postgres"}
    /\ backend \in Backends
    /\ objects = {} /\ keys = 0
    /\ images = [i \in Ids |-> NoRow]
    /\ lastId = 0 /\ deployed = {} /\ links = {}
    /\ call = [q \in Callers |-> NoCall]
    /\ reported = {}

Becomes(q, step) == call' = [call EXCEPT ![q].step = step]
Ends(q) == call' = [call EXCEPT ![q] = NoCall]

-----------------------------------------------------------------------------
(* Upload: the object first, then the row, then, if that failed, one       *)
(* attempt to take the object back.                                        *)

\* allocate_key makes a new UUID; put may store the object and still fail.
Put(q) ==
    /\ call[q] = NoCall /\ keys < MaxUploads
    /\ keys' = keys + 1
    /\ \E stored, ok \in BOOLEAN :
         /\ ok => stored
         /\ objects' = objects \cup IF stored THEN {<<backend, keys + 1>>} ELSE {}
         /\ call' = [call EXCEPT ![q] =
                       IF ok THEN [step |-> "stored", id |-> 0, key |-> keys + 1, backend |-> backend]
                       ELSE NoCall]
    /\ UNCHANGED <<adapter, backend, images, lastId, deployed, links, reported>>

\* The id of a new row: the next of a sequence, or, for an INTEGER PRIMARY
\* KEY, one more than the largest in the table.
IsNewId(i) ==
    /\ adapter = "postgres" => i = lastId + 1
    /\ adapter = "turso" => i - 1 \in Rows \cup {0} /\ \A j \in Rows : j < i

\* create, one transaction for both tables.
Inserts(q) ==
    \E i \in Ids :
        /\ IsNewId(i)
        /\ images' = [images EXCEPT ![i] = [key |-> call[q].key, backend |-> call[q].backend]]
        /\ lastId' = i

CreateRow(q) ==
    /\ call[q].step = "stored"
    /\ Inserts(q)
    /\ reported' = reported \cup {call[q].key}
    /\ Ends(q)
    /\ UNCHANGED <<adapter, backend, objects, keys, deployed, links>>

\* The revision is gone, the version exists, or the database fails; over a
\* network the commit may succeed and its answer be lost.
CreateFails(q) ==
    /\ call[q].step = "stored"
    /\ \/ UNCHANGED <<images, lastId>>
       \/ adapter = "postgres" /\ Inserts(q)
    /\ Becomes(q, "unwanted")
    /\ UNCHANGED <<adapter, backend, objects, keys, deployed, links, reported>>

\* One attempt to delete the object a call holds, of upload or deletion.
Removal(q) ==
    /\ objects' \in {objects, objects \ {<<call[q].backend, call[q].key>>}}
    /\ Ends(q)
    /\ UNCHANGED <<adapter, backend, keys, images, lastId, deployed, links, reported>>

Compensate(q) == call[q].step = "unwanted" /\ Removal(q)

-----------------------------------------------------------------------------
(* Deletion: the row first, then the object, if its store is configured.   *)

\* Mutant: the object goes before the transaction that may yet be refused.
DeleteObjectAndRow(q, i) ==
    /\ call[q] = NoCall /\ i \in Rows
    /\ objects' = objects \ {<<images[i].backend, images[i].key>>}
    /\ images' = IF adapter = "turso" /\ i \in deployed THEN images
                 ELSE [images EXCEPT ![i] = NoRow]
    /\ deployed' = IF adapter = "turso" THEN deployed ELSE deployed \ {i}
    /\ UNCHANGED <<adapter, backend, keys, lastId, links, call, reported>>

\* Mutant: the deployments of the row go with it in either adapter.
DeleteCascading(q, i) ==
    /\ call[q] = NoCall /\ i \in Rows
    /\ images' = [images EXCEPT ![i] = NoRow]
    /\ deployed' = deployed \ {i}
    /\ UNCHANGED <<adapter, backend, objects, keys, lastId, links, call, reported>>

\* Without a cascade the foreign key of ota_deployments refuses.
DeleteRow(q, i) ==
    /\ call[q] = NoCall /\ i \in Rows
    /\ adapter = "turso" => i \notin deployed
    /\ images' = [images EXCEPT ![i] = NoRow]
    /\ deployed' = deployed \ {i}
    /\ call' = [call EXCEPT ![q] =
                  IF images[i].backend = backend
                  THEN [step |-> "deleted", id |-> i, key |-> images[i].key, backend |-> backend]
                  ELSE NoCall]
    /\ UNCHANGED <<adapter, backend, objects, keys, lastId, links, reported>>

DeleteObject(q) == call[q].step = "deleted" /\ Removal(q)

-----------------------------------------------------------------------------
(* Deployment and download. *)

\* trigger_ota: deployment and link in one transaction.
Deploy(i) ==
    /\ i \in Rows
    /\ deployed' = deployed \cup {i}
    /\ links' = links \cup {[id |-> i, key |-> images[i].key]}
    /\ UNCHANGED <<adapter, backend, objects, keys, images, lastId, call, reported>>

\* download_granted: get_blob, and the check of the configured store.
ReadRow(q, l) ==
    /\ call[q] = NoCall
    /\ l.id \in Rows /\ images[l.id].backend = backend
    /\ call' = [call EXCEPT ![q] = [step |-> "found", id |-> l.id, key |-> images[l.id].key,
                                    backend |-> backend]]
    /\ UNCHANGED <<adapter, backend, objects, keys, images, lastId, deployed, links, reported>>

\* get: the object's bytes, or an error when it is gone.
ReadObject(q) ==
    /\ call[q].step = "found"
    /\ IF <<call[q].backend, call[q].key>> \in objects THEN Becomes(q, "served") ELSE Ends(q)
    /\ UNCHANGED <<adapter, backend, objects, keys, images, lastId, deployed, links, reported>>

\* The answer is written, or the client is gone: no step of a call follows
\* another for certain.
Dies(q) ==
    /\ call[q] # NoCall
    /\ Ends(q)
    /\ UNCHANGED <<adapter, backend, objects, keys, images, lastId, deployed, links, reported>>

\* The process restarts with another object store.
Restart ==
    /\ \E b \in Backends \ {backend} : backend' = b
    /\ call' = [q \in Callers |-> NoCall]
    /\ UNCHANGED <<adapter, objects, keys, images, lastId, deployed, links, reported>>

-----------------------------------------------------------------------------
StoreNext ==
    \/ \E q \in Callers : \/ Put(q) \/ CreateRow(q) \/ CreateFails(q) \/ Compensate(q)
                          \/ DeleteObject(q) \/ ReadObject(q) \/ Dies(q)
                          \/ \E i \in Ids : DeleteRow(q, i)
                          \/ \E l \in links : ReadRow(q, l)
    \/ \E i \in Ids : Deploy(i)
    \/ Restart

StoreSpec == StoreInit /\ [][StoreNext]_storeVars

-----------------------------------------------------------------------------
\* An image whose upload was answered with success keeps its bytes for as long
\* as it is listed, whatever fails on the way; objects nobody refers to may
\* stay behind (upload, delete_stored).
ReportedIsStored ==
    \A i \in Rows : images[i].key \in reported => <<images[i].backend, images[i].key>> \in objects

\* A link that a device received serves the image it was made for or nothing,
\* though the ids of deleted images are given out again (download_granted).
LinkServesItsImage ==
    \A l \in links, q \in Callers :
        call[q].step = "served" /\ call[q].id = l.id => call[q].key = l.key

=============================================================================
