----------------------------- MODULE DataStores -----------------------------
(* What is stored whole: documents and objects.                             *)
EXTENDS Naturals

(* The repositories that write whole documents: DynamoDBRepository,          *)
(* CassandraRepository, MongoRepository, ElasticsearchRepository and         *)
(* OpenSearchRepository.  None of them checks a version; a document is       *)
(* modelled by the set of the edits it contains.                             *)

CONSTANTS
    Ids, Writers,
    Missing,   \* the None of the code
    MaxEdits   \* how many edits are made

VARIABLES
    engine,     \* which repository; never changes
    table,      \* per id: the stored document or Missing
    visible,    \* what a search sees: Elasticsearch and OpenSearch refresh later
    copy,       \* per writer: <<id, document it has read>> or Missing
    edits,      \* history: edits made so far, per id
    overlapped, \* history: edits that a save did not know of
    deleted     \* history: edits that went with a deleted document

doc_vars == <<engine, table, visible, copy, edits, overlapped, deleted>>

Engines == {"dynamodb", "cassandra", "mongodb", "elasticsearch", "opensearch"}
SearchEngines == {"elasticsearch", "opensearch"}
Edits == 1..MaxEdits
Documents == SUBSET Edits

ASSUME DocumentsAssumption == MaxEdits \in Nat /\ \A d \in Documents : d # Missing

Made == UNION {edits[i] : i \in Ids}

DocTypeOK ==
    /\ engine \in Engines
    /\ table \in [Ids -> Documents \cup {Missing}] /\ visible \in [Ids -> Documents \cup {Missing}]
    /\ copy \in [Writers -> (Ids \X Documents) \cup {Missing}]
    /\ edits \in [Ids -> Documents] /\ overlapped \subseteq Edits /\ deleted \subseteq Edits

DocInit ==
    /\ engine \in Engines
    /\ table = [i \in Ids |-> Missing] /\ visible = table
    /\ copy = [w \in Writers |-> Missing]
    /\ edits = [i \in Ids |-> {}] /\ overlapped = {} /\ deleted = {}

(* Plausible slips in the definitions below, used to test the properties. *)
Stored_alone(w, e) == {e}
refresh_of_new ==
    /\ \E i \in Ids : visible[i] = Missing /\ table[i] # Missing /\ visible' = [visible EXCEPT ![i] = table[i]]
    /\ UNCHANGED <<engine, table, copy, edits, overlapped, deleted>>

(* get, get_or_raise, find_by_id: reads go to the stored document; a new   *)
(* one is made when there is none.                                         *)
get(w, i) ==
    /\ copy[w] = Missing
    /\ copy' = [copy EXCEPT ![w] = <<i, IF table[i] = Missing THEN {} ELSE table[i]>>]
    /\ UNCHANGED <<engine, table, visible, edits, overlapped, deleted>>

(* What is written: the whole document, as the writer has it. *)
Stored(w, e) == copy[w][2] \cup {e}

Save(w) ==
    /\ copy[w] # Missing /\ Made # Edits
    /\ LET i == copy[w][1]
           e == CHOOSE new \in Edits : new \notin Made
           before == IF table[i] = Missing THEN {} ELSE table[i]
       IN /\ table' = [table EXCEPT ![i] = Stored(w, e)]
          /\ visible' = [visible EXCEPT ![i] = IF engine \in SearchEngines THEN @ ELSE Stored(w, e)]
          /\ edits' = [edits EXCEPT ![i] = @ \cup {e}]
          /\ overlapped' = overlapped \cup (before \ copy[w][2])
    /\ copy' = [copy EXCEPT ![w] = Missing]
    /\ UNCHANGED <<engine, deleted>>

(* put_item; an INSERT, which Cassandra takes as an upsert; replace_one    *)
(* with upsert=True; the index call.                                       *)
put_dynamodb(w) == engine = "dynamodb" /\ Save(w)
save_cassandra(w) == engine = "cassandra" /\ Save(w)
save_mongodb(w) == engine = "mongodb" /\ Save(w)
save_elasticsearch(w) == engine = "elasticsearch" /\ Save(w)
save_opensearch(w) == engine = "opensearch" /\ Save(w)

(* delete; a document that is not there is no error. *)
delete(i) ==
    /\ table[i] # Missing
    /\ deleted' = deleted \cup table[i]
    /\ table' = [table EXCEPT ![i] = Missing]
    /\ visible' = IF engine \in SearchEngines THEN visible ELSE [visible EXCEPT ![i] = Missing]
    /\ UNCHANGED <<engine, copy, edits, overlapped>>

(* The engine refreshes its index, a document at a time. *)
refresh ==
    /\ \E i \in Ids : visible[i] # table[i] /\ visible' = [visible EXCEPT ![i] = table[i]]
    /\ UNCHANGED <<engine, table, copy, edits, overlapped, deleted>>

DocNext ==
    \/ \E w \in Writers : put_dynamodb(w) \/ save_cassandra(w) \/ save_mongodb(w)
                            \/ save_elasticsearch(w) \/ save_opensearch(w)
    \/ \E w \in Writers, i \in Ids : get(w, i)
    \/ \E i \in Ids : delete(i)
    \/ refresh
DocSpec == DocInit /\ [][DocNext]_doc_vars

-----------------------------------------------------------------------------
(* A lost update takes an overlap: an edit that was saved is in the stored *)
(* document unless the document was deleted since, or a writer that had    *)
(* read it before that edit saved after it.                                *)
LostOnlyByOverlap ==
    \A i \in Ids : \A e \in edits[i] \ (overlapped \cup deleted) : table[i] # Missing /\ e \in table[i]

(* What was saved last can be searched for in the end. *)
SearchCatchesUp == \A i \in Ids : visible[i] # table[i] ~> visible[i] = table[i]

-----------------------------------------------------------------------------
(* InMemoryObjectStore, S3ObjectStore, GCSObjectStore, AzureBlobObjectStore  *)
(* and FileUploadService with its FileValidator on top of any of them.       *)
(* Content is modelled by the upload it came with.                           *)

CONSTANTS
    Uploads, Keys,
    max_size   \* FileValidator.max_size_bytes; sizes are 1..max_size + 1

VARIABLES
    medium,     \* "memory", "s3", "gcs" or "azure"; never changes
    file,       \* per upload: its key, declared and real size, streamed or not; Missing before
    upload_at,  \* per upload: "new", "read", "put", "done", "rejected", "failed"
    blobs,      \* per key: the upload whose bytes are stored, or Missing
    uploaded,   \* FileUploadService.events: <<upload, url is known>>
    erased      \* history: uploads whose blob was deleted or overwritten

object_vars == <<medium, file, upload_at, blobs, uploaded, erased>>

Media == {"memory", "s3", "gcs", "azure"}
Sizes == 1..(max_size + 1)
Files == [key : Keys, size_bytes : Sizes, real : Sizes, streamed : BOOLEAN]

ASSUME ObjectsAssumption == max_size \in Nat /\ Missing \notin Uploads

ObjectTypeOK ==
    /\ medium \in Media /\ file \in [Uploads -> Files \cup {Missing}]
    /\ upload_at \in [Uploads -> {"new", "read", "put", "done", "rejected", "failed"}]
    /\ blobs \in [Keys -> Uploads \cup {Missing}] /\ uploaded \subseteq Uploads \X BOOLEAN
    /\ erased \subseteq Uploads

ObjectInit ==
    /\ medium \in Media /\ file = [u \in Uploads |-> Missing]
    /\ upload_at = [u \in Uploads |-> "new"] /\ blobs = [k \in Keys |-> Missing]
    /\ uploaded = {} /\ erased = {}

MovesTo(u, pc) == upload_at' = [upload_at EXCEPT ![u] = pc]

(* Plausible slips in the definitions below, used to test the properties. *)
validate_not(f) == TRUE
NotThere_on_errors(error) == TRUE
read_or_wait(u) ==
    /\ upload_at[u] = "read" /\ file[u].real <= max_size /\ MovesTo(u, "put")
    /\ UNCHANGED <<medium, file, blobs, uploaded, erased>>
Put_event_first(u) ==
    /\ upload_at[u] = "put" /\ MovesTo(u, "failed")
    /\ uploaded' = uploaded \cup {<<u, medium = "memory">>}
    /\ UNCHANGED <<medium, file, blobs, erased>>

(* FileValidator: what is declared counts (UploadedFile.from_bytes         *)
(* declares the length of its bytes, a stream what its caller says).       *)
validate(f) == f.size_bytes <= max_size

upload(u, f) ==
    /\ upload_at[u] = "new" /\ (f.streamed \/ f.size_bytes = f.real)
    /\ file' = [file EXCEPT ![u] = f]
    /\ MovesTo(u, IF ~validate(f) THEN "rejected" ELSE IF f.streamed THEN "read" ELSE "put")
    /\ UNCHANGED <<medium, blobs, uploaded, erased>>

(* A stream is read to its end before anything is stored, or breaks off. *)
read(u) ==
    /\ upload_at[u] = "read" /\ (MovesTo(u, "put") \/ MovesTo(u, "failed"))
    /\ UNCHANGED <<medium, file, blobs, uploaded, erased>>

Replace(k, v) ==
    /\ blobs' = [blobs EXCEPT ![k] = v]
    /\ erased' = erased \cup (({blobs[k]} \ {Missing}) \ {v})

(* put of a medium: it stores all or nothing; a call to a service may fail *)
(* either way.  Only the in-memory store of application/files returns a    *)
(* URL, the other three return None.                                       *)
Put(u) ==
    /\ upload_at[u] = "put"
    /\ \/ /\ Replace(file[u].key, u) /\ MovesTo(u, "done")
          /\ uploaded' = uploaded \cup {<<u, medium = "memory">>}
       \/ medium # "memory" /\ Replace(file[u].key, u) /\ MovesTo(u, "failed") /\ UNCHANGED uploaded
       \/ medium # "memory" /\ MovesTo(u, "failed") /\ UNCHANGED <<blobs, erased, uploaded>>
    /\ UNCHANGED <<medium, file>>
put_memory(u) == medium = "memory" /\ Put(u)
put_s3(u) == medium = "s3" /\ Put(u)
put_gcs(u) == medium = "gcs" /\ Put(u)
put_azure(u) == medium = "azure" /\ Put(u)

(* delete; a missing key is no error. *)
delete_object(k) ==
    /\ blobs[k] # Missing /\ Replace(k, Missing)
    /\ UNCHANGED <<medium, file, upload_at, uploaded>>

(* The service answers, or a call fails for another reason.  get() tells   *)
(* the two apart by the name or the text of the exception.                 *)
NotThere(error) == error = "no such key"
Errors(k) ==
    (IF blobs[k] = Missing THEN {"no such key"} ELSE {"none"}) \cup (IF medium = "memory" THEN {} ELSE {"other"})
get_object(k, error) == IF error = "none" THEN "data" ELSE IF NotThere(error) THEN "KeyError" ELSE "raised"

(* exists, of the in-memory and the S3 store: any error at all is a no. *)
exists(k, error) == error = "none"

Step(u) == read(u) \/ put_memory(u) \/ put_s3(u) \/ put_gcs(u) \/ put_azure(u)
ObjectNext ==
    \/ \E u \in Uploads : Step(u) \/ \E f \in Files : upload(u, f)
    \/ \E k \in Keys : delete_object(k)
ObjectSpec == ObjectInit /\ [][ObjectNext]_object_vars

-----------------------------------------------------------------------------
(* An upload that has its event is stored under its key, until somebody    *)
(* deletes or overwrites it: the event is not appended before the store    *)
(* has answered.                                                           *)
UploadedMeansStored ==
    \A u \in Uploads \ erased : (\E known \in BOOLEAN : <<u, known>> \in uploaded) => blobs[file[u].key] = u

(* Bytes over the limit are only stored when a stream was declared         *)
(* smaller than it is: its real size is never looked at.                   *)
OversizedOnlyIfMisdeclared ==
    \A k \in Keys : blobs[k] # Missing /\ file[blobs[k]].real > max_size =>
        file[blobs[k]].streamed /\ file[blobs[k]].size_bytes < file[blobs[k]].real

(* KeyError means that there was no such object, and exists() never says   *)
(* yes of a missing one (on S3 it says no whenever the call fails).        *)
AbsentMeansAbsent ==
    \A k \in Keys : \A error \in Errors(k) :
        /\ get_object(k, error) = "KeyError" => blobs[k] = Missing
        /\ exists(k, error) => blobs[k] # Missing
        /\ medium = "memory" => (exists(k, error) <=> blobs[k] # Missing)

(* Every upload ends: done, rejected or failed. *)
UploadsEnd == \A u \in Uploads : upload_at[u] \in {"read", "put"} ~> upload_at[u] \in {"done", "failed"}

-----------------------------------------------------------------------------
StoresTypeOK == DocTypeOK /\ ObjectTypeOK

(* An edit is lost only to a save that overlapped it; what is reported as   *)
(* uploaded is stored until erased, within the size its declaration         *)
(* allowed; and what a store calls absent is.                               *)
StoredIsKept ==
    /\ StoresTypeOK /\ LostOnlyByOverlap /\ UploadedMeansStored
    /\ OversizedOnlyIfMisdeclared /\ AbsentMeansAbsent
=============================================================================
