----------------------------- MODULE StateStore -----------------------------
(***************************************************************************)
(* storage.py for one STATE_PATH, step by step: a local write fills a      *)
(* temporary file and renames it over the old one; S3 takes an object      *)
(* whole.  Several processes may be at it at once.                         *)
(***************************************************************************)
CONSTANTS
  Proc,   \* the processes that use the file
  Doc,    \* payloads
  NoDoc,  \* no file, no payload
  Torn    \* a file that was opened and holds part of a payload, or nothing

ASSUME StoreAssumption == NoDoc \notin Doc /\ Torn \notin Doc /\ NoDoc # Torn

VARIABLES
  backend,  \* "local" or "s3", by the shape of STATE_PATH
  file,     \* what stands at STATE_PATH
  temp,     \* a process's temporary file
  saving,   \* the payload a process is writing
  known     \* what a process read last

storeVars == <<backend, file, temp, saving, known>>

StoreInit ==
  /\ backend \in {"local", "s3"}
  /\ file \in Doc \cup {NoDoc}
  /\ temp = [p \in Proc |-> NoDoc]
  /\ saving = [p \in Proc |-> NoDoc]
  /\ known = [p \in Proc |-> NoDoc]

(* read: a file that is not there or cannot be read gives nothing. *)
ReadFile(p) ==
  /\ known' = [known EXCEPT ![p] = file]
  /\ UNCHANGED <<backend, file, temp, saving>>

Unreadable(p) ==
  /\ known' = [known EXCEPT ![p] = NoDoc]
  /\ UNCHANGED <<backend, file, temp, saving>>

(* A bug of that kind: the payload goes straight into the file. *)
OpenInPlace(p, doc) ==
  /\ saving[p] = NoDoc
  /\ saving' = [saving EXCEPT ![p] = doc]
  /\ temp' = [temp EXCEPT ![p] = IF backend = "local" THEN Torn ELSE NoDoc]
  /\ file' = IF backend = "local" THEN Torn ELSE file
  /\ UNCHANGED <<backend, known>>

(* write, up to mkstemp: a new file, empty, under a name of its own. *)
OpenTemp(p, doc) ==
  /\ saving[p] = NoDoc
  /\ saving' = [saving EXCEPT ![p] = doc]
  /\ temp' = [temp EXCEPT ![p] = IF backend = "local" THEN Torn ELSE NoDoc]
  /\ UNCHANGED <<backend, file, known>>

(* fh.write has returned and the file is closed. *)
FillTemp(p) ==
  /\ temp[p] = Torn
  /\ temp' = [temp EXCEPT ![p] = saving[p]]
  /\ UNCHANGED <<backend, file, saving, known>>

(* os.replace *)
Replace(p) ==
  /\ temp[p] \in Doc
  /\ file' = temp[p]
  /\ temp' = [temp EXCEPT ![p] = NoDoc]
  /\ saving' = [saving EXCEPT ![p] = NoDoc]
  /\ UNCHANGED <<backend, known>>

PutObject(p) ==
  /\ backend = "s3" /\ saving[p] # NoDoc
  /\ file' = saving[p]
  /\ saving' = [saving EXCEPT ![p] = NoDoc]
  /\ UNCHANGED <<backend, temp, known>>

(***************************************************************************)
(* An error of either backend, before anything was opened (mkdir, mkstemp) *)
(* or after; a temporary file is unlinked and the error raised.            *)
(***************************************************************************)
WriteFails(p) ==
  /\ saving[p] # NoDoc
  /\ saving' = [saving EXCEPT ![p] = NoDoc]
  /\ temp' = [temp EXCEPT ![p] = NoDoc]
  /\ UNCHANGED <<backend, file, known>>

(* The process is gone; a temporary file stays behind, which nobody reads. *)
Abandon(p) ==
  /\ saving' = [saving EXCEPT ![p] = NoDoc]
  /\ temp' = [temp EXCEPT ![p] = NoDoc]
  /\ known' = [known EXCEPT ![p] = NoDoc]
  /\ UNCHANGED <<backend, file>>

-----------------------------------------------------------------------------
StoreTypeOK ==
  /\ backend \in {"local", "s3"}
  /\ file \in Doc \cup {NoDoc}
  /\ temp \in [Proc -> Doc \cup {NoDoc, Torn}]
  /\ saving \in [Proc -> Doc \cup {NoDoc}]
  /\ known \in [Proc -> Doc \cup {NoDoc}]

(* A temporary file belongs to a write, and once filled has its payload whole. *)
StoreBooks ==
  \A p \in Proc : /\ temp[p] \in {NoDoc, Torn, saving[p]}
                  /\ temp[p] # NoDoc => backend = "local" /\ saving[p] # NoDoc

(***************************************************************************)
(* The comment in LocalStateStore.write: "Atomic replace so a crash        *)
(* mid-write cannot leave a truncated file".                               *)
(***************************************************************************)
Register == INSTANCE AtomicRegister WITH value <- file, asked <- saving, seen <- known
ImplementsRegister == Register!Spec
=============================================================================
