------------------------------- MODULE Registry -------------------------------
(* The registry of storages and clients, and the data plane as far as it      *)
(* depends on it: which storage row a request works from, and which provider  *)
(* client it gets for it.  Resource commands run under the identity lock of   *)
(* the management plane, the data plane never takes it; the two meet at the   *)
(* lock of a storage row.  Whether a caller may write is decided elsewhere:   *)
(* `authority' is an input, which Management substitutes.  The release and    *)
(* the prune of a file belong to the upload models and may come at any time.  *)
EXTENDS Naturals, FiniteSets

CONSTANTS
  Storages, Clients, Keys,
  Addresses,   \* endpoints, region, bucket and path style of a row
  Secrets,     \* access key and secret of a row
  Files,       \* bound: files at one time
  Callers,     \* tokens and console sessions
  Operators,   \* storage commands running at one time
  Workers,     \* data-plane requests and jobs running at one time
  None

VARIABLES
  authority,   \* callers that a transaction would now resolve and let write
  storage,     \* storages
  client,      \* clients.storage_id
  keys,        \* client_native_keys and client_s3_credentials of each client
  file,        \* files joined to locations
  cache,       \* S3ClientCache: the spec of the provider client kept per storage
  cmd, work

registry == <<storage, client, keys>>
vars     == <<registry, file, cache, cmd, work>>

Rows == [address : Addresses, secret : Secrets]

\* Whoever instantiates the module chooses a None that is none of the others.
NoneIsApart ==
  None \notin Rows \cup Storages \cup Clients \cup Files \cup Callers
                 \cup [client : Clients, storage : Storages, at : Addresses, held : BOOLEAN]

Quiet == [pc |-> "idle", op |-> "none", caller |-> None, storage |-> None, row |-> None]
Idle  == [pc |-> "idle", client |-> None, storage |-> None, row |-> None,
          file |-> None, uses |-> None]

TypeOK ==
  /\ storage \in [Storages -> Rows \cup {None}]
  /\ client \in [Clients -> Storages \cup {None}]
  /\ keys \in [Clients -> SUBSET Keys]
  /\ file \in [Files -> [client : Clients, storage : Storages, at : Addresses,
                         held : BOOLEAN] \cup {None}]
  /\ cache \in [Storages -> Rows \cup {None}]
  /\ cmd \in [Operators -> [pc : {"idle", "probing", "waiting", "locked"},
                            op : {"none", "create", "replace"},
                            caller : Callers \cup {None},
                            storage : Storages \cup {None}, row : Rows \cup {None}]]
  /\ work \in [Workers -> [pc : {"idle", "authenticated", "reserving", "resolved",
                                 "building", "open"},
                           client : Clients \cup {None}, storage : Storages \cup {None},
                           row : Rows \cup {None}, file : Files \cup {None},
                           uses : Rows \cup {None}]]
  \* the foreign keys
  /\ \A c \in Clients : /\ client[c] # None => storage[client[c]] # None
                        /\ keys[c] # {} => client[c] # None
  /\ \A f \in Files : file[f] # None => client[file[f].client] # None

Init ==
  /\ storage = [s \in Storages |-> None]
  /\ client = [c \in Clients |-> None]
  /\ keys = [c \in Clients |-> {}]
  /\ file = [f \in Files |-> None]
  /\ cache = [s \in Storages |-> None]
  /\ cmd = [m \in Operators |-> Quiet]
  /\ work = [w \in Workers |-> Idle]

-------------------------------------------------------------------------------
(* Locks, as the transactions that hold them.                                 *)

\* pg_advisory_xact_lock is free: no resource transaction waits for a row
FenceFree == \A m \in Operators : cmd[m].pc \notin {"waiting", "locked"}

\* FOR SHARE OF s, until create_in_tx commits
Shared(s) == \E w \in Workers : work[w].pc = "reserving" /\ work[w].storage = s

\* FOR UPDATE, until the replacement commits
Exclusive(s) == \E m \in Operators : cmd[m].pc = "locked" /\ cmd[m].storage = s

Located(s) == \E f \in Files : file[f] # None /\ file[f].held /\ file[f].storage = s

Owned(c) == \E f \in Files : file[f] # None /\ file[f].client = c

-------------------------------------------------------------------------------
(* Resource commands.  A storage command resolves its caller twice, because   *)
(* the probe of the submitted settings runs outside any transaction.          *)

Admit(m, p, op, s, row) ==
  /\ FenceFree /\ p \in authority
  /\ cmd[m].pc = "idle"
  /\ op = "replace" => storage[s] # None
  /\ cmd' = [cmd EXCEPT ![m] = [pc |-> "probing", op |-> op, caller |-> p,
                                storage |-> s, row |-> row]]
  /\ UNCHANGED <<registry, file, cache, work>>

\* the second transaction of create: resolve, authorise, insert
CreateStorage(m) ==
  LET s == cmd[m].storage IN
  /\ cmd[m].pc = "probing" /\ cmd[m].op = "create"
  /\ FenceFree /\ cmd[m].caller \in authority
  /\ storage[s] = None
  /\ storage' = [storage EXCEPT ![s] = cmd[m].row]
  /\ cmd' = [cmd EXCEPT ![m] = Quiet]
  /\ UNCHANGED <<client, keys, file, cache, work>>

(* Mutant: the caller was resolved before the probe. *)
BeginReplaceUnresolved(m) ==
  /\ cmd[m].pc = "probing" /\ cmd[m].op = "replace"
  /\ FenceFree
  /\ cmd' = [cmd EXCEPT ![m].pc = "waiting"]
  /\ UNCHANGED <<registry, file, cache, work>>

\* that of replace: resolve and authorise...
BeginReplace(m) ==
  /\ cmd[m].pc = "probing" /\ cmd[m].op = "replace"
  /\ FenceFree /\ cmd[m].caller \in authority
  /\ cmd' = [cmd EXCEPT ![m].pc = "waiting"]
  /\ UNCHANGED <<registry, file, cache, work>>

(* Mutant: the row is locked against other replacements only. *)
LockStorageUnshared(m) ==
  /\ cmd[m].pc = "waiting"
  /\ storage[cmd[m].storage] # None
  /\ cmd' = [cmd EXCEPT ![m].pc = "locked"]
  /\ UNCHANGED <<registry, file, cache, work>>

\* ...lock the row, behind the reservations that share it...
LockStorage(m) ==
  /\ cmd[m].pc = "waiting"
  /\ storage[cmd[m].storage] # None /\ ~Shared(cmd[m].storage)
  /\ cmd' = [cmd EXCEPT ![m].pc = "locked"]
  /\ UNCHANGED <<registry, file, cache, work>>

\* ...and write, unless the address changes under a location.
ReplaceStorage(m) ==
  LET s == cmd[m].storage IN
  /\ cmd[m].pc = "locked"
  /\ storage[s].address # cmd[m].row.address => ~Located(s)
  /\ storage' = [storage EXCEPT ![s] = cmd[m].row]
  /\ cmd' = [cmd EXCEPT ![m] = Quiet]
  /\ UNCHANGED <<client, keys, file, cache, work>>

\* refused, timed out or given up, at any await; a transaction rolls back
Fail(m) ==
  /\ cmd[m].pc # "idle"
  /\ cmd' = [cmd EXCEPT ![m] = Quiet]
  /\ UNCHANGED <<registry, file, cache, work>>

\* the foreign keys of clients and locations refuse the delete
DeleteStorage(p, s) ==
  /\ FenceFree /\ p \in authority
  /\ storage[s] # None /\ ~Shared(s)
  /\ ~Located(s) /\ \A c \in Clients : client[c] # s
  /\ storage' = [storage EXCEPT ![s] = None]
  /\ UNCHANGED <<client, keys, file, cache, cmd, work>>

CreateClient(p, c, s) ==
  /\ FenceFree /\ p \in authority
  /\ client[c] = None /\ storage[s] # None
  /\ client' = [client EXCEPT ![c] = s]
  /\ UNCHANGED <<storage, keys, file, cache, cmd, work>>

(* Mutant: nothing deletes the keys of the client. *)
DeleteClientOnly(p, c) ==
  /\ FenceFree /\ p \in authority
  /\ client[c] # None /\ ~Owned(c)
  /\ client' = [client EXCEPT ![c] = None]
  /\ UNCHANGED <<storage, keys, file, cache, cmd, work>>

\* files refuse it; keys and credentials go with it
DeleteClient(p, c) ==
  /\ FenceFree /\ p \in authority
  /\ client[c] # None /\ ~Owned(c)
  /\ client' = [client EXCEPT ![c] = None]
  /\ keys' = [keys EXCEPT ![c] = {}]
  /\ UNCHANGED <<storage, file, cache, cmd, work>>

RegisterKey(p, c, k) ==
  /\ FenceFree /\ p \in authority
  /\ client[c] # None /\ \A d \in Clients : k \notin keys[d]
  /\ keys' = [keys EXCEPT ![c] = @ \cup {k}]
  /\ UNCHANGED <<storage, client, file, cache, cmd, work>>

DeleteKey(p, c, k) ==
  /\ FenceFree /\ p \in authority
  /\ k \in keys[c]
  /\ keys' = [keys EXCEPT ![c] = @ \ {k}]
  /\ UNCHANGED <<storage, client, file, cache, cmd, work>>

-------------------------------------------------------------------------------
(* The data plane.                                                            *)

Go(w, to) == work' = [work EXCEPT ![w] = to]

Authenticate(w, c, k) ==
  /\ work[w].pc = "idle" /\ k \in keys[c]
  /\ Go(w, [Idle EXCEPT !.pc = "authenticated", !.client = c])
  /\ UNCHANGED <<registry, file, cache, cmd>>

\* create_in_tx: the storage of the client, share-locked as it is read
Resolve(w) ==
  LET s == client[work[w].client] IN
  /\ work[w].pc = "authenticated"
  /\ s # None /\ ~Exclusive(s)
  /\ Go(w, [work[w] EXCEPT !.pc = "reserving", !.storage = s, !.row = storage[s]])
  /\ UNCHANGED <<registry, file, cache, cmd>>

\* the rows of the file, and the commit; the foreign key needs the client still
Reserve(w, f) ==
  /\ work[w].pc = "reserving"
  /\ client[work[w].client] # None /\ file[f] = None
  /\ \A v \in Workers : work[v].file # f    \* file ids are not used twice
  /\ file' = [file EXCEPT ![f] = [client |-> work[w].client, storage |-> work[w].storage,
                                  at |-> work[w].row.address, held |-> TRUE]]
  /\ Go(w, [work[w] EXCEPT !.pc = "resolved", !.file = f])
  /\ UNCHANGED <<registry, cache, cmd>>

\* any later request or job: the location joined to its storage, without a lock
Open(w, f) ==
  /\ work[w].pc = "idle" /\ file[f] # None /\ file[f].held
  /\ Go(w, [Idle EXCEPT !.pc = "resolved", !.client = file[f].client, !.file = f,
                        !.storage = file[f].storage, !.row = storage[file[f].storage]])
  /\ UNCHANGED <<registry, file, cache, cmd>>

(* Mutant: the cache is keyed by the storage alone. *)
LookupAny(w) ==
  LET kept == cache[work[w].storage] IN
  /\ work[w].pc = "resolved"
  /\ Go(w, IF kept # None
           THEN [work[w] EXCEPT !.pc = "open", !.uses = kept]
           ELSE [work[w] EXCEPT !.pc = "building"])
  /\ UNCHANGED <<registry, file, cache, cmd>>

\* S3ClientCache::get, under the read lock...
Lookup(w) ==
  LET kept == cache[work[w].storage] IN
  /\ work[w].pc = "resolved"
  /\ Go(w, IF kept = work[w].row
           THEN [work[w] EXCEPT !.pc = "open", !.uses = kept]
           ELSE [work[w] EXCEPT !.pc = "building"])
  /\ UNCHANGED <<registry, file, cache, cmd>>

\* ...and, after a miss, under the write lock, whatever came between
Build(w) ==
  /\ work[w].pc = "building"
  /\ cache' = [cache EXCEPT ![work[w].storage] = work[w].row]
  /\ Go(w, [work[w] EXCEPT !.pc = "open", !.uses = work[w].row])
  /\ UNCHANGED <<registry, file, cmd>>

\* answered, refused or cut off
Finish(w) ==
  /\ work[w].pc # "idle"
  /\ Go(w, Idle)
  /\ UNCHANGED <<registry, file, cache, cmd>>

\* cleanup or purge removes the location, the prune removes the file row
Release(f) ==
  /\ file[f] # None /\ file[f].held
  /\ file' = [file EXCEPT ![f].held = FALSE]
  /\ UNCHANGED <<registry, cache, cmd, work>>

Prune(f) ==
  /\ file[f] # None /\ ~file[f].held
  /\ file' = [file EXCEPT ![f] = None]
  /\ UNCHANGED <<registry, cache, cmd, work>>

-------------------------------------------------------------------------------
Storage(m) ==
  \/ \E p \in Callers, op \in {"create", "replace"}, s \in Storages, row \in Rows :
       Admit(m, p, op, s, row)
  \/ CreateStorage(m) \/ BeginReplace(m) \/ LockStorage(m) \/ ReplaceStorage(m) \/ Fail(m)

Write(p) ==
  \/ \E s \in Storages : DeleteStorage(p, s)
  \/ \E c \in Clients :
       \/ \E s \in Storages : CreateClient(p, c, s)
       \/ DeleteClient(p, c)
       \/ \E k \in Keys : RegisterKey(p, c, k) \/ DeleteKey(p, c, k)

Work(w) ==
  \/ \E c \in Clients, k \in Keys : Authenticate(w, c, k)
  \/ \E f \in Files : Reserve(w, f) \/ Open(w, f)
  \/ Resolve(w) \/ Lookup(w) \/ Build(w) \/ Finish(w)

Next ==
  \/ \E m \in Operators : Storage(m)
  \/ \E p \in Callers : Write(p)
  \/ \E w \in Workers : Work(w)
  \/ \E f \in Files : Release(f) \/ Prune(f)

-------------------------------------------------------------------------------
\* update_storage_in's check, made after the lock wait: the storage of a
\* location still has the address its object was placed at.
ObjectsStayAddressed ==
  \A f \in Files :
    file[f] # None /\ file[f].held =>
      LET row == storage[file[f].storage] IN row # None /\ row.address = file[f].at

\* A request reads its storage row, then takes a provider client from a cache
\* other requests refill; in between the row may be replaced and the file may be
\* gone.  While the file has its location, the request works at its address, and
\* always with the very settings it read.
TransfersReachTheirObject ==
  \A w \in Workers :
    work[w].pc = "open" =>
      /\ work[w].uses = work[w].row
      /\ LET f == file[work[w].file] IN
         f # None /\ f.held => storage[f.storage].address = work[w].uses.address

\* A storage is created or replaced only by a command whose caller may write at that moment,
\* although the caller was first resolved before a probe of unbounded length
\* and the identity lock was given up for it.
WritesAreAuthorised ==
  [][\A s \in Storages : storage'[s] \notin {None, storage[s]} =>
       \E m \in Operators : /\ cmd[m].storage = s /\ cmd[m].row = storage'[s]
                            /\ cmd[m].caller \in authority]_<<vars, authority>>
===============================================================================
