---------------------------- MODULE RegistryProofs ----------------------------
(* Proofs about Registry, for every set of storages, clients, files, commands  *)
(* and requests.  What it needs of the rest of the management plane is that    *)
(* rights change only while no resource transaction holds the identity lock.   *)
EXTENDS Registry, TLAPS

\* The fence: a resource command runs under the rights of its moment, and the
\* rights change only between two of them.
Fenced ==
  \/ Next /\ UNCHANGED authority
  \/ FenceFree /\ UNCHANGED vars

Spec == Init /\ [][Fenced]_<<vars, authority>>

-------------------------------------------------------------------------------
(* The inductive invariant.                                                    *)

CmdStates ==
  [pc : {"idle", "probing", "waiting", "locked"}, op : {"none", "create", "replace"},
   caller : Callers \cup {None}, storage : Storages \cup {None}, row : Rows \cup {None}]

WorkStates ==
  [pc : {"idle", "authenticated", "reserving", "resolved", "building", "open"},
   client : Clients \cup {None}, storage : Storages \cup {None}, row : Rows \cup {None},
   file : Files \cup {None}, uses : Rows \cup {None}]

FileRows == [client : Clients, storage : Storages, at : Addresses, held : BOOLEAN]

HasRow(x) == x.storage \in Storages /\ x.row \in Rows

\* A command names a storage and a row; one that holds the row lock keeps the row
\* from being deleted, and one that holds the fence still has its caller's right.
CommandsOK ==
  \A m \in Operators :
    /\ cmd[m].pc # "idle" => HasRow(cmd[m])
    /\ cmd[m].pc = "locked" => storage[cmd[m].storage] # None
    /\ cmd[m].pc \in {"waiting", "locked"} => cmd[m].caller \in authority

\* A request works from a row it has read; while it reserves, that is the row.
RequestsOK ==
  \A w \in Workers :
    /\ work[w].pc # "idle" => work[w].client \in Clients
    /\ work[w].pc \in {"reserving", "resolved", "building", "open"} => HasRow(work[w])
    /\ work[w].pc \in {"resolved", "building", "open"} => work[w].file \in Files
    /\ work[w].pc = "reserving" => storage[work[w].storage] = work[w].row
    /\ work[w].pc = "open" => work[w].uses = work[w].row

\* A share lock and an exclusive lock on a row exclude one another.
LocksExclude ==
  \A m \in Operators, w \in Workers :
    cmd[m].pc = "locked" /\ work[w].pc = "reserving" => cmd[m].storage # work[w].storage

\* While the file of a request has its location, its storage and its address
\* are the ones the request has read.
RequestsFollowFiles ==
  \A w \in Workers :
    work[w].pc \in {"resolved", "building", "open"} =>
      LET f == file[work[w].file] IN
      f # None /\ f.held => f.storage = work[w].storage /\ f.at = work[w].row.address

IInv ==
  /\ TypeOK
  /\ CommandsOK
  /\ RequestsOK
  /\ LocksExclude
  /\ RequestsFollowFiles
  /\ ObjectsStayAddressed

-------------------------------------------------------------------------------
(* Nothing is registered and nothing runs. *)
LEMMA InitInvariant == ASSUME NoneIsApart PROVE Init => IInv
  BY DEF NoneIsApart, Init, IInv, TypeOK, CommandsOK, RequestsOK, LocksExclude,
     RequestsFollowFiles, ObjectsStayAddressed, Quiet, Idle, HasRow

(* A row that a location or a request uses is there and has its type. *)
LEMMA RowsThere ==
  ASSUME NoneIsApart, IInv
  PROVE  /\ \A s \in Storages : storage[s] # None => storage[s] \in Rows
         /\ \A f \in Files : file[f] # None => file[f] \in FileRows
         /\ \A f \in Files : file[f] # None /\ file[f].held =>
              /\ storage[file[f].storage] \in Rows
              /\ storage[file[f].storage].address = file[f].at
         /\ \A c \in Clients : client[c] # None =>
              client[c] \in Storages /\ storage[client[c]] \in Rows
  <1>1. \A f \in Files : file[f] # None => file[f] \in FileRows
    BY DEF IInv, TypeOK, FileRows
  <1>2. \A f \in Files : file[f] # None => file[f].storage \in Storages
    BY <1>1 DEF FileRows
  <1> QED BY <1>1, <1>2 DEF IInv, TypeOK, ObjectsStayAddressed

-------------------------------------------------------------------------------
(* The commands on storages.                                                   *)

(* What a step leaves alone keeps its part of the invariant; what remains to be *)
(* shown of a command is its own record. *)
LEMMA AdmitKeeps ==
  ASSUME NoneIsApart, IInv, UNCHANGED authority, NEW m \in Operators, NEW p \in Callers,
         NEW op \in {"create", "replace"}, NEW s \in Storages, NEW row \in Rows,
         Admit(m, p, op, s, row)
  PROVE  IInv'
  <1>1. cmd' = [cmd EXCEPT ![m] = [pc |-> "probing", op |-> op, caller |-> p,
                                   storage |-> s, row |-> row]]
        /\ UNCHANGED <<storage, client, keys, file, cache, work>>
    BY DEF Admit, registry
  <1>2. TypeOK'
    BY <1>1 DEF IInv, TypeOK
  <1>3. CommandsOK'
    BY <1>1 DEF IInv, TypeOK, CommandsOK, HasRow
  <1>4. LocksExclude'
    BY <1>1 DEF IInv, TypeOK, LocksExclude
  <1> QED BY <1>1, <1>2, <1>3, <1>4
          DEF IInv, RequestsOK, RequestsFollowFiles, ObjectsStayAddressed

(* An insert goes to a row that is not there, so no location refers to it; a *)
(* reserving request refers to a row that is. *)
LEMMA CreateKeeps ==
  ASSUME NoneIsApart, IInv, UNCHANGED authority, NEW m \in Operators, CreateStorage(m)
  PROVE  IInv'
  <1> DEFINE s == cmd[m].storage
  <1>1. /\ s \in Storages /\ cmd[m].row \in Rows
        /\ storage[s] = None
        /\ storage' = [storage EXCEPT ![s] = cmd[m].row]
        /\ cmd' = [cmd EXCEPT ![m] = Quiet]
        /\ UNCHANGED <<client, keys, file, cache, work>>
    BY DEF CreateStorage, IInv, CommandsOK, HasRow
  <1>2. cmd[m].row # None
    BY <1>1 DEF NoneIsApart
  <1>3. \A u \in Storages : \/ storage'[u] # None /\ storage[u] = None
                            \/ storage'[u] = storage[u]
    BY <1>1, <1>2 DEF IInv, TypeOK
  <1>4. TypeOK'
    BY <1>1, <1>2, <1>3, RowsThere DEF IInv, TypeOK, Quiet
  <1>5. CommandsOK' /\ LocksExclude'
    BY <1>1, <1>3 DEF IInv, TypeOK, CommandsOK, LocksExclude, HasRow, Quiet
  <1>6. RequestsOK'
    BY <1>1, <1>3 DEF IInv, TypeOK, RequestsOK, HasRow, NoneIsApart
  <1>7. ObjectsStayAddressed'
    BY <1>1, <1>3, RowsThere DEF IInv, ObjectsStayAddressed, FileRows
  <1> QED BY <1>1, <1>4, <1>5, <1>6, <1>7 DEF IInv, RequestsFollowFiles

(* A command that waits for the row, and one that gives up. *)
LEMMA CommandSteps ==
  ASSUME NoneIsApart, IInv, UNCHANGED authority, NEW m \in Operators,
         BeginReplace(m) \/ LockStorage(m) \/ Fail(m)
  PROVE  IInv'
  <1>1. UNCHANGED <<storage, client, keys, file, cache, work>>
    BY DEF BeginReplace, LockStorage, Fail, registry
  <1>2. /\ cmd' \in [Operators -> CmdStates]
        /\ CommandsOK' /\ LocksExclude'
    <2>1. CASE BeginReplace(m)
      BY <1>1, <2>1 DEF BeginReplace, IInv, TypeOK, CommandsOK, LocksExclude, HasRow, CmdStates
    <2>2. CASE LockStorage(m)
      BY <1>1, <2>2 DEF LockStorage, Shared, IInv, TypeOK, CommandsOK, LocksExclude, HasRow,
                        CmdStates
    <2>3. CASE Fail(m)
      BY <1>1, <2>3 DEF Fail, Quiet, IInv, TypeOK, CommandsOK, LocksExclude, HasRow, CmdStates
    <2> QED BY <2>1, <2>2, <2>3
  <1>3. TypeOK'
    BY <1>1, <1>2 DEF IInv, TypeOK, CmdStates
  <1> QED BY <1>1, <1>2, <1>3
          DEF IInv, RequestsOK, RequestsFollowFiles, ObjectsStayAddressed

(* A replacement moves the address of no row that has a location, and meets no *)
(* request that is reserving one. *)
LEMMA ReplaceKeeps ==
  ASSUME NoneIsApart, IInv, UNCHANGED authority, NEW m \in Operators, ReplaceStorage(m)
  PROVE  IInv'
  <1> DEFINE s == cmd[m].storage
  <1>1. /\ s \in Storages /\ cmd[m].row \in Rows /\ cmd[m].pc = "locked"
        /\ storage[s] # None
        /\ storage[s].address # cmd[m].row.address => ~Located(s)
        /\ storage' = [storage EXCEPT ![s] = cmd[m].row]
        /\ cmd' = [cmd EXCEPT ![m] = Quiet]
        /\ UNCHANGED <<client, keys, file, cache, work>>
    BY DEF ReplaceStorage, IInv, CommandsOK, HasRow
  <1>2. cmd[m].row # None
    BY <1>1 DEF NoneIsApart
  <1>3. /\ storage' \in [Storages -> Rows \cup {None}]
        /\ \A u \in Storages : storage[u] # None <=> storage'[u] # None
        /\ \A u \in Storages \ {s} : storage'[u] = storage[u]
        /\ storage'[s] = cmd[m].row
    BY <1>1, <1>2 DEF IInv, TypeOK
  <1>4. TypeOK'
    BY <1>1, <1>3, RowsThere DEF IInv, TypeOK, Quiet
  <1>5. CommandsOK' /\ LocksExclude'
    BY <1>1, <1>3 DEF IInv, TypeOK, CommandsOK, LocksExclude, HasRow, Quiet
  <1>6. RequestsOK'
    <2>1. \A w \in Workers : work[w].pc = "reserving" => work[w].storage # s
      BY <1>1 DEF IInv, LocksExclude
    <2> QED BY <1>1, <1>3, <2>1 DEF IInv, RequestsOK, HasRow
  <1>7. ObjectsStayAddressed'
    <2> SUFFICES ASSUME NEW f \in Files, file[f] # None, file[f].held
                 PROVE  storage'[file[f].storage] # None
                        /\ storage'[file[f].storage].address = file[f].at
      BY <1>1 DEF ObjectsStayAddressed
    <2>1. /\ file[f].storage \in Storages
          /\ storage[file[f].storage] # None
          /\ storage[file[f].storage].address = file[f].at
      BY RowsThere DEF FileRows, IInv, ObjectsStayAddressed
    <2>2. CASE file[f].storage = s
      BY <1>1, <1>2, <1>3, <2>1, <2>2 DEF Located
    <2>3. CASE file[f].storage # s
      BY <1>3, <2>1, <2>3
    <2> QED BY <2>2, <2>3
  <1> QED BY <1>1, <1>4, <1>5, <1>6, <1>7 DEF IInv, RequestsFollowFiles

(* A row is deleted only when nothing refers to it and nobody has locked it. *)
LEMMA DeleteKeeps ==
  ASSUME NoneIsApart, IInv, UNCHANGED authority, NEW p, NEW s \in Storages, DeleteStorage(p, s)
  PROVE  IInv'
  <1>1. /\ FenceFree /\ ~Shared(s) /\ ~Located(s)
        /\ \A c \in Clients : client[c] # s
        /\ storage' = [storage EXCEPT ![s] = None]
        /\ UNCHANGED <<client, keys, file, cache, cmd, work>>
    BY DEF DeleteStorage
  <1>2. /\ storage' \in [Storages -> Rows \cup {None}]
        /\ \A u \in Storages \ {s} : storage'[u] = storage[u]
    BY <1>1 DEF IInv, TypeOK
  <1>3. TypeOK'
    BY <1>1, <1>2, RowsThere DEF IInv, TypeOK
  <1>4. CommandsOK' /\ LocksExclude'
    BY <1>1, <1>2 DEF IInv, CommandsOK, LocksExclude, HasRow, FenceFree
  <1>5. RequestsOK'
    BY <1>1, <1>2 DEF IInv, RequestsOK, HasRow, Shared
  <1>6. ObjectsStayAddressed'
    BY <1>1, <1>2, RowsThere DEF IInv, ObjectsStayAddressed, Located, FileRows
  <1> QED BY <1>1, <1>3, <1>4, <1>5, <1>6 DEF IInv, RequestsFollowFiles

(* The commands on clients and on their keys. *)
LEMMA ClientSteps ==
  ASSUME NoneIsApart, IInv, UNCHANGED authority, NEW p, NEW c \in Clients,
         \/ \E s \in Storages : CreateClient(p, c, s)
         \/ DeleteClient(p, c)
         \/ \E k \in Keys : RegisterKey(p, c, k) \/ DeleteKey(p, c, k)
  PROVE  IInv'
  <1>1. UNCHANGED <<storage, file, cache, cmd, work>>
    BY DEF CreateClient, DeleteClient, RegisterKey, DeleteKey
  <1>2. TypeOK'
    <2>1. ASSUME NEW s \in Storages, CreateClient(p, c, s)
          PROVE  TypeOK'
      BY <1>1, <2>1 DEF CreateClient, IInv, TypeOK, NoneIsApart
    <2>2. CASE DeleteClient(p, c)
      BY <1>1, <2>2, RowsThere DEF DeleteClient, Owned, IInv, TypeOK, FileRows
    <2>3. ASSUME NEW k \in Keys, RegisterKey(p, c, k) \/ DeleteKey(p, c, k)
          PROVE  TypeOK'
      BY <1>1, <2>3 DEF RegisterKey, DeleteKey, IInv, TypeOK
    <2> QED BY <2>1, <2>2, <2>3
  <1> QED BY <1>1, <1>2 DEF IInv, CommandsOK, RequestsOK, LocksExclude, RequestsFollowFiles,
                            ObjectsStayAddressed

-------------------------------------------------------------------------------
(* The data plane.                                                             *)

(* One request moves, the others stay. *)
LEMMA WorkMoves ==
  ASSUME IInv, NEW w \in Workers, NEW x \in WorkStates, work' = [work EXCEPT ![w] = x]
  PROVE  /\ work' \in [Workers -> WorkStates]
         /\ work'[w] = x
         /\ \A v \in Workers : v # w => work'[v] = work[v]
  BY DEF IInv, TypeOK, WorkStates

(* The requests have the type of their states. *)
LEMMA WorkTyped == ASSUME IInv, NEW w \in Workers PROVE work[w] \in WorkStates
  BY DEF IInv, TypeOK, WorkStates

(* A request that resolves its client's storage locks the row it reads. *)
LEMMA ResolveKeeps ==
  ASSUME NoneIsApart, IInv, UNCHANGED authority, NEW w \in Workers,
         Resolve(w) \/ (\E c \in Clients, k \in Keys : Authenticate(w, c, k)) \/ Finish(w)
  PROVE  IInv'
  <1>1. UNCHANGED <<storage, client, keys, file, cache, cmd>>
    BY DEF Resolve, Authenticate, Finish, registry
  <1>2. work' \in [Workers -> WorkStates] /\ RequestsOK' /\ LocksExclude' /\ RequestsFollowFiles'
    <2>1. CASE Resolve(w)
      <3> DEFINE s == client[work[w].client]
                 x == [work[w] EXCEPT !.pc = "reserving", !.storage = s, !.row = storage[s]]
      <3>1. /\ work[w].pc = "authenticated" /\ s # None /\ ~Exclusive(s)
            /\ work' = [work EXCEPT ![w] = x]
        BY <2>1 DEF Resolve, Go
      <3>2. work[w].client \in Clients
        BY <3>1 DEF IInv, RequestsOK
      <3>3. s \in Storages /\ storage[s] \in Rows
        BY <3>1, <3>2, RowsThere
      <3>4. work[w] \in WorkStates
        BY WorkTyped
      <3>5. /\ x \in WorkStates /\ x.pc = "reserving" /\ x.client = work[w].client
            /\ x.storage = s /\ x.row = storage[s]
        BY <3>3, <3>4 DEF WorkStates
      <3>6. /\ work' \in [Workers -> WorkStates] /\ work'[w] = x
            /\ \A v \in Workers : v # w => work'[v] = work[v]
        BY <3>1, <3>5, WorkMoves
      <3> HIDE DEF x
      <3>7. RequestsOK'
        BY <1>1, <3>2, <3>3, <3>5, <3>6 DEF IInv, RequestsOK, HasRow
      <3>8. LocksExclude' /\ RequestsFollowFiles'
        BY <1>1, <3>1, <3>5, <3>6 DEF Exclusive, IInv, LocksExclude, RequestsFollowFiles
      <3> QED BY <3>6, <3>7, <3>8
    <2>2. ASSUME NEW c \in Clients, NEW k \in Keys, Authenticate(w, c, k)
          PROVE  work' \in [Workers -> WorkStates] /\ RequestsOK' /\ LocksExclude' /\ RequestsFollowFiles'
      <3> DEFINE x == [Idle EXCEPT !.pc = "authenticated", !.client = c]
      <3>1. x \in WorkStates /\ x.pc = "authenticated" /\ x.client = c
        BY DEF Idle, WorkStates
      <3>2. /\ work' \in [Workers -> WorkStates] /\ work'[w] = x
            /\ \A v \in Workers : v # w => work'[v] = work[v]
        BY <2>2, <3>1, WorkMoves DEF Authenticate, Go
      <3> HIDE DEF x
      <3> QED BY <1>1, <3>1, <3>2 DEF IInv, RequestsOK, LocksExclude, RequestsFollowFiles
    <2>3. CASE Finish(w)
      BY <1>1, <2>3 DEF Finish, Go, Idle, IInv, TypeOK, RequestsOK, LocksExclude,
                        RequestsFollowFiles, HasRow, WorkStates
    <2> QED BY <2>1, <2>2, <2>3
  <1>3. TypeOK'
    BY <1>1, <1>2 DEF IInv, TypeOK, WorkStates
  <1> QED BY <1>1, <1>2, <1>3 DEF IInv, CommandsOK, ObjectsStayAddressed

(* The location of a new file gets the address of the row that is locked. *)
LEMMA ReserveKeeps ==
  ASSUME NoneIsApart, IInv, UNCHANGED authority, NEW w \in Workers, NEW f \in Files, Reserve(w, f)
  PROVE  IInv'
  <1> DEFINE x == [client |-> work[w].client, storage |-> work[w].storage,
                   at |-> work[w].row.address, held |-> TRUE]
  <1>1. /\ work[w].pc = "reserving" /\ client[work[w].client] # None /\ file[f] = None
        /\ \A v \in Workers : work[v].file # f
        /\ file' = [file EXCEPT ![f] = x]
        /\ work' = [work EXCEPT ![w] = [work[w] EXCEPT !.pc = "resolved", !.file = f]]
        /\ UNCHANGED <<storage, client, keys, cache, cmd>>
    BY DEF Reserve, Go, registry
  <1>2. /\ work[w].client \in Clients /\ HasRow(work[w])
        /\ storage[work[w].storage] = work[w].row
    BY <1>1 DEF IInv, RequestsOK
  <1>3. x \in FileRows /\ x # None
    <2>1. work[w].row.address \in Addresses
      BY <1>2 DEF HasRow, Rows
    <2>2. x \in FileRows
      BY <1>2, <2>1 DEF HasRow, FileRows
    <2> QED BY <2>2 DEF FileRows, NoneIsApart
  <1>4. /\ file' \in [Files -> FileRows \cup {None}]
        /\ \A g \in Files : file'[g] # None => client[file'[g].client] # None
    BY <1>1, <1>3, RowsThere DEF IInv, TypeOK, FileRows
  <1> DEFINE y == [work[w] EXCEPT !.pc = "resolved", !.file = f]
  <1>5. /\ work' \in [Workers -> WorkStates] /\ work'[w] = y
        /\ \A v \in Workers : v # w => work'[v] = work[v]
        /\ y.pc = "resolved" /\ y.client = work[w].client /\ y.storage = work[w].storage
        /\ y.row = work[w].row /\ y.file = f
    <2>1. /\ y \in WorkStates
          /\ y.pc = "resolved" /\ y.client = work[w].client /\ y.storage = work[w].storage
          /\ y.row = work[w].row /\ y.file = f
      <3>1. work[w] \in WorkStates
        BY WorkTyped
      <3> QED BY <3>1 DEF WorkStates
    <2> QED BY <1>1, <2>1, WorkMoves
  <1> HIDE DEF y
  <1>6. TypeOK'
    BY <1>1, <1>4, <1>5 DEF IInv, TypeOK, FileRows, WorkStates
  <1>7. RequestsOK' /\ LocksExclude'
    BY <1>1, <1>2, <1>5 DEF IInv, RequestsOK, LocksExclude, HasRow
  <1>8. ObjectsStayAddressed'
    <2>1. storage[x.storage] # None /\ storage[x.storage].address = x.at
      BY <1>2 DEF HasRow, NoneIsApart
    <2>2. \A g \in Files : g # f => file'[g] = file[g]
      BY <1>1 DEF IInv, TypeOK
    <2>3. file'[f] = x
      BY <1>1 DEF IInv, TypeOK
    <2> QED BY <1>1, <2>1, <2>2, <2>3 DEF IInv, ObjectsStayAddressed
  <1>9. RequestsFollowFiles'
    <2>1. ASSUME NEW v \in Workers, v # w, work[v].pc \in {"resolved", "building", "open"}
          PROVE  work'[v] = work[v] /\ file'[work[v].file] = file[work[v].file]
      BY <1>1, <1>5, <2>1 DEF IInv, TypeOK, RequestsOK
    <2>2. work'[w].storage = x.storage /\ work'[w].row.address = x.at /\ work'[w].file = f
          /\ file'[f] = x
      BY <1>1, <1>5 DEF IInv, TypeOK
    <2> QED BY <1>1, <1>5, <2>1, <2>2 DEF IInv, RequestsFollowFiles
  <1> QED BY <1>1, <1>6, <1>7, <1>8, <1>9 DEF IInv, CommandsOK

(* A request that opens a file reads the row of its location. *)
LEMMA OpenKeeps ==
  ASSUME NoneIsApart, IInv, UNCHANGED authority, NEW w \in Workers, NEW f \in Files, Open(w, f)
  PROVE  IInv'
  <1> DEFINE x == [Idle EXCEPT !.pc = "resolved", !.client = file[f].client, !.file = f,
                              !.storage = file[f].storage, !.row = storage[file[f].storage]]
  <1>1. /\ file[f] # None /\ file[f].held
        /\ work' = [work EXCEPT ![w] = x]
        /\ UNCHANGED <<storage, client, keys, file, cache, cmd>>
    BY DEF Open, Go, registry
  <1>2. /\ file[f] \in FileRows
        /\ storage[file[f].storage] \in Rows
        /\ storage[file[f].storage].address = file[f].at
    BY <1>1, RowsThere
  <1>3. x \in WorkStates
    BY <1>2 DEF Idle, WorkStates, FileRows
  <1>4. TypeOK'
    BY <1>1, <1>3 DEF IInv, TypeOK, WorkStates
  <1>5. RequestsOK' /\ LocksExclude' /\ RequestsFollowFiles'
    BY <1>1, <1>2 DEF IInv, TypeOK, RequestsOK, LocksExclude, RequestsFollowFiles, HasRow,
                      Idle, FileRows
  <1> QED BY <1>1, <1>4, <1>5 DEF IInv, CommandsOK, ObjectsStayAddressed

(* The provider client a request gets is built from the row it has read. *)
LEMMA CacheSteps ==
  ASSUME NoneIsApart, IInv, UNCHANGED authority, NEW w \in Workers, Lookup(w) \/ Build(w)
  PROVE  IInv'
  <1>1. UNCHANGED <<storage, client, keys, file, cmd>>
    BY DEF Lookup, Build, registry
  <1>2. work[w].pc \in {"resolved", "building"} /\ HasRow(work[w])
    BY DEF Lookup, Build, IInv, RequestsOK
  <1>3. PICK x \in WorkStates :
          /\ work' = [work EXCEPT ![w] = x]
          /\ x.client = work[w].client /\ x.storage = work[w].storage
          /\ x.row = work[w].row /\ x.file = work[w].file
          /\ x.pc = "building" \/ (x.pc = "open" /\ x.uses = work[w].row)
    <2>1. PICK x :
            /\ work' = [work EXCEPT ![w] = x]
            /\ \/ x = [work[w] EXCEPT !.pc = "building"]
               \/ x = [work[w] EXCEPT !.pc = "open", !.uses = work[w].row]
      BY DEF Lookup, Build, Go
    <2>2. work[w] \in WorkStates /\ work[w].row \in Rows
      BY <1>2, WorkTyped DEF HasRow
    <2>3. /\ x \in WorkStates
          /\ x.client = work[w].client /\ x.storage = work[w].storage
          /\ x.row = work[w].row /\ x.file = work[w].file
          /\ x.pc = "building" \/ (x.pc = "open" /\ x.uses = work[w].row)
      BY <2>1, <2>2 DEF WorkStates
    <2> QED BY <2>1, <2>3
  <1>4. /\ work' \in [Workers -> WorkStates] /\ work'[w] = x
        /\ \A v \in Workers : v # w => work'[v] = work[v]
    BY <1>3, WorkMoves
  <1>5. TypeOK'
    <2>1. cache' \in [Storages -> Rows \cup {None}]
      BY <1>2 DEF Lookup, Build, IInv, TypeOK, HasRow
    <2> QED BY <1>1, <1>4, <2>1 DEF IInv, TypeOK, WorkStates
  <1>6. RequestsOK' /\ LocksExclude' /\ RequestsFollowFiles'
    BY <1>1, <1>2, <1>3, <1>4 DEF IInv, RequestsOK, LocksExclude, RequestsFollowFiles, HasRow
  <1> QED BY <1>1, <1>5, <1>6 DEF IInv, CommandsOK, ObjectsStayAddressed

(* A location and a file row go away under whatever works on them. *)
LEMMA FileSteps ==
  ASSUME NoneIsApart, IInv, UNCHANGED authority, NEW f \in Files, Release(f) \/ Prune(f)
  PROVE  IInv'
  <1>1. UNCHANGED <<storage, client, keys, cache, cmd, work>>
    BY DEF Release, Prune, registry
  <1>2. \/ file' = [file EXCEPT ![f] = None]
        \/ file' = [file EXCEPT ![f] = [file[f] EXCEPT !.held = FALSE]] /\ file[f] # None
    BY DEF Release, Prune
  <1>3. /\ file' \in [Files -> FileRows \cup {None}]
        /\ \A g \in Files :
             \/ file'[g] = file[g]
             \/ file'[g] = None
             \/ file[g] # None /\ file'[g].client = file[g].client /\ ~file'[g].held
    <2>1. CASE file' = [file EXCEPT ![f] = None]
      BY <2>1, RowsThere DEF IInv, TypeOK, FileRows
    <2>2. CASE file' = [file EXCEPT ![f] = [file[f] EXCEPT !.held = FALSE]] /\ file[f] # None
      <3> DEFINE x == [file[f] EXCEPT !.held = FALSE]
      <3>1. x \in FileRows /\ x.client = file[f].client /\ ~x.held
        BY <2>2, RowsThere DEF FileRows
      <3> QED BY <2>2, <3>1 DEF IInv, TypeOK, FileRows
    <2> QED BY <1>2, <2>1, <2>2
  <1>4. TypeOK'
    BY <1>1, <1>3 DEF IInv, TypeOK, FileRows
  <1>5. ObjectsStayAddressed' /\ RequestsFollowFiles'
    BY <1>1, <1>3 DEF IInv, ObjectsStayAddressed, RequestsFollowFiles, RequestsOK
  <1> QED BY <1>1, <1>4, <1>5 DEF IInv, CommandsOK, RequestsOK, LocksExclude

-------------------------------------------------------------------------------
(* The fence as a whole.                                                       *)

(* Rights change only while no command holds the fence. *)
LEMMA RightsChange ==
  ASSUME IInv, FenceFree, UNCHANGED vars
  PROVE  IInv'
  <1>1. UNCHANGED <<storage, client, keys, file, cache, cmd, work>>
    BY DEF vars, registry
  <1>2. CommandsOK'
    BY <1>1 DEF IInv, CommandsOK, FenceFree, HasRow
  <1> QED BY <1>1, <1>2 DEF IInv, TypeOK, RequestsOK, LocksExclude, RequestsFollowFiles,
                            ObjectsStayAddressed, HasRow

(* Every step keeps the invariant. *)
LEMMA NextInvariant ==
  ASSUME NoneIsApart, IInv, [Fenced]_<<vars, authority>>
  PROVE  IInv'
  <1>1. CASE Next /\ UNCHANGED authority
    <2>1. ASSUME NEW m \in Operators, Storage(m)
          PROVE  IInv'
      BY <1>1, <2>1, AdmitKeeps, CreateKeeps, CommandSteps, ReplaceKeeps DEF Storage
    <2>2. ASSUME NEW p \in Callers, Write(p)
          PROVE  IInv'
      BY <1>1, <2>2, DeleteKeeps, ClientSteps DEF Write
    <2>3. ASSUME NEW w \in Workers, Work(w)
          PROVE  IInv'
      BY <1>1, <2>3, ResolveKeeps, ReserveKeeps, OpenKeeps, CacheSteps DEF Work
    <2>4. ASSUME NEW f \in Files, Release(f) \/ Prune(f)
          PROVE  IInv'
      BY <1>1, <2>4, FileSteps
    <2> QED BY <1>1, <2>1, <2>2, <2>3, <2>4 DEF Next
  <1>2. CASE FenceFree /\ UNCHANGED vars
    BY <1>2, RightsChange
  <1>3. CASE UNCHANGED <<vars, authority>>
    BY <1>3 DEF vars, registry, IInv, TypeOK, CommandsOK, RequestsOK, LocksExclude,
                RequestsFollowFiles, ObjectsStayAddressed, HasRow
  <1> QED BY <1>1, <1>2, <1>3 DEF Fenced

(* The invariant holds of every behaviour. *)
LEMMA Inductive == ASSUME NoneIsApart PROVE Spec => []IInv
  <1>1. Init => IInv
    BY InitInvariant
  <1>2. IInv /\ [Fenced]_<<vars, authority>> => IInv'
    BY NextInvariant
  <1> QED BY <1>1, <1>2, PTL DEF Spec

(* The types of the columns, the foreign keys between the tables, and what      *)
(* each command and request holds in each of its states. *)
THEOREM TypeCorrect == ASSUME NoneIsApart PROVE Spec => []TypeOK
  <1>1. IInv => TypeOK
    BY DEF IInv
  <1> QED BY <1>1, Inductive, PTL

(* Whatever replacements and reservations overlap, the storage of a location    *)
(* keeps the address its object was placed at (update_storage_in). *)
THEOREM AddressesKept == ASSUME NoneIsApart PROVE Spec => []ObjectsStayAddressed
  <1>1. IInv => ObjectsStayAddressed
    BY DEF IInv
  <1> QED BY <1>1, Inductive, PTL

(* Whatever the cache held and whatever was replaced since the row was read, a  *)
(* request works with the settings it read, at the address of its object. *)
THEOREM TransfersArrive == ASSUME NoneIsApart PROVE Spec => []TransfersReachTheirObject
  <1>1. IInv => TransfersReachTheirObject
    BY DEF IInv, TransfersReachTheirObject, RequestsOK, RequestsFollowFiles,
           ObjectsStayAddressed
  <1> QED BY <1>1, Inductive, PTL

(* What a step writes to the storages table is the row of a command whose       *)
(* caller may write at that moment. *)
LEMMA WriteStep ==
  ASSUME NoneIsApart, IInv, [Fenced]_<<vars, authority>>, NEW s \in Storages,
         storage'[s] \notin {None, storage[s]}
  PROVE  \E m \in Operators : /\ cmd[m].storage = s /\ cmd[m].row = storage'[s]
                              /\ cmd[m].caller \in authority
  <1>1. storage \in [Storages -> Rows \cup {None}]
    BY DEF IInv, TypeOK
  <1>2. Next
    BY DEF Fenced, vars, registry
  <1>3. ASSUME NEW m \in Operators, Storage(m)
        PROVE  CreateStorage(m) \/ ReplaceStorage(m)
    BY <1>3 DEF Storage, Admit, BeginReplace, LockStorage, Fail, registry
  <1>4. ASSUME NEW m \in Operators, CreateStorage(m) \/ ReplaceStorage(m)
        PROVE  /\ storage' = [storage EXCEPT ![cmd[m].storage] = cmd[m].row]
               /\ cmd[m].caller \in authority
    BY <1>4 DEF CreateStorage, ReplaceStorage, IInv, CommandsOK
  <1>5. ASSUME NEW p \in Callers, Write(p)
        PROVE  FALSE
    <2>1. UNCHANGED storage \/ \E u \in Storages : storage' = [storage EXCEPT ![u] = None]
      BY <1>5 DEF Write, DeleteStorage, CreateClient, DeleteClient, RegisterKey, DeleteKey
    <2> QED BY <1>1, <2>1
  <1>6. ASSUME \/ \E w \in Workers : Work(w)
               \/ \E f \in Files : Release(f) \/ Prune(f)
        PROVE  FALSE
    <2>1. UNCHANGED storage
      BY <1>6 DEF Work, Authenticate, Resolve, Reserve, Open, Lookup, Build, Finish, Release,
                  Prune, registry
    <2> QED BY <2>1
  <1>7. PICK m \in Operators : CreateStorage(m) \/ ReplaceStorage(m)
    BY <1>2, <1>3, <1>5, <1>6 DEF Next
  <1> QED BY <1>1, <1>4, <1>7

(* A storage is created or replaced only under a right that still holds. *)
THEOREM WritesAuthorised == ASSUME NoneIsApart PROVE Spec => WritesAreAuthorised
  <1>1. IInv /\ [Fenced]_<<vars, authority>> =>
          [\A s \in Storages : storage'[s] \notin {None, storage[s]} =>
             \E m \in Operators : /\ cmd[m].storage = s /\ cmd[m].row = storage'[s]
                                  /\ cmd[m].caller \in authority]_<<vars, authority>>
    BY WriteStep
  <1> QED BY <1>1, Inductive, PTL DEF Spec, WritesAreAuthorised
===============================================================================
