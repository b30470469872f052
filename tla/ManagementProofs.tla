--------------------------- MODULE ManagementProofs ---------------------------
(* The theorems of RegistryProofs for the management plane as a whole: its      *)
(* identities and its resources meet only in the lock both take.                *)
EXTENDS Management, TLAPS

P == INSTANCE RegistryProofs WITH authority <- Writers, Callers <- Tokens \cup Sessions,
                                  None <- Nobody

-------------------------------------------------------------------------------
(* Requests that do not take the lock change no identity, hence no right. *)
LEMMA UnlockedKeepsRights == Unlocked => UNCHANGED Writers
  <1> SUFFICES ASSUME Unlocked PROVE UNCHANGED <<people, secrets, sessions, token>>
    BY DEF people, secrets, sessions, Writers, MayWrite, Active, Resolves
  <1> QED BY DEF Unlocked, Begin, BeginLogin, BeginSetup, BeginOwn, BeginAdmin, Start,
                 IdentifyAgain, Verify, Refuse

(* R and P are two readings of one module. *)
LEMMA SameNext == R!Next => P!Next
  BY DEF R!Storage, P!Storage, R!Admit, P!Admit, R!CreateStorage,
         P!CreateStorage, R!BeginReplace, P!BeginReplace, R!LockStorage,
         P!LockStorage, R!ReplaceStorage, P!ReplaceStorage, R!Fail, P!Fail,
         R!Write, P!Write, R!DeleteStorage, P!DeleteStorage, R!CreateClient,
         P!CreateClient, R!DeleteClient, P!DeleteClient, R!RegisterKey,
         P!RegisterKey, R!DeleteKey, P!DeleteKey, R!Work, P!Work,
         R!Authenticate, P!Authenticate, R!Resolve, P!Resolve, R!Reserve,
         P!Reserve, R!Open, P!Open, R!Lookup, P!Lookup, R!Build, P!Build,
         R!Finish, P!Finish, R!Release, P!Release, R!Prune, P!Prune, R!Go, P!Go,
         R!Idle, P!Idle, R!Quiet, P!Quiet, R!FenceFree, P!FenceFree, R!Shared,
         P!Shared, R!Exclusive, P!Exclusive, R!Located, P!Located, R!Owned,
         P!Owned, R!registry, P!registry, R!Rows, P!Rows, R!Next, P!Next

(* Every step of the management plane is a step behind Registry's fence. *)
LEMMA StepIsFenced ==
  ASSUME [ManagementNext]_allvars
  PROVE  [P!Fenced]_<<P!vars, Writers>>
  <1>1. CASE Next /\ R!FenceFree /\ UNCHANGED resources
    BY <1>1 DEF P!Fenced, P!FenceFree, R!FenceFree, resources, P!vars, P!registry
  <1>2. CASE Unlocked /\ UNCHANGED resources
    BY <1>2, UnlockedKeepsRights DEF resources, P!vars, P!registry
  <1>3. CASE R!Next /\ UNCHANGED vars
    <2>1. UNCHANGED Writers
      BY <1>3 DEF vars, people, secrets, sessions, Writers, MayWrite, Active, Resolves
    <2> QED BY <1>3, <2>1, SameNext DEF P!Fenced
  <1>4. CASE UNCHANGED allvars
    BY <1>4 DEF allvars, resources, vars, people, secrets, sessions, Writers, MayWrite, Active,
                Resolves, P!vars, P!registry
  <1> QED BY <1>1, <1>2, <1>3, <1>4 DEF ManagementNext

(* A behaviour of the management plane is one of Registry behind its fence. *)
LEMMA IsFenced == ManagementSpec => P!Spec
  <1>1. ManagementInit => P!Init
    BY DEF ManagementInit, R!Init, P!Init, R!Quiet, P!Quiet, R!Idle, P!Idle
  <1>2. [ManagementNext]_allvars => [P!Fenced]_<<P!vars, Writers>>
    BY StepIsFenced
  <1> QED BY <1>1, <1>2, PTL DEF ManagementSpec, P!Spec

(* Nobody stands for no row. *)
LEMMA NobodyIsApart == P!NoneIsApart
  BY ManagementAssumption DEF R!NoneIsApart, P!NoneIsApart, R!Rows, P!Rows

-------------------------------------------------------------------------------
(* The columns of the registry keep their types and its foreign keys hold. *)
THEOREM RegistryTyped == ManagementSpec => []RegistryTypeOK
  <1>1. P!Spec => []P!TypeOK
    BY P!TypeCorrect, NobodyIsApart
  <1>2. P!TypeOK <=> RegistryTypeOK
    BY DEF RegistryTypeOK, P!TypeOK, R!TypeOK, P!Rows, R!Rows
  <1> QED BY <1>1, <1>2, IsFenced, PTL

(* No command, however its probe and its lock wait overlap with uploads, moves  *)
(* the storage of a location to another address (update_storage_in). *)
THEOREM AddressesKept == ManagementSpec => []ObjectsStayAddressed
  <1>1. P!Spec => []P!ObjectsStayAddressed
    BY P!AddressesKept, NobodyIsApart
  <1>2. P!ObjectsStayAddressed <=> ObjectsStayAddressed
    BY DEF ObjectsStayAddressed, P!ObjectsStayAddressed, R!ObjectsStayAddressed
  <1> QED BY <1>1, <1>2, IsFenced, PTL

(* A transfer uses the settings its request read, at the address of its object, *)
(* whatever the cache held and the commands changed meanwhile. *)
THEOREM TransfersArrive == ManagementSpec => []TransfersReachTheirObject
  <1>1. P!Spec => []P!TransfersReachTheirObject
    BY P!TransfersArrive, NobodyIsApart
  <1>2. P!TransfersReachTheirObject <=> TransfersReachTheirObject
    BY DEF TransfersReachTheirObject, P!TransfersReachTheirObject,
           R!TransfersReachTheirObject
  <1> QED BY <1>1, <1>2, IsFenced, PTL

(* What is written to the storages table is written for a caller who, with the  *)
(* accounts, sessions and tokens of that moment, may write. *)
THEOREM WritesAuthorised == ManagementSpec => WritesAreAuthorised
  <1>1. P!Spec => []P!IInv
    BY P!Inductive, NobodyIsApart
  <1>2. P!IInv /\ [P!Fenced]_<<P!vars, Writers>> =>
          [\A s \in Storages : storage'[s] \notin {Nobody, storage[s]} =>
             \E m \in Operators : /\ cmd[m].storage = s /\ cmd[m].row = storage'[s]
                                  /\ cmd[m].caller \in Writers]_<<R!vars, Writers>>
    BY P!WriteStep, NobodyIsApart
  <1> QED BY <1>1, <1>2, IsFenced, PTL DEF P!Spec, WritesAreAuthorised, R!WritesAreAuthorised
===============================================================================
