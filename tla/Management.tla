------------------------------ MODULE Management ------------------------------
(* The management plane as a whole: Accounts, whose identities decide who may *)
(* write, and Registry, whose commands run under the same advisory lock.      *)
(* While a resource transaction holds it, waiting for a storage row, no       *)
(* identity transaction commits.  expires_at is compared when a proof is      *)
(* resolved, so an expiry during that wait is the same as one after it.       *)
EXTENDS Accounts

CONSTANTS Storages, Clients, Keys, Addresses, Secrets, Files, Operators, Workers

VARIABLES storage, client, keys, file, cache, cmd, work

\* WriteResources and ManageServiceCredentials: a writer or an admin, by a token
\* of theirs (token: CLI, MCP, Resource API) or from a console session.
MayWrite(a) == Active(a) /\ role[a] \in {"writer", "admin"}

Writers ==
  {t \in Tokens : token[t] \in Accounts /\ MayWrite(token[t])}
    \cup {s \in Sessions : Resolves(s) /\ MayWrite(holder[s])}

R == INSTANCE Registry WITH authority <- Writers, Callers <- Tokens \cup Sessions,
                            None <- Nobody

ASSUME ManagementAssumption == R!NoneIsApart

resources == <<storage, client, keys, file, cache, cmd, work>>
allvars   == <<vars, resources>>

ManagementInit == Init /\ R!Init

ManagementNext ==
  \/ Next /\ (R!FenceFree \/ Unlocked) /\ UNCHANGED resources
  \/ R!Next /\ UNCHANGED vars

ManagementSpec == ManagementInit /\ [][ManagementNext]_allvars

-------------------------------------------------------------------------------
\* Registry's properties, with the callers' rights as Accounts has them.
RegistryTypeOK            == R!TypeOK
ObjectsStayAddressed      == R!ObjectsStayAddressed
TransfersReachTheirObject == R!TransfersReachTheirObject
WritesAreAuthorised       == R!WritesAreAuthorised
===============================================================================
