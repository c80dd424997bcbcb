--------------------------- MODULE CarbonRegistry ---------------------------
(***************************************************************************)
(* contracts/carbon_registry: projects and their lifecycle.                *)
(*                                                                         *)
(* A Soroban invocation is atomic and invocations are serialised; an error *)
(* return or a trap rolls every write of the invocation back.  So each     *)
(* entry point is one action, its error returns are negated in its guard   *)
(* (a rejected call is a stuttering step), and TTL extensions, which never *)
(* lose an entry, are left out.                                            *)
(***************************************************************************)
EXTENDS Integers

CONSTANTS
    Address,    \* accounts that own projects and hold credits
    Admin,      \* accounts that may be installed as administrator
    Vintage,    \* vintage years
    Amount,     \* i128 arguments the callers pass, zero included
    Total,      \* i128 totals that projects are registered with
    MaxI128,    \* the largest i128: checked arithmetic fails above it
    NULL

ASSUME RegistryAssumption ==
    /\ MaxI128 \in Nat
    /\ Amount \subseteq -MaxI128 .. MaxI128
    /\ Total \subseteq -MaxI128 .. MaxI128
    /\ NULL \notin Admin
    /\ NULL \notin Address

ProjectStatus == {"Pending", "Verified", "Suspended", "Retired"}

CarbonProject == [owner  : Address,
                  total  : 1 .. MaxI128,
                  issued : 0 .. MaxI128,
                  status : ProjectStatus]

ASSUME NullIsNoProject == NULL \notin CarbonProject

(***************************************************************************)
(* The code first converts the tuple (owner, name, vintage) to Bytes.  A   *)
(* tuple is a vector object, so that conversion always fails and the       *)
(* fallback hashes the vintage year alone.  SHA-256 is taken to be         *)
(* injective, so an identifier is modelled by what is hashed.              *)
(***************************************************************************)
ProjectId == Vintage

ProjectIdOf(owner, vintage) == vintage

VARIABLES
    registryAdmin,  \* instance CONFIG: the administrator, or NULL
    projects,       \* persistent PROJECT entries, NULL where absent
    overwritten     \* history: identifiers whose entry was replaced

registryVars == <<registryAdmin, projects, overwritten>>

RegistryTypeOK ==
    /\ registryAdmin \in Admin \cup {NULL}
    /\ projects \in [ProjectId -> CarbonProject \cup {NULL}]
    /\ overwritten \subseteq ProjectId

RegistryInit ==
    /\ registryAdmin = NULL
    /\ projects = [id \in ProjectId |-> NULL]
    /\ overwritten = {}

-----------------------------------------------------------------------------
(***************************************************************************)
(* Entry points                                                            *)
(***************************************************************************)

\* initialize: no signature is required, the first caller wins.
InitializeRegistry(admin) ==
    /\ registryAdmin = NULL
    /\ registryAdmin' = admin
    /\ UNCHANGED <<projects, overwritten>>

\* register_project: the entry is written without looking at what is there.
RegisterProject(owner, total, vintage) ==
    LET id == ProjectIdOf(owner, vintage)
    IN  /\ registryAdmin # NULL
        /\ total > 0
        /\ projects' = [projects EXCEPT ![id] =
               [owner |-> owner, total |-> total, issued |-> 0, status |-> "Pending"]]
        /\ overwritten' = IF projects[id] = NULL THEN overwritten
                                                 ELSE overwritten \cup {id}
        /\ UNCHANGED registryAdmin

SetProjectStatus(id, status) ==
    /\ registryAdmin # NULL
    /\ projects[id] # NULL
    /\ projects' = [projects EXCEPT ![id].status = status]
    /\ UNCHANGED <<registryAdmin, overwritten>>

\* The administrator's three transitions look at no previous status.
VerifyProject(id) == SetProjectStatus(id, "Verified")

SuspendProject(id) == SetProjectStatus(id, "Suspended")

RetireProject(id) == SetProjectStatus(id, "Retired")

(***************************************************************************)
(* get_project and issue_credits are called by the other contracts; only   *)
(* the marketplace contract can authorise issue_credits, so it is not an   *)
(* action of its own but a part of MintProjectCredits.                     *)
(***************************************************************************)
IsVerified(id) == projects[id] # NULL /\ projects[id].status = "Verified"

CanIssue(id, amount) ==
    /\ registryAdmin # NULL
    /\ amount > 0
    /\ IsVerified(id)
    /\ projects[id].issued + amount <= MaxI128
    /\ projects[id].issued + amount <= projects[id].total

\* Mutant: issue_credits checks the cap and forgets to write the counter.
IssuedNotCounted(id, amount) == projects

Issued(id, amount) == [projects EXCEPT ![id].issued = @ + amount]

RegistryNext ==
    \/ \E admin \in Admin : InitializeRegistry(admin)
    \/ \E owner \in Address, total \in Total, vintage \in Vintage :
           RegisterProject(owner, total, vintage)
    \/ \E id \in ProjectId : VerifyProject(id)
    \/ \E id \in ProjectId : SuspendProject(id)
    \/ \E id \in ProjectId : RetireProject(id)

=============================================================================
