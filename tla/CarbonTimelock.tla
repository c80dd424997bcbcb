--------------------------- MODULE CarbonTimelock ---------------------------
(***************************************************************************)
(* contracts/carbon_timelock: proposal, veto and execution of sensitive    *)
(* administrative operations.  Each entry point is one atomic action whose *)
(* guard is the conjunction of its checks; a caller stands for an address  *)
(* that has signed the invocation.                                         *)
(***************************************************************************)
EXTENDS Soroban

CONSTANTS
    Address,        \* callers
    OpId,           \* operation identifiers callers choose
    OperationType,  \* RotateOracleKey, ForceRetireProject, PauseMarketplace, Generic
    MinimumDelay,   \* minimum_delay: ledgers each type has to wait
    Params,         \* parameter hashes
    Delay,          \* delay_ledgers arguments
    FirstLedger     \* ledger sequences the contract may be deployed in

\* What the contract's types give: ledgers and delays are u32, and every type waits.
ASSUME TimelockAssumption ==
    /\ MinimumDelay \in [OperationType -> 1 .. MaxLedger]
    /\ Delay \subseteq Ledger
    /\ FirstLedger \subseteq Ledger

TimelockConfig == [admin : Address, guardian : Address]

TimelockOperation == [opType : OperationType, params : Params, proposedAt : Ledger,
                      executeAfter : Ledger, proposer : Address,
                      status : {"Pending", "Executed", "Cancelled"}]

ASSUME NullIsNoOperation == NULL \notin TimelockConfig /\ NULL \notin TimelockOperation

VARIABLES
    timelockConfig, \* instance CONFIG, or NULL
    ops             \* persistent OP entries, NULL where absent

timelockVars == <<timelockConfig, ops, ledger>>

TimelockTypeOK ==
    /\ timelockConfig \in TimelockConfig \cup {NULL}
    /\ ops \in [OpId -> TimelockOperation \cup {NULL}]
    /\ ledger \in Ledger

TimelockInit ==
    /\ timelockConfig = NULL
    /\ ops = [id \in OpId |-> NULL]
    /\ ledger \in FirstLedger

SaturatingAdd(m, n) == IF m + n > MaxLedger THEN MaxLedger ELSE m + n

-----------------------------------------------------------------------------

InitializeTimelock(admin, guardian) ==
    /\ timelockConfig = NULL
    /\ timelockConfig' = [admin |-> admin, guardian |-> guardian]
    /\ UNCHANGED <<ops, ledger>>

\* Mutant: any positive delay is accepted.
AnyDelayAccepted(type, delay) == delay > 0

DelayAccepted(type, delay) == delay >= MinimumDelay[type]

ProposeOperation(proposer, id, type, params, delay) ==
    /\ timelockConfig # NULL
    /\ proposer = timelockConfig.admin
    /\ DelayAccepted(type, delay)
    /\ ops[id] = NULL
    /\ ops' = [ops EXCEPT ![id] =
           [opType |-> type, params |-> params, proposedAt |-> ledger,
            executeAfter |-> SaturatingAdd(ledger, delay), proposer |-> proposer,
            status |-> "Pending"]]
    /\ UNCHANGED <<timelockConfig, ledger>>

\* Mutant: the status of the operation is not looked at.
SetOpStatusUnchecked(id, status) ==
    /\ ops[id] # NULL
    /\ ops' = [ops EXCEPT ![id].status = status]
    /\ UNCHANGED <<timelockConfig, ledger>>

SetOpStatus(id, status) ==
    /\ ops[id] # NULL
    /\ ops[id].status = "Pending"
    /\ ops' = [ops EXCEPT ![id].status = status]
    /\ UNCHANGED <<timelockConfig, ledger>>

ExecuteOperation(executor, id, params) ==
    /\ timelockConfig # NULL
    /\ ops[id] # NULL
    /\ executor = ops[id].proposer
    /\ executor = timelockConfig.admin
    /\ ledger >= ops[id].executeAfter
    /\ params = ops[id].params
    /\ SetOpStatus(id, "Executed")

CancelOperation(canceller, id) ==
    /\ timelockConfig # NULL
    /\ canceller = timelockConfig.admin \/ canceller = timelockConfig.guardian
    /\ SetOpStatus(id, "Cancelled")

CloseTimelockLedger ==
    /\ ledger < MaxLedger
    /\ ledger' = ledger + 1
    /\ UNCHANGED <<timelockConfig, ops>>

TimelockNext ==
    \/ \E admin, guardian \in Address : InitializeTimelock(admin, guardian)
    \/ \E proposer \in Address, id \in OpId, type \in OperationType,
          params \in Params, delay \in Delay :
           ProposeOperation(proposer, id, type, params, delay)
    \/ \E executor \in Address, id \in OpId, params \in Params :
           ExecuteOperation(executor, id, params)
    \/ \E canceller \in Address, id \in OpId : CancelOperation(canceller, id)
    \/ CloseTimelockLedger

TimelockSpec == TimelockInit /\ [][TimelockNext]_timelockVars

-----------------------------------------------------------------------------
(***************************************************************************)
(* Properties                                                              *)
(***************************************************************************)

\* execute_operation never approves an operation before its type's minimum delay
\* has passed since the proposal, whatever delay the proposer asked for, unless
\* the ledger sequence itself has come to the end of u32.
DelayEnforced ==
    [][\A id \in OpId :
          (ops[id] # NULL /\ ops'[id].status = "Executed" /\ ops[id].status # "Executed")
              => \/ ledger >= ops[id].proposedAt + MinimumDelay[ops[id].opType]
                 \/ ledger = MaxLedger]_timelockVars

\* An operation id is used once: what it was proposed with never changes, and
\* once it is Executed or Cancelled no propose, execute or cancel changes it, so
\* a veto that came first is final and an approval is given at most once.
OperationFinal ==
    [][\A id \in OpId : ops[id] # NULL =>
          /\ ops'[id] # NULL
          /\ ops'[id].params = ops[id].params
          /\ ops'[id].proposedAt = ops[id].proposedAt
          /\ ops[id].status # "Pending" => ops'[id] = ops[id]]_timelockVars

=============================================================================
