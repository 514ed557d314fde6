-------------------------- MODULE ContractSearch --------------------------
(***************************************************************************)
(* discoverAddressInfo and findContractCreationBlock                       *)
(* (modules/eth/core/contract-detector.ts): one getCode at the latest      *)
(* block, then a binary search for the first block with code.  Every call  *)
(* to the provider is a step of its own and may throw.  An address that    *)
(* has code keeps it (the provider is external, and so is this).  The      *)
(* first part of a request: TxPages goes on from the answer.               *)
(***************************************************************************)
EXTENDS AddressInfo

CONSTANTS
    Head,       \* the latest blocks the chain may have
    Faults      \* whether calls to the provider may throw

ASSUME HeadAssumption == Head \subseteq Nat /\ Faults \in BOOLEAN

VARIABLES
    created,        \* the block the contract was created in, or NoBlock
    head,           \* the latest block; what happens later is not seen
    low,
    high,
    creationBlock,
    info,           \* the answer
    faulted,        \* history: some call has thrown
    pc              \* "code", "latest", "search", "done"

searchVars == <<created, head, low, high, creationBlock, info, faulted, pc>>

SearchInit ==
    /\ head \in Head
    /\ created \in 0 .. head \cup {NoBlock}
    /\ low = 0
    /\ high = 0
    /\ creationBlock = 0
    /\ info = Unknown
    /\ faulted = FALSE
    /\ pc = "code"

\* getCode at the latest block
CheckCode ==
    /\ pc = "code"
    /\ IF HasCode(created, head)
       THEN pc' = "latest" /\ UNCHANGED info
       ELSE pc' = "done" /\ info' = EOA
    /\ UNCHANGED <<created, head, low, high, creationBlock, faulted>>

\* Mutant: the search starts one block above the latest one.
StartSearch_Above ==
    /\ pc = "latest"
    /\ low' = 0
    /\ high' = head + 1
    /\ creationBlock' = 0
    /\ pc' = "search"
    /\ UNCHANGED <<created, head, info, faulted>>

\* getBlockNumber
StartSearch ==
    /\ pc = "latest"
    /\ low' = 0
    /\ high' = head
    /\ creationBlock' = 0
    /\ pc' = "search"
    /\ UNCHANGED <<created, head, info, faulted>>

Mid == (low + high) \div 2

\* The loop's condition
Searching == low <= high

NoCodeAtMid ==
    /\ pc = "search" /\ Searching
    /\ ~HasCode(created, Mid)
    /\ low' = Mid + 1
    /\ UNCHANGED <<created, head, high, creationBlock, info, faulted, pc>>

CodeAtMid ==
    /\ pc = "search" /\ Searching
    /\ HasCode(created, Mid)
    /\ creationBlock' = Mid
    /\ high' = Mid - 1
    /\ UNCHANGED <<created, head, low, info, faulted, pc>>

\* Mutant: a call that fails counts as code.
GetCodeFails_CountsAsCode ==
    /\ Faults
    /\ pc = "search" /\ Searching
    /\ creationBlock' = Mid
    /\ high' = Mid - 1
    /\ faulted' = TRUE
    /\ UNCHANGED <<created, head, low, info, pc>>

\* The catch in the loop: "try a more recent block".
GetCodeFails ==
    /\ Faults
    /\ pc = "search" /\ Searching
    /\ low' = Mid + 1
    /\ faulted' = TRUE
    /\ UNCHANGED <<created, head, high, creationBlock, info, pc>>

\* The search returns, and its locals are gone.
Answer ==
    /\ pc = "search" /\ ~Searching
    /\ info' = Contract(creationBlock)
    /\ pc' = "done"
    /\ low' = 0 /\ high' = 0 /\ creationBlock' = 0
    /\ UNCHANGED <<created, head, faulted>>

\* The catch around it all: "default to EOA behavior on error".
DetectionFails ==
    /\ Faults
    /\ pc \in {"code", "latest"}
    /\ info' = EOA
    /\ faulted' = TRUE
    /\ pc' = "done"
    /\ UNCHANGED <<created, head, low, high, creationBlock>>

\* What happens when the calls return.
SearchStep == CheckCode \/ StartSearch \/ NoCodeAtMid \/ CodeAtMid \/ Answer

SearchNext == SearchStep \/ GetCodeFails \/ DetectionFails

---------------------------------------------------------------------------
SearchTypeOK ==
    /\ head \in Nat
    /\ created \in Nat \cup {NoBlock}
    /\ low \in 0 .. head + 1
    /\ high \in -1 .. head
    /\ creationBlock \in 0 .. head
    /\ info \in Info \cup {Unknown}
    /\ faulted \in BOOLEAN
    /\ pc \in {"code", "latest", "search", "done"}

(***************************************************************************)
(* The answer is what TxPipeline takes a discovery to be.  As long as no   *)
(* call has thrown it is the truth: the two bounds close in on the first   *)
(* block with code from both sides.  Whatever throws and whenever, it is   *)
(* the truth, an EOA, the 0 the search starts from, or a block the         *)
(* contract already had code in.                                           *)
(***************************************************************************)
AnswerAsSpecified ==
    pc = "done" => info \in Discoverable(created, head, faulted)

===========================================================================
