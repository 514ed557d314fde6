---------------------------- MODULE AddressInfo ----------------------------
(***************************************************************************)
(* What the system remembers of an address: whether it is a contract and,  *)
(* if so, the block it was created in.  A creation block of 0 stands for   *)
(* none as well: the repository stores 0 as null (address-info.repository) *)
(* and getTransactions treats the two alike.                               *)
(***************************************************************************)
EXTENDS Integers

NoBlock == -1   \* no contract at the address; no toBlock in a query

Info    == [isContract : BOOLEAN, creationBlock : Nat]
EOA     == [isContract |-> FALSE, creationBlock |-> 0]
Unknown == [isContract |-> FALSE, creationBlock |-> NoBlock]

Contract(b) == [isContract |-> TRUE, creationBlock |-> b]

HasCode(created, b) == created # NoBlock /\ created <= b

\* What there is to find out about an address created in block created.
Truth(created, head) == IF HasCode(created, head) THEN Contract(created) ELSE EOA

(***************************************************************************)
(* What discoverAddressInfo may answer when the latest block is head.  If  *)
(* calls may fail: an EOA, a block at or above the creation, or 0.         *)
(* ContractSearch is checked to keep to it; TxPipeline relies on it.       *)
(***************************************************************************)
Discoverable(created, head, faults) ==
    {Truth(created, head)} \cup
        IF faults /\ HasCode(created, head)
        THEN {EOA} \cup {Contract(b) : b \in {0} \cup created .. head}
        ELSE {}

\* getStartingBlockFromInfo
StartingBlock(info) == IF info.isContract THEN info.creationBlock ELSE 0
============================================================================
