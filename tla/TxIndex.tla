------------------------------ MODULE TxIndex ------------------------------
(***************************************************************************)
(* What the transaction subsystem promises about its database, with every  *)
(* mechanism left out: the chain grows, and from time to time the index    *)
(* learns that a set of blocks is complete for an address, at which point  *)
(* it has every transaction of the address in those blocks (the README's   *)
(* "No gaps: serve directly from the database (complete coverage)").       *)
(* Nothing is ever unlearned.  TxPipeline implements it.                   *)
(***************************************************************************)
EXTENDS Integers

CONSTANTS
    Address,
    Tx,
    BlockOf,    \* the block a transaction is in
    PartiesOf   \* the addresses whose history a transaction belongs to

VARIABLES
    head,       \* the chain's latest block
    complete,   \* the blocks the index claims to know, by address
    known       \* the transactions it has, by address

vars == <<head, complete, known>>

TxsOf(a) == {t \in Tx : a \in PartiesOf[t]}

TypeOK ==
    /\ head \in Nat
    /\ complete \in [Address -> SUBSET Nat]
    /\ known \in [Address -> SUBSET Tx]

Init ==
    /\ head \in Nat
    /\ complete = [a \in Address |-> {}]
    /\ known = [a \in Address |-> {}]

Grow ==
    /\ head' \in Nat
    /\ head' > head
    /\ UNCHANGED <<complete, known>>

(***************************************************************************)
(* Blocks that exist become complete for address a, some of them perhaps   *)
(* for a second time; transactions of a, and of no one else, are added.    *)
(***************************************************************************)
Learn(a) ==
    /\ \E blocks \in SUBSET (0 .. head), txs \in SUBSET TxsOf(a) :
          /\ \A t \in TxsOf(a) : BlockOf[t] \in blocks => t \in known[a] \cup txs
          /\ complete' = [complete EXCEPT ![a] = @ \cup blocks]
          /\ known' = [known EXCEPT ![a] = @ \cup txs]
    /\ UNCHANGED head

Next == Grow \/ \E a \in Address : Learn(a)

Spec == Init /\ [][Next]_vars

============================================================================
