--------------------------------- MODULE Books ---------------------------------
(***************************************************************************)
(* What the Ledger promises, said without queues, jobs, snapshots or       *)
(* statuses: a journal to which movements are added and from which none is *)
(* ever taken or changed, and balances in which every movement of the      *)
(* journal is counted once, at some later time, with its own amount.       *)
(*                                                                         *)
(* LedgerBooks says what these variables are in the Ledger; TLC checks     *)
(* that the Ledger implements LiveSpec, Books_proofs that it implements    *)
(* Spec.                                                                   *)
(***************************************************************************)
EXTENDS Integers

CONSTANTS
  Entry,    \* identifiers of movements
  NoEntry,  \* no movement
  Account,  \* accounts
  Value,    \* what a movement may be worth: integers, below 0 too
  Blank     \* nothing is written under an identifier

VARIABLES
  journal,  \* the movements
  settled,  \* the movements that their account's balance counts
  balance   \* the balances

books == <<journal, settled, balance>>

(* A movement is worth something to one account; `of' is the movement that *)
(* it takes back.                                                          *)
Movement(account, worth, of) == [account |-> account, worth |-> worth, of |-> of]

Written == {e \in Entry : journal[e] # Blank}

Init ==
  /\ journal = [e \in Entry |-> Blank]
  /\ settled = {}
  /\ balance = [a \in Account |-> 0]

(* A record is created.                                                    *)
Write(e) ==
  /\ e \notin Written
  /\ \E account \in Account, worth \in Value :
       journal' = [journal EXCEPT ![e] = Movement(account, worth, NoEntry)]
  /\ UNCHANGED <<settled, balance>>

(* A record is cancelled: by a movement of the opposite worth, in the same *)
(* account.                                                                *)
Reverse(e) ==
  /\ e \notin Written
  /\ \E o \in Written :
       /\ journal[o].of = NoEntry
       /\ journal' = [journal EXCEPT ![e] =
            Movement(journal[o].account, -journal[o].worth, o)]
  /\ UNCHANGED <<settled, balance>>

(* A movement reaches the balance of its account, once.                    *)
Settle(e) ==
  /\ e \in Written \ settled
  /\ settled' = settled \union {e}
  /\ balance' = [balance EXCEPT ![journal[e].account] = @ + journal[e].worth]
  /\ UNCHANGED journal

Next == \E e \in Entry : Write(e) \/ Reverse(e) \/ Settle(e)

Spec == Init /\ [][Next]_books

(* Every movement settles.  Once written a movement stays ready to settle  *)
(* until it does, so that this is weak fairness of Settle.                 *)
EverySettles == \A e \in Entry : e \in Written ~> e \in settled

LiveSpec == Spec /\ EverySettles
===============================================================================
