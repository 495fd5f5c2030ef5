---------------------------- MODULE EpochRounds ----------------------------
(***************************************************************************)
(* What every coordination engine of crates/shadi_mas promises to the code *)
(* that drives it: contributions are gathered on a table that belongs to   *)
(* one epoch, an epoch is closed once, its verdict is taken from what was  *)
(* on the table, and the table of the next epoch starts empty.             *)
(***************************************************************************)
EXTENDS Integers

CONSTANTS
  Seats,        \* who may contribute
  Offers,       \* what may be contributed
  Epochs,
  InitialEpoch,
  Verdicts(_),  \* the verdicts a table allows
  None

VARIABLES
  epoch,   \* the open epoch
  table,   \* Seats -> contribution to the open epoch, or None
  ledger   \* epoch -> verdict, or None

roundVars == <<epoch, table, ledger>>

EmptyTable == [s \in Seats |-> None]

Init ==
  /\ epoch = InitialEpoch
  /\ table = EmptyTable
  /\ ledger = [n \in Epochs |-> None]

\* A contribution that leaves the epoch open.
Put(s, x) ==
  /\ table' = [table EXCEPT ![s] = x]
  /\ UNCHANGED <<epoch, ledger>>

\* The contribution that completes the epoch.
Close(s, x) ==
  /\ \E v \in Verdicts([table EXCEPT ![s] = x]) :
       ledger' = [ledger EXCEPT ![epoch] = v]
  /\ epoch' = epoch + 1
  /\ table' = EmptyTable

Next == epoch \in Epochs /\ \E s \in Seats, x \in Offers : Put(s, x) \/ Close(s, x)

Spec == Init /\ [][Next]_roundVars

=============================================================================
