------------------------------ MODULE MCLedger ------------------------------
(* Two transfers between the genesis account and a new one, alone and       *)
(* together in a block.                                                     *)
EXTENDS Ledger

CONSTANTS vault, payee

T1 == [from |-> vault, to |-> payee, id |-> 1]
T2 == [from |-> payee, to |-> vault, id |-> 2]
MCTransfers == {T1, T2}
MCBodies == {<<>>, <<T1>>, <<T1, T2>>}
=============================================================================
