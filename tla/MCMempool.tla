----------------------------- MODULE MCMempool -----------------------------
(* Three transactions of one sender, the second a replacement of the first; *)
(* a block has bytes for the first alone, or for the other two.             *)
EXTENDS Mempool

CONSTANTS alice, bob

MCTxs == { [from |-> alice, nonce |-> 0, fee |-> 1, size |-> 2, id |-> 1],
           [from |-> alice, nonce |-> 0, fee |-> 2, size |-> 1, id |-> 2],
           [from |-> alice, nonce |-> 1, fee |-> 2, size |-> 1, id |-> 3] }
(* One transaction each of two senders, for the run about cleanup.          *)
MCTwoSenders == { [from |-> alice, nonce |-> 0, fee |-> 2, size |-> 1, id |-> 1],
                  [from |-> bob, nonce |-> 0, fee |-> 1, size |-> 1, id |-> 2] }
=============================================================================
