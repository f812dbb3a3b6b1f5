-------------------------------- MODULE Api --------------------------------
(***************************************************************************)
(* The REST and JSON-RPC handlers (api/rest.rs, api/rpc.rs) over a node    *)
(* that goes on storing blocks.  A handler that reads once is one step;    *)
(* the list of blocks and the consensus state are read piece by piece.     *)
(*                                                                         *)
(* The hash of a block is its height, and the hash of a transaction the    *)
(* transaction.  An argument the parser refuses is Malformed, and bytes    *)
(* that decode to no transaction are Undecodable.                          *)
(***************************************************************************)
EXTENDS Integers, FiniteSets
LOCAL INSTANCE Sequences

CONSTANTS ApiMaxHeight,   \* bound: blocks stored
          ApiTxs,         \* transactions that clients send
          ApiAccounts,    \* the stored accounts: address -> [balance, nonce]
          ApiAddresses,   \* addresses asked for
          ApiLimits,      \* the page sizes a client asks for
          ApiPageCap      \* 100 in Pagination::limit

VARIABLES stored,      \* the last block put in the blocks column
          tipHeight,   \* KEY_BLOCK_HEIGHT
          tipRound,    \* the round of the consensus engine
          apiPool,     \* the mempool
          apiMined,    \* the transactions storage knows
          answer,      \* the last answer that was sent
          stateRead,   \* the values get_consensus_state has read so far
          page,        \* the call of get_blocks in progress
          walk         \* a client that asks for page after page

nodeVars == <<stored, tipHeight, tipRound, apiPool, apiMined>>
apiVars == <<nodeVars, answer, stateRead, page, walk>>

Malformed == -1
Undecodable == -2
NoPage == [at |-> "none"]

ApiTypeOK ==
    /\ stored \in 0..ApiMaxHeight /\ tipHeight \in {stored - 1, stored} \cap Nat
    /\ tipRound \in Nat /\ apiPool \subseteq ApiTxs /\ apiMined \subseteq ApiTxs
    /\ stateRead \in Seq(Nat) /\ Len(stateRead) <= 4
    /\ walk.seen \subseteq 0..ApiMaxHeight /\ walk.failed \subseteq 0..ApiMaxHeight

ApiInit ==
    /\ stored = 0 /\ tipHeight = 0 /\ tipRound = 0 /\ apiPool = {} /\ apiMined = {}
    /\ answer = [status |-> "none", body |-> "-"]
    /\ stateRead = <<>>
    /\ page = NoPage
    /\ \E limit \in ApiLimits :
         walk = [limit |-> limit, page |-> 1, from |-> 0, seen |-> {}, failed |-> {}, more |-> TRUE]
-----------------------------------------------------------------------------
(* The node under the API: a block is put, and its height after it; the     *)
(* transactions of the block leave the pool; rounds pass.                   *)
NodePutsBlock ==
    /\ stored = tipHeight /\ stored < ApiMaxHeight
    /\ stored' = stored + 1
    /\ \E txs \in SUBSET apiPool : apiMined' = apiMined \cup txs /\ apiPool' = apiPool \ txs
    /\ UNCHANGED <<tipHeight, tipRound, answer, stateRead, page, walk>>

NodeWritesHeight ==
    /\ tipHeight < stored
    /\ tipHeight' = stored /\ tipRound' = 0
    /\ UNCHANGED <<stored, apiPool, apiMined, answer, stateRead, page, walk>>

NodeNextRound ==
    /\ tipRound = 0 /\ tipRound' = 1
    /\ UNCHANGED <<stored, tipHeight, apiPool, apiMined, answer, stateRead, page, walk>>
-----------------------------------------------------------------------------
Reply(status, body) == answer' = [status |-> status, body |-> body]

(* error_response: the status of an error of the node.                      *)
error_response(e) ==
    CASE e \in {"BlockNotFound", "AccountNotFound"} -> "404"
      [] e = "InsufficientBalance" -> "400"
      [] e = "InvalidSignature" -> "401"
      [] OTHER -> "500"
StorageFailure == error_response("RocksDBError")

(* parse_hash and parse_address refuse what is not 32 bytes of hex.         *)
parse_address(arg) == arg # Malformed
parse_hash(arg) == arg # Malformed

(* A read of storage may fail; what is not stored is not found.             *)
Answers(present, body, missing, failure) ==
    \/ present /\ Reply("ok", body)
    \/ ~present /\ Reply(missing, "-")
    \/ Reply(failure, "-")

(* GET /blocks/latest, /blocks/:height and /blocks/hash/:hash               *)
get_latest_block == Answers(tipHeight <= stored, tipHeight, "404", StorageFailure)
get_block_by_height(height) == Answers(height <= stored, height, "404", StorageFailure)
get_block_by_hash(hash) ==
    \/ parse_hash(hash) /\ Answers(hash <= stored, hash, "404", StorageFailure)
    \/ ~parse_hash(hash) /\ Reply("400", "-")

(* GET /transactions/:hash, /accounts/:address and .../balance              *)
get_transaction(hash) ==
    \/ parse_hash(hash) /\ Answers(hash \in apiMined, hash, "404", StorageFailure)
    \/ ~parse_hash(hash) /\ Reply("400", "-")

Balance(address) == IF address \in DOMAIN ApiAccounts THEN ApiAccounts[address].balance ELSE 0
Nonce(address) == IF address \in DOMAIN ApiAccounts THEN ApiAccounts[address].nonce ELSE 0

get_account(address) ==
    \/ /\ parse_address(address)
       /\ Answers(address \in DOMAIN ApiAccounts, Balance(address), "404", StorageFailure)
    \/ ~parse_address(address) /\ Reply("400", "-")

get_balance(address) ==
    \/ parse_address(address) /\ Answers(TRUE, Balance(address), "404", StorageFailure)
    \/ ~parse_address(address) /\ Reply("400", "-")

(* The handlers that cannot fail: pending transactions, and network, peers, *)
(* validators (always empty), mempool statistics and health.                *)
get_pending_transactions == Reply("ok", Cardinality(apiPool))
get_network_info == Reply("ok", "-")

RestReads ==
    /\ \/ get_latest_block
       \/ \E h \in 0..ApiMaxHeight : get_block_by_height(h) \/ get_block_by_hash(h)
       \/ get_block_by_hash(Malformed)
       \/ \E x \in ApiTxs \cup {Malformed} : get_transaction(x)
       \/ \E a \in ApiAddresses \cup {Malformed} : get_account(a) \/ get_balance(a)
       \/ get_pending_transactions
       \/ get_network_info
    /\ UNCHANGED <<nodeVars, stateRead, page, walk>>

(* POST /transactions: the pool accepts, or its error is an internal one.   *)
SendTransaction(x, failure) ==
    \/ apiPool' = apiPool \cup {x} /\ Reply("ok", x)
    \/ UNCHANGED apiPool /\ Reply(failure, "-")

send_transaction ==
    /\ \E x \in ApiTxs : SendTransaction(x, error_response("Internal"))
    /\ UNCHANGED <<stored, tipHeight, tipRound, apiMined, stateRead, page, walk>>
-----------------------------------------------------------------------------
(* parse_block_number: "latest", "earliest" and "pending" are all block 0.   *)
BlockNames == {<<"latest">>, <<"earliest">>, <<"pending">>}
parse_block_number(p) == IF p \in BlockNames THEN 0 ELSE p[2]

rpc_get_block_by_number(p) ==
    LET height == parse_block_number(p)
    IN IF height = Malformed THEN Reply("-32602", "-")
       ELSE Answers(height <= stored, height, "-32000", "-32603")

(* A method with one parameter: a parameter that is missing or that the      *)
(* parser refuses is INVALID_PARAMS, a failing read is INTERNAL_ERROR.      *)
RpcFound(parsed, present, body, missing) ==
    IF parsed THEN Answers(present, body, missing, "-32603") ELSE Reply("-32602", "-")

rpc_get_block_by_hash(p) == RpcFound(parse_hash(p), p <= stored, p, "-32000")
rpc_get_transaction(p) == RpcFound(parse_hash(p), p \in apiMined, p, "-32001")
rpc_get_transaction_receipt(p) == RpcFound(parse_hash(p), p \in apiMined, "-", "-32001")
rpc_get_balance(p) == RpcFound(parse_address(p), TRUE, Balance(p), "-")
rpc_get_nonce(p) == RpcFound(parse_address(p), TRUE, Nonce(p), "-")
rpc_sha3(p) == IF p = Malformed THEN Reply("-32602", "-") ELSE Reply("ok", "-")

rpc_block_number == Answers(TRUE, tipHeight, "-", "-32603")

(* The methods whose answer is a constant, and those that cannot fail.      *)
rpc_chain_id == Reply("ok", "-")
rpc_get_network_info == Reply("ok", "-")

(* handle_rpc_request: a request of another version is refused before its   *)
(* method is looked at, an unknown method after.                            *)
handle_rpc_request ==
    /\ \/ Reply("-32600", "-")
       \/ Reply("-32601", "-")
       \/ rpc_block_number
       \/ \E p \in BlockNames \cup ({"number"} \X (0..ApiMaxHeight \cup {Malformed})) :
            rpc_get_block_by_number(p)
       \/ \E p \in 0..ApiMaxHeight \cup {Malformed} : rpc_get_block_by_hash(p)
       \/ \E p \in ApiTxs \cup {Malformed} :
            rpc_get_transaction(p) \/ rpc_get_transaction_receipt(p) \/ rpc_sha3(p)
       \/ \E p \in ApiAddresses \cup {Malformed} : rpc_get_balance(p) \/ rpc_get_nonce(p)
       \/ rpc_chain_id
       \/ rpc_get_network_info
    /\ UNCHANGED <<nodeVars, stateRead, page, walk>>

rpc_send_transaction ==
    /\ \E p \in ApiTxs \cup {Malformed, Undecodable} :
         IF p = Malformed THEN Reply("-32602", "-") /\ UNCHANGED apiPool
         ELSE IF p = Undecodable THEN Reply("-32003", "-") /\ UNCHANGED apiPool
         ELSE SendTransaction(p, "-32603")
    /\ UNCHANGED <<stored, tipHeight, tipRound, apiMined, stateRead, page, walk>>

(* get_consensus_state reads height, round, and both again for is_proposer, *)
(* each under its own lock.                                                 *)
get_consensus_state ==
    LET read == Append(stateRead, IF Len(stateRead) % 2 = 0 THEN tipHeight ELSE tipRound)
    IN /\ IF Len(read) = 4
          THEN stateRead' = <<>> /\ Reply("ok", <<read[1], read[2], read[3]>>)
          ELSE stateRead' = read /\ UNCHANGED answer
       /\ UNCHANGED <<nodeVars, page, walk>>
-----------------------------------------------------------------------------
(* Pagination: the offset is a multiple of the size asked for, the page is  *)
(* never longer than the cap.                                               *)
PageLimit(asked) == IF asked <= ApiPageCap THEN asked ELSE ApiPageCap
PageOffset(number, asked) == (number - 1) * asked

has_next_mutant(p) == p.offset + p.limit < p.height
has_next(p) == p.offset + p.limit <= p.height

(* get_blocks: the height, which is 0 when its read fails, then the heights *)
(* of the page from the highest down.                                       *)
get_blocks ==
    /\ page = NoPage /\ walk.more
    /\ \E fails \in BOOLEAN :
         LET height == IF fails THEN 0 ELSE tipHeight
             offset == PageOffset(walk.page, walk.limit)
         IN /\ page' = [at |-> "blocks", height |-> height, offset |-> offset,
                        limit |-> PageLimit(walk.limit), next |-> height - offset, items |-> {}]
            /\ walk' = [walk EXCEPT !.from = IF walk.page = 1 THEN tipHeight ELSE @,
                                    !.failed = IF fails THEN 0..tipHeight ELSE @]
    /\ UNCHANGED <<nodeVars, answer, stateRead>>

PageReads(p) == p.next >= 0 /\ p.height - p.offset - p.next < p.limit

(* A block that is missing, or whose read fails, is left out of the page.   *)
PageReadsBlock ==
    /\ page.at = "blocks" /\ PageReads(page)
    /\ \/ /\ page.next <= stored
          /\ page' = [page EXCEPT !.items = @ \cup {page.next}, !.next = @ - 1]
          /\ UNCHANGED walk
       \/ /\ page' = [page EXCEPT !.next = @ - 1]
          /\ walk' = [walk EXCEPT !.failed = @ \cup {page.next}]
    /\ UNCHANGED <<nodeVars, answer, stateRead>>

PageAnswers ==
    /\ page.at = "blocks" /\ ~PageReads(page)
    /\ walk' = [walk EXCEPT !.seen = @ \cup page.items, !.more = has_next(page), !.page = @ + 1]
    /\ page' = NoPage
    /\ UNCHANGED <<nodeVars, answer, stateRead>>

(* The requests that are answered at once, the reads of the consensus state *)
(* and the walk over the pages: none writes what another reads but the      *)
(* node, which each has beside it.                                          *)
NodeGrows == NodePutsBlock \/ NodeWritesHeight \/ NodeNextRound

ApiRequestNext ==
    \/ NodeGrows
    \/ RestReads \/ send_transaction \/ handle_rpc_request \/ rpc_send_transaction

ApiStateNext == NodeGrows \/ get_consensus_state

ApiWalkNext == NodeGrows \/ get_blocks \/ PageReadsBlock \/ PageAnswers
-----------------------------------------------------------------------------
(* A client that asks for page after page until has_next is false has seen  *)
(* every block there was when it began, though blocks were stored between   *)
(* the pages and between the reads of one page; only a block whose read     *)
(* failed may be missing.  It holds for page sizes up to the cap.  About    *)
(* get_blocks, Pagination and the silently dropped read errors.             *)
PagesSkipNoBlock ==
    walk.limit <= ApiPageCap /\ ~walk.more => 0..walk.from \subseteq walk.seen \cup walk.failed
=============================================================================
