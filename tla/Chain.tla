------------------------------- MODULE Chain -------------------------------
(***************************************************************************)
(* The node and the chain as DemexSDK meets them; external to the          *)
(* repository.  Every account has a sequence number.  The node admits a    *)
(* transaction to its pool only if it carries the number the account will  *)
(* have once the pool is committed; blocks take transactions from the      *)
(* front of the pool.  A transaction is known by its request and attempt.  *)
(***************************************************************************)
EXTENDS Naturals, Sequences, FiniteSets

CONSTANTS Wallets,      \* the accounts
          None,         \* no request, no wallet, no sequence
          Scenarios     \* what may happen, and what goes wrong

VARIABLES scenario,     \* one of them; it never changes
          chainSeq,     \* the committed sequence of every account
          pool,         \* the node's pending transactions per account
          results,      \* what became of the transactions put into blocks
          disturbed     \* how often the accounts have been disturbed

chainVars == <<scenario, chainSeq, pool, results, disturbed>>

ChainInit == /\ scenario \in Scenarios
             /\ chainSeq = [w \in Wallets |-> 0]
             /\ pool = [w \in Wallets |-> <<>>]
             /\ results = {}
             /\ disturbed = 0

\* A transaction of somebody else's, signed with the same key.
ForeignTx == [req |-> None, try |-> 0]

Expected(w) == chainSeq[w] + Len(pool[w])

Admit(w, tx) == pool' = [pool EXCEPT ![w] = Append(@, tx)]

InPool(tx) == \E w \in Wallets : \E i \in DOMAIN pool[w] : pool[w][i] = tx

ResultOf(tx, res) == [tx |-> tx, res |-> res]

Advance(w) == chainSeq' = [chainSeq EXCEPT ![w] = @ + 1]

DropHead(w) == pool' = [pool EXCEPT ![w] = Tail(@)]

(* The next transaction of w gets into a block; its messages may fail, in  *)
(* which case it still uses up the sequence number.                        *)
BlockIncludes(w) ==
  /\ pool[w] # <<>>
  /\ Advance(w)
  /\ DropHead(w)
  /\ \E res \in {"ok"} \cup (IF "execFails" \in scenario.faults THEN {"failed"} ELSE {}) :
       results' = results \cup {ResultOf(Head(pool[w]), res)}
  /\ UNCHANGED <<scenario, disturbed>>

Disturb(what) == /\ what \in scenario.disturbances
                 /\ disturbed < scenario.maxDisturbed
                 /\ disturbed' = disturbed + 1

\* The account is used elsewhere, through the same pool.
ForeignAdmitted(w) ==
  /\ Disturb("foreignAdmitted")
  /\ Admit(w, ForeignTx)
  /\ UNCHANGED <<scenario, chainSeq, results>>

(* The account is used elsewhere and a block has the other transaction     *)
(* first.  The one the pool had for that sequence fails behind it ...      *)
ForeignIncluded(w) ==
  /\ Disturb("foreignIncluded")
  /\ Advance(w)
  /\ IF pool[w] = <<>>
     THEN UNCHANGED <<pool, results>>
     ELSE /\ DropHead(w)
          /\ results' = results \cup {ResultOf(Head(pool[w]), "mismatch")}
  /\ UNCHANGED scenario

\* ... or is dropped without ever being seen in a block.
ForeignDisplaces(w) ==
  /\ Disturb("foreignDisplaces")
  /\ pool[w] # <<>>
  /\ Advance(w)
  /\ DropHead(w)
  /\ UNCHANGED <<scenario, results>>

\* The pool drops a transaction, and with it those that were to follow it.
Evicted(w) ==
  /\ Disturb("evicted")
  /\ \E n \in 0 .. Len(pool[w]) - 1 :
       pool' = [pool EXCEPT ![w] = SubSeq(@, 1, n)]
  /\ UNCHANGED <<scenario, chainSeq, results>>

ChainNext == \E w \in Wallets : \/ BlockIncludes(w)
                                \/ ForeignAdmitted(w)
                                \/ ForeignIncluded(w)
                                \/ ForeignDisplaces(w)
                                \/ Evicted(w)

Txs(Requests) == [req : Requests \cup {None}, try : Nat]

ChainTypeOK(Requests) ==
  /\ chainSeq \in [Wallets -> Nat]
  /\ pool \in [Wallets -> Seq(Txs(Requests))]
  /\ results \subseteq [tx : Txs(Requests), res : {"ok", "failed", "mismatch"}]
  /\ disturbed \in 0 .. scenario.maxDisturbed
=============================================================================
