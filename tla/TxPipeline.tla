----------------------------- MODULE TxPipeline -----------------------------
(***************************************************************************)
(* packages/sdk/src/sdk.ts and packages/wallet/src/wallet.ts: how DemexSDK *)
(* signs and sends transactions.  A request waits in txSignManager, is     *)
(* signed with the next sequence number of a wallet's cached account,      *)
(* waits in txDispatchManager and is broadcast; one rejected for its       *)
(* sequence number goes back to the first queue, once.  The two queues     *)
(* work at the same time, each on one request (QueueManager), and meet in  *)
(* the cached accounts, which a reload overwrites with what the chain said.*)
(* A caller may have its account merged first, by a request of the SDK's   *)
(* own that goes the same way.                                             *)
(***************************************************************************)
EXTENDS Chain

CONSTANTS NumRequests,   \* calls of signAndBroadcast(), numbered in their order
          Main, Grantee, \* the wallets in the two roles
          Signer, Dispatcher, App  \* who calls reloadAccount(), besides callers

\* Every caller's request may bring about a merge that its caller waits for,
\* and another one, begun by signTx(), that nobody waits for.
Own == 1 .. NumRequests
Merges == NumRequests + 1 .. 3 * NumRequests
Requests == Own \cup Merges
AwaitedMerge(r) == NumRequests + r
SideMerge(r) == 2 * NumRequests + r

NoReload == [step |-> "idle", wallet |-> None, seq |-> None]
Actors == {Signer, Dispatcher, App} \cup Merges

FaultKinds == {"estimateFails", "signRefused", "answerLost", "execFails",
               "slowBlocks", "noAccount", "reloadFails", "walletRemoved", "granteeExpires",
               "callbackRejects"}

DisturbanceKinds == {"foreignAdmitted", "foreignIncluded", "foreignDisplaces",
                     "evicted", "checkRefuses"}

(* A scenario says how many requests callers make and how many of them they *)
(* keep open at a time, with which options (signOpts.signerAddress,         *)
(* signOpts.signer.sequence, bypassGrantee, broadcastOpts.mode), which of   *)
(* them the grantee may send, what is installed as grantee (see             *)
(* Recommended), who has triggerMerge (nobody, the SDK, the callers'        *)
(* options) and which requests are themselves merges,                       *)
(* disableRetryOnSequenceError, the faults there are, what else may happen  *)
(* to the accounts, and two bounds: how often that does, and how often the  *)
(* application calls sdk.reloadAccount().                                   *)
ScenarioType ==
  [requests : Nat, window : Nat,
   signer : [Requests -> Wallets \cup {None}],
   sequence : [Requests -> Nat \cup {None}],
   bypass : SUBSET Requests,
   mode : [Requests -> {"block", "sync", "async"}],
   authorised : SUBSET Own, grantee : {"none", "plain", "genuine"},
   merge : {"off", "sdk", "opts"}, ownMerges : SUBSET Own,
   retryDisabled : BOOLEAN, faults : SUBSET FaultKinds,
   disturbances : SUBSET DisturbanceKinds,
   maxDisturbed : Nat, maxAppReloads : Nat]

ASSUME TxPipelineAssumption ==
  /\ NumRequests \in Nat
  /\ Wallets = {Main, Grantee} /\ Main # Grantee /\ None \notin Wallets
  /\ None \notin Nat
  /\ Signer # Dispatcher /\ App \notin {Signer, Dispatcher}
  /\ {Signer, Dispatcher, App} \cap Nat = {}
  /\ \A s \in Scenarios :
       /\ s \in ScenarioType
       /\ s.requests <= NumRequests
       /\ \A r \in Merges : s.signer[r] = None /\ s.sequence[r] = None

VARIABLES promise,    \* the promise queueTx() returned for a request
          job,        \* the request as it stands in the queues
          signQ,      \* txSignManager's queue
          sign,       \* signTx(): its request, how far it is, its sequence
          dispQ,      \* txDispatchManager's queue
          disp,       \* dispatchTx(): its request and how far it is
          account,    \* every wallet's cached account sequence, or None
          merged,     \* and whether the cached account is merged
          reload,     \* the calls of reloadAccount() under way, per caller
          appReloads, \* how often the app has called it
          grantee,    \* the grantee's entry in wallets
          limbo       \* sent in async mode, not yet looked at by the node

env == <<chainVars, limbo>>
app == <<appReloads, grantee>>
cache == <<account, merged>>
vars == <<env, app, promise, job, signQ, sign, dispQ, disp, cache, reload>>

Idle == [req |-> None, step |-> "idle", seq |-> None]

Init == /\ ChainInit
        /\ promise = [r \in Requests |-> "none"]
        /\ job = [r \in Requests |->
                    [signer |-> scenario.signer[r], bypass |-> r \in scenario.bypass,
                     msgs |-> "raw", signs |-> "raw", reattempts |-> 0,
                     by |-> None, seq |-> None]]
        /\ signQ = <<>> /\ dispQ = <<>>
        /\ sign = Idle /\ disp = Idle
        /\ account = [w \in Wallets |-> None]
        /\ merged = [w \in Wallets |-> FALSE]
        /\ reload = [a \in Actors |-> NoReload]
        /\ appReloads = 0
        /\ grantee = "absent"
        /\ limbo = {}

-----------------------------------------------------------------------------
(* Variants of definitions below, each with a plausible mistake in it; the *)
(* runs show that the properties notice.                                   *)

EnqueuedInFront(q, r) == <<r>> \o q                 \* push for unshift
SettledNever(r, how) == UNCHANGED promise           \* the handler is lost
IgnoreAuthorisation(r) == TRUE                      \* isAuthorised() not asked
SameSequence(s) == s                                \* no increment
DeliveredIsSuccess(res) == "succeeded"              \* result code not looked at
EveryErrorIsNonce(error) == "mismatch"              \* error message not looked at
MayRetryAlways(r) == ~scenario.retryDisabled                 \* reattempts not counted
NoErrorIsNonce(error) == "failed"                   \* the message has changed
TakenForMerged(a, anyway) ==                        \* the answer is not looked at
  merged' = [merged EXCEPT ![reload[a].wallet] = TRUE]

-----------------------------------------------------------------------------
(* Promises.  What waits for a promise goes on in the same turn of the     *)
(* event loop in which it is settled.                                      *)

Caller(m) == IF m <= 2 * NumRequests THEN m - NumRequests ELSE m - 2 * NumRequests

\* Call r of signAndBroadcast() is waiting for its merge m.
Waits(r, m) == m = AwaitedMerge(r) /\ promise[r] = "merging"

\* A caller whose merge is not resolved gets the same error.
Settled(r, how) ==
  promise' = [q \in Requests |->
    IF promise[r] = "pending" /\ (q = r \/ (how # "resolved" /\ Waits(q, r)))
    THEN how ELSE promise[q]]

Open == {r \in Requests : promise[r] \in {"merging", "pending"}}

\* The wallet that the messages of a request name as their author.
Author(r) ==
  IF r \in Own
  THEN IF scenario.signer[r] = None THEN Main ELSE scenario.signer[r]
  ELSE IF r = SideMerge(Caller(r)) \/ scenario.signer[Caller(r)] = None
       THEN Main ELSE scenario.signer[Caller(r)]

\* wallets; the grantee's entry stays when its authorisation has run out.
Registered ==
  {Main} \cup (IF grantee \in {"installed", "expired"} THEN {Grantee} ELSE {})

\* containsMergeWalletAccountMessage() of the author's wallet
IsMerge(r) == r \in Merges \/ r \in scenario.ownMerges

\* resolve(); whoever asked for a merge then reloads the account.
Following(rl, r) ==
  IF r \in Own THEN rl
  ELSE [rl EXCEPT ![r] = [step |-> "asked", wallet |-> Author(r), seq |-> None]]

-----------------------------------------------------------------------------
(* reloadAccount(): ask for the account, put the answer in the cache, ask  *)
(* for the merge status, put that in the cache, return.  The last step is  *)
(* the caller's own.                                                       *)

Asks(a, w) ==
  reload' = [reload EXCEPT ![a] = [step |-> "asked", wallet |-> w, seq |-> None]]

Answered(a) == reload[a].step \in {"merged", "unmerged"}

\* The status is in the cache; a merge's own reload does not care what it is.
StatusAssigned(a, anyway) ==
  merged' = [merged EXCEPT ![reload[a].wallet] = anyway \/ reload[a].step = "merged"]

Ends(a) == reload' = [reload EXCEPT ![a] = NoReload]

\* reloadAccount() resolves, also when there is no such account (yet).
Returned(a) == /\ \/ Answered(a) /\ StatusAssigned(a, FALSE)
                  \/ reload[a].step = "missing" /\ UNCHANGED merged
               /\ Ends(a)

Failed(a) == /\ "reloadFails" \in scenario.faults
             /\ reload[a].step \in {"asked", "assigned"}
             /\ Ends(a)

\* An account is made by the first payment to it.
NoAccount(w) == /\ "noAccount" \in scenario.faults
                /\ account[w] = None /\ Expected(w) = 0

\* The node answers with the committed sequence; its pool does not count.
AccountQueried(a) ==
  /\ reload[a].step = "asked"
  /\ \/ reload' = [reload EXCEPT ![a].step = "answered",
                                 ![a].seq = chainSeq[reload[a].wallet]]
     \/ /\ NoAccount(reload[a].wallet)
        /\ reload' = [reload EXCEPT ![a].step = "missing"]
  /\ UNCHANGED <<env, app, promise, job, signQ, sign, dispQ, disp, cache>>

\* The new account is not merged until the status is there.
AccountAssigned(a) ==
  /\ reload[a].step = "answered"
  /\ account' = [account EXCEPT ![reload[a].wallet] = reload[a].seq]
  /\ merged' = [merged EXCEPT ![reload[a].wallet] = FALSE]
  /\ reload' = [reload EXCEPT ![a].step = "assigned", ![a].seq = None]
  /\ UNCHANGED <<env, app, promise, job, signQ, sign, dispQ, disp>>

MergedOnChain(w) ==
  \E x \in results : x.res = "ok" /\ x.tx.req \in Requests
                     /\ IsMerge(x.tx.req) /\ Author(x.tx.req) = w

StatusQueried(a) ==
  /\ reload[a].step = "assigned"
  /\ reload' = [reload EXCEPT ![a].step =
       IF MergedOnChain(reload[a].wallet) THEN "merged" ELSE "unmerged"]
  /\ UNCHANGED <<env, app, promise, job, signQ, sign, dispQ, disp, cache>>

AppReloads ==
  /\ appReloads < scenario.maxAppReloads
  /\ reload[App] = NoReload
  /\ \E w \in Registered : Asks(App, w)
  /\ appReloads' = appReloads + 1
  /\ UNCHANGED <<env, grantee, promise, job, signQ, sign, dispQ, disp, cache>>

AppReloadEnds ==
  /\ Returned(App) \/ (Failed(App) /\ UNCHANGED merged)
  /\ UNCHANGED <<env, app, promise, job, signQ, sign, dispQ, disp, account>>

-----------------------------------------------------------------------------
(* signAndBroadcast() and queueTx(), triggerWalletAccMergeIfRequired()     *)

Enqueued(q, r) == Append(q, r)

MergeRequired(r, w) == ~merged[w] /\ ~IsMerge(r)

\* A wallet that is not there is an error; if the account has to be merged,
\* that is queued in the request's place.
Submit(r) ==
  /\ r <= scenario.requests
  /\ promise[r] = "none"
  /\ \A q \in 1 .. r - 1 : promise[q] # "none"
  /\ Cardinality(Open \cap Own) < scenario.window
  /\ IF Author(r) \notin Registered
     THEN promise' = [promise EXCEPT ![r] = "rejected"] /\ UNCHANGED signQ
     ELSE IF scenario.merge # "off" /\ MergeRequired(r, Author(r))
     THEN /\ promise' = [promise EXCEPT ![r] = "merging",
                                        ![AwaitedMerge(r)] = "pending"]
          /\ signQ' = Enqueued(signQ, AwaitedMerge(r))
     ELSE /\ promise' = [promise EXCEPT ![r] = "pending"]
          /\ signQ' = Enqueued(signQ, r)
  /\ UNCHANGED <<env, app, job, sign, dispQ, disp, cache, reload>>

\* The reload behind a merge: then the request itself is queued, if its
\* caller was waiting for this merge.
MergeFollowed(m) ==
  /\ Returned(m)
  /\ IF Waits(Caller(m), m)
     THEN /\ promise' = [promise EXCEPT ![Caller(m)] = "pending"]
          /\ signQ' = Enqueued(signQ, Caller(m))
     ELSE UNCHANGED <<promise, signQ>>
  /\ UNCHANGED <<env, app, job, sign, dispQ, disp, account>>

MergeFollowFails(m) ==
  /\ Failed(m)
  /\ promise' = [promise EXCEPT ![Caller(m)] =
                   IF Waits(Caller(m), m) THEN "rejected" ELSE @]
  /\ UNCHANGED <<env, app, job, signQ, sign, dispQ, disp, cache>>

-----------------------------------------------------------------------------
(* setGrantee() and the choice of a wallet.  setGrantee() installs what    *)
(* GranteeWallet.withMnemonic() returns, a DemexWallet without isAuthorised*)
(* ("plain"); a GranteeWallet proper ("genuine") can be put into the       *)
(* public field wallets by the application.  Its authorisation may run out *)
(* at any moment: hasExpired().                                            *)

SetGrantee ==
  /\ \/ scenario.grantee # "none" /\ grantee = "absent" /\ grantee' = "installed"
     \/ /\ "granteeExpires" \in scenario.faults
        /\ grantee = "installed" /\ grantee' = "expired"
     \/ /\ "walletRemoved" \in scenario.faults
        /\ grantee \in {"installed", "expired"} /\ grantee' = "removed"
  /\ UNCHANGED <<env, appReloads, promise, job, signQ, sign, dispQ, disp,
                 cache, reload>>

\* isAuthorised(): a MsgExec is not among the messages a grantee may send.
GranteeAuthorised(r) ==
  job[r].msgs = "raw" /\ r \in scenario.authorised /\ grantee # "expired"

\* recommendSigningWallet(): a wallet, or None if it throws, or if the wallet
\* has no constructExecMessage() and is to sign as the grantee.
Recommended(r) ==
  CASE job[r].signer # None ->
         IF /\ job[r].signer \in Registered
            /\ job[r].signer = Grantee => scenario.grantee # "plain"
         THEN job[r].signer ELSE None
    [] job[r].signer = None /\ (job[r].bypass \/ Grantee \notin Registered) -> Main
    [] OTHER -> CASE scenario.grantee = "plain" -> None
                  [] GranteeAuthorised(r) -> Grantee
                  [] OTHER -> Main

-----------------------------------------------------------------------------
(* signTx() *)

\* signTx() was given triggerMerge, which a retry is not, and does not wait.
MergesAside(r, w) == /\ scenario.merge = "opts" /\ r \in Own
                     /\ job[r].reattempts = 0
                     /\ w # Grantee /\ MergeRequired(r, w)

\* The queue hands over its next request; a wallet is chosen for it.  What
\* is signed are the messages as they came, also by the grantee, whose
\* MsgExec goes into the request for the other queue.
SignBegins ==
  /\ sign = Idle
  /\ signQ # <<>>
  /\ LET r == Head(signQ)
         w == Recommended(r)
     IN  IF w = None
         THEN /\ signQ' = Tail(signQ)
              /\ Settled(r, "rejected") /\ UNCHANGED <<sign, job>>
         ELSE /\ sign' = [req |-> r, step |-> "prepare", seq |-> None]
              /\ job' = [job EXCEPT ![r].by = w, ![r].signs = job[r].msgs,
                           ![r].msgs = IF w = Grantee THEN "exec" ELSE @]
              /\ IF MergesAside(r, w)
                 THEN /\ signQ' = Enqueued(Tail(signQ), SideMerge(r))
                      /\ promise' = [promise EXCEPT ![SideMerge(r)] = "pending"]
                 ELSE signQ' = Tail(signQ) /\ UNCHANGED promise
  /\ UNCHANGED <<env, app, dispQ, disp, cache, reload>>

\* The sequence wallet.signTx() takes, given what the cache holds.
TakesSequence(cached) ==
  sign' = [sign EXCEPT !.step = "sign",
             !.seq = LET given == scenario.sequence[sign.req]
                     IN  IF given # None THEN given ELSE cached]

SignWallet == job[sign.req].by

\* Fee, timeout height and onRequestSign() are done: wallet.signTx() reads
\* the cached account, or has to load it first.
Prepared ==
  /\ sign.step = "prepare"
  /\ IF account[SignWallet] = None
     THEN sign' = [sign EXCEPT !.step = "load"] /\ Asks(Signer, SignWallet)
     ELSE TakesSequence(account[SignWallet]) /\ UNCHANGED reload
  /\ UNCHANGED <<env, app, promise, job, signQ, dispQ, disp, cache>>

Loaded ==
  /\ sign.step = "load"
  /\ Returned(Signer) /\ account[SignWallet] # None
  /\ TakesSequence(account[SignWallet])
  /\ UNCHANGED <<env, app, promise, job, signQ, dispQ, disp, account>>

NextSequence(s) == s + 1

\* The signature is there: the cache moves to the next sequence, and the
\* transaction to the other queue.
Signed ==
  /\ sign.step = "sign"
  /\ account' = [account EXCEPT ![SignWallet] = NextSequence(sign.seq)]
  /\ job' = [job EXCEPT ![sign.req].seq = sign.seq]
  /\ dispQ' = Enqueued(dispQ, sign.req)
  /\ sign' = [sign EXCEPT !.step = "complete"]
  /\ UNCHANGED <<env, app, promise, signQ, disp, merged, reload>>

\* No fee, no account or no signature: onSignComplete(null), then reject().
SigningFails ==
  /\ \/ /\ sign.step = "prepare"
        /\ scenario.faults \cap {"estimateFails", "callbackRejects"} # {}
        /\ UNCHANGED reload
     \/ sign.step = "load" /\ Failed(Signer)
     \/ /\ sign.step = "load" /\ account[SignWallet] = None
        /\ reload[Signer].step = "missing" /\ Ends(Signer)
     \/ sign.step = "sign" /\ "signRefused" \in scenario.faults /\ UNCHANGED reload
  /\ sign' = [sign EXCEPT !.step = "failed"]
  /\ UNCHANGED <<env, app, promise, job, signQ, dispQ, disp, cache>>

\* onSignComplete() has returned; if it rejects, so does the request, whose
\* transaction is already on its way.
SignReturns ==
  /\ \/ sign.step = "complete" /\ UNCHANGED promise
     \/ /\ \/ sign.step = "failed"
           \/ sign.step = "complete" /\ "callbackRejects" \in scenario.faults
        /\ Settled(sign.req, "rejected")
  /\ sign' = Idle
  /\ UNCHANGED <<env, app, job, signQ, dispQ, disp, cache, reload>>

-----------------------------------------------------------------------------
(* dispatchTx() *)

Tx(r) == [req |-> r, try |-> job[r].reattempts]

Goes(step) == disp' = [disp EXCEPT !.step = step]

Rest == <<app, promise, job, signQ, sign, dispQ, cache, reload>>

\* getSigningWallet() throws outside the try block: nobody is told.
DispatchBegins ==
  /\ disp = Idle
  /\ dispQ # <<>>
  /\ dispQ' = Tail(dispQ)
  /\ IF job[Head(dispQ)].by \in Registered
     THEN disp' = [Idle EXCEPT !.req = Head(dispQ), !.step = "broadcast"]
     ELSE UNCHANGED disp
  /\ UNCHANGED <<env, app, promise, job, signQ, sign, cache, reload>>

\* isNonceMismatchError(): where an error takes dispatchTx().
AfterError(error) == IF error = "mismatch" THEN "mismatch" ELSE "failed"

Mode(r) == scenario.mode[r]

\* The signature is that of the wallet the signed messages name.
Authentic(r) ==
  job[r].by = IF job[r].signs = "exec" THEN Grantee ELSE Author(r)

InSequence == job[disp.req].seq = Expected(job[disp.req].by)

\* The node takes the transaction: in block mode the result is polled for.
NodeAdmits ==
  /\ disp.step = "broadcast" /\ Mode(disp.req) # "async"
  /\ Authentic(disp.req) /\ InSequence
  /\ Admit(job[disp.req].by, Tx(disp.req))
  /\ \/ Goes(IF Mode(disp.req) = "block" THEN "polling" ELSE "succeeded")
     \/ "answerLost" \in scenario.faults /\ Goes(AfterError("lost"))
  /\ UNCHANGED <<scenario, chainSeq, results, disturbed, limbo, Rest>>

\* The node answers with an error, or is not reached.  It looks at the
\* signer before the sequence.
NodeRefuses ==
  /\ disp.step = "broadcast"
  /\ \/ /\ Mode(disp.req) # "async"
        /\ ~Authentic(disp.req) \/ ~InSequence
        /\ Goes(AfterError(IF Authentic(disp.req) THEN "mismatch" ELSE "refused"))
        /\ UNCHANGED disturbed
     \/ Disturb("checkRefuses") /\ Goes(AfterError("refused"))
  /\ UNCHANGED <<scenario, chainSeq, pool, results, limbo, Rest>>

\* Sent, and the node has taken it or will; the answer may be lost.
AsyncSent ==
  /\ disp.step = "broadcast" /\ Mode(disp.req) = "async"
  /\ limbo' = IF Authentic(disp.req)
              THEN limbo \cup {[tx |-> Tx(disp.req), wallet |-> job[disp.req].by,
                                seq |-> job[disp.req].seq]}
              ELSE limbo
  /\ \/ Goes("succeeded")
     \/ "answerLost" \in scenario.faults /\ Goes(AfterError("lost"))
  /\ UNCHANGED <<chainVars, Rest>>

\* The node gets to a transaction sent in async mode; nobody hears of it.
AsyncChecked(x) ==
  /\ limbo' = limbo \ {x}
  /\ IF x.seq = Expected(x.wallet)
     THEN Admit(x.wallet, x.tx) ELSE UNCHANGED pool
  /\ UNCHANGED <<scenario, chainSeq, results, disturbed, disp, Rest>>

Delivered(res) == IF res = "ok" THEN "succeeded" ELSE AfterError(res)

PollFinds ==
  /\ disp.step = "polling"
  /\ \E x \in results : x.tx = Tx(disp.req) /\ Goes(Delivered(x.res))
  /\ UNCHANGED <<env, Rest>>

InBlock(tx) == \E x \in results : x.tx = tx

PollTimesOut ==
  /\ disp.step = "polling"
  /\ ~InBlock(Tx(disp.req))
  /\ "slowBlocks" \in scenario.faults \/ ~InPool(Tx(disp.req))
  /\ Goes(AfterError("timeout"))
  /\ UNCHANGED <<env, Rest>>

\* The messages of the dispatched request merge the account of its signer.
MergesSigner(r) == IsMerge(r) /\ job[r].msgs = "raw" /\ job[r].by = Author(r)

\* Resolve, unless onBroadcastTxSuccess() rejects; the cached account of a
\* merge is reloaded first.
DispatchSucceeds ==
  /\ disp.step = "succeeded"
  /\ \/ /\ MergesSigner(disp.req)
        /\ Goes("merge") /\ Asks(Dispatcher, job[disp.req].by)
        /\ UNCHANGED promise
     \/ /\ ~MergesSigner(disp.req)
        /\ disp' = Idle /\ Settled(disp.req, "resolved")
        /\ reload' = Following(reload, disp.req)
     \/ /\ "callbackRejects" \in scenario.faults
        /\ Goes(AfterError("callback")) /\ UNCHANGED <<promise, reload>>
  /\ UNCHANGED <<env, app, job, signQ, sign, dispQ, cache>>

\* reloadMergedWalletAccount() has returned, whatever it found out.
MergeReloaded ==
  /\ disp.step = "merge"
  /\ Answered(Dispatcher) /\ StatusAssigned(Dispatcher, TRUE)
  /\ disp' = Idle /\ Settled(disp.req, "resolved")
  /\ reload' = Following([reload EXCEPT ![Dispatcher] = NoReload], disp.req)
  /\ UNCHANGED <<env, app, job, signQ, sign, dispQ, account>>

\* It rejects inside the try block: an error like any other.
MergeReloadFails ==
  /\ disp.step = "merge" /\ Failed(Dispatcher)
  /\ Goes(AfterError("reload"))
  /\ UNCHANGED <<env, app, promise, job, signQ, sign, dispQ, cache>>

MayRetry(r) == ~scenario.retryDisabled /\ job[r].reattempts < 1

\* A mismatch, the first time: reload the account of the wallet used.
RetryBegins ==
  /\ disp.step = "mismatch" /\ MayRetry(disp.req)
  /\ Asks(Dispatcher, job[disp.req].by)
  /\ Goes("reload")
  /\ UNCHANGED <<env, app, promise, job, signQ, sign, dispQ, cache>>

\* Requeued, without signerAddress and bypassGrantee.
RetryQueued ==
  /\ disp.step = "reload" /\ Returned(Dispatcher)
  /\ job' = [job EXCEPT ![disp.req].reattempts = @ + 1,
                        ![disp.req].signer = None, ![disp.req].bypass = FALSE]
  /\ signQ' = Enqueued(signQ, disp.req)
  /\ disp' = Idle
  /\ UNCHANGED <<env, app, promise, sign, dispQ, account>>

\* reloadAccount() rejects inside the catch block: nobody is told.
RetryAbandoned ==
  /\ disp.step = "reload" /\ Failed(Dispatcher)
  /\ disp' = Idle
  /\ UNCHANGED <<env, app, promise, job, signQ, sign, dispQ, cache>>

\* reject(), unless onBroadcastTxFail() rejects.
DispatchFails ==
  /\ disp.step \in {"failed", "mismatch"}
  /\ disp.step = "mismatch" => ~MayRetry(disp.req)
  /\ \/ Settled(disp.req, IF disp.step = "failed" THEN "rejected"
                                                  ELSE "rejectedForNonce")
     \/ "callbackRejects" \in scenario.faults /\ UNCHANGED promise
  /\ disp' = Idle
  /\ UNCHANGED <<env, app, job, signQ, sign, dispQ, cache, reload>>

-----------------------------------------------------------------------------

AppStep == AppReloads \/ AppReloadEnds \/ SetGrantee \/ \E r \in Requests : Submit(r)

ReloadStep(a) == AccountQueried(a) \/ AccountAssigned(a) \/ StatusQueried(a)

MergeStep(m) == MergeFollowed(m) \/ MergeFollowFails(m)

SignStep == \/ SignBegins \/ Prepared \/ Loaded
            \/ Signed \/ SigningFails \/ SignReturns

DispatchStep == \/ DispatchBegins \/ NodeAdmits \/ NodeRefuses \/ AsyncSent
                \/ PollFinds \/ PollTimesOut \/ DispatchSucceeds \/ DispatchFails
                \/ MergeReloaded \/ MergeReloadFails
                \/ RetryBegins \/ RetryQueued \/ RetryAbandoned

NodeStep == \/ ChainNext /\ UNCHANGED <<disp, limbo, Rest>>
            \/ \E x \in limbo : AsyncChecked(x)

Next == \/ AppStep \/ SignStep \/ DispatchStep \/ NodeStep
        \/ \E a \in Actors : ReloadStep(a)
        \/ \E m \in Merges : MergeStep(m)

Spec == Init /\ [][Next]_vars

-----------------------------------------------------------------------------
(* What the fields of DemexSDK, of its queues and wallets can hold. *)
Steps == {"idle", "prepare", "load", "sign", "complete", "failed",
          "broadcast", "polling", "succeeded", "merge", "mismatch", "reload"}

TypeOK ==
  /\ ChainTypeOK(Requests)
  /\ promise \in [Requests -> {"none", "merging", "pending", "resolved",
                               "rejected", "rejectedForNonce"}]
  /\ job \in [Requests -> [signer : Wallets \cup {None}, bypass : BOOLEAN,
                           msgs : {"raw", "exec"}, signs : {"raw", "exec"},
                           reattempts : 0 .. 1,
                           by : Wallets \cup {None}, seq : Nat \cup {None}]]
  /\ signQ \in Seq(Requests) /\ dispQ \in Seq(Requests)
  /\ {sign, disp} \subseteq
       [req : Requests \cup {None}, step : Steps, seq : Nat \cup {None}]
  /\ account \in [Wallets -> Nat \cup {None}]
  /\ merged \in [Wallets -> BOOLEAN]
  /\ reload \in [Actors -> [step : {"idle", "asked", "answered", "assigned",
                                    "merged", "unmerged", "missing"},
                            wallet : Wallets \cup {None},
                            seq : Nat \cup {None}]]
  /\ appReloads \in 0 .. scenario.maxAppReloads
  /\ grantee \in {"absent", "installed", "expired", "removed"}
  /\ limbo \subseteq [tx : Txs(Requests), wallet : Wallets, seq : Nat]

\* The transactions of a request that used, or can still use, a sequence
\* number: those in a block, in the pool, or on their way to the node.
LiveTries(r) ==
  {t \in 0 .. 1 :
     LET tx == [req |-> r, try |-> t]
     IN  \/ \E x \in results : x.tx = tx /\ x.res # "mismatch"
         \/ InPool(tx)
         \/ \E x \in limbo : x.tx = tx}

InHand(r) == \/ \E i \in DOMAIN signQ : signQ[i] = r
             \/ \E i \in DOMAIN dispQ : dispQ[i] = r
             \/ sign.req = r /\ sign.step # "complete"
             \/ disp.req = r
         \/ /\ promise[r] = "merging"
            /\ \/ promise[AwaitedMerge(r)] = "pending"
               \/ reload[AwaitedMerge(r)] # NoReload

(* A caller told of a sequence mismatch may submit the same messages again: *)
(* neither the SDK nor the chain still has a transaction of the request.   *)
NonceRejectionIsFinal ==
  \A r \in Requests : promise[r] = "rejectedForNonce" =>
    LiveTries(r) = {} /\ ~InHand(r)

(* To its caller a request is what RequestLife says (lines 356-395): it is *)
(* executed at most once, in block mode a resolved promise means that it   *)
(* was, and one rejected for its sequence number never is.                 *)
Life == INSTANCE RequestLife
          WITH executions <- [r \in Requests |->
                 Cardinality({x \in results : x.tx.req = r /\ x.res = "ok"})],
               confirmed <- {r \in Requests : Mode(r) = "block"}

RefinesRequestLife == Life!Spec

Loses == {"reloadFails", "walletRemoved", "callbackRejects"}

(* A request whose promise is open is in one of the queues or being worked *)
(* on, or waits for a merge that is: unless a callback rejects, a wallet   *)
(* is removed or a reload fails, no path through signTx() and dispatchTx() *)
(* forgets the handler.                                                    *)
NoRequestForgotten ==
  scenario.faults \cap Loses = {} => \A r \in Open : InHand(r)

(* First attempts keep the order of the calls all the way to the node,     *)
(* whatever the retries between them; a merge lets other requests go by.   *)
FirstAttemptsInOrder ==
  scenario.merge = "off" =>
  LET signing == IF sign.step \in {"idle", "complete"} THEN <<>> ELSE <<sign.req>>
      dispatching == IF disp = Idle THEN <<>> ELSE <<disp.req>>
      line == dispatching \o dispQ \o signing \o signQ
      first(i) == job[line[i]].reattempts = 0
  IN  \A i, j \in DOMAIN line :
        i < j /\ first(i) /\ first(j) => line[i] < line[j]

\* What is signed and not yet with the node, and which of it is of w.
Leaving == (IF disp.step = "broadcast" THEN <<disp.req>> ELSE <<>>) \o dispQ

OnTheWay(w) == {i \in DOMAIN Leaving : job[Leaving[i]].by = w}

Calm == /\ disturbed = 0 /\ appReloads = 0 /\ grantee # "removed"
        /\ scenario.merge = "off" /\ scenario.ownMerges = {}
        /\ \A r \in 1 .. scenario.requests :
             /\ scenario.sequence[r] = None /\ Mode(r) # "async"
             /\ job[r].by = None \/ Authentic(r)

(* While nobody else uses the accounts, no transaction is refused, nobody  *)
(* reloads or merges an account, takes away a wallet, names a sequence,    *)
(* sends in async mode or has the grantee sign what the main wallet sends, *)
(* the numbers that signTx() hands out ahead of the chain rise one by one  *)
(* from the one the node expects next to the one before the cache's        *)
(* (wallet.ts, lines 204 and 222).                                         *)
SequencesLineUp ==
  Calm =>
  /\ disp.step # "mismatch"
  /\ \A w \in Wallets :
       /\ \A i, j \in OnTheWay(w) :
            i < j => job[Leaving[i]].seq < job[Leaving[j]].seq
       /\ IF account[w] = None THEN OnTheWay(w) = {}
          ELSE /\ Expected(w) <= account[w]
               /\ {job[Leaving[i]].seq : i \in OnTheWay(w)}
                    = Expected(w) .. account[w] - 1

(* The grantee signs for a request that does not name it only if it may    *)
(* send those messages and, the first time, the caller did not bypass it.  *)
GranteeOnlyIfAllowed ==
  \A r \in Requests : job[r].by = Grantee =>
    \/ scenario.signer[r] = Grantee
    \/ r \in scenario.authorised /\ (job[r].reattempts = 0 => r \notin scenario.bypass)

(* With triggerMerge, what a caller sends is queued only when the account  *)
(* of its wallet is merged on the chain, whoever else merges it and        *)
(* whatever reloads do to the cached status (lines 119 and 268).           *)
MergeComesFirst ==
  scenario.merge # "off" =>
    \A r \in Own \ scenario.ownMerges :
      InHand(r) /\ (\A m \in Requests : Mode(m) = "block") =>
        promise[r] = "merging" \/ MergedOnChain(Author(r))
=============================================================================
