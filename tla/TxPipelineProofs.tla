-------------------------- MODULE TxPipelineProofs --------------------------
(***************************************************************************)
(* Theorems about TxPipeline, for any number of requests, any options, any *)
(* faults and any bounds on what disturbs the accounts.                    *)
(***************************************************************************)
EXTENDS TxPipeline, SequenceTheorems, FiniteSetTheorems, TLAPS
-----------------------------------------------------------------------------
(* The parts of the inductive invariant. *)
\* What the steps of reloadAccount(), signTx() and dispatchTx() have at hand.
ReloadShape ==
  \A a \in Actors :
    \/ reload[a] = NoReload
    \/ /\ reload[a].step # "idle" /\ reload[a].wallet \in Wallets
       /\ reload[a].step = "answered" => reload[a].seq \in Nat
       /\ reload[a].step \in {"assigned", "merged", "unmerged"} =>
            account[reload[a].wallet] # None
SignShape ==
  \/ sign = Idle
  \/ /\ sign.req \in Requests
     /\ sign.step \in {"prepare", "load", "sign", "complete", "failed"}
     /\ job[sign.req].by \in Wallets
     /\ sign.step = "sign" => sign.seq \in Nat
     /\ sign.step = "load" => /\ reload[Signer] # NoReload
                              /\ reload[Signer].wallet = job[sign.req].by
IsSigned(j) == j.by \in Wallets /\ j.seq \in Nat
DispShape ==
  \/ disp = Idle
  \/ /\ disp.req \in Requests
     /\ disp.step \in {"broadcast", "polling", "succeeded", "merge", "mismatch",
                       "reload", "failed"}
     /\ IsSigned(job[disp.req])
     /\ disp.step = "reload" => job[disp.req].reattempts = 0
     /\ disp.step \in {"merge", "reload"} =>
          reload[Dispatcher] # NoReload
DispQShape == \A i \in DOMAIN dispQ : IsSigned(job[dispQ[i]])
Shape == scenario \in Scenarios /\ TypeOK /\ ReloadShape /\ SignShape /\ DispShape /\ DispQShape
\* A request keeps its options until it is requeued, which drops them.
OptionsKept ==
  \A r \in Requests :
    IF job[r].reattempts = 0
    THEN job[r].signer = scenario.signer[r] /\ job[r].bypass = (r \in scenario.bypass)
    ELSE job[r].signer = None
GranteeWasThere ==
  /\ \A r \in Requests : job[r].by = Grantee => grantee # "absent"
  /\ grantee = "removed" => "walletRemoved" \in scenario.faults
\* The places a request can be in on its way.
Queued(q, r) == \E i \in DOMAIN q : q[i] = r
Signing(r) == sign.req = r /\ sign.step # "complete"
Placed(r) == Queued(signQ, r) \/ Queued(dispQ, r) \/ Signing(r) \/ disp.req = r
EachOnce(q) == \A i, j \in DOMAIN q : q[i] = q[j] => i = j
OnePlace ==
  /\ EachOnce(signQ) /\ EachOnce(dispQ)
  /\ \A r \in Requests :
       /\ Queued(signQ, r) => ~Queued(dispQ, r) /\ ~Signing(r) /\ disp.req # r
       /\ Queued(dispQ, r) => ~Signing(r) /\ disp.req # r
       /\ Signing(r) => disp.req # r
\* What has not been asked for, or waits for a merge, is in none.
NotYet(r) == promise[r] \in {"none", "merging"}
NotYetPlaced ==
  \A r \in Requests : NotYet(r) => ~Placed(r) /\ job[r].reattempts = 0
MergesUnasked ==
  \A r \in Own :
    /\ promise[r] = "none" => promise[AwaitedMerge(r)] = "none"
    /\ NotYet(r) \/ (Queued(signQ, r) /\ job[r].reattempts = 0) =>
         promise[SideMerge(r)] = "none"
OpenInHand ==
  scenario.faults \cap Loses = {} =>
    \A r \in Requests :
      /\ promise[r] = "pending" => Placed(r)
      /\ promise[r] = "merging" => /\ r \in Own
                                   /\ \/ promise[AwaitedMerge(r)] = "pending"
                                      \/ reload[AwaitedMerge(r)] # NoReload
OnlyOwnMerge == \A m \in Merges : promise[m] # "merging"
\* Where the transactions of a request are.
InLimbo(tx) == \E x \in limbo : x.tx = tx
Known(tx) == InBlock(tx) \/ InPool(tx) \/ InLimbo(tx)
TriesUpToNow ==
  \A r \in Requests : \A t \in Nat :
    t > job[r].reattempts => ~Known([req |-> r, try |-> t])
Unsent(r) == \/ NotYet(r) \/ Queued(signQ, r) \/ Queued(dispQ, r)
             \/ Signing(r) \/ (disp.req = r /\ disp.step = "broadcast")
UnsentUnknown == \A r \in Requests : Unsent(r) => ~Known(Tx(r))
Live(tx) == \/ \E x \in results : x.tx = tx /\ x.res # "mismatch"
            \/ InPool(tx) \/ InLimbo(tx)
OldTriesDead ==
  \A r \in Requests : \A t \in Nat :
    t < job[r].reattempts => ~Live([req |-> r, try |-> t])
MismatchIsDead == disp.step \in {"mismatch", "reload"} => ~Live(Tx(disp.req))
NonceRejected ==
  \A r \in Requests : promise[r] = "rejectedForNonce" => ~Live(Tx(r)) /\ ~Placed(r)
Mine(tx) == tx.req \in Requests
In(p, tx) == \E w \in Wallets : \E i \in DOMAIN p[w] : p[w][i] = tx
PoolOnce(p) ==
  \A v, w \in Wallets : \A i \in DOMAIN p[v], j \in DOMAIN p[w] :
    Mine(p[v][i]) /\ p[v][i] = p[w][j] => v = w /\ i = j
KnownOnce ==
  /\ PoolOnce(pool)
  /\ \A x, y \in results : Mine(x.tx) /\ x.tx = y.tx => x = y
  /\ \A x, y \in limbo : x.tx = y.tx => x = y
  /\ \A x \in results : Mine(x.tx) => ~In(pool, x.tx) /\ ~InLimbo(x.tx)
  /\ \A x \in limbo : Mine(x.tx) /\ ~In(pool, x.tx)
SucceededIsExecuted ==
  disp.step \in {"succeeded", "merge"} /\ Mode(disp.req) = "block" =>
    ResultOf(Tx(disp.req), "ok") \in results
Executed(r) == \E x \in results : x.tx.req = r /\ x.res = "ok"
MergeFacts ==
  (\A m \in Requests : Mode(m) = "block") =>
    /\ \A w \in Wallets : merged[w] => MergedOnChain(w)
    /\ \A a \in Actors : reload[a].step = "merged" => MergedOnChain(reload[a].wallet)
    /\ \A m \in Merges : reload[m] # NoReload => Executed(m)
    /\ disp.step = "merge" => /\ MergesSigner(disp.req)
                              /\ reload[Dispatcher].wallet = job[disp.req].by
    /\ scenario.merge # "off" =>
         \A r \in Own \ scenario.ownMerges : Placed(r) => MergedOnChain(Author(r))
\* The requests at their first attempt.
Firsts == {r \in Requests : job[r].reattempts = 0}
SubmittedInOrder ==
  /\ \A q, r \in Own : q < r /\ promise[r] # "none" => promise[q] # "none"
  /\ scenario.merge = "off" => /\ \A m \in Merges : promise[m] = "none"
                               /\ \A r \in Own : promise[r] # "merging"
Ascending(q, S) == \A i, j \in DOMAIN q : i < j /\ q[i] \in S /\ q[j] \in S => q[i] < q[j]
InOrder ==
  scenario.merge = "off" =>
    /\ Ascending(signQ, Firsts) /\ Ascending(dispQ, Firsts)
    /\ \A q, r \in Firsts :
         /\ disp.req = q /\ Placed(r) => q <= r
         /\ Queued(dispQ, q) /\ (Signing(r) \/ Queued(signQ, r)) => q < r
         /\ Signing(q) /\ Queued(signQ, r) => q < r
\* The requests of w in the line q carry, in order, the numbers from e to a - 1.
Numbered(q, js, w, e, a) ==
  /\ \A i, j \in DOMAIN q :
       js[q[i]].by = w /\ js[q[j]].by = w /\ i < j => js[q[i]].seq < js[q[j]].seq
  /\ \A i \in DOMAIN q : js[q[i]].by = w => js[q[i]].seq \in e .. a - 1
  /\ \A n \in e .. a - 1 : \E i \in DOMAIN q : js[q[i]].by = w /\ js[q[i]].seq = n
  /\ e <= a

NoneOf(q, js, w) == \A i \in DOMAIN q : js[q[i]].by # w
\* Without merges, only what callers ask for is on its way.
OwnSubmitted ==
  scenario.merge = "off" =>
    \A r \in Requests : promise[r] # "none" => r \in 1 .. scenario.requests
\* What is tried again had been signed by the wallet its messages name.
OnItsWayBack(r) == \/ Queued(signQ, r)
                   \/ disp.req = r /\ disp.step \in {"polling", "mismatch", "reload"}
ReturnsAuthentic ==
  \A r \in Requests : OnItsWayBack(r) /\ job[r].by # None => Authentic(r)
UnsignedYet == \A r \in Requests : NotYet(r) => job[r].by = None
\* Undisturbed, reloadAccount() is only called for a first use ...
FirstReloadsOnly ==
  /\ \A a \in Actors : a # Signer => reload[a] = NoReload
  /\ reload[Signer] # NoReload => sign.step = "load"
  /\ reload[Signer].step \in {"asked", "answered"} => account[reload[Signer].wallet] = None
  /\ reload[Signer].step = "answered" =>
       reload[Signer].seq = chainSeq[reload[Signer].wallet]
\* ... nothing is refused for its number ...
NothingMismatches == /\ disp.step \notin {"mismatch", "reload", "merge"}
                     /\ limbo = {} /\ \A x \in results : x.res # "mismatch"
\* ... and what is signed carries on where the line ends.
SignsTheNext == sign.step = "sign" => sign.seq = account[SignWallet]
LineGoesOn ==
  \A w \in Wallets :
    IF account[w] = None THEN pool[w] = <<>> /\ NoneOf(Leaving, job, w)
    ELSE Numbered(Leaving, job, w, Expected(w), account[w])
CalmFacts == FirstReloadsOnly /\ NothingMismatches /\ SignsTheNext /\ LineGoesOn

-----------------------------------------------------------------------------
(* Facts about the constants, the requests and the steps as such. *)

USE TxPipelineAssumption

LEMMA ActorsDiffer ==
  /\ Signer \in Actors /\ Dispatcher \in Actors /\ App \in Actors
  /\ Signer # Dispatcher /\ App # Signer /\ App # Dispatcher
  /\ \A m \in Merges : m \in Actors /\ m # Signer /\ m # Dispatcher /\ m # App
  BY DEF Actors, Merges

LEMMA RequestsAreNumbers ==
  /\ Requests \subseteq Nat /\ None \notin Requests
  /\ Own \subseteq Requests /\ Merges \subseteq Requests
  /\ \A r \in Own : r \notin Merges
  BY DEF Requests, Own, Merges

LEMMA MergesOfCallers ==
  /\ \A r \in Own : /\ AwaitedMerge(r) \in Merges /\ SideMerge(r) \in Merges
                    /\ Caller(AwaitedMerge(r)) = r /\ Caller(SideMerge(r)) = r
  /\ \A r, q \in Own : AwaitedMerge(r) # SideMerge(q)
  /\ \A m \in Merges : /\ Caller(m) \in Own
                       /\ m = AwaitedMerge(Caller(m)) \/ m = SideMerge(Caller(m))
  BY DEF Own, Merges, Caller, AwaitedMerge, SideMerge

LEMMA ScenarioTypes ==
  ASSUME scenario \in Scenarios
  PROVE  /\ scenario \in ScenarioType
         /\ scenario.requests \in Nat /\ scenario.requests <= NumRequests
         /\ scenario.maxDisturbed \in Nat /\ scenario.maxAppReloads \in Nat
         /\ \A r \in Requests : /\ scenario.signer[r] \in Wallets \cup {None}
                                /\ scenario.sequence[r] \in Nat \cup {None}
                                /\ Mode(r) \in {"block", "sync", "async"}
  BY DEF ScenarioType, Mode

LEMMA AuthorIsWallet ==
  ASSUME scenario \in Scenarios, NEW r \in Requests
  PROVE  Author(r) \in Wallets
  BY ScenarioTypes, MergesOfCallers, RequestsAreNumbers DEF Author, Requests

-----------------------------------------------------------------------------
(* Which actions change which variable. *)

LEMMA ScenarioStays == ASSUME [Next]_vars PROVE scenario' = scenario
<1> USE DEF vars, env, chainVars, Rest
<1>1. CASE AppStep
  BY <1>1 DEF AppStep, AppReloads, AppReloadEnds, SetGrantee, Submit
<1>2. CASE SignStep
  BY <1>2 DEF SignStep, SignBegins, Prepared, Loaded, Signed, SigningFails, SignReturns
<1>3. CASE DispatchStep
  BY <1>3 DEF DispatchStep, DispatchBegins, NodeAdmits, NodeRefuses, AsyncSent,
     PollFinds, PollTimesOut, DispatchSucceeds, MergeReloaded, MergeReloadFails,
     RetryBegins, RetryQueued, RetryAbandoned, DispatchFails
<1>4. CASE NodeStep
  BY <1>4 DEF NodeStep, AsyncChecked, ChainNext, BlockIncludes, ForeignAdmitted,
     ForeignIncluded, ForeignDisplaces, Evicted
<1>5. CASE \E a \in Actors : ReloadStep(a)
  BY <1>5 DEF ReloadStep, AccountQueried, AccountAssigned, StatusQueried
<1>6. CASE \E m \in Merges : MergeStep(m)
  BY <1>6 DEF MergeStep, MergeFollowed, MergeFollowFails
<1> QED
  BY <1>1, <1>2, <1>3, <1>4, <1>5, <1>6 DEF Next

LEMMA Writers ==
  ASSUME [Next]_vars
  PROVE  /\ UNCHANGED job \/ SignBegins \/ Signed \/ RetryQueued
         /\ \/ UNCHANGED promise
            \/ \E r \in Requests : Submit(r)
            \/ \E m \in Merges : MergeStep(m)
            \/ SignBegins \/ SignReturns
            \/ DispatchSucceeds \/ MergeReloaded \/ DispatchFails
         /\ \/ UNCHANGED signQ
            \/ \E r \in Requests : Submit(r)
            \/ \E m \in Merges : MergeFollowed(m)
            \/ SignBegins \/ RetryQueued
         /\ UNCHANGED dispQ \/ Signed \/ DispatchBegins
         /\ UNCHANGED sign \/ SignStep
         /\ UNCHANGED disp \/ DispatchStep
         /\ UNCHANGED account \/ Signed \/ \E a \in Actors : AccountAssigned(a)
         /\ \/ UNCHANGED merged
            \/ \E a \in Actors : AccountAssigned(a)
            \/ \E m \in Merges : MergeFollowed(m)
            \/ AppReloadEnds \/ Loaded \/ MergeReloaded \/ RetryQueued
         /\ \/ UNCHANGED reload
            \/ AppReloads \/ AppReloadEnds \/ Prepared \/ Loaded \/ SigningFails
            \/ DispatchSucceeds \/ MergeReloaded \/ MergeReloadFails
            \/ RetryBegins \/ RetryQueued \/ RetryAbandoned
            \/ \E a \in Actors : ReloadStep(a)
            \/ \E m \in Merges : MergeStep(m)
         /\ UNCHANGED <<appReloads, grantee>> \/ AppReloads \/ SetGrantee
         /\ UNCHANGED limbo \/ AsyncSent \/ NodeStep
         /\ UNCHANGED pool \/ NodeAdmits \/ NodeStep
         /\ UNCHANGED <<chainSeq, results>> \/ NodeStep
         /\ UNCHANGED disturbed \/ NodeRefuses \/ NodeStep
<1> USE DEF vars, env, app, cache, chainVars, Rest
<1>1. CASE AppStep
  BY <1>1 DEF AppStep, AppReloads, AppReloadEnds, SetGrantee, Submit
<1>2. CASE SignStep
  BY <1>2 DEF SignStep, SignBegins, Prepared, Loaded, Signed, SigningFails, SignReturns
<1>3. CASE DispatchStep
  BY <1>3 DEF DispatchStep, DispatchBegins, NodeAdmits, NodeRefuses, AsyncSent,
     PollFinds, PollTimesOut, DispatchSucceeds, MergeReloaded, MergeReloadFails,
     RetryBegins, RetryQueued, RetryAbandoned, DispatchFails
<1>4. CASE NodeStep
  BY <1>4 DEF NodeStep, AsyncChecked
<1>5. CASE \E a \in Actors : ReloadStep(a)
  BY <1>5 DEF ReloadStep, AccountQueried, AccountAssigned, StatusQueried
<1>6. CASE \E m \in Merges : MergeStep(m)
  BY <1>6 DEF MergeStep, MergeFollowed, MergeFollowFails
<1> QED
  BY <1>1, <1>2, <1>3, <1>4, <1>5, <1>6 DEF Next

-----------------------------------------------------------------------------
(* Type correctness. *)

LEMMA SubmitIsOwn ==
  ASSUME Shape, NEW r \in Requests, Submit(r)
  PROVE  r \in Own
  BY ScenarioTypes, RequestsAreNumbers DEF Submit, Own, Shape, Requests, Merges

Promises == {"none", "merging", "pending", "resolved", "rejected", "rejectedForNonce"}

LEMMA PromiseTypes ==
  ASSUME Shape, [Next]_vars
  PROVE  promise' \in [Requests -> Promises]
<1> USE DEF Promises
<1>1. promise \in [Requests -> Promises]
  BY DEF Shape, TypeOK
<1>2. CASE UNCHANGED promise
  BY <1>1, <1>2
<1>3. CASE \E r \in Requests : Submit(r)
  BY <1>1, <1>3, SubmitIsOwn, MergesOfCallers, RequestsAreNumbers DEF Submit
<1>4. CASE \E m \in Merges : MergeStep(m)
  BY <1>1, <1>4, MergesOfCallers, RequestsAreNumbers
  DEF MergeStep, MergeFollowed, MergeFollowFails
<1>5. CASE SignBegins
  BY <1>1, <1>5 DEF SignBegins, Settled
<1>6. CASE SignReturns
  BY <1>1, <1>6 DEF SignReturns, Settled
<1>7. CASE DispatchSucceeds \/ MergeReloaded
  BY <1>1, <1>7 DEF DispatchSucceeds, MergeReloaded, Settled
<1>8. CASE DispatchFails
  BY <1>1, <1>8 DEF DispatchFails, Settled
<1> QED
  BY <1>2, <1>3, <1>4, <1>5, <1>6, <1>7, <1>8, Writers

Jobs == [signer : Wallets \cup {None}, bypass : BOOLEAN,
         msgs : {"raw", "exec"}, signs : {"raw", "exec"}, reattempts : 0 .. 1,
         by : Wallets \cup {None}, seq : Nat \cup {None}]

LEMMA RecommendedIsWallet ==
  ASSUME Shape, NEW r \in Requests
  PROVE  Recommended(r) \in Wallets \cup {None}
<1>1. job[r].signer \in Wallets \cup {None}
  BY DEF Shape, TypeOK
<1> DEFINE byOption == CASE scenario.grantee = "plain" -> None
                         [] GranteeAuthorised(r) -> Grantee
                         [] OTHER -> Main
<1>2. byOption \in {None, Grantee, Main}
  BY Zenon
<1> HIDE DEF byOption
<1>3. CASE job[r].signer # None
  BY <1>1, <1>3 DEF Recommended
<1>4. CASE job[r].signer = None /\ (job[r].bypass \/ Grantee \notin Registered)
  BY <1>4 DEF Recommended
<1>5. CASE job[r].signer = None /\ ~(job[r].bypass \/ Grantee \notin Registered)
  <2>1. Recommended(r) = byOption
    BY <1>5 DEF Recommended, byOption
  <2> QED
    BY <2>1, <1>2
<1> QED
  BY <1>3, <1>4, <1>5

\* SignBegins, as far as it concerns the request at the head of the queue.
LEMMA SignBeginsOn ==
  ASSUME Shape, SignBegins
  PROVE  /\ Head(signQ) \in Requests /\ sign = Idle /\ signQ # <<>>
         /\ Tail(signQ) \in Seq(Requests)
         /\ \/ /\ Recommended(Head(signQ)) = None
               /\ signQ' = Tail(signQ) /\ Settled(Head(signQ), "rejected")
               /\ UNCHANGED <<sign, job>>
            \/ /\ Recommended(Head(signQ)) \in Wallets
               /\ sign' = [req |-> Head(signQ), step |-> "prepare", seq |-> None]
               /\ job' = [job EXCEPT ![Head(signQ)].by = Recommended(Head(signQ)),
                            ![Head(signQ)].signs = job[Head(signQ)].msgs,
                            ![Head(signQ)].msgs =
                              IF Recommended(Head(signQ)) = Grantee THEN "exec" ELSE @]
               /\ \/ /\ MergesAside(Head(signQ), Recommended(Head(signQ)))
                     /\ signQ' = Append(Tail(signQ), SideMerge(Head(signQ)))
                     /\ promise' = [promise EXCEPT ![SideMerge(Head(signQ))] = "pending"]
                  \/ signQ' = Tail(signQ) /\ UNCHANGED promise
         /\ UNCHANGED <<scenario, chainSeq, pool, results, disturbed, limbo>>
         /\ UNCHANGED <<appReloads, grantee, dispQ, disp, account, merged, reload>>
<1>1. signQ \in Seq(Requests) /\ signQ # <<>>
  BY DEF SignBegins, Shape, TypeOK
<1>2. Head(signQ) \in Requests /\ Tail(signQ) \in Seq(Requests)
  BY <1>1
<1>3. Recommended(Head(signQ)) \in Wallets \cup {None}
  BY <1>2, RecommendedIsWallet
<1> QED
  BY <1>1, <1>2, <1>3 DEF SignBegins, Enqueued, env, chainVars, app, cache

LEMMA JobTypes ==
  ASSUME Shape, [Next]_vars
  PROVE  job' \in [Requests -> Jobs]
<1>1. job \in [Requests -> Jobs]
  BY DEF Shape, TypeOK, Jobs
<1>2. CASE SignBegins
  <2>1. CASE UNCHANGED job
    BY <2>1, <1>1
  <2>2. CASE job' = [job EXCEPT ![Head(signQ)].by = Recommended(Head(signQ)),
                       ![Head(signQ)].signs = job[Head(signQ)].msgs,
                       ![Head(signQ)].msgs =
                         IF Recommended(Head(signQ)) = Grantee THEN "exec" ELSE @]
    <3> DEFINE r == Head(signQ)
               w == Recommended(r)
               m == IF w = Grantee THEN "exec" ELSE job[r].msgs
    <3>1. r \in Requests /\ w \in Wallets \cup {None}
      BY <1>2, SignBeginsOn, RecommendedIsWallet
    <3>2. job' = [job EXCEPT ![r] = [job[r] EXCEPT !.by = w, !.signs = job[r].msgs,
                                                  !.msgs = m]]
      BY <2>2, <1>1, <3>1
    <3>3. job[r] \in Jobs
      BY <3>1, <1>1
    <3>4. m \in {"raw", "exec"}
      BY <3>3 DEF Jobs
    <3> HIDE DEF r, w, m
    <3>5. [job[r] EXCEPT !.by = w, !.signs = job[r].msgs, !.msgs = m] \in Jobs
      BY <3>1, <3>3, <3>4 DEF Jobs
    <3> QED
      BY <3>1, <3>2, <3>5, <1>1
  <2> QED
    BY <2>1, <2>2, <1>2, SignBeginsOn
<1>3. CASE Signed
  BY <1>1, <1>3 DEF Signed, Jobs, Shape, SignShape, Idle
<1>4. CASE RetryQueued
  <2>1. disp.req \in Requests /\ job[disp.req].reattempts = 0
    BY <1>4 DEF RetryQueued, Shape, DispShape, Idle
  <2>2. job[disp.req] \in Jobs
    BY <1>1, <2>1
  <2> DEFINE j == job[disp.req]
  <2>3. job' = [job EXCEPT ![disp.req] = [[[j EXCEPT !.reattempts = j.reattempts + 1]
                  EXCEPT !.signer = None] EXCEPT !.bypass = FALSE]]
    BY <1>1, <1>4, <2>1 DEF RetryQueued
  <2> HIDE DEF j
  <2>4. [j EXCEPT !.reattempts = j.reattempts + 1] \in Jobs
    BY <2>1, <2>2 DEF Jobs, j
  <2>5. \A k \in Jobs : [k EXCEPT !.signer = None] \in Jobs
    BY DEF Jobs
  <2>6. \A k \in Jobs : [k EXCEPT !.bypass = FALSE] \in Jobs
    BY DEF Jobs
  <2> QED
    BY <1>1, <2>1, <2>3, <2>4, <2>5, <2>6
<1> QED
  BY <1>1, <1>2, <1>3, <1>4, Writers

LEMMA QueueTypes ==
  ASSUME Shape, [Next]_vars
  PROVE  signQ' \in Seq(Requests) /\ dispQ' \in Seq(Requests)
<1>1. signQ \in Seq(Requests) /\ dispQ \in Seq(Requests)
  BY DEF Shape, TypeOK
<1>2. \A r \in Requests : Append(signQ, r) \in Seq(Requests)
                          /\ Append(dispQ, r) \in Seq(Requests)
  BY <1>1
<1>3. ASSUME NEW r \in Requests, Submit(r)
      PROVE  signQ' \in Seq(Requests)
  <2>1. AwaitedMerge(r) \in Requests
    BY <1>3, SubmitIsOwn, RequestsAreNumbers, MergesOfCallers
  <2>2. signQ' \in {signQ, Append(signQ, AwaitedMerge(r)), Append(signQ, r)}
    BY <1>3 DEF Submit, Enqueued
  <2> QED
    BY <2>1, <2>2, <1>1, <1>2
<1>4. ASSUME NEW m \in Merges, MergeFollowed(m)
      PROVE  signQ' \in Seq(Requests)
  <2>1. Caller(m) \in Requests
    BY MergesOfCallers, RequestsAreNumbers
  <2>2. signQ' \in {signQ, Append(signQ, Caller(m))}
    BY <1>4 DEF MergeFollowed, Enqueued
  <2> QED
    BY <2>1, <2>2, <1>1, <1>2
<1>5. ASSUME SignBegins
      PROVE  signQ' \in Seq(Requests)
  <2>1. Tail(signQ) \in Seq(Requests)
    BY <1>5, SignBeginsOn
  <2>2. CASE signQ' = Tail(signQ)
    BY <2>1, <2>2
  <2>3. CASE /\ MergesAside(Head(signQ), Recommended(Head(signQ)))
             /\ signQ' = Append(Tail(signQ), SideMerge(Head(signQ)))
    <3>1. SideMerge(Head(signQ)) \in Requests
      BY <2>3, MergesOfCallers, RequestsAreNumbers DEF MergesAside
    <3> QED
      BY <2>1, <2>3, <3>1, AppendProperties
  <2> QED
    BY <1>5, <2>2, <2>3, SignBeginsOn
<1>6. CASE RetryQueued
  BY <1>1, <1>2, <1>6 DEF RetryQueued, Enqueued, Shape, DispShape, Idle
<1>7. CASE Signed
  BY <1>1, <1>2, <1>7 DEF Signed, Enqueued, Shape, SignShape, Idle
<1>8. CASE DispatchBegins
  BY <1>1, <1>8 DEF DispatchBegins
<1>9. signQ' \in Seq(Requests)
  BY <1>1, <1>3, <1>4, <1>5, <1>6, Writers
<1>10. dispQ' \in Seq(Requests)
  BY <1>1, <1>7, <1>8, Writers
<1> QED
  BY <1>9, <1>10

LEMMA CacheTypes ==
  ASSUME Shape, [Next]_vars
  PROVE  account' \in [Wallets -> Nat \cup {None}] /\ merged' \in [Wallets -> BOOLEAN]
<1>1. account \in [Wallets -> Nat \cup {None}] /\ merged \in [Wallets -> BOOLEAN]
  BY DEF Shape, TypeOK
<1>2. ASSUME NEW a \in Actors, AccountAssigned(a)
      PROVE  account' \in [Wallets -> Nat \cup {None}] /\ merged' \in [Wallets -> BOOLEAN]
  <2>1. reload[a].seq \in Nat \cup {None}
    BY DEF Shape, TypeOK
  <2>2. account' \in [Wallets -> Nat \cup {None}]
    BY <1>1, <1>2, <2>1 DEF AccountAssigned
  <2> QED
    BY <1>1, <1>2, <2>2 DEF AccountAssigned
<1>3. ASSUME Signed
      PROVE  account' \in [Wallets -> Nat \cup {None}]
  <2>1. sign.seq \in Nat
    BY <1>3 DEF Signed, Shape, SignShape, Idle
  <2>2. account' = [account EXCEPT ![SignWallet] = sign.seq + 1] /\ sign.seq + 1 \in Nat
    BY <1>3, <2>1 DEF Signed, NextSequence
  <2> QED
    BY <1>1, <2>2
<1>4. \A a \in Actors, yes \in BOOLEAN : StatusAssigned(a, yes) =>
        merged' \in [Wallets -> BOOLEAN]
  BY <1>1 DEF StatusAssigned
<1>5. CASE AppReloadEnds \/ Loaded \/ MergeReloaded \/ RetryQueued
  BY <1>1, <1>4, <1>5, ActorsDiffer
  DEF AppReloadEnds, Loaded, MergeReloaded, RetryQueued, Returned
<1>6. ASSUME NEW m \in Merges, MergeFollowed(m)
      PROVE  merged' \in [Wallets -> BOOLEAN]
  <2>1. m \in Actors
    BY ActorsDiffer
  <2>2. StatusAssigned(m, FALSE) \/ UNCHANGED merged
    BY <1>6 DEF MergeFollowed, Returned
  <2> QED
    BY <1>1, <1>4, <2>1, <2>2
<1>7. account' \in [Wallets -> Nat \cup {None}]
  BY <1>1, <1>2, <1>3, Writers
<1>8. merged' \in [Wallets -> BOOLEAN]
  BY <1>1, <1>2, <1>5, <1>6, Writers
<1> QED
  BY <1>7, <1>8

\* A wallet whose account has been loaded stays loaded.
LEMMA AccountsStay ==
  ASSUME Shape, [Next]_vars
  PROVE  \A w \in Wallets : account[w] # None => account'[w] # None
<1>1. account \in [Wallets -> Nat \cup {None}]
  BY DEF Shape, TypeOK
<1>2. CASE \E a \in Actors : AccountAssigned(a)
  BY <1>1, <1>2 DEF AccountAssigned, Shape, ReloadShape, NoReload
<1>3. CASE Signed
  BY <1>1, <1>3 DEF Signed, NextSequence, Shape, SignShape, Idle
<1> QED
  BY <1>1, <1>2, <1>3, Writers

ReloadOK(rl) ==
  \/ rl = NoReload
  \/ /\ rl.step # "idle" /\ rl.wallet \in Wallets
     /\ rl.step = "answered" => rl.seq \in Nat
     /\ rl.step \in {"assigned", "merged", "unmerged"} => account[rl.wallet] # None

ReloadType == [step : {"idle", "asked", "answered", "assigned", "merged", "unmerged", "missing"},
               wallet : Wallets \cup {None}, seq : Nat \cup {None}]

\* What an action may do to the calls of reloadAccount() outside ReloadStep.
AsksOrEnds ==
  \A a \in Actors :
    \/ reload'[a] = reload[a]
    \/ reload'[a] = NoReload
    \/ \E w \in Wallets : reload'[a] = [step |-> "asked", wallet |-> w, seq |-> None]

LEMMA ReloadsAskOrEnd ==
  ASSUME Shape, [Next]_vars
  PROVE  \/ \E a \in Actors : ReloadStep(a)
         \/ /\ AsksOrEnds
            /\ \E f : reload' = [a \in Actors |-> f[a]]
<1>1. reload \in [Actors -> ReloadType]
  BY DEF Shape, TypeOK, ReloadType
<1>r. \E f : reload = [a \in Actors |-> f[a]]
  BY <1>1
<1>2. \A a \in Actors, w \in Wallets : Asks(a, w) =>
        AsksOrEnds /\ \E f : reload' = [b \in Actors |-> f[b]]
  BY <1>1 DEF Asks, AsksOrEnds
<1>3. \A a \in Actors : Ends(a) => AsksOrEnds /\ \E f : reload' = [b \in Actors |-> f[b]]
  BY <1>1 DEF Ends, AsksOrEnds
<1>4. \A rl \in [Actors -> ReloadType], r \in Requests :
        /\ \A a \in Actors : rl[a] \in {reload[a], NoReload}
        /\ reload' = Following(rl, r)
        => AsksOrEnds /\ \E f : reload' = [a \in Actors |-> f[a]]
  <2> SUFFICES ASSUME NEW rl \in [Actors -> ReloadType], NEW r \in Requests,
                      \A a \in Actors : rl[a] \in {reload[a], NoReload},
                      reload' = Following(rl, r)
               PROVE  AsksOrEnds /\ \E f : reload' = [a \in Actors |-> f[a]]
    OBVIOUS
  <2>1. Author(r) \in Wallets
    BY AuthorIsWallet DEF Shape
  <2>2. CASE r \in Own
    <3>1. reload' = rl
      BY <2>2 DEF Following
    <3> QED
      BY <3>1 DEF AsksOrEnds
  <2>3. CASE r \notin Own
    <3>1. reload' = [rl EXCEPT ![r] = [step |-> "asked", wallet |-> Author(r), seq |-> None]]
      BY <2>3 DEF Following
    <3>2. \A a \in Actors : reload'[a] = IF a = r
             THEN [step |-> "asked", wallet |-> Author(r), seq |-> None] ELSE rl[a]
      BY <3>1
    <3>3. AsksOrEnds
      BY <3>2, <2>1 DEF AsksOrEnds
    <3>4. \E f : reload' = [a \in Actors |-> f[a]]
      BY <3>1
    <3> QED
      BY <3>3, <3>4
  <2> QED
    BY <2>2, <2>3
<1>13. CASE UNCHANGED reload
  BY <1>1, <1>13, <1>r DEF AsksOrEnds
<1>5. CASE AppReloads
  BY <1>5, <1>2, ActorsDiffer DEF AppReloads, Registered
<1>6. CASE AppReloadEnds \/ Loaded \/ RetryQueued \/ MergeReloadFails \/ RetryAbandoned
  BY <1>6, <1>3, ActorsDiffer
  DEF AppReloadEnds, Loaded, RetryQueued, MergeReloadFails, RetryAbandoned, Returned, Failed
<1>7. CASE \E m \in Merges : MergeStep(m)
  BY <1>7, <1>3, ActorsDiffer
  DEF MergeStep, MergeFollowed, MergeFollowFails, Returned, Failed
<1>8. CASE Prepared
  BY <1>8, <1>2, <1>13, ActorsDiffer DEF Prepared, SignWallet, Shape, SignShape, Idle
<1>9. CASE SigningFails
  BY <1>9, <1>3, <1>13, ActorsDiffer DEF SigningFails, Failed
<1>10. CASE RetryBegins
  BY <1>10, <1>2, ActorsDiffer DEF RetryBegins, Shape, DispShape, IsSigned, Idle
<1>11. CASE DispatchSucceeds
  <2>1. disp.req \in Requests /\ job[disp.req].by \in Wallets
    BY <1>11 DEF DispatchSucceeds, Shape, DispShape, IsSigned, Idle
  <2>2. CASE Asks(Dispatcher, job[disp.req].by)
    BY <2>1, <2>2, <1>2, ActorsDiffer
  <2>3. CASE reload' = Following(reload, disp.req)
    BY <2>1, <2>3, <1>1, <1>4
  <2>4. CASE UNCHANGED reload
    BY <2>4, <1>13
  <2> QED
    BY <1>11, <2>2, <2>3, <2>4 DEF DispatchSucceeds
<1>12. CASE MergeReloaded
  <2>1. disp.req \in Requests
    BY <1>12 DEF MergeReloaded, Shape, DispShape, Idle
  <2>2. [reload EXCEPT ![Dispatcher] = NoReload] \in [Actors -> ReloadType]
    BY <1>1 DEF NoReload, ReloadType
  <2>3. \A a \in Actors : [reload EXCEPT ![Dispatcher] = NoReload][a] \in {reload[a], NoReload}
    BY <1>1
  <2>4. reload' = Following([reload EXCEPT ![Dispatcher] = NoReload], disp.req)
    BY <1>12 DEF MergeReloaded
  <2> QED
    BY <2>1, <2>2, <2>3, <2>4, <1>4
<1> QED
  BY <1>13, <1>5, <1>6, <1>7, <1>8, <1>9, <1>10, <1>11, <1>12, Writers

LEMMA ReloadTypes ==
  ASSUME Shape, [Next]_vars
  PROVE  reload' \in [Actors -> ReloadType] /\ ReloadShape'
<1>1. reload \in [Actors -> ReloadType]
  BY DEF Shape, TypeOK, ReloadType
<1>2. CASE AsksOrEnds /\ \E f : reload' = [a \in Actors |-> f[a]]
  <2>1. SUFFICES ASSUME NEW a \in Actors
                 PROVE  reload'[a] \in ReloadType /\ ReloadOK(reload[a])'
    BY <1>2 DEF ReloadShape, ReloadOK
  <2>2. CASE reload'[a] = reload[a]
    BY <2>2, <1>1, AccountsStay DEF Shape, ReloadShape, ReloadOK, NoReload
  <2>3. CASE reload'[a] = NoReload
    BY <2>3 DEF NoReload, ReloadType, ReloadOK
  <2>4. CASE \E w \in Wallets : reload'[a] = [step |-> "asked", wallet |-> w, seq |-> None]
    BY <2>4 DEF ReloadType, ReloadOK
  <2> QED
    BY <2>2, <2>3, <2>4, <1>2 DEF AsksOrEnds
<1>3. ASSUME NEW a \in Actors, ReloadStep(a)
      PROVE  reload' \in [Actors -> ReloadType] /\ ReloadShape'
  <2>1. /\ reload[a] # NoReload => ReloadOK(reload[a])
        /\ \A b \in Actors : ReloadOK(reload[b])
    BY DEF Shape, ReloadShape, ReloadOK
  <2>2. chainSeq \in [Wallets -> Nat]
    BY DEF Shape, TypeOK, ChainTypeOK
  <2>3. account \in [Wallets -> Nat \cup {None}]
    BY DEF Shape, TypeOK
  <2>4. reload[a].wallet \in Wallets \/ reload[a].step = "idle"
    BY <2>1 DEF ReloadOK, NoReload
  <2>5. CASE AccountQueried(a)
    <3>2. account' = account
      BY <2>5 DEF AccountQueried, cache
    <3>3. reload[a].wallet \in Wallets /\ chainSeq[reload[a].wallet] \in Nat
      BY <2>4, <2>5, <2>2 DEF AccountQueried
    <3>6. CASE reload' = [reload EXCEPT ![a].step = "answered",
                                        ![a].seq = chainSeq[reload[a].wallet]]
      <4>1. reload' = [reload EXCEPT ![a] = [[reload[a] EXCEPT !.step = "answered"]
                                               EXCEPT !.seq = chainSeq[reload[a].wallet]]]
        BY <3>6, <1>1
      <4>2. reload' \in [Actors -> ReloadType]
        BY <4>1, <3>3, <1>1 DEF ReloadType
      <4>3. \A b \in Actors : ReloadOK(reload[b])'
        BY <4>1, <3>2, <3>3, <2>1, <1>1 DEF ReloadOK
      <4> QED
        BY <4>2, <4>3 DEF ReloadShape, ReloadOK
    <3>7. CASE reload' = [reload EXCEPT ![a].step = "missing"]
      <4>1. reload' = [reload EXCEPT ![a] = [reload[a] EXCEPT !.step = "missing"]]
        BY <3>7, <1>1
      <4>2. reload' \in [Actors -> ReloadType]
        BY <4>1, <1>1 DEF ReloadType
      <4>3. \A b \in Actors : ReloadOK(reload[b])'
        BY <4>1, <3>2, <3>3, <2>1, <1>1 DEF ReloadOK
      <4> QED
        BY <4>2, <4>3 DEF ReloadShape, ReloadOK
    <3> QED
      BY <2>5, <3>6, <3>7 DEF AccountQueried
  <2>6. CASE AccountAssigned(a)
    <3>1. reload' = [reload EXCEPT ![a] = [[reload[a] EXCEPT !.step = "assigned"]
                                             EXCEPT !.seq = None]]
      BY <2>6, <1>1 DEF AccountAssigned
    <3>2. reload[a].wallet \in Wallets /\ account'[reload[a].wallet] \in Nat
      BY <2>6, <2>1, <2>3 DEF AccountAssigned, ReloadOK, NoReload
    <3>3. reload' \in [Actors -> ReloadType]
      BY <3>1, <3>2, <1>1 DEF ReloadType
    <3>4. \A b \in Actors : b # a => reload'[b] = reload[b]
      BY <3>1, <1>1
    <3>5. \A b \in Actors : ReloadOK(reload[b])'
      BY <3>1, <3>2, <3>4, <2>1, <1>1, AccountsStay DEF ReloadOK, NoReload
    <3> QED
      BY <3>3, <3>5 DEF ReloadShape, ReloadOK
  <2>7. CASE StatusQueried(a)
    <3> DEFINE found == IF MergedOnChain(reload[a].wallet) THEN "merged" ELSE "unmerged"
    <3>1. reload' = [reload EXCEPT ![a] = [reload[a] EXCEPT !.step = found]]
      BY <2>7, <1>1 DEF StatusQueried
    <3>2. reload[a].wallet \in Wallets /\ account[reload[a].wallet] # None
          /\ account' = account /\ reload[a].seq \in Nat \cup {None}
      BY <2>7, <2>1, <1>1 DEF StatusQueried, ReloadOK, NoReload, cache, ReloadType
    <3>3. found \in {"merged", "unmerged"}
      OBVIOUS
    <3> HIDE DEF found
    <3>4. reload' \in [Actors -> ReloadType]
      BY <3>1, <3>2, <3>3, <1>1 DEF ReloadType
    <3>5. \A b \in Actors : ReloadOK(reload[b])'
      BY <3>1, <3>2, <3>3, <2>1, <1>1 DEF ReloadOK
    <3> QED
      BY <3>4, <3>5 DEF ReloadShape, ReloadOK
  <2> QED
    BY <1>3, <2>5, <2>6, <2>7 DEF ReloadStep
<1> QED
  BY <1>2, <1>3, ReloadsAskOrEnd

StageType == [req : Requests \cup {None}, step : Steps, seq : Nat \cup {None}]

\* The steps of a call keep what it was called for, and touch no other call.
LEMMA ReloadStepKeeps ==
  ASSUME Shape, NEW a \in Actors, ReloadStep(a), NEW b \in Actors
  PROVE  /\ reload[b] # NoReload <=> reload'[b] # NoReload
         /\ reload'[b].wallet = reload[b].wallet
         /\ b # a => reload'[b] = reload[b]
<1>1. reload \in [Actors -> ReloadType]
  BY DEF Shape, TypeOK, ReloadType
<1>2. reload[a] # NoReload
  BY DEF ReloadStep, AccountQueried, AccountAssigned, StatusQueried, NoReload
<1>3. ASSUME NEW r, r.step # "idle", r.wallet = reload[a].wallet, reload' = [reload EXCEPT ![a] = r]
      PROVE  /\ reload[b] # NoReload <=> reload'[b] # NoReload
             /\ reload'[b].wallet = reload[b].wallet
             /\ b # a => reload'[b] = reload[b]
  <2>1. r # NoReload
    BY <1>3 DEF NoReload
  <2> QED
    BY <1>1, <1>2, <1>3, <2>1
<1>4. reload[a] \in ReloadType
  BY <1>1
<1>5. CASE AccountQueried(a)
  <2> DEFINE r == [[reload[a] EXCEPT !.step = "answered"]
                     EXCEPT !.seq = chainSeq[reload[a].wallet]]
             none == [reload[a] EXCEPT !.step = "missing"]
  <2>1. reload' = [reload EXCEPT ![a] = r] \/ reload' = [reload EXCEPT ![a] = none]
    BY <1>1, <1>5 DEF AccountQueried
  <2>2. r.step = "answered" /\ r.wallet = reload[a].wallet
    BY <1>4 DEF ReloadType
  <2>3. none.step = "missing" /\ none.wallet = reload[a].wallet
    BY <1>4 DEF ReloadType
  <2> HIDE DEF r, none
  <2> QED
    BY <2>1, <2>2, <2>3, <1>3
<1>6. CASE AccountAssigned(a)
  <2> DEFINE r == [[reload[a] EXCEPT !.step = "assigned"] EXCEPT !.seq = None]
  <2>1. reload' = [reload EXCEPT ![a] = r]
    BY <1>1, <1>6 DEF AccountAssigned
  <2>2. r.step = "assigned" /\ r.wallet = reload[a].wallet
    BY <1>4 DEF ReloadType
  <2> HIDE DEF r
  <2> QED
    BY <2>1, <2>2, <1>3
<1>7. CASE StatusQueried(a)
  <2> DEFINE found == IF MergedOnChain(reload[a].wallet) THEN "merged" ELSE "unmerged"
             r == [reload[a] EXCEPT !.step = found]
  <2>1. reload' = [reload EXCEPT ![a] = r]
    BY <1>1, <1>7 DEF StatusQueried
  <2>2. r.step = found /\ r.wallet = reload[a].wallet
    BY <1>4 DEF ReloadType
  <2>3. found # "idle"
    OBVIOUS
  <2> HIDE DEF r, found
  <2> QED
    BY <2>1, <2>2, <2>3, <1>3
<1> QED
  BY <1>5, <1>6, <1>7 DEF ReloadStep

\* Following() starts the reload of a merge, whose caller no one else is.
LEMMA FollowingOthers ==
  ASSUME NEW rl \in [Actors -> ReloadType], NEW r \in Requests,
         NEW a \in {Signer, Dispatcher, App}
  PROVE  Following(rl, r)[a] = rl[a]
<1>1. CASE r \in Own
  BY <1>1 DEF Following
<1>2. CASE r \notin Own
  <2>1. r # a /\ a \in Actors
    BY <1>2, ActorsDiffer DEF Requests
  <2> QED
    BY <1>2, <2>1 DEF Following
<1> QED
  BY <1>1, <1>2

\* Nobody but the handler that waits for it ends or restarts a call.
LEMMA SignersReloadStays ==
  ASSUME Shape, [Next]_vars, sign.step = "load", UNCHANGED sign
  PROVE  /\ reload[Signer] # NoReload => reload'[Signer] # NoReload
         /\ reload'[Signer].wallet = reload[Signer].wallet
<1>1. reload \in [Actors -> ReloadType] /\ sign \in StageType
  BY DEF Shape, TypeOK, ReloadType, StageType
<1>2. CASE UNCHANGED reload
  BY <1>2
<1>3. CASE \E a \in Actors : ReloadStep(a)
  BY <1>3, ReloadStepKeeps, ActorsDiffer
<1>4. CASE \E m \in Merges : MergeStep(m)
  BY <1>1, <1>4, ActorsDiffer
  DEF MergeStep, MergeFollowed, MergeFollowFails, Returned, Failed, Ends
<1>5. CASE AppReloads \/ AppReloadEnds
  BY <1>1, <1>5, ActorsDiffer DEF AppReloads, AppReloadEnds, Asks, Returned, Failed, Ends
<1>6. CASE MergeReloadFails \/ RetryBegins \/ RetryQueued \/ RetryAbandoned
  BY <1>1, <1>6, ActorsDiffer
  DEF MergeReloadFails, RetryBegins, RetryQueued, RetryAbandoned, Asks, Returned, Failed, Ends
<1>7. CASE DispatchSucceeds \/ MergeReloaded
  <2>1. disp.req \in Requests
    <3>1. disp.step # "idle"
      BY <1>7 DEF DispatchSucceeds, MergeReloaded
    <3> QED
      BY <3>1 DEF Shape, DispShape, Idle
  <2>2. [reload EXCEPT ![Dispatcher] = NoReload] \in [Actors -> ReloadType]
    BY <1>1 DEF NoReload, ReloadType
  <2>3. reload'[Signer] = reload[Signer]
    <3>1. CASE Asks(Dispatcher, job[disp.req].by) \/ UNCHANGED reload
      BY <1>1, <3>1, ActorsDiffer DEF Asks
    <3>2. CASE reload' = Following(reload, disp.req)
      BY <1>1, <2>1, <3>2, FollowingOthers
    <3>3. CASE reload' = Following([reload EXCEPT ![Dispatcher] = NoReload], disp.req)
      BY <1>1, <2>1, <2>2, <3>3, FollowingOthers, ActorsDiffer
    <3> QED
      BY <1>7, <3>1, <3>2, <3>3 DEF DispatchSucceeds, MergeReloaded
  <2> QED
    BY <2>3
<1>8. ~Prepared /\ ~Loaded /\ ~SigningFails
  BY <1>1 DEF Prepared, Loaded, SigningFails, TakesSequence, StageType
<1> QED
  BY <1>2, <1>3, <1>4, <1>5, <1>6, <1>7, <1>8, Writers

LEMMA SequenceTaken ==
  ASSUME Shape, NEW cached \in Nat, TakesSequence(cached), sign.req \in Requests
  PROVE  sign' \in StageType /\ sign'.req = sign.req /\ sign'.step = "sign"
         /\ sign'.seq \in Nat
<1>1. sign \in StageType
  BY DEF Shape, TypeOK, StageType
<1>2. scenario.sequence[sign.req] \in Nat \cup {None}
  BY ScenarioTypes DEF Shape
<1> DEFINE given == scenario.sequence[sign.req]
           n == IF given # None THEN given ELSE cached
<1>3. n \in Nat
  BY <1>2
<1>4. sign' = [[sign EXCEPT !.step = "sign"] EXCEPT !.seq = n]
  BY DEF TakesSequence
<1> HIDE DEF n
<1> QED
  BY <1>1, <1>3, <1>4 DEF StageType, Steps

LEMMA SignTypes ==
  ASSUME Shape, [Next]_vars
  PROVE  sign' \in StageType /\ SignShape'
<1>1. sign \in StageType /\ SignShape
  BY DEF Shape, TypeOK, StageType
<1>2. /\ job \in [Requests -> Jobs] /\ account \in [Wallets -> Nat \cup {None}]
      /\ reload \in [Actors -> ReloadType]
  BY DEF Shape, TypeOK, Jobs, ReloadType
<1>3. CASE SignBegins
  <2>1. CASE UNCHANGED <<sign, job>>
    BY <1>1, <1>3, <2>1, SignBeginsOn DEF SignShape, Idle
  <2>2. CASE sign' = [req |-> Head(signQ), step |-> "prepare", seq |-> None]
    <3>1. Head(signQ) \in Requests /\ Recommended(Head(signQ)) \in Wallets
          /\ job' = [job EXCEPT ![Head(signQ)].by = Recommended(Head(signQ)),
                            ![Head(signQ)].signs = job[Head(signQ)].msgs,
                            ![Head(signQ)].msgs =
                              IF Recommended(Head(signQ)) = Grantee THEN "exec" ELSE @]
      BY <1>3, <2>2, SignBeginsOn DEF Idle
    <3>2. job'[Head(signQ)].by = Recommended(Head(signQ))
      BY <3>1, <1>2 DEF Jobs
    <3> QED
      BY <2>2, <3>1, <3>2 DEF StageType, Steps, SignShape
  <2> QED
    BY <1>3, <2>1, <2>2, SignBeginsOn
<1>4. CASE Prepared
  <2>1. sign.req \in Requests /\ SignWallet \in Wallets /\ UNCHANGED job
    BY <1>1, <1>4 DEF Prepared, SignShape, Idle, SignWallet
  <2>2. CASE account[SignWallet] = None
    <3>1. sign' = [sign EXCEPT !.step = "load"] /\ Asks(Signer, SignWallet)
      BY <1>4, <2>2 DEF Prepared
    <3>2. reload'[Signer] = [step |-> "asked", wallet |-> SignWallet, seq |-> None]
      BY <3>1, <1>2, ActorsDiffer DEF Asks
    <3>3. reload'[Signer] # NoReload /\ reload'[Signer].wallet = SignWallet
      BY <3>2 DEF NoReload
    <3> QED
      BY <1>1, <2>1, <3>1, <3>3 DEF StageType, Steps, SignShape, SignWallet
  <2>3. CASE account[SignWallet] # None
    <3>1. TakesSequence(account[SignWallet]) /\ account[SignWallet] \in Nat
      BY <1>2, <1>4, <2>1, <2>3 DEF Prepared
    <3> QED
      BY <2>1, <3>1, SequenceTaken DEF SignShape, SignWallet
  <2> QED
    BY <2>2, <2>3
<1>5. CASE Loaded
  <2>1. /\ sign.req \in Requests /\ SignWallet \in Wallets /\ UNCHANGED job
        /\ reload[Signer].wallet = SignWallet /\ reload[Signer] # NoReload
    BY <1>1, <1>5 DEF Loaded, SignShape, Idle, SignWallet
  <2>2. account[SignWallet] \in Nat
    BY <1>2, <1>5, <2>1, ActorsDiffer DEF Loaded, Returned, Answered, Shape, ReloadShape
  <2>3. sign' \in StageType /\ sign'.req = sign.req /\ sign'.step = "sign" /\ sign'.seq \in Nat
    BY <1>5, <2>1, <2>2, SequenceTaken DEF Loaded
  <2> QED
    BY <2>1, <2>3 DEF SignShape, SignWallet
<1>6. CASE Signed
  <2>1. /\ sign.req \in Requests /\ sign' = [sign EXCEPT !.step = "complete"]
        /\ job' = [job EXCEPT ![sign.req].seq = sign.seq] /\ job[sign.req].by \in Wallets
    BY <1>1, <1>6 DEF Signed, SignShape, Idle
  <2>2. job'[sign.req].by = job[sign.req].by
    BY <1>2, <2>1 DEF Jobs
  <2> QED
    BY <1>1, <2>1, <2>2 DEF StageType, Steps, SignShape
<1>7. CASE SigningFails
  BY <1>1, <1>7 DEF SigningFails, StageType, Steps, SignShape, Idle
<1>8. CASE SignReturns
  BY <1>8 DEF SignReturns, StageType, Steps, SignShape, Idle
<1>9. CASE UNCHANGED sign
  <2>1. sign # Idle => job'[sign.req].by = job[sign.req].by
    <3>1. CASE UNCHANGED job
      BY <3>1
    <3>2. CASE SignBegins
      BY <3>2 DEF SignBegins
    <3>3. CASE Signed
      BY <3>3, <1>1, <1>2 DEF Signed, SignShape, Idle, Jobs
    <3>4. CASE RetryQueued
      BY <3>4, <1>1, <1>2 DEF RetryQueued, SignShape, Jobs
    <3> QED
      BY <3>1, <3>2, <3>3, <3>4, Writers
  <2>2. sign.step = "load" => /\ reload'[Signer] # NoReload
                              /\ reload'[Signer].wallet = reload[Signer].wallet
    BY <1>1, <1>9, SignersReloadStays DEF SignShape, Idle
  <2> QED
    BY <1>1, <1>9, <2>1, <2>2 DEF SignShape
<1> QED
  BY <1>3, <1>4, <1>5, <1>6, <1>7, <1>8, <1>9, Writers DEF SignStep

LEMMA DispatchersReloadStays ==
  ASSUME Shape, [Next]_vars, disp.step \in {"merge", "reload"}, UNCHANGED disp
  PROVE  /\ reload[Dispatcher] # NoReload => reload'[Dispatcher] # NoReload
         /\ reload'[Dispatcher].wallet = reload[Dispatcher].wallet
<1>1. reload \in [Actors -> ReloadType] /\ disp \in StageType
  BY DEF Shape, TypeOK, ReloadType, StageType
<1>2. CASE UNCHANGED reload
  BY <1>2
<1>3. CASE \E a \in Actors : ReloadStep(a)
  BY <1>3, ReloadStepKeeps, ActorsDiffer
<1>4. CASE \E m \in Merges : MergeStep(m)
  BY <1>1, <1>4, ActorsDiffer
  DEF MergeStep, MergeFollowed, MergeFollowFails, Returned, Failed, Ends
<1>5. CASE AppReloads \/ AppReloadEnds
  BY <1>1, <1>5, ActorsDiffer DEF AppReloads, AppReloadEnds, Asks, Returned, Failed, Ends
<1>6. CASE Prepared \/ Loaded \/ SigningFails
  BY <1>1, <1>6, ActorsDiffer DEF Prepared, Loaded, SigningFails, Asks, Returned, Failed, Ends
<1>7. ~MergeReloadFails
  BY <1>1 DEF MergeReloadFails, Goes, AfterError, StageType
<1>9. ~RetryQueued /\ ~RetryAbandoned
  BY DEF RetryQueued, RetryAbandoned, Idle
<1>8. ~DispatchSucceeds /\ ~RetryBegins
  BY DEF DispatchSucceeds, RetryBegins
<1>10. ~MergeReloaded
  <2>1. MergeReloaded => disp' = Idle
    BY DEF MergeReloaded
  <2> QED
    BY <2>1 DEF Idle
<1> QED
  BY <1>2, <1>3, <1>4, <1>5, <1>6, <1>7, <1>8, <1>9, <1>10, Writers

\* What has been signed stays so, whoever signs next.
LEMMA SignedStays ==
  ASSUME Shape, [Next]_vars
  PROVE  \A r \in Requests : IsSigned(job[r]) => IsSigned(job'[r])
<1>1. job \in [Requests -> Jobs]
  BY DEF Shape, TypeOK, Jobs
<1>2. CASE SignBegins
  <2> DEFINE r == Head(signQ)
             w == Recommended(r)
             m == IF w = Grantee THEN "exec" ELSE job[r].msgs
  <2>1. CASE UNCHANGED job
    BY <2>1 DEF IsSigned
  <2>2. CASE ~UNCHANGED job
    <3>1. r \in Requests /\ w \in Wallets
          /\ job' = [job EXCEPT ![r] = [job[r] EXCEPT !.by = w, !.signs = job[r].msgs,
                                                      !.msgs = m]]
      BY <1>2, <2>2, SignBeginsOn, <1>1
    <3>2. job[r] \in Jobs
      BY <3>1, <1>1
    <3> HIDE DEF r, w, m
    <3>3. job'[r].by = w /\ job'[r].seq = job[r].seq
          /\ \A q \in Requests : q # r => job'[q] = job[q]
      BY <3>1, <3>2, <1>1 DEF Jobs
    <3> QED
      BY <3>1, <3>3 DEF IsSigned
  <2> QED
    BY <2>1, <2>2
<1>3. CASE Signed
  <2>1. sign.seq \in Nat /\ job' = [job EXCEPT ![sign.req] = [job[sign.req] EXCEPT !.seq = sign.seq]]
    BY <1>1, <1>3 DEF Signed, Shape, SignShape, Idle
  <2> QED
    BY <2>1, <1>1 DEF IsSigned, Jobs
<1>4. CASE RetryQueued
  BY <1>1, <1>4 DEF RetryQueued, IsSigned, Jobs
<1> QED
  BY <1>1, <1>2, <1>3, <1>4, Writers DEF IsSigned

\* Attempts are counted by RetryQueued only.
LEMMA AttemptsStay ==
  ASSUME Shape, [Next]_vars
  PROVE  \A r \in Requests :
           \/ job'[r].reattempts = job[r].reattempts
           \/ RetryQueued /\ r = disp.req /\ job'[r].reattempts = job[r].reattempts + 1
<1>1. job \in [Requests -> Jobs]
  BY DEF Shape, TypeOK, Jobs
<1>2. CASE SignBegins
  BY <1>1, <1>2, SignBeginsOn DEF Jobs
<1>3. CASE Signed
  BY <1>1, <1>3 DEF Signed, Jobs
<1>4. CASE RetryQueued
  BY <1>1, <1>4 DEF RetryQueued, Jobs
<1> QED
  BY <1>2, <1>3, <1>4, Writers

LEMMA DispTypes ==
  ASSUME Shape, [Next]_vars
  PROVE  disp' \in StageType /\ DispShape'
<1>1. disp \in StageType /\ DispShape /\ DispQShape
  BY DEF Shape, TypeOK, StageType
<1>2. /\ job \in [Requests -> Jobs] /\ reload \in [Actors -> ReloadType]
      /\ dispQ \in Seq(Requests)
  BY DEF Shape, TypeOK, Jobs, ReloadType
<1>3. disp' = Idle => disp' \in StageType /\ DispShape'
  BY DEF Idle, StageType, Steps, DispShape
<1>4. ASSUME disp # Idle, NEW step, Goes(step),
             step \in {"broadcast", "polling", "succeeded", "merge", "mismatch",
                       "reload", "failed"},
             step = "reload" => job[disp.req].reattempts = 0,
             step \in {"merge", "reload"} => reload'[Dispatcher] # NoReload,
             ~RetryQueued
      PROVE  disp' \in StageType /\ DispShape'
  <2>1. disp.req \in Requests /\ IsSigned(job[disp.req])
    BY <1>1, <1>4 DEF DispShape
  <2>2. disp' \in StageType /\ disp'.req = disp.req /\ disp'.step = step
    BY <1>1, <1>4 DEF Goes, StageType, Steps
  <2>3. job'[disp.req].reattempts = job[disp.req].reattempts /\ IsSigned(job'[disp.req])
    BY <1>4, <2>1, AttemptsStay, SignedStays
  <2> QED
    BY <1>4, <2>1, <2>2, <2>3 DEF DispShape, IsSigned
<1>5. CASE DispatchBegins
  <2>1. dispQ # <<>> /\ Head(dispQ) = dispQ[1] /\ 1 \in DOMAIN dispQ /\ dispQ[1] \in Requests
    BY <1>2, <1>5 DEF DispatchBegins
  <2>2. IsSigned(job'[dispQ[1]])
    BY <1>1, <2>1, SignedStays DEF DispQShape
  <2>3. CASE UNCHANGED disp
    BY <1>1, <1>5, <2>3, <1>3 DEF DispatchBegins
  <2>4. CASE disp' = [Idle EXCEPT !.req = Head(dispQ), !.step = "broadcast"]
    BY <2>1, <2>2, <2>4 DEF Idle, StageType, Steps, DispShape, IsSigned
  <2> QED
    BY <1>5, <2>3, <2>4 DEF DispatchBegins
<1>6. CASE NodeAdmits \/ NodeRefuses \/ AsyncSent \/ PollFinds \/ PollTimesOut
  <2>1. /\ disp # Idle
        /\ ~RetryQueued
    BY <1>6 DEF NodeAdmits, NodeRefuses, AsyncSent, PollFinds, PollTimesOut, RetryQueued, Idle
  <2>2. \E step \in {"polling", "succeeded", "mismatch", "failed"} : Goes(step)
    BY <1>6 DEF NodeAdmits, NodeRefuses, AsyncSent, PollFinds, PollTimesOut, AfterError, Delivered
  <2> QED
    BY <2>1, <2>2, <1>4
<1>7. CASE DispatchSucceeds
  <2>1. disp # Idle /\ ~RetryQueued
    BY <1>7 DEF DispatchSucceeds, RetryQueued, Idle
  <2>2. CASE Goes("merge") /\ Asks(Dispatcher, job[disp.req].by)
    <3>1. reload'[Dispatcher] # NoReload
      BY <2>2, <1>2, ActorsDiffer DEF Asks, NoReload
    <3> QED
      BY <2>1, <2>2, <3>1, <1>4
  <2>3. CASE Goes(AfterError("callback"))
    BY <2>1, <2>3, <1>4 DEF AfterError
  <2>4. CASE disp' = Idle
    BY <2>4, <1>3
  <2> QED
    BY <1>7, <2>2, <2>3, <2>4 DEF DispatchSucceeds
<1>8. CASE MergeReloaded \/ RetryQueued \/ RetryAbandoned \/ DispatchFails
  BY <1>8, <1>3 DEF MergeReloaded, RetryQueued, RetryAbandoned, DispatchFails
<1>9. CASE MergeReloadFails
  <2>1. disp # Idle /\ ~RetryQueued /\ Goes("failed")
    BY <1>9 DEF MergeReloadFails, RetryQueued, Idle, AfterError
  <2> QED
    BY <2>1, <1>4
<1>10. CASE RetryBegins
  <2>1. disp # Idle /\ ~RetryQueued /\ Goes("reload") /\ disp.req \in Requests
    BY <1>1, <1>10 DEF RetryBegins, RetryQueued, Idle, DispShape
  <2>2. reload'[Dispatcher] # NoReload
    BY <1>2, <1>10, ActorsDiffer DEF RetryBegins, Asks, NoReload
  <2>3. job[disp.req].reattempts = 0
    BY <1>2, <1>10, <2>1 DEF RetryBegins, MayRetry, Jobs
  <2> QED
    BY <2>1, <2>2, <2>3, <1>4
<1>11. CASE UNCHANGED disp
  <2>1. CASE disp = Idle
    BY <1>1, <1>11, <2>1, <1>3
  <2>2. CASE disp # Idle
    <3>1. disp.req \in Requests /\ IsSigned(job'[disp.req])
      BY <1>1, <2>2, SignedStays DEF DispShape
    <3>2. ~RetryQueued
      BY <1>11, <2>2 DEF RetryQueued
    <3>3. job'[disp.req].reattempts = job[disp.req].reattempts
      BY <3>1, <3>2, AttemptsStay
    <3>4. disp.step \in {"merge", "reload"} => reload'[Dispatcher] # NoReload
      BY <1>1, <1>11, <2>2, DispatchersReloadStays DEF DispShape
    <3> QED
      BY <1>1, <1>11, <2>2, <3>1, <3>3, <3>4 DEF DispShape, IsSigned
  <2> QED
    BY <2>1, <2>2
<1> QED
  BY <1>5, <1>6, <1>7, <1>8, <1>9, <1>10, <1>11, Writers DEF DispatchStep

LEMMA DispQTypes ==
  ASSUME Shape, [Next]_vars
  PROVE  DispQShape'
<1>t. /\ DispQShape /\ job \in [Requests -> Jobs] /\ dispQ \in Seq(Requests)
  BY DEF Shape, TypeOK, Jobs
<1>1. CASE Signed
  <2>1. sign.req \in Requests /\ job[sign.req].by \in Wallets /\ sign.seq \in Nat
        /\ job' = [job EXCEPT ![sign.req].seq = sign.seq]
        /\ dispQ' = Append(dispQ, sign.req)
    BY <1>1 DEF Signed, Enqueued, Shape, SignShape, Idle
  <2>2. IsSigned(job'[sign.req])
    BY <2>1, <1>t DEF IsSigned, Jobs
  <2> SUFFICES ASSUME NEW i \in DOMAIN dispQ'
               PROVE  IsSigned(job'[dispQ'[i]])
    BY DEF DispQShape
  <2>3. i \in 1 .. Len(dispQ) + 1 /\ DOMAIN dispQ = 1 .. Len(dispQ) /\ Len(dispQ) \in Nat
    BY <1>t, <2>1
  <2>4. CASE i \in DOMAIN dispQ
    <3>1. dispQ'[i] = dispQ[i] /\ dispQ[i] \in Requests /\ IsSigned(job[dispQ[i]])
      BY <1>t, <2>1, <2>4 DEF DispQShape
    <3> QED
      BY <3>1, SignedStays
  <2>5. CASE i = Len(dispQ) + 1
    <3>1. dispQ'[i] = sign.req
      BY <1>t, <2>1, <2>5, AppendProperties
    <3> QED
      BY <3>1, <2>2
  <2> QED
    BY <2>3, <2>4, <2>5
<1>2. CASE DispatchBegins
  <2> SUFFICES ASSUME NEW i \in DOMAIN dispQ'
               PROVE  IsSigned(job'[dispQ'[i]])
    BY DEF DispQShape
  <2>1. dispQ # <<>> /\ dispQ' = Tail(dispQ)
    BY <1>2 DEF DispatchBegins
  <2>2. dispQ'[i] = dispQ[i + 1] /\ i + 1 \in DOMAIN dispQ /\ dispQ[i + 1] \in Requests
    BY <1>t, <2>1
  <2> QED
    BY <1>t, <2>2, SignedStays DEF DispQShape
<1>3. CASE UNCHANGED dispQ
  <2> SUFFICES ASSUME NEW i \in DOMAIN dispQ
               PROVE  IsSigned(job'[dispQ[i]])
    BY <1>3 DEF DispQShape
  <2>1. dispQ[i] \in Requests
    BY <1>t
  <2> QED
    BY <1>t, <2>1, SignedStays DEF DispQShape
<1> QED
  BY <1>1, <1>2, <1>3, Writers

LimboType == [tx : Txs(Requests), wallet : Wallets, seq : Nat]

LEMMA AppTypes ==
  ASSUME Shape, [Next]_vars
  PROVE  /\ appReloads' \in 0 .. scenario'.maxAppReloads
         /\ grantee' \in {"absent", "installed", "expired", "removed"}
<1>1. /\ appReloads \in 0 .. scenario.maxAppReloads /\ scenario' = scenario
      /\ grantee \in {"absent", "installed", "expired", "removed"}
      /\ scenario.maxAppReloads \in Nat
  BY ScenarioTypes, ScenarioStays DEF Shape, TypeOK
<1>2. CASE AppReloads
  BY <1>1, <1>2 DEF AppReloads
<1>3. CASE SetGrantee
  BY <1>1, <1>3 DEF SetGrantee
<1> QED
  BY <1>1, <1>2, <1>3, Writers

LEMMA TxTypes ==
  ASSUME Shape, NEW r \in Requests
  PROVE  Tx(r) \in Txs(Requests)
<1>1. job[r].reattempts \in Nat
  BY DEF Shape, TypeOK
<1> QED
  BY <1>1 DEF Tx, Txs

LEMMA AdmitTypes ==
  ASSUME pool \in [Wallets -> Seq(Txs(Requests))],
         NEW w \in Wallets, NEW tx \in Txs(Requests), Admit(w, tx)
  PROVE  pool' \in [Wallets -> Seq(Txs(Requests))]
<1>1. Append(pool[w], tx) \in Seq(Txs(Requests))
  OBVIOUS
<1> QED
  BY <1>1 DEF Admit

\* How a step of the node changes a pool and what is in blocks.
LEMMA ChainSteps ==
  ASSUME Shape, NEW w \in Wallets,
         \/ BlockIncludes(w) \/ ForeignAdmitted(w) \/ ForeignIncluded(w)
         \/ ForeignDisplaces(w) \/ Evicted(w)
  PROVE  /\ chainSeq' \in {chainSeq, [chainSeq EXCEPT ![w] = chainSeq[w] + 1]}
         /\ \/ UNCHANGED pool
            \/ pool' = [pool EXCEPT ![w] = Append(pool[w], ForeignTx)]
            \/ pool[w] # <<>> /\ pool' = [pool EXCEPT ![w] = Tail(pool[w])]
            \/ \E n \in 0 .. Len(pool[w]) - 1 :
                 pool' = [pool EXCEPT ![w] = SubSeq(pool[w], 1, n)]
         /\ \/ UNCHANGED results
            \/ /\ pool[w] # <<>> /\ pool' = [pool EXCEPT ![w] = Tail(pool[w])]
               /\ \E res \in {"ok", "failed", "mismatch"} :
                    /\ results' = results \cup {ResultOf(Head(pool[w]), res)}
                    /\ res = "mismatch" => ForeignIncluded(w)
         /\ disturbed' = disturbed \/
              (disturbed < scenario.maxDisturbed /\ disturbed' = disturbed + 1)
<1> USE DEF Advance, DropHead, Admit, Disturb
<1>1. CASE BlockIncludes(w)
  BY <1>1 DEF BlockIncludes
<1>2. CASE ForeignAdmitted(w)
  BY <1>2 DEF ForeignAdmitted
<1>3. CASE ForeignIncluded(w)
  BY <1>3 DEF ForeignIncluded
<1>4. CASE ForeignDisplaces(w)
  BY <1>4 DEF ForeignDisplaces
<1>5. CASE Evicted(w)
  BY <1>5 DEF Evicted
<1> QED
  BY <1>1, <1>2, <1>3, <1>4, <1>5

LEMMA ChainTypes ==
  ASSUME Shape, [Next]_vars
  PROVE  ChainTypeOK(Requests)' /\ limbo' \subseteq LimboType
<1>1. /\ chainSeq \in [Wallets -> Nat]
      /\ pool \in [Wallets -> Seq(Txs(Requests))]
      /\ results \subseteq [tx : Txs(Requests), res : {"ok", "failed", "mismatch"}]
      /\ disturbed \in 0 .. scenario.maxDisturbed
      /\ limbo \subseteq LimboType /\ scenario' = scenario
      /\ scenario.maxDisturbed \in Nat
  BY ScenarioTypes, ScenarioStays DEF Shape, TypeOK, ChainTypeOK, LimboType
<1>2. CASE NodeAdmits
  <2>1. disp.req \in Requests /\ job[disp.req].by \in Wallets
    BY <1>2 DEF NodeAdmits, Shape, DispShape, IsSigned, Idle
  <2>2. pool' \in [Wallets -> Seq(Txs(Requests))]
    BY <1>1, <1>2, <2>1, TxTypes, AdmitTypes DEF NodeAdmits
  <2> QED
    BY <1>1, <1>2, <2>2 DEF NodeAdmits, ChainTypeOK
<1>3. CASE NodeRefuses
  BY <1>1, <1>3 DEF NodeRefuses, Disturb, ChainTypeOK
<1>4. CASE AsyncSent
  <2>1. /\ disp.req \in Requests /\ job[disp.req].by \in Wallets
        /\ job[disp.req].seq \in Nat
    BY <1>4 DEF AsyncSent, Shape, DispShape, IsSigned, Idle
  <2>2. [tx |-> Tx(disp.req), wallet |-> job[disp.req].by, seq |-> job[disp.req].seq]
          \in LimboType
    BY <2>1, TxTypes DEF LimboType
  <2>3. limbo' \subseteq LimboType
    BY <1>1, <1>4, <2>2 DEF AsyncSent
  <2> QED
    BY <1>1, <1>4, <2>3 DEF AsyncSent, ChainTypeOK, chainVars
<1>5. ASSUME NEW x \in limbo, AsyncChecked(x)
      PROVE  ChainTypeOK(Requests)' /\ limbo' \subseteq LimboType
  <2>1. x.wallet \in Wallets /\ x.tx \in Txs(Requests)
    BY <1>1 DEF LimboType
  <2>2. pool' \in [Wallets -> Seq(Txs(Requests))]
    BY <1>1, <1>5, <2>1, AdmitTypes DEF AsyncChecked
  <2> QED
    BY <1>1, <1>5, <2>2 DEF AsyncChecked, ChainTypeOK
<1>6. CASE ChainNext /\ UNCHANGED <<disp, limbo, Rest>>
  <2>1. PICK w \in Wallets : \/ BlockIncludes(w) \/ ForeignAdmitted(w)
                             \/ ForeignIncluded(w) \/ ForeignDisplaces(w) \/ Evicted(w)
    BY <1>6 DEF ChainNext
  <2>2. pool[w] \in Seq(Txs(Requests)) /\ ForeignTx \in Txs(Requests)
    BY <1>1 DEF ForeignTx, Txs
  <2>3. chainSeq' \in [Wallets -> Nat]
    <3>1. chainSeq[w] + 1 \in Nat
      BY <1>1
    <3> QED
      BY <1>1, <2>1, <3>1, ChainSteps
  <2>4. Append(pool[w], ForeignTx) \in Seq(Txs(Requests))
    BY <2>2
  <2>5. pool[w] # <<>> => Tail(pool[w]) \in Seq(Txs(Requests))
                          /\ Head(pool[w]) \in Txs(Requests)
    BY <2>2
  <2>6. \A n \in 0 .. Len(pool[w]) - 1 : SubSeq(pool[w], 1, n) \in Seq(Txs(Requests))
    BY <2>2
  <2>7. pool' \in [Wallets -> Seq(Txs(Requests))]
    <3>1. CASE \E n \in 0 .. Len(pool[w]) - 1 :
                 pool' = [pool EXCEPT ![w] = SubSeq(pool[w], 1, n)]
      BY <1>1, <2>6, <3>1
    <3>2. CASE \/ UNCHANGED pool
               \/ pool' = [pool EXCEPT ![w] = Append(pool[w], ForeignTx)]
               \/ pool[w] # <<>> /\ pool' = [pool EXCEPT ![w] = Tail(pool[w])]
      BY <1>1, <2>4, <2>5, <3>2
    <3> QED
      BY <2>1, <3>1, <3>2, ChainSteps
  <2>8. results' \subseteq [tx : Txs(Requests), res : {"ok", "failed", "mismatch"}]
    BY <1>1, <2>1, <2>5, ChainSteps DEF ResultOf
  <2>9. disturbed' \in 0 .. scenario'.maxDisturbed
    BY <1>1, <2>1, ChainSteps
  <2> QED
    BY <1>1, <1>6, <2>3, <2>7, <2>8, <2>9 DEF ChainTypeOK
<1>7. CASE UNCHANGED <<chainSeq, pool, results, disturbed, limbo>>
  BY <1>1, <1>7 DEF ChainTypeOK
<1>8. \/ NodeAdmits \/ NodeRefuses \/ AsyncSent
      \/ \E x \in limbo : AsyncChecked(x)
      \/ ChainNext /\ UNCHANGED <<disp, limbo, Rest>>
      \/ UNCHANGED <<chainSeq, pool, results, disturbed, limbo>>
  BY Writers DEF NodeStep
<1> QED
  BY <1>2, <1>3, <1>4, <1>5, <1>6, <1>7, <1>8

LEMMA ShapeInit == Init => Shape
<1> SUFFICES ASSUME Init PROVE Shape
  OBVIOUS
<1>1. scenario \in Scenarios /\ scenario \in ScenarioType /\ \A r \in Requests :
        scenario.signer[r] \in Wallets \cup {None}
  BY ScenarioTypes DEF Init, ChainInit
<1>2. ChainTypeOK(Requests)
  BY <1>1, ScenarioTypes DEF Init, ChainInit, ChainTypeOK
<1>3. job \in [Requests -> Jobs]
  BY <1>1 DEF Init, Jobs
<1>4. {sign, disp} \subseteq StageType
  BY DEF Init, Idle, StageType, Steps
<1>5. /\ account \in [Wallets -> Nat \cup {None}] /\ merged \in [Wallets -> BOOLEAN]
      /\ reload \in [Actors -> ReloadType] /\ ReloadShape
  BY DEF Init, NoReload, ReloadType, ReloadShape
<1>6. appReloads \in 0 .. scenario.maxAppReloads
  BY <1>1, ScenarioTypes DEF Init
<1>7. TypeOK
  BY <1>2, <1>3, <1>4, <1>5, <1>6 DEF Init, TypeOK, Jobs, StageType, ReloadType
<1> QED
  BY <1>1, <1>5, <1>7 DEF Init, Shape, SignShape, DispShape, DispQShape

LEMMA ShapeStep == Shape /\ [Next]_vars => Shape'
<1> SUFFICES ASSUME Shape, [Next]_vars PROVE Shape'
  OBVIOUS
<1>1. scenario' \in Scenarios
  BY ScenarioStays DEF Shape
<1>2. TypeOK'
  BY PromiseTypes, JobTypes, QueueTypes, CacheTypes, ReloadTypes, SignTypes,
     DispTypes, AppTypes, ChainTypes
  DEF TypeOK, Promises, Jobs, ReloadType, StageType, LimboType
<1> QED
  BY <1>1, <1>2, ReloadTypes, SignTypes, DispTypes, DispQTypes DEF Shape

\* TypeOK: the queues hold requests, a wallet's cached sequence is a number
\* once it has been loaded, and no step of signTx(), dispatchTx() or
\* reloadAccount() finds the value it goes by missing.
THEOREM TypeCorrect == Spec => []TypeOK
<1>1. Shape => TypeOK
  BY DEF Shape
<1> QED
  BY ShapeInit, ShapeStep, <1>1, PTL DEF Spec

-----------------------------------------------------------------------------
(* Who signs. *)

\* What the actions do to the requests in the queues.
LEMMA JobSteps ==
  ASSUME Shape, [Next]_vars
  PROVE  \/ UNCHANGED job
         \/ /\ SignBegins /\ Head(signQ) \in Requests
            /\ Recommended(Head(signQ)) \in Wallets
            /\ sign'.req = Head(signQ) /\ signQ # <<>>
            /\ job'[Head(signQ)].by = Recommended(Head(signQ))
            /\ job'[Head(signQ)].signer = job[Head(signQ)].signer
            /\ job'[Head(signQ)].bypass = job[Head(signQ)].bypass
            /\ job'[Head(signQ)].reattempts = job[Head(signQ)].reattempts
            /\ \A q \in Requests : q # Head(signQ) => job'[q] = job[q]
         \/ /\ Signed /\ sign.req \in Requests
            /\ job'[sign.req].seq = sign.seq /\ sign.seq \in Nat
            /\ \A q \in Requests :
                 /\ q # sign.req => job'[q] = job[q]
                 /\ job'[q].by = job[q].by /\ job'[q].signer = job[q].signer
                 /\ job'[q].bypass = job[q].bypass
                 /\ job'[q].reattempts = job[q].reattempts
                 /\ job'[q].msgs = job[q].msgs /\ job'[q].signs = job[q].signs
         \/ /\ RetryQueued /\ disp.req \in Requests
            /\ job[disp.req].reattempts = 0 /\ job'[disp.req].reattempts = 1
            /\ job'[disp.req].signer = None
            /\ \A q \in Requests :
                 /\ q # disp.req => job'[q] = job[q]
                 /\ job'[q].by = job[q].by /\ job'[q].seq = job[q].seq
                 /\ job'[q].msgs = job[q].msgs /\ job'[q].signs = job[q].signs
<1>1. job \in [Requests -> Jobs]
  BY DEF Shape, TypeOK, Jobs
<1>2. ASSUME SignBegins, ~UNCHANGED job
      PROVE  /\ SignBegins /\ Head(signQ) \in Requests
             /\ Recommended(Head(signQ)) \in Wallets
             /\ sign'.req = Head(signQ) /\ signQ # <<>>
             /\ job'[Head(signQ)].by = Recommended(Head(signQ))
             /\ job'[Head(signQ)].signer = job[Head(signQ)].signer
             /\ job'[Head(signQ)].bypass = job[Head(signQ)].bypass
             /\ job'[Head(signQ)].reattempts = job[Head(signQ)].reattempts
             /\ \A q \in Requests : q # Head(signQ) => job'[q] = job[q]
  <2> DEFINE r == Head(signQ)
             w == Recommended(r)
             m == IF w = Grantee THEN "exec" ELSE job[r].msgs
  <2>1. r \in Requests /\ w \in Wallets /\ sign'.req = r /\ signQ # <<>>
        /\ job' = [job EXCEPT ![r] = [job[r] EXCEPT !.by = w, !.signs = job[r].msgs,
                                                    !.msgs = m]]
    <3>1. /\ r \in Requests /\ w \in Wallets /\ signQ # <<>>
          /\ sign' = [req |-> r, step |-> "prepare", seq |-> None]
          /\ job' = [job EXCEPT ![r].by = w, ![r].signs = job[r].msgs,
                       ![r].msgs = IF w = Grantee THEN "exec" ELSE @]
      BY <1>2, SignBeginsOn
    <3> QED
      BY <3>1, <1>1
  <2>2. job[r] \in Jobs
    BY <2>1, <1>1
  <2> HIDE DEF r, w, m
  <2>3. /\ job'[r].by = w /\ job'[r].signer = job[r].signer
        /\ job'[r].reattempts = job[r].reattempts
        /\ \A q \in Requests : q # r => job'[q] = job[q]
    BY <2>1, <2>2, <1>1 DEF Jobs
  <2>4. job'[r].bypass = job[r].bypass
    BY <2>1, <2>2, <1>1, Zenon DEF Jobs
  <2> QED
    BY <1>2, <2>1, <2>3, <2>4 DEF r, w
<1>3. ASSUME Signed
      PROVE  /\ Signed /\ sign.req \in Requests
             /\ job'[sign.req].seq = sign.seq /\ sign.seq \in Nat
             /\ \A q \in Requests :
                 /\ q # sign.req => job'[q] = job[q]
                 /\ job'[q].by = job[q].by /\ job'[q].signer = job[q].signer
                 /\ job'[q].bypass = job[q].bypass
                 /\ job'[q].reattempts = job[q].reattempts
                 /\ job'[q].msgs = job[q].msgs /\ job'[q].signs = job[q].signs
  <2>1. /\ sign.req \in Requests /\ sign.seq \in Nat
        /\ job' = [job EXCEPT ![sign.req].seq = sign.seq]
    BY <1>3 DEF Signed, Shape, SignShape, Idle
  <2> QED
    BY <1>1, <1>3, <2>1 DEF Jobs
<1>4. ASSUME RetryQueued
      PROVE  /\ RetryQueued /\ disp.req \in Requests
             /\ job[disp.req].reattempts = 0 /\ job'[disp.req].reattempts = 1
             /\ job'[disp.req].signer = None
             /\ \A q \in Requests :
                 /\ q # disp.req => job'[q] = job[q]
                 /\ job'[q].by = job[q].by /\ job'[q].seq = job[q].seq
                 /\ job'[q].msgs = job[q].msgs /\ job'[q].signs = job[q].signs
  <2>1. disp.req \in Requests /\ job[disp.req].reattempts = 0
    BY <1>4 DEF RetryQueued, Shape, DispShape, Idle
  <2>2. job' = [job EXCEPT ![disp.req].reattempts = @ + 1,
                  ![disp.req].signer = None, ![disp.req].bypass = FALSE]
    BY <1>4 DEF RetryQueued
  <2> QED
    BY <1>1, <1>4, <2>1, <2>2 DEF Jobs
<1> QED
  BY <1>2, <1>3, <1>4, Writers

\* recommendSigningWallet() names the grantee on the conditions of the
\* property, and only when it is there.
LEMMA GranteeRecommended ==
  ASSUME Shape, OptionsKept, NEW r \in Requests, Recommended(r) = Grantee
  PROVE  /\ \/ scenario.signer[r] = Grantee
            \/ /\ r \in scenario.authorised
               /\ job[r].reattempts = 0 => r \notin scenario.bypass
         /\ Grantee \in Registered
<1>1. Main # Grantee /\ None # Grantee
  OBVIOUS
<1>2. CASE job[r].signer # None
  <2>1. job[r].signer = Grantee /\ Grantee \in Registered
    BY <1>1, <1>2 DEF Recommended
  <2>2. job[r].signer = scenario.signer[r]
    BY <1>2 DEF OptionsKept
  <2> QED
    BY <2>1, <2>2
<1>3. CASE job[r].signer = None /\ (job[r].bypass \/ Grantee \notin Registered)
  BY <1>1, <1>3 DEF Recommended
<1>4. CASE job[r].signer = None /\ ~(job[r].bypass \/ Grantee \notin Registered)
  <2>1. Recommended(r) = CASE scenario.grantee = "plain" -> None
                           [] GranteeAuthorised(r) -> Grantee
                           [] OTHER -> Main
    BY <1>4 DEF Recommended
  <2>2. GranteeAuthorised(r)
    BY <2>1, <1>1, Zenon
  <2>3. job[r].reattempts = 0 => r \notin scenario.bypass
    BY <1>4, Zenon DEF OptionsKept
  <2> QED
    BY <1>4, <2>2, <2>3 DEF GranteeAuthorised
<1> QED
  BY <1>2, <1>3, <1>4

LEMMA OptionsStep ==
  ASSUME Shape, OptionsKept, [Next]_vars
  PROVE  OptionsKept'
<1> SUFFICES ASSUME NEW r \in Requests
             PROVE  /\ job'[r].reattempts = 0 => /\ job'[r].signer = scenario.signer[r]
                                                 /\ job'[r].bypass = (r \in scenario.bypass)
                    /\ job'[r].reattempts # 0 => job'[r].signer = None
  BY ScenarioStays, Zenon DEF OptionsKept
<1>1. \/ /\ job'[r].signer = job[r].signer /\ job'[r].bypass = job[r].bypass
         /\ job'[r].reattempts = job[r].reattempts
      \/ job'[r].reattempts = 1 /\ job'[r].signer = None
  <2>1. CASE UNCHANGED job
    BY <2>1
  <2>2. CASE RetryQueued \/ SignBegins \/ Signed
    BY <2>2, JobSteps
  <2> QED
    BY <2>1, <2>2, JobSteps
<1>2. CASE /\ job'[r].signer = job[r].signer /\ job'[r].bypass = job[r].bypass
           /\ job'[r].reattempts = job[r].reattempts
  <2>1. job[r].reattempts = 0 => /\ job[r].signer = scenario.signer[r]
                                 /\ job[r].bypass = (r \in scenario.bypass)
    BY Zenon DEF OptionsKept
  <2>2. job[r].reattempts # 0 => job[r].signer = None
    BY DEF OptionsKept
  <2> QED
    BY <1>2, <2>1, <2>2, Zenon
<1>3. CASE job'[r].reattempts = 1 /\ job'[r].signer = None
  BY <1>3
<1> QED
  BY <1>1, <1>2, <1>3

LEMMA AllowedStep ==
  ASSUME Shape, OptionsKept, GranteeOnlyIfAllowed, [Next]_vars
  PROVE  GranteeOnlyIfAllowed'
<1> SUFFICES ASSUME NEW r \in Requests, job'[r].by = Grantee
             PROVE  \/ scenario.signer[r] = Grantee
                    \/ /\ r \in scenario.authorised
                       /\ job'[r].reattempts = 0 => r \notin scenario.bypass
  BY ScenarioStays DEF GranteeOnlyIfAllowed
<1>1. CASE job[r].by = Grantee /\ job'[r].reattempts = job[r].reattempts
  BY <1>1 DEF GranteeOnlyIfAllowed
<1>2. CASE job[r].by = Grantee /\ job'[r].reattempts = 1
  BY <1>2 DEF GranteeOnlyIfAllowed
<1>3. CASE Recommended(r) = Grantee /\ job'[r].reattempts = job[r].reattempts
  BY <1>3, GranteeRecommended
<1> QED
  BY <1>1, <1>2, <1>3, JobSteps

\* The grantee's wallet signs for a request that does not name it only if
\* isAuthorised() says so of its messages and, the first time, the caller did
\* not set bypassGrantee: recommendSigningWallet().
THEOREM GranteeOnlyWhenAllowed == Spec => []GranteeOnlyIfAllowed
<1>1. Init => OptionsKept /\ GranteeOnlyIfAllowed
  <2> SUFFICES ASSUME Init, NEW r \in Requests
               PROVE  /\ job[r].reattempts = 0 /\ job[r].signer = scenario.signer[r]
                      /\ job[r].bypass = (r \in scenario.bypass) /\ job[r].by = None
    BY None \notin Wallets, Grantee \in Wallets, Zenon DEF OptionsKept, GranteeOnlyIfAllowed
  <2>1. job[r] = [signer |-> scenario.signer[r], bypass |-> r \in scenario.bypass,
                  msgs |-> "raw", signs |-> "raw", reattempts |-> 0,
                  by |-> None, seq |-> None]
    BY Zenon DEF Init
  <2>2. job[r].reattempts = 0 /\ job[r].signer = scenario.signer[r] /\ job[r].by = None
    BY <2>1
  <2>3. job[r].bypass = (r \in scenario.bypass)
    BY <2>1
  <2> QED
    BY <2>2, <2>3
<1>2. Shape /\ OptionsKept /\ GranteeOnlyIfAllowed /\ [Next]_vars
        => (OptionsKept /\ GranteeOnlyIfAllowed)'
  BY OptionsStep, AllowedStep
<1> QED
  BY <1>1, <1>2, ShapeInit, ShapeStep, PTL DEF Spec

-----------------------------------------------------------------------------
(* Where requests are. *)

LEMMA QueuedAppend ==
  ASSUME NEW q \in Seq(Requests), NEW r \in Requests
  PROVE  /\ \A x : Queued(Append(q, r), x) <=> Queued(q, x) \/ x = r
         /\ EachOnce(q) /\ ~Queued(q, r) => EachOnce(Append(q, r))
<1>1. /\ DOMAIN q = 1 .. Len(q) /\ Len(q) \in Nat
      /\ DOMAIN Append(q, r) = 1 .. Len(q) + 1
      /\ \A i \in 1 .. Len(q) : Append(q, r)[i] = q[i]
      /\ Append(q, r)[Len(q) + 1] = r
  BY AppendProperties, LenProperties
<1>2. \A x : Queued(Append(q, r), x) <=> Queued(q, x) \/ x = r
  BY <1>1 DEF Queued
<1>3. EachOnce(q) /\ ~Queued(q, r) => EachOnce(Append(q, r))
  BY <1>1 DEF Queued, EachOnce
<1> QED
  BY <1>2, <1>3

LEMMA QueuedTail ==
  ASSUME NEW q \in Seq(Requests), q # <<>>
  PROVE  /\ Head(q) \in Requests /\ Tail(q) \in Seq(Requests)
         /\ \A x : Queued(q, x) <=> Queued(Tail(q), x) \/ x = Head(q)
         /\ EachOnce(q) => EachOnce(Tail(q)) /\ ~Queued(Tail(q), Head(q))
<1>1. /\ Head(q) = q[1] /\ Head(q) \in Requests /\ Tail(q) \in Seq(Requests)
      /\ DOMAIN q = 1 .. Len(q) /\ Len(q) \in Nat /\ Len(q) >= 1
      /\ DOMAIN Tail(q) = 1 .. Len(q) - 1
      /\ \A i \in 1 .. Len(q) - 1 : Tail(q)[i] = q[i + 1]
  BY LenProperties
<1>2. \A x : Queued(Tail(q), x) => Queued(q, x)
  BY <1>1 DEF Queued
<1>3. Queued(q, Head(q))
  BY <1>1 DEF Queued
<1>4. \A x : Queued(q, x) /\ x # Head(q) => Queued(Tail(q), x)
  <2> SUFFICES ASSUME NEW i \in DOMAIN q, q[i] # Head(q)
               PROVE  Queued(Tail(q), q[i])
    BY DEF Queued
  <2>1. i - 1 \in DOMAIN Tail(q) /\ Tail(q)[i - 1] = q[i]
    BY <1>1
  <2> QED
    BY <2>1 DEF Queued
<1>5. EachOnce(q) => EachOnce(Tail(q)) /\ ~Queued(Tail(q), Head(q))
  BY <1>1 DEF Queued, EachOnce
<1> QED
  BY <1>1, <1>2, <1>3, <1>4, <1>5

SigningSame == \A x \in Requests : Signing(x)' <=> Signing(x)

\* No request comes nearer to the node, or further from it.
NoneMoves == UNCHANGED <<signQ, dispQ>> /\ disp'.req = disp.req /\ SigningSame

SigningNone == \A x \in Requests : ~Signing(x)'

\* All there is to the way of a request through the queues.
LEMMA Moves ==
  ASSUME Shape, [Next]_vars
  PROVE  \/ NoneMoves
         \/ /\ \E r \in Requests : Submit(r) \/ \E m \in Merges : MergeFollowed(m)
            /\ UNCHANGED <<dispQ, disp, sign>>
         \/ SignBegins /\ UNCHANGED <<dispQ, disp>>
         \/ /\ Signed /\ UNCHANGED <<signQ, disp>> /\ SigningNone
            /\ Signing(sign.req) /\ sign.req \in Requests
            /\ dispQ' = Append(dispQ, sign.req)
         \/ SignReturns /\ UNCHANGED <<signQ, dispQ, disp>> /\ SigningNone
         \/ /\ DispatchBegins /\ UNCHANGED <<signQ, sign>>
            /\ disp = Idle /\ dispQ # <<>> /\ dispQ' = Tail(dispQ)
            /\ \/ disp'.req = Head(dispQ) \/ disp'.req = None
         \/ /\ RetryQueued /\ UNCHANGED <<dispQ, sign>>
            /\ disp.req \in Requests /\ disp'.req = None
            /\ signQ' = Append(signQ, disp.req)
         \/ /\ DispatchSucceeds \/ MergeReloaded \/ RetryAbandoned \/ DispatchFails
            /\ UNCHANGED <<signQ, dispQ, sign>> /\ disp'.req = None
            /\ disp.req \in Requests
<1>1. /\ sign \in StageType /\ disp \in StageType /\ None \notin Requests
      /\ sign.req \in Requests \/ sign = Idle
      /\ disp.req \in Requests \/ disp = Idle
  BY RequestsAreNumbers DEF Shape, TypeOK, StageType, SignShape, DispShape
<1>2. CASE \E r \in Requests : Submit(r)
  BY <1>2 DEF Submit
<1>3. CASE \E m \in Merges : MergeFollowed(m)
  BY <1>3, RequestsAreNumbers DEF MergeFollowed
<1>4. CASE SignBegins
  BY <1>4 DEF SignBegins
<1>5. CASE Signed
  BY <1>1, <1>5 DEF Signed, Enqueued, SigningNone, Signing, Idle, StageType
<1>6. CASE SignReturns
  BY <1>1, <1>6 DEF SignReturns, SigningNone, Signing, Idle
<1>7. CASE Prepared \/ Loaded \/ SigningFails
  <2>1. UNCHANGED <<signQ, dispQ, disp>>
    BY <1>7 DEF Prepared, Loaded, SigningFails
  <2>2. sign'.req = sign.req /\ sign.step # "complete" /\ sign'.step # "complete"
    BY <1>1, <1>7 DEF Prepared, Loaded, SigningFails, TakesSequence, StageType
  <2>3. SigningSame
    BY <2>2 DEF SigningSame, Signing
  <2>4. NoneMoves
    BY <2>1, <2>3 DEF NoneMoves
  <2> QED
    BY <2>4
<1>8. CASE DispatchBegins
  <2>1. /\ UNCHANGED <<signQ, sign>> /\ disp = Idle /\ dispQ # <<>>
        /\ dispQ' = Tail(dispQ)
    BY <1>8 DEF DispatchBegins
  <2>2. disp'.req = Head(dispQ) \/ disp'.req = None
    <3>1. \/ disp' = [Idle EXCEPT !.req = Head(dispQ), !.step = "broadcast"]
          \/ disp' = Idle
      BY <1>8 DEF DispatchBegins
    <3>2. CASE disp' = [Idle EXCEPT !.req = Head(dispQ), !.step = "broadcast"]
      BY <3>2, SMT DEF Idle
    <3>3. CASE disp' = Idle
      BY <3>3, Zenon DEF Idle
    <3> QED
      BY <3>1, <3>2, <3>3
  <2> QED
    BY <1>8, <2>1, <2>2
<1>9. CASE RetryQueued
  BY <1>1, <1>9 DEF RetryQueued, Enqueued, Idle
<1>10. CASE MergeReloaded \/ RetryAbandoned \/ DispatchFails
  <2>1. disp.step # "idle" /\ disp' = Idle /\ UNCHANGED <<signQ, dispQ, sign>>
    BY <1>10 DEF MergeReloaded, RetryAbandoned, DispatchFails
  <2> QED
    BY <1>1, <1>10, <2>1 DEF Idle
<1>11. CASE DispatchSucceeds
  <2>1. disp.step # "idle" /\ UNCHANGED <<signQ, dispQ, sign>>
    BY <1>11 DEF DispatchSucceeds
  <2>2. disp' = Idle \/ \E step : Goes(step)
    BY <1>11 DEF DispatchSucceeds
  <2>3. CASE disp' = Idle
    BY <1>1, <1>11, <2>1, <2>3 DEF Idle
  <2>4. CASE \E step : Goes(step)
    BY <1>1, <2>1, <2>4 DEF Goes, StageType, NoneMoves, SigningSame, Signing
  <2> QED
    BY <2>2, <2>3, <2>4
<1>12. CASE \/ NodeAdmits \/ NodeRefuses \/ AsyncSent \/ PollFinds \/ PollTimesOut
            \/ MergeReloadFails \/ RetryBegins
  <2>1. \E step : Goes(step)
    BY <1>12 DEF NodeAdmits, NodeRefuses, AsyncSent, PollFinds, PollTimesOut,
       MergeReloadFails, RetryBegins
  <2>2. UNCHANGED <<signQ, dispQ, sign>>
    BY <1>12 DEF NodeAdmits, NodeRefuses, AsyncSent, PollFinds, PollTimesOut,
       MergeReloadFails, RetryBegins, Rest
  <2> QED
    BY <1>1, <2>1, <2>2 DEF Goes, StageType, NoneMoves, SigningSame, Signing
<1>13. CASE UNCHANGED <<signQ, dispQ, sign, disp>>
  BY <1>13 DEF NoneMoves, SigningSame, Signing
<1> QED
  BY <1>2, <1>3, <1>4, <1>5, <1>6, <1>7, <1>8, <1>9, <1>10, <1>11, <1>12, <1>13, Writers
  DEF SignStep, DispatchStep

\* What the actions do to promises.
LEMMA SettledPromises ==
  ASSUME Shape, NEW r \in Requests, NEW how, Settled(r, how)
  PROVE  /\ promise[r] = "pending" => promise'[r] = how
         /\ \A q \in Requests :
              \/ promise'[q] = promise[q]
              \/ promise[r] = "pending" /\ promise'[q] = how /\ q = r
              \/ promise[r] = "pending" /\ promise'[q] = how /\ how # "resolved" /\ Waits(q, r)
         /\ promise[r] = "pending" /\ how # "resolved" =>
              \A q \in Requests : Waits(q, r) => promise'[q] = how
  BY DEF Settled, Shape, TypeOK

Final == {"resolved", "rejected", "rejectedForNonce"}

LEMMA PromiseMoves ==
  ASSUME Shape, [Next]_vars, NEW q \in Requests
  PROVE  \/ promise'[q] = promise[q]
         \/ promise[q] \in {"merging", "pending"} /\ promise'[q] \in Final
         \/ /\ Submit(q) /\ q \in Own /\ promise[q] = "none"
            /\ promise'[q] \in {"rejected", "merging", "pending"}
         \/ \E r \in Own : /\ Submit(r) /\ q = AwaitedMerge(r) /\ promise[r] = "none"
                           /\ promise'[r] = "merging" /\ promise'[q] = "pending"
         \/ \E m \in Merges : /\ MergeFollowed(m) /\ q = Caller(m) /\ Waits(q, m)
                              /\ promise'[q] = "pending"
         \/ /\ SignBegins /\ MergesAside(Head(signQ), Recommended(Head(signQ)))
            /\ q = SideMerge(Head(signQ)) /\ promise'[q] = "pending"
<1> USE DEF Final
<1>1. promise \in [Requests -> Promises]
  BY DEF Shape, TypeOK, Promises
<1>2. \A r \in Requests, how \in Final : Settled(r, how) =>
        \/ promise'[q] = promise[q]
        \/ promise[q] \in {"merging", "pending"} /\ promise'[q] \in Final
  BY SettledPromises DEF Waits
<1>3. ASSUME NEW r \in Requests, Submit(r)
      PROVE  \/ promise'[q] = promise[q]
             \/ /\ Submit(q) /\ q \in Own /\ promise[q] = "none"
                /\ promise'[q] \in {"rejected", "merging", "pending"}
             \/ \E s \in Own : /\ Submit(s) /\ q = AwaitedMerge(s) /\ promise[s] = "none"
                               /\ promise'[s] = "merging" /\ promise'[q] = "pending"
  <2>0. r \in Own /\ promise[r] = "none"
    <3>1. r \in Own
      BY <1>3, SubmitIsOwn
    <3>2. promise[r] = "none"
      BY <1>3 DEF Submit
    <3> QED
      BY <3>1, <3>2
  <2>1. AwaitedMerge(r) \in Requests /\ AwaitedMerge(r) # r
    BY <2>0, MergesOfCallers, RequestsAreNumbers
  <2>2. \/ promise' = [promise EXCEPT ![r] = "rejected"]
        \/ promise' = [promise EXCEPT ![r] = "merging", ![AwaitedMerge(r)] = "pending"]
        \/ promise' = [promise EXCEPT ![r] = "pending"]
    BY <1>3 DEF Submit
  <2> QED
    BY <1>1, <1>3, <2>0, <2>1, <2>2
<1>4. ASSUME NEW m \in Merges, MergeStep(m)
      PROVE  \/ promise'[q] = promise[q]
             \/ promise[q] \in {"merging", "pending"} /\ promise'[q] \in Final
             \/ /\ MergeFollowed(m) /\ q = Caller(m) /\ Waits(q, m)
                /\ promise'[q] = "pending"
  BY <1>1, <1>4 DEF MergeStep, MergeFollowed, MergeFollowFails, Waits
<1>5. ASSUME SignBegins
      PROVE  \/ promise'[q] = promise[q]
             \/ promise[q] \in {"merging", "pending"} /\ promise'[q] \in Final
             \/ /\ SignBegins /\ MergesAside(Head(signQ), Recommended(Head(signQ)))
                /\ q = SideMerge(Head(signQ)) /\ promise'[q] = "pending"
  <2>1. CASE Settled(Head(signQ), "rejected")
    BY <1>2, <1>5, <2>1, SignBeginsOn
  <2>2. CASE UNCHANGED promise
    BY <2>2
  <2>3. CASE /\ MergesAside(Head(signQ), Recommended(Head(signQ)))
             /\ promise' = [promise EXCEPT ![SideMerge(Head(signQ))] = "pending"]
    BY <1>1, <1>5, <2>3
  <2> QED
    BY <1>5, <2>1, <2>2, <2>3, SignBeginsOn
<1>6. ASSUME SignReturns \/ DispatchSucceeds \/ MergeReloaded \/ DispatchFails
      PROVE  \/ promise'[q] = promise[q]
             \/ promise[q] \in {"merging", "pending"} /\ promise'[q] \in Final
  <2>1. CASE SignReturns
    <3>1. UNCHANGED promise \/ (sign.req \in Requests /\ Settled(sign.req, "rejected"))
      BY <2>1 DEF SignReturns, Shape, SignShape, Idle
    <3> QED
      BY <3>1, <1>2
  <2>2. CASE DispatchSucceeds \/ MergeReloaded \/ DispatchFails
    <3>1. disp.step # "idle"
      BY <2>2 DEF DispatchSucceeds, MergeReloaded, DispatchFails
    <3>2. disp.req \in Requests
      BY <3>1 DEF Shape, DispShape, Idle
    <3>3. UNCHANGED promise \/ \E how \in Final : Settled(disp.req, how)
      BY <2>2 DEF DispatchSucceeds, MergeReloaded, DispatchFails
    <3> QED
      BY <3>2, <3>3, <1>2
  <2> QED
    BY <1>6, <2>1, <2>2
<1> QED
  BY <1>3, <1>4, <1>5, <1>6, Writers

\* Nobody goes back to where no promise, or a merge, is waited for.
LEMMA NotYetBefore ==
  ASSUME Shape, [Next]_vars, NEW q \in Requests
  PROVE  /\ promise'[q] = "none" => promise[q] = "none"
         /\ NotYet(q)' => NotYet(q)
  BY PromiseMoves DEF NotYet, Final

\* What comes into txSignManager from outside had not been there.
LEMMA Entries ==
  ASSUME Shape, MergesUnasked, [Next]_vars,
         \E r \in Requests : Submit(r) \/ \E m \in Merges : MergeFollowed(m)
  PROVE  \/ UNCHANGED signQ
         \/ \E r \in Requests : /\ signQ' = Append(signQ, r)
                                /\ NotYet(r) /\ promise'[r] = "pending"
<1>1. promise \in [Requests -> Promises]
  BY DEF Shape, TypeOK, Promises
<1>2. CASE \E r \in Requests : Submit(r)
  <2>1. PICK r \in Own : Submit(r)
    BY <1>2, SubmitIsOwn
  <2>2. /\ r \in Requests /\ AwaitedMerge(r) \in Requests
        /\ NotYet(r) /\ NotYet(AwaitedMerge(r))
    BY <2>1, RequestsAreNumbers, MergesOfCallers DEF Submit, MergesUnasked, NotYet
  <2>3. \/ UNCHANGED signQ
        \/ /\ promise' = [promise EXCEPT ![r] = "merging", ![AwaitedMerge(r)] = "pending"]
           /\ signQ' = Append(signQ, AwaitedMerge(r))
        \/ promise' = [promise EXCEPT ![r] = "pending"] /\ signQ' = Append(signQ, r)
    BY <2>1 DEF Submit, Enqueued
  <2> QED
    BY <1>1, <2>2, <2>3
<1>3. ASSUME NEW m \in Merges, MergeFollowed(m)
      PROVE  \/ UNCHANGED signQ
             \/ \E r \in Requests : /\ signQ' = Append(signQ, r)
                                    /\ NotYet(r) /\ promise'[r] = "pending"
  <2>1. Caller(m) \in Requests
    BY MergesOfCallers, RequestsAreNumbers
  <2>2. \/ UNCHANGED signQ
        \/ /\ Waits(Caller(m), m) /\ signQ' = Append(signQ, Caller(m))
           /\ promise' = [promise EXCEPT ![Caller(m)] = "pending"]
    BY <1>3 DEF MergeFollowed, Enqueued
  <2> QED
    BY <1>1, <2>1, <2>2 DEF NotYet, Waits
<1>4. CASE \E r \in Requests : \E m \in Merges : MergeFollowed(m)
  BY <1>3, <1>4
<1> QED
  BY <1>2, <1>4

Places == OnePlace /\ NotYetPlaced /\ MergesUnasked /\ OnlyOwnMerge

\* What signTx() takes from its queue, and what it may put there.
LEMMA SignBeginsMoves ==
  ASSUME Shape, Places, SignBegins
  PROVE  /\ Head(signQ) \in Requests /\ Queued(signQ, Head(signQ))
         /\ \A x \in Requests : ~Signing(x)
         /\ \A x \in Requests : Signing(x)' => x = Head(signQ)
         /\ \/ /\ \A x : Queued(signQ', x) <=> Queued(Tail(signQ), x)
               /\ EachOnce(signQ) => EachOnce(signQ')
            \/ \E m \in Requests :
                 /\ m = SideMerge(Head(signQ)) /\ Head(signQ) \in Own /\ m \in Merges
                 /\ promise[m] = "none" /\ promise'[m] = "pending" /\ m # Head(signQ)
                 /\ ~Placed(m)
                 /\ \A x : Queued(signQ', x) <=> Queued(Tail(signQ), x) \/ x = m
                 /\ EachOnce(signQ) => EachOnce(signQ')
<1> DEFINE h == Head(signQ)
<1>1. /\ signQ \in Seq(Requests) /\ signQ # <<>> /\ h \in Requests
      /\ Tail(signQ) \in Seq(Requests) /\ sign = Idle
  BY SignBeginsOn DEF Shape, TypeOK
<1>2. Queued(signQ, h)
  BY <1>1, QueuedTail
<1>3. \A x \in Requests : ~Signing(x)
  BY <1>1, RequestsAreNumbers DEF Signing, Idle
<1>4. \A x \in Requests : Signing(x)' => x = h
  <2>1. CASE sign' = [req |-> h, step |-> "prepare", seq |-> None]
    BY <2>1 DEF Signing
  <2>2. CASE UNCHANGED sign
    BY <1>3, <2>2 DEF Signing
  <2> QED
    BY <2>1, <2>2, SignBeginsOn
<1>5. EachOnce(signQ) => EachOnce(Tail(signQ))
  BY <1>1, QueuedTail
<1>6. CASE signQ' = Tail(signQ)
  BY <1>1, <1>2, <1>3, <1>4, <1>5, <1>6
<1>7. CASE /\ MergesAside(h, Recommended(h))
           /\ signQ' = Append(Tail(signQ), SideMerge(h))
           /\ promise' = [promise EXCEPT ![SideMerge(h)] = "pending"]
  <2> DEFINE m == SideMerge(h)
  <2>1. h \in Own /\ job[h].reattempts = 0
    BY <1>7 DEF MergesAside
  <2>2. m \in Merges /\ m \in Requests /\ m # h
    BY <2>1, MergesOfCallers, RequestsAreNumbers
  <2>3. promise[m] = "none"
    BY <1>2, <2>1 DEF Places, MergesUnasked
  <2>4. ~Placed(m)
    BY <2>2, <2>3 DEF Places, NotYetPlaced, NotYet
  <2>5. promise'[m] = "pending"
    BY <1>7, <2>2 DEF Shape, TypeOK
  <2>6. ~Queued(Tail(signQ), m)
    BY <2>4, <1>1, QueuedTail DEF Placed
  <2>7. /\ \A x : Queued(signQ', x) <=> Queued(Tail(signQ), x) \/ x = m
        /\ EachOnce(Tail(signQ)) => EachOnce(signQ')
    BY <1>1, <1>7, <2>2, <2>6, QueuedAppend
  <2> HIDE DEF m
  <2>8. m = SideMerge(h)
    BY DEF m
  <2> QED
    BY <1>1, <1>2, <1>3, <1>4, <1>5, <2>1, <2>2, <2>3, <2>4, <2>5, <2>7, <2>8
<1> QED
  BY <1>6, <1>7, SignBeginsOn

LEMMA OnePlaceStep ==
  ASSUME Shape, Places, [Next]_vars
  PROVE  OnePlace'
<1> USE DEF OnePlace, Placed
<1>0. /\ signQ \in Seq(Requests) /\ dispQ \in Seq(Requests) /\ None \notin Requests
      /\ OnePlace
  BY RequestsAreNumbers DEF Shape, TypeOK, Places
<1>1. CASE NoneMoves
  BY <1>0, <1>1 DEF NoneMoves, SigningSame
<1>2. CASE /\ \E r \in Requests : Submit(r) \/ \E m \in Merges : MergeFollowed(m)
           /\ UNCHANGED <<dispQ, disp, sign>>
  <2>1. \A x \in Requests : Signing(x)' <=> Signing(x)
    BY <1>2 DEF Signing
  <2>2. CASE UNCHANGED signQ
    BY <1>0, <1>2, <2>1, <2>2
  <2>3. ASSUME NEW r \in Requests, signQ' = Append(signQ, r), NotYet(r)
        PROVE  OnePlace'
    <3>1. ~Placed(r)
      BY <2>3 DEF Places, NotYetPlaced
    <3>2. /\ \A x : Queued(signQ', x) <=> Queued(signQ, x) \/ x = r
          /\ EachOnce(signQ')
      BY <1>0, <2>3, <3>1, QueuedAppend
    <3> QED
      BY <1>0, <1>2, <2>1, <3>1, <3>2
  <2> QED
    BY <1>2, <2>2, <2>3, Entries DEF Places
<1>3. CASE SignBegins /\ UNCHANGED <<dispQ, disp>>
  <2>1. /\ \A x : Queued(signQ, x) <=> Queued(Tail(signQ), x) \/ x = Head(signQ)
        /\ ~Queued(Tail(signQ), Head(signQ))
    BY <1>0, <1>3, SignBeginsOn, QueuedTail
  <2>2. Head(signQ) \in Requests /\ EachOnce(signQ')
        /\ \A x \in Requests : Signing(x)' => x = Head(signQ)
    BY <1>0, <1>3, SignBeginsMoves
  <2>3. CASE \A x : Queued(signQ', x) <=> Queued(Tail(signQ), x)
    BY <1>0, <1>3, <2>1, <2>2, <2>3
  <2>4. ASSUME NEW m \in Requests, ~Placed(m), m # Head(signQ),
               \A x : Queued(signQ', x) <=> Queued(Tail(signQ), x) \/ x = m
        PROVE  OnePlace'
    BY <1>0, <1>3, <2>1, <2>2, <2>4
  <2> QED
    BY <1>3, <2>3, <2>4, SignBeginsMoves
<1>4. CASE /\ Signed /\ UNCHANGED <<signQ, disp>> /\ SigningNone
           /\ Signing(sign.req) /\ sign.req \in Requests
           /\ dispQ' = Append(dispQ, sign.req)
  <2>1. ~Queued(dispQ, sign.req) /\ ~Queued(signQ, sign.req) /\ disp.req # sign.req
    BY <1>0, <1>4
  <2>2. /\ \A x : Queued(dispQ', x) <=> Queued(dispQ, x) \/ x = sign.req
        /\ EachOnce(dispQ')
    BY <1>0, <1>4, <2>1, QueuedAppend
  <2>3. \A x \in Requests : ~Signing(x)'
    BY <1>4 DEF SigningNone
  <2> QED
    BY <1>0, <1>4, <2>1, <2>2, <2>3
<1>5. CASE SignReturns /\ UNCHANGED <<signQ, dispQ, disp>> /\ SigningNone
  BY <1>0, <1>5 DEF SigningNone
<1>6. CASE /\ DispatchBegins /\ UNCHANGED <<signQ, sign>>
           /\ disp = Idle /\ dispQ # <<>> /\ dispQ' = Tail(dispQ)
           /\ \/ disp'.req = Head(dispQ) \/ disp'.req = None
  <2>1. /\ \A x : Queued(dispQ, x) <=> Queued(dispQ', x) \/ x = Head(dispQ)
        /\ ~Queued(dispQ', Head(dispQ)) /\ EachOnce(dispQ')
        /\ Head(dispQ) \in Requests
    BY <1>0, <1>6, QueuedTail
  <2>2. \A x \in Requests : Signing(x)' <=> Signing(x)
    BY <1>6 DEF Signing
  <2> QED
    BY <1>0, <1>6, <2>1, <2>2
<1>7. CASE /\ RetryQueued /\ UNCHANGED <<dispQ, sign>>
           /\ disp.req \in Requests /\ disp'.req = None
           /\ signQ' = Append(signQ, disp.req)
  <2>1. ~Queued(signQ, disp.req) /\ ~Queued(dispQ, disp.req) /\ ~Signing(disp.req)
    BY <1>0, <1>7
  <2>2. /\ \A x : Queued(signQ', x) <=> Queued(signQ, x) \/ x = disp.req
        /\ EachOnce(signQ')
    BY <1>0, <1>7, <2>1, QueuedAppend
  <2>3. \A x \in Requests : Signing(x)' <=> Signing(x)
    BY <1>7 DEF Signing
  <2> QED
    BY <1>0, <1>7, <2>1, <2>2, <2>3
<1>8. CASE /\ DispatchSucceeds \/ MergeReloaded \/ RetryAbandoned \/ DispatchFails
           /\ UNCHANGED <<signQ, dispQ, sign>> /\ disp'.req = None
           /\ disp.req \in Requests
  <2>1. \A x \in Requests : Signing(x)' <=> Signing(x)
    BY <1>8 DEF Signing
  <2> QED
    BY <1>0, <1>8, <2>1
<1> QED
  BY <1>1, <1>2, <1>3, <1>4, <1>5, <1>6, <1>7, <1>8, Moves

\* A request turns up in one of the places only when it is asked for.
LEMMA PlacedStep ==
  ASSUME Shape, Places, [Next]_vars, NEW x \in Requests
  PROVE  Placed(x)' => Placed(x) \/ (NotYet(x) /\ promise'[x] = "pending")
<1> USE DEF Placed
<1>0. signQ \in Seq(Requests) /\ dispQ \in Seq(Requests) /\ None \notin Requests
  BY RequestsAreNumbers DEF Shape, TypeOK, Places
<1>1. CASE NoneMoves
  BY <1>0, <1>1 DEF NoneMoves, SigningSame
<1>2. CASE /\ \E r \in Requests : Submit(r) \/ \E m \in Merges : MergeFollowed(m)
           /\ UNCHANGED <<dispQ, disp, sign>>
  <2>1. Signing(x)' <=> Signing(x)
    BY <1>2 DEF Signing
  <2>2. CASE UNCHANGED signQ
    BY <1>0, <1>2, <2>1, <2>2
  <2>3. ASSUME NEW r \in Requests, signQ' = Append(signQ, r), NotYet(r), promise'[r] = "pending"
        PROVE  Placed(x)' => Placed(x) \/ (NotYet(x) /\ promise'[x] = "pending")
    <3>1. \A y : Queued(signQ', y) <=> Queued(signQ, y) \/ y = r
      BY <1>0, <2>3, QueuedAppend
    <3> QED
      BY <1>2, <2>1, <2>3, <3>1
  <2> QED
    BY <1>2, <2>2, <2>3, Entries DEF Places
<1>3. CASE SignBegins /\ UNCHANGED <<dispQ, disp>>
  <2>1. \A y : Queued(signQ, y) <=> Queued(Tail(signQ), y) \/ y = Head(signQ)
    BY <1>0, <1>3, SignBeginsOn, QueuedTail
  <2>2. Signing(x)' => x = Head(signQ)
    BY <1>3, SignBeginsMoves
  <2>3. CASE \A y : Queued(signQ', y) <=> Queued(Tail(signQ), y)
    BY <1>3, <2>1, <2>2, <2>3
  <2>4. ASSUME NEW m \in Requests, promise[m] = "none", promise'[m] = "pending",
               \A y : Queued(signQ', y) <=> Queued(Tail(signQ), y) \/ y = m
        PROVE  Placed(x)' => Placed(x) \/ (NotYet(x) /\ promise'[x] = "pending")
    BY <1>3, <2>1, <2>2, <2>4 DEF NotYet
  <2> QED
    BY <1>3, <2>3, <2>4, SignBeginsMoves
<1>4. CASE /\ Signed /\ UNCHANGED <<signQ, disp>> /\ SigningNone
           /\ Signing(sign.req) /\ sign.req \in Requests
           /\ dispQ' = Append(dispQ, sign.req)
  <2>1. \A y : Queued(dispQ', y) <=> Queued(dispQ, y) \/ y = sign.req
    BY <1>0, <1>4, QueuedAppend
  <2> QED
    BY <1>4, <2>1 DEF SigningNone
<1>5. CASE SignReturns /\ UNCHANGED <<signQ, dispQ, disp>> /\ SigningNone
  BY <1>5 DEF SigningNone
<1>6. CASE /\ DispatchBegins /\ UNCHANGED <<signQ, sign>>
           /\ disp = Idle /\ dispQ # <<>> /\ dispQ' = Tail(dispQ)
           /\ \/ disp'.req = Head(dispQ) \/ disp'.req = None
  <2>1. \A y : Queued(dispQ, y) <=> Queued(dispQ', y) \/ y = Head(dispQ)
    BY <1>0, <1>6, QueuedTail
  <2>2. Signing(x)' <=> Signing(x)
    BY <1>6 DEF Signing
  <2> QED
    BY <1>0, <1>6, <2>1, <2>2
<1>7. CASE /\ RetryQueued /\ UNCHANGED <<dispQ, sign>>
           /\ disp.req \in Requests /\ disp'.req = None
           /\ signQ' = Append(signQ, disp.req)
  <2>1. \A y : Queued(signQ', y) <=> Queued(signQ, y) \/ y = disp.req
    BY <1>0, <1>7, QueuedAppend
  <2>2. Signing(x)' <=> Signing(x)
    BY <1>7 DEF Signing
  <2> QED
    BY <1>0, <1>7, <2>1, <2>2
<1>8. CASE /\ DispatchSucceeds \/ MergeReloaded \/ RetryAbandoned \/ DispatchFails
           /\ UNCHANGED <<signQ, dispQ, sign>> /\ disp'.req = None
           /\ disp.req \in Requests
  <2>1. Signing(x)' <=> Signing(x)
    BY <1>8 DEF Signing
  <2> QED
    BY <1>0, <1>8, <2>1
<1> QED
  BY <1>1, <1>2, <1>3, <1>4, <1>5, <1>6, <1>7, <1>8, Moves

LEMMA NotYetPlacedStep ==
  ASSUME Shape, Places, [Next]_vars
  PROVE  NotYetPlaced'
<1> SUFFICES ASSUME NEW r \in Requests, promise'[r] \in {"none", "merging"}
             PROVE  ~Placed(r)' /\ job'[r].reattempts = 0
  BY DEF NotYetPlaced, NotYet
<1>1. NotYet(r) /\ ~Placed(r) /\ job[r].reattempts = 0
  BY NotYetBefore DEF Places, NotYetPlaced, NotYet
<1>2. ~Placed(r)'
  BY <1>1, PlacedStep
<1>3. job'[r].reattempts = 0
  <2>1. RetryQueued => disp.req # r
    BY <1>1 DEF Placed
  <2> QED
    BY <1>1, <2>1, AttemptsStay
<1> QED
  BY <1>2, <1>3

LEMMA MergesUnaskedStep ==
  ASSUME Shape, Places, [Next]_vars
  PROVE  MergesUnasked'
<1> SUFFICES ASSUME NEW r \in Own
             PROVE  /\ promise'[r] = "none" => promise'[AwaitedMerge(r)] = "none"
                    /\ \/ promise'[r] \in {"none", "merging"}
                       \/ Queued(signQ', r) /\ job'[r].reattempts = 0
                       => promise'[SideMerge(r)] = "none"
  BY DEF MergesUnasked, NotYet
<1>0. /\ signQ \in Seq(Requests) /\ r \in Requests /\ r \notin Merges
      /\ AwaitedMerge(r) \in Requests /\ SideMerge(r) \in Requests
      /\ AwaitedMerge(r) \in Merges /\ SideMerge(r) \in Merges
      /\ AwaitedMerge(r) \notin Own /\ SideMerge(r) \notin Own
  BY RequestsAreNumbers, MergesOfCallers DEF Shape, TypeOK
<1>1. ASSUME promise'[r] = "none"
      PROVE  promise'[AwaitedMerge(r)] = "none"
  <2>1. promise[r] = "none" /\ promise[AwaitedMerge(r)] = "none"
    BY <1>0, <1>1, NotYetBefore DEF Places, MergesUnasked
  <2>2. \A s \in Own : Submit(s) /\ AwaitedMerge(r) = AwaitedMerge(s)
                         => promise'[s] # "merging"
    BY <1>1, MergesOfCallers
  <2>3. \A m \in Merges : AwaitedMerge(r) # Caller(m)
    BY <1>0, MergesOfCallers
  <2>4. MergesAside(Head(signQ), Recommended(Head(signQ))) =>
          AwaitedMerge(r) # SideMerge(Head(signQ))
    BY MergesOfCallers DEF MergesAside
  <2> QED
    BY <1>0, <2>1, <2>2, <2>3, <2>4, PromiseMoves
<1>2. ASSUME \/ promise'[r] \in {"none", "merging"}
             \/ Queued(signQ', r) /\ job'[r].reattempts = 0
      PROVE  promise'[SideMerge(r)] = "none"
  <2>1. NotYet(r) \/ (Queued(signQ, r) /\ job[r].reattempts = 0)
    <3>1. CASE promise'[r] \in {"none", "merging"}
      BY <1>0, <3>1, NotYetBefore DEF NotYet
    <3>2. CASE Queued(signQ', r) /\ job'[r].reattempts = 0
      <4>1. job[r].reattempts \in 0 .. 1
        BY <1>0 DEF Shape, TypeOK
      <4>2. job[r].reattempts = 0 /\ ~(RetryQueued /\ r = disp.req)
        <5>1. ~(RetryQueued /\ r = disp.req)
          <6>1. job \in [Requests -> Jobs]
            BY DEF Shape, TypeOK, Jobs
          <6>2. RetryQueued /\ r = disp.req => job'[r].reattempts = job[r].reattempts + 1
            BY <1>0, <6>1 DEF RetryQueued, Jobs
          <6> QED
            BY <3>2, <4>1, <6>2
        <5> QED
          BY <1>0, <3>2, <5>1, AttemptsStay
      <4>3. CASE Queued(signQ, r)
        BY <4>2, <4>3
      <4>4. CASE ~Queued(signQ, r)
        <5>1. CASE SignBegins
          <6>1. \A y : Queued(signQ, y) <=> Queued(Tail(signQ), y) \/ y = Head(signQ)
            BY <1>0, <5>1, SignBeginsOn, QueuedTail
          <6> QED
            BY <1>0, <3>2, <4>4, <5>1, <6>1, SignBeginsMoves
        <5>2. CASE RetryQueued
          <6>0. disp.step # "idle" /\ signQ' = Append(signQ, disp.req)
            BY <5>2 DEF RetryQueued, Enqueued
          <6>1. disp.req \in Requests
            BY <6>0 DEF Shape, DispShape, Idle
          <6> QED
            BY <1>0, <3>2, <4>2, <4>4, <5>2, <6>0, <6>1, QueuedAppend
        <5>3. CASE \E q \in Requests : Submit(q) \/ \E m \in Merges : MergeFollowed(m)
          <6>1. ASSUME NEW q \in Requests, signQ' = Append(signQ, q), NotYet(q)
                PROVE  NotYet(r)
            BY <1>0, <3>2, <4>4, <6>1, QueuedAppend
          <6>2. signQ' # signQ
            BY <3>2, <4>4
          <6> QED
            BY <5>3, <6>1, <6>2, Entries DEF Places
        <5>4. CASE UNCHANGED signQ
          BY <3>2, <4>4, <5>4
        <5>5. \/ UNCHANGED signQ \/ SignBegins \/ RetryQueued
              \/ \E q \in Requests : Submit(q) \/ \E m \in Merges : MergeFollowed(m)
          BY <1>0, Writers
        <5> QED
          BY <5>1, <5>2, <5>3, <5>4, <5>5
      <4> QED
        BY <4>3, <4>4
    <3> QED
      BY <1>2, <3>1, <3>2
  <2>2. promise[SideMerge(r)] = "none"
    BY <2>1 DEF Places, MergesUnasked
  <2>3. \A s \in Own : SideMerge(r) # AwaitedMerge(s)
    BY MergesOfCallers
  <2>4. \A m \in Merges : SideMerge(r) # Caller(m)
    BY <1>0, MergesOfCallers
  <2>5. ASSUME SignBegins, MergesAside(Head(signQ), Recommended(Head(signQ)))
        PROVE  SideMerge(r) # SideMerge(Head(signQ))
    <3>1. Head(signQ) \in Own
      BY <2>5 DEF MergesAside
    <3>2. SUFFICES ASSUME r = Head(signQ) PROVE FALSE
      BY <3>1, MergesOfCallers
    <3>3. Placed(r) /\ ~NotYet(r)
      BY <1>0, <2>5, <3>2, SignBeginsMoves DEF Placed, Places, NotYetPlaced
    <3>4. promise'[r] \notin {"none", "merging"}
      BY <1>0, <3>3, NotYetBefore DEF NotYet
    <3>5. ~Queued(Tail(signQ), r)
      BY <1>0, <2>5, <3>2, SignBeginsOn, QueuedTail DEF Places, OnePlace
    <3>6. ~Queued(signQ', r)
      BY <2>5, <3>2, <3>5, SignBeginsMoves
    <3> QED
      BY <1>2, <3>4, <3>6
  <2> QED
    BY <1>0, <2>2, <2>3, <2>4, <2>5, PromiseMoves
<1> QED
  BY <1>1, <1>2

LEMMA PlacesStep ==
  ASSUME Shape, Places, [Next]_vars
  PROVE  Places'
<1>1. OnlyOwnMerge'
  <2> SUFFICES ASSUME NEW m \in Merges PROVE promise'[m] # "merging"
    BY DEF OnlyOwnMerge
  <2> QED
    BY RequestsAreNumbers, MergesOfCallers, PromiseMoves DEF Places, OnlyOwnMerge, Final
<1> QED
  BY <1>1, OnePlaceStep, NotYetPlacedStep, MergesUnaskedStep DEF Places

-----------------------------------------------------------------------------
(* No request is forgotten. *)

LEMMA OwnAndItsMerges ==
  ASSUME NEW r \in Own
  PROVE  /\ r \in Requests /\ r \notin Merges
         /\ AwaitedMerge(r) \in Requests /\ AwaitedMerge(r) \in Merges
         /\ AwaitedMerge(r) \notin Own /\ AwaitedMerge(r) # r
         /\ AwaitedMerge(r) \in Actors /\ Caller(AwaitedMerge(r)) = r
<1>1. AwaitedMerge(r) \in Merges /\ Caller(AwaitedMerge(r)) = r
  BY MergesOfCallers
<1>2. r \notin Merges /\ AwaitedMerge(r) \notin Own
  BY <1>1, RequestsAreNumbers
<1> QED
  BY <1>1, <1>2 DEF Requests, Actors

LEMMA GranteeThereStep ==
  ASSUME Shape, OptionsKept, GranteeWasThere, [Next]_vars
  PROVE  GranteeWasThere'
<1>1. /\ grantee' = "absent" => grantee = "absent"
      /\ grantee' = "removed" => grantee = "removed" \/ "walletRemoved" \in scenario.faults
      /\ SignBegins => grantee' = grantee
  <2>1. CASE UNCHANGED <<appReloads, grantee>>
    BY <2>1
  <2>2. CASE AppReloads
    BY <2>2 DEF AppReloads, SignBegins, app
  <2>3. CASE SetGrantee
    BY <2>3 DEF SetGrantee, SignBegins, app
  <2> QED
    BY <2>1, <2>2, <2>3, Writers
<1>2. grantee' = "removed" => "walletRemoved" \in scenario'.faults
  BY <1>1, ScenarioStays DEF GranteeWasThere
<1>3. ASSUME NEW r \in Requests, job'[r].by = Grantee
      PROVE  grantee' # "absent"
  <2>1. CASE job[r].by = Grantee
    BY <1>1, <2>1 DEF GranteeWasThere
  <2>2. CASE SignBegins /\ Recommended(r) = Grantee
    BY <1>1, <2>2, GranteeRecommended DEF Registered
  <2> QED
    BY <1>3, <2>1, <2>2, JobSteps
<1> QED
  BY <1>2, <1>3 DEF GranteeWasThere

\* Without the faults that lose one, a request leaves its last place only
\* when its promise is settled.
LEMMA PlacedStays ==
  ASSUME Shape, GranteeWasThere, scenario.faults \cap Loses = {}, [Next]_vars,
         NEW x \in Requests, Placed(x), promise[x] = "pending", promise'[x] = "pending"
  PROVE  Placed(x)'
<1> USE DEF Placed
<1>0. signQ \in Seq(Requests) /\ dispQ \in Seq(Requests) /\ None \notin Requests
  BY RequestsAreNumbers DEF Shape, TypeOK
<1>1. CASE NoneMoves
  BY <1>1 DEF NoneMoves, SigningSame
<1>2. CASE /\ \E r \in Requests : Submit(r) \/ \E m \in Merges : MergeFollowed(m)
           /\ UNCHANGED <<dispQ, disp, sign>>
  <2>1. Signing(x)' <=> Signing(x)
    BY <1>2 DEF Signing
  <2>2. Queued(signQ, x) => Queued(signQ', x)
    <3>1. ASSUME NEW r \in Requests, signQ' = Append(signQ, r)
          PROVE  Queued(signQ, x) => Queued(signQ', x)
      BY <1>0, <3>1, QueuedAppend
    <3>2. UNCHANGED signQ \/ \E r \in Requests : signQ' = Append(signQ, r)
      <4>1. CASE \E r \in Requests : Submit(r)
        BY <4>1, SubmitIsOwn, MergesOfCallers, RequestsAreNumbers DEF Submit, Enqueued
      <4>2. CASE \E m \in Merges : MergeFollowed(m)
        BY <4>2, MergesOfCallers, RequestsAreNumbers DEF MergeFollowed, Enqueued
      <4> QED
        BY <1>2, <4>1, <4>2
    <3> QED
      BY <3>1, <3>2
  <2> QED
    BY <1>2, <2>1, <2>2
<1>3. CASE SignBegins /\ UNCHANGED <<dispQ, disp>>
  <2>1. \A y : Queued(signQ, y) <=> Queued(Tail(signQ), y) \/ y = Head(signQ)
    BY <1>0, <1>3, SignBeginsOn, QueuedTail
  <2>2. Queued(Tail(signQ), x) => Queued(signQ', x)
    <3>1. CASE signQ' = Append(Tail(signQ), SideMerge(Head(signQ)))
               /\ MergesAside(Head(signQ), Recommended(Head(signQ)))
      <4>1. SideMerge(Head(signQ)) \in Requests /\ Tail(signQ) \in Seq(Requests)
        BY <1>3, <3>1, SignBeginsOn, MergesOfCallers, RequestsAreNumbers DEF MergesAside
      <4> QED
        BY <3>1, <4>1, QueuedAppend
    <3>2. CASE signQ' = Tail(signQ)
      BY <3>2
    <3> QED
      BY <1>3, <3>1, <3>2, SignBeginsOn
  <2>3. sign = Idle /\ ~Signing(x)
    BY <1>0, <1>3, SignBeginsOn DEF Idle, Signing
  <2>4. CASE x # Head(signQ)
    BY <1>3, <2>1, <2>2, <2>3, <2>4
  <2>5. CASE x = Head(signQ) /\ Settled(x, "rejected")
    BY <2>5, SettledPromises
  <2>6. CASE x = Head(signQ) /\ sign' = [req |-> x, step |-> "prepare", seq |-> None]
    BY <2>6 DEF Signing
  <2> QED
    BY <1>3, <2>4, <2>5, <2>6, SignBeginsOn
<1>4. CASE /\ Signed /\ UNCHANGED <<signQ, disp>> /\ SigningNone
           /\ Signing(sign.req) /\ sign.req \in Requests
           /\ dispQ' = Append(dispQ, sign.req)
  <2>1. \A y : Queued(dispQ', y) <=> Queued(dispQ, y) \/ y = sign.req
    BY <1>0, <1>4, QueuedAppend
  <2> QED
    BY <1>4, <2>1 DEF Signing
<1>5. CASE SignReturns /\ UNCHANGED <<signQ, dispQ, disp>> /\ SigningNone
  <2>1. ~Signing(x)
    <3>1. sign.step = "complete" \/ Settled(sign.req, "rejected")
      BY <1>5 DEF SignReturns
    <3> QED
      BY <3>1, SettledPromises DEF Signing
  <2> QED
    BY <1>5, <2>1
<1>6. CASE /\ DispatchBegins /\ UNCHANGED <<signQ, sign>>
           /\ disp = Idle /\ dispQ # <<>> /\ dispQ' = Tail(dispQ)
           /\ \/ disp'.req = Head(dispQ) \/ disp'.req = None
  <2>1. /\ \A y : Queued(dispQ, y) <=> Queued(dispQ', y) \/ y = Head(dispQ)
        /\ Head(dispQ) \in Requests
    BY <1>0, <1>6, QueuedTail
  <2>2. Signing(x)' <=> Signing(x)
    BY <1>6 DEF Signing
  <2>3. job[Head(dispQ)].by \in Registered
    <3>1. job[Head(dispQ)].by \in Wallets
      BY <1>0, <1>6 DEF Shape, DispQShape, IsSigned
    <3>2. "walletRemoved" \notin scenario.faults
      BY DEF Loses
    <3>3. grantee \in {"absent", "installed", "expired", "removed"}
      BY DEF Shape, TypeOK
    <3> QED
      BY <2>1, <3>1, <3>2, <3>3 DEF GranteeWasThere, Registered
  <2>4. disp' = [Idle EXCEPT !.req = Head(dispQ), !.step = "broadcast"]
    BY <1>6, <2>3 DEF DispatchBegins
  <2>5. disp'.req = Head(dispQ)
    BY <2>4 DEF Idle
  <2>6. disp.req # x
    BY <1>0, <1>6 DEF Idle
  <2> QED
    BY <1>6, <2>1, <2>2, <2>5, <2>6
<1>7. CASE /\ RetryQueued /\ UNCHANGED <<dispQ, sign>>
           /\ disp.req \in Requests /\ disp'.req = None
           /\ signQ' = Append(signQ, disp.req)
  <2>1. \A y : Queued(signQ', y) <=> Queued(signQ, y) \/ y = disp.req
    BY <1>0, <1>7, QueuedAppend
  <2>2. Signing(x)' <=> Signing(x)
    BY <1>7 DEF Signing
  <2> QED
    BY <1>7, <2>1, <2>2
<1>8. CASE /\ DispatchSucceeds \/ MergeReloaded \/ RetryAbandoned \/ DispatchFails
           /\ UNCHANGED <<signQ, dispQ, sign>> /\ disp'.req = None
           /\ disp.req \in Requests
  <2>1. Signing(x)' <=> Signing(x)
    BY <1>8 DEF Signing
  <2>2. disp.req # x
    <3>1. ~RetryAbandoned
      BY DEF RetryAbandoned, Failed, Loses
    <3>2. CASE \E how \in Final : Settled(disp.req, how)
      BY <1>8, <3>2, SettledPromises DEF Final
    <3>3. CASE \E step : Goes(step)
      BY <1>0, <1>8, <3>3 DEF Goes, Shape, TypeOK
    <3>4. "callbackRejects" \notin scenario.faults
      BY DEF Loses
    <3> QED
      BY <1>8, <3>1, <3>2, <3>3, <3>4 DEF DispatchSucceeds, MergeReloaded, DispatchFails, Final
  <2> QED
    BY <1>8, <2>1, <2>2
<1> QED
  BY <1>1, <1>2, <1>3, <1>4, <1>5, <1>6, <1>7, <1>8, Moves

\* The reload behind a merge goes on until its caller is told.
LEMMA MergesReloadStays ==
  ASSUME Shape, [Next]_vars, NEW m \in Merges, reload[m] # NoReload
  PROVE  reload'[m] # NoReload \/ MergeStep(m)
<1>1. reload \in [Actors -> ReloadType] /\ m \in Actors
  BY ActorsDiffer DEF Shape, TypeOK, ReloadType
<1>2. /\ m # Signer /\ m # Dispatcher /\ m # App
  BY ActorsDiffer
<1>3. CASE UNCHANGED reload
  BY <1>3
<1>4. CASE \E a \in Actors : ReloadStep(a)
  BY <1>1, <1>4, ReloadStepKeeps
<1>5. ASSUME NEW k \in Merges, MergeStep(k), k # m
      PROVE  reload'[m] # NoReload
  BY <1>1, <1>5 DEF MergeStep, MergeFollowed, MergeFollowFails, Returned, Failed, Ends
<1>6. CASE AppReloads \/ AppReloadEnds
  BY <1>1, <1>2, <1>6 DEF AppReloads, AppReloadEnds, Asks, Returned, Failed, Ends
<1>7. CASE Prepared \/ Loaded \/ SigningFails
  BY <1>1, <1>2, <1>7 DEF Prepared, Loaded, SigningFails, Asks, Returned, Failed, Ends
<1>8. CASE MergeReloadFails \/ RetryBegins \/ RetryQueued \/ RetryAbandoned
  BY <1>1, <1>2, <1>8 DEF MergeReloadFails, RetryBegins, RetryQueued, RetryAbandoned,
     Asks, Returned, Failed, Ends
<1>9. CASE DispatchSucceeds \/ MergeReloaded
  <2>1. \/ reload'[m] = reload[m]
        \/ reload' = Following(reload, disp.req)
        \/ reload' = Following([reload EXCEPT ![Dispatcher] = NoReload], disp.req)
    BY <1>1, <1>2, <1>9 DEF DispatchSucceeds, MergeReloaded, Asks
  <2> QED
    BY <1>1, <1>2, <2>1 DEF Following, NoReload
<1> QED
  BY <1>3, <1>4, <1>5, <1>6, <1>7, <1>8, <1>9, Writers

LEMMA OpenInHandStep ==
  ASSUME Shape, Places, GranteeWasThere, OpenInHand, [Next]_vars
  PROVE  OpenInHand'
<1> SUFFICES ASSUME scenario.faults \cap Loses = {}, NEW r \in Requests
             PROVE  /\ promise'[r] = "pending" => Placed(r)'
                    /\ promise'[r] = "merging" =>
                         /\ r \in Own
                         /\ \/ promise'[AwaitedMerge(r)] = "pending"
                            \/ reload'[AwaitedMerge(r)] # NoReload
  BY ScenarioStays DEF OpenInHand
<1>0. signQ \in Seq(Requests) /\ promise \in [Requests -> Promises]
  BY DEF Shape, TypeOK, Promises
<1>1. ASSUME promise'[r] = "pending"
      PROVE  Placed(r)'
  <2>1. CASE promise[r] = "pending"
    BY <1>1, <2>1, PlacedStays DEF OpenInHand
  <2>2. CASE Submit(r) /\ r \in Own
    <3>1. AwaitedMerge(r) \in Requests /\ AwaitedMerge(r) # r
      BY <2>2, OwnAndItsMerges
    <3>2. signQ' = Append(signQ, r)
      BY <1>0, <1>1, <2>2, <3>1 DEF Submit, Enqueued
    <3> QED
      BY <1>0, <3>2, QueuedAppend DEF Placed
  <2>3. ASSUME NEW s \in Own, Submit(s), r = AwaitedMerge(s), promise'[s] = "merging"
        PROVE  Placed(r)'
    <3>1. AwaitedMerge(s) \in Requests /\ AwaitedMerge(s) # s /\ s \in Requests
      BY OwnAndItsMerges
    <3>2. signQ' = Append(signQ, r)
      BY <1>0, <2>3, <3>1 DEF Submit, Enqueued
    <3> QED
      BY <1>0, <3>2, QueuedAppend DEF Placed
  <2>4. ASSUME NEW m \in Merges, MergeFollowed(m), r = Caller(m), Waits(r, m)
        PROVE  Placed(r)'
    <3>1. signQ' = Append(signQ, r)
      BY <2>4 DEF MergeFollowed, Enqueued
    <3> QED
      BY <1>0, <3>1, QueuedAppend DEF Placed
  <2>5. CASE /\ SignBegins /\ MergesAside(Head(signQ), Recommended(Head(signQ)))
             /\ r = SideMerge(Head(signQ)) /\ promise[r] # "pending"
    <3>1. signQ' = Append(Tail(signQ), r) /\ Tail(signQ) \in Seq(Requests)
      <4>1. Tail(signQ) \in Seq(Requests)
        BY <2>5, SignBeginsOn
      <4>2. CASE signQ' = Append(Tail(signQ), r)
        BY <4>1, <4>2
      <4>3. CASE Settled(Head(signQ), "rejected")
        BY <1>1, <2>5, <4>3, SettledPromises, SignBeginsOn
      <4>4. CASE UNCHANGED promise
        BY <1>1, <2>5, <4>4
      <4> QED
        BY <2>5, <4>1, <4>2, <4>3, <4>4, SignBeginsOn
    <3> QED
      BY <3>1, QueuedAppend DEF Placed
  <2> QED
    BY <1>1, <2>1, <2>2, <2>3, <2>4, <2>5, PromiseMoves DEF Final
<1>2. ASSUME promise'[r] = "merging"
      PROVE  /\ r \in Own
             /\ \/ promise'[AwaitedMerge(r)] = "pending"
                \/ reload'[AwaitedMerge(r)] # NoReload
  <2> DEFINE m == AwaitedMerge(r)
  <2>1. promise[r] = "merging" \/ (Submit(r) /\ r \in Own /\ promise[r] = "none")
    BY <1>2, PromiseMoves DEF Final
  <2>2. CASE Submit(r) /\ r \in Own /\ promise[r] = "none"
    <3>1. m \in Requests /\ m # r
      BY <2>2, OwnAndItsMerges
    <3> QED
      BY <1>0, <1>2, <2>2, <3>1 DEF Submit
  <2>3. CASE promise[r] = "merging"
    <3>1. /\ r \in Own /\ m \in Merges /\ m \in Requests /\ m \in Actors
          /\ Caller(m) = r /\ m \notin Own
      BY <2>3, OwnAndItsMerges DEF OpenInHand
    <3>2. CASE reload[m] # NoReload
      <4>1. ~MergeStep(m)
        BY <1>0, <1>2, <2>3, <3>1 DEF MergeStep, MergeFollowed, MergeFollowFails, Waits
      <4> QED
        BY <3>1, <3>2, <4>1, MergesReloadStays
    <3>3. CASE promise[m] = "pending"
      <4> SUFFICES promise'[m] = "pending" \/ reload'[m] # NoReload
        BY <3>1
      <4>1. ASSUME NEW q \in Requests, NEW how \in {"rejected", "rejectedForNonce"},
                   Settled(q, how)
            PROVE  promise'[m] = "pending"
        BY <1>2, <2>3, <3>1, <3>3, <4>1, SettledPromises DEF Waits
      <4>2. ASSUME NEW q \in Requests, Settled(q, "resolved"),
                   NEW rl \in [Actors -> ReloadType], reload' = Following(rl, q)
            PROVE  promise'[m] = "pending" \/ reload'[m] # NoReload
        <5>1. CASE q # m
          BY <3>1, <3>3, <4>2, <5>1, SettledPromises
        <5>2. CASE q = m
          BY <3>1, <4>2, <5>2 DEF Following, NoReload
        <5> QED
          BY <5>1, <5>2
      <4>3. CASE UNCHANGED promise
        BY <3>3, <4>3
      <4>4. CASE \E q \in Requests : Submit(q)
        <5>1. PICK q \in Requests : Submit(q)
          BY <4>4
        <5>2. q \in Own /\ promise[q] = "none"
          BY <5>1, SubmitIsOwn DEF Submit
        <5> QED
          BY <1>0, <2>3, <3>1, <3>3, <5>1, <5>2 DEF Submit
      <4>5. CASE \E k \in Merges : MergeStep(k)
        BY <1>0, <3>1, <3>3, <4>5, MergesOfCallers
        DEF MergeStep, MergeFollowed, MergeFollowFails
      <4>6. CASE SignBegins
        <5>1. CASE Settled(Head(signQ), "rejected")
          BY <4>1, <4>6, <5>1, SignBeginsOn
        <5>2. CASE promise' = [promise EXCEPT ![SideMerge(Head(signQ))] = "pending"]
          BY <1>0, <3>1, <3>3, <5>2
        <5> QED
          BY <4>3, <4>6, <5>1, <5>2, SignBeginsOn
      <4>7. CASE SignReturns
        <5>1. UNCHANGED promise \/ (sign.req \in Requests /\ Settled(sign.req, "rejected"))
          BY <4>7 DEF SignReturns, Shape, SignShape, Idle
        <5> QED
          BY <4>1, <4>3, <5>1
      <4>8. CASE DispatchFails
        <5>1. disp.step # "idle"
          BY <4>8 DEF DispatchFails
        <5>2. disp.req \in Requests
          BY <5>1 DEF Shape, DispShape, Idle
        <5> QED
          BY <4>1, <4>3, <4>8, <5>2 DEF DispatchFails
      <4>9. CASE DispatchSucceeds \/ MergeReloaded
        <5>1. disp.step # "idle"
          BY <4>9 DEF DispatchSucceeds, MergeReloaded
        <5>2. disp.req \in Requests /\ reload \in [Actors -> ReloadType]
          BY <5>1 DEF Shape, DispShape, Idle, TypeOK, ReloadType
        <5>3. NoReload \in ReloadType
          BY DEF NoReload, ReloadType
        <5>4. [reload EXCEPT ![Dispatcher] = NoReload] \in [Actors -> ReloadType]
          BY <5>2, <5>3
        <5> QED
          BY <4>2, <4>3, <4>9, <5>2, <5>4 DEF DispatchSucceeds, MergeReloaded
      <4> QED
        BY <4>3, <4>4, <4>5, <4>6, <4>7, <4>8, <4>9, Writers
    <3> QED
      BY <2>3, <3>1, <3>2, <3>3 DEF OpenInHand
  <2> QED
    BY <2>1, <2>2, <2>3
<1> QED
  BY <1>1, <1>2

\* InHand, as the invariant names it.
LEMMA PlacedIsInHand ==
  ASSUME NEW r \in Requests
  PROVE  InHand(r) <=> \/ Placed(r)
                       \/ /\ promise[r] = "merging"
                          /\ \/ promise[AwaitedMerge(r)] = "pending"
                             \/ reload[AwaitedMerge(r)] # NoReload
  BY DEF InHand, Placed, Queued, Signing

LEMMA PlacesInit == Init => Places
<1> SUFFICES ASSUME Init PROVE Places
  OBVIOUS
<1>1. /\ signQ = <<>> /\ dispQ = <<>> /\ sign.req = None /\ disp.req = None
      /\ \A r \in Requests : promise[r] = "none" /\ job[r].reattempts = 0
  <2>1. \A r \in Requests : job[r] =
           [signer |-> scenario.signer[r], bypass |-> r \in scenario.bypass,
            msgs |-> "raw", signs |-> "raw", reattempts |-> 0,
            by |-> None, seq |-> None]
    BY Zenon DEF Init
  <2>2. \A r \in Requests : promise[r] = "none"
    BY DEF Init
  <2>3. signQ = <<>> /\ dispQ = <<>> /\ sign = Idle /\ disp = Idle
    BY DEF Init
  <2>4. ASSUME NEW r \in Requests PROVE job[r].reattempts = 0
    <3>1. job[r] = [signer |-> scenario.signer[r], bypass |-> r \in scenario.bypass,
                    msgs |-> "raw", signs |-> "raw", reattempts |-> 0,
                    by |-> None, seq |-> None]
      BY <2>1
    <3> QED
      BY <3>1
  <2> QED
    BY <2>2, <2>3, <2>4 DEF Idle
<1>2. \A r \in Requests : ~Placed(r)
  BY <1>1, RequestsAreNumbers DEF Placed, Queued, Signing
<1>3. \A r \in Requests : ~Queued(signQ, r) /\ ~Queued(dispQ, r) /\ ~Signing(r)
  BY <1>2 DEF Placed
<1>4. OnePlace /\ NotYetPlaced
  BY <1>1, <1>2, <1>3 DEF OnePlace, EachOnce, NotYetPlaced
<1>5. MergesUnasked /\ OnlyOwnMerge
  BY <1>1, <1>3, MergesOfCallers, RequestsAreNumbers DEF MergesUnasked, OnlyOwnMerge
<1> QED
  BY <1>4, <1>5 DEF Places

\* NoRequestForgotten: sdk.ts drops no handler.  A request whose promise is
\* open stays in a queue or in signTx() or dispatchTx(), or its caller waits
\* for a merge whose own promise is open or whose account is being reloaded.
THEOREM NothingForgotten == Spec => []NoRequestForgotten
<1> DEFINE Inv == Shape /\ OptionsKept /\ Places /\ GranteeWasThere /\ OpenInHand
<1>1. Init => OptionsKept
  <2> SUFFICES ASSUME Init, NEW r \in Requests
               PROVE  /\ job[r].reattempts = 0 /\ job[r].signer = scenario.signer[r]
                      /\ job[r].bypass = (r \in scenario.bypass)
    BY Zenon DEF OptionsKept
  <2>1. job[r] = [signer |-> scenario.signer[r], bypass |-> r \in scenario.bypass,
                  msgs |-> "raw", signs |-> "raw", reattempts |-> 0,
                  by |-> None, seq |-> None]
    BY Zenon DEF Init
  <2> QED
    BY <2>1
<1>2. Init => GranteeWasThere /\ OpenInHand
  <2> SUFFICES ASSUME Init PROVE GranteeWasThere /\ OpenInHand
    OBVIOUS
  <2>1. \A r \in Requests : job[r] =
           [signer |-> scenario.signer[r], bypass |-> r \in scenario.bypass,
            msgs |-> "raw", signs |-> "raw", reattempts |-> 0,
            by |-> None, seq |-> None]
    BY Zenon DEF Init
  <2>2. \A r \in Requests : promise[r] = "none" /\ job[r].by = None
    BY <2>1 DEF Init
  <2>3. grantee = "absent"
    BY DEF Init
  <2> QED
    BY <2>2, <2>3 DEF GranteeWasThere, OpenInHand
<1>3. Inv /\ [Next]_vars => Inv'
  BY ShapeStep, OptionsStep, PlacesStep, GranteeThereStep, OpenInHandStep
<1>4. Inv => NoRequestForgotten
  BY PlacedIsInHand DEF OpenInHand, NoRequestForgotten, Open
<1> QED
  BY <1>1, <1>2, <1>3, <1>4, ShapeInit, PlacesInit, PTL DEF Spec

-----------------------------------------------------------------------------
(* Where the transactions of a request are. *)

Pools == [Wallets -> Seq(Txs(Requests))]

\* q is p without the first d transactions of w and without some of its last.
Cut(p, q, w, d) ==
  \A v \in Wallets : \A i \in DOMAIN q[v] :
    IF v = w THEN i + d \in DOMAIN p[w] /\ q[w][i] = p[w][i + d]
             ELSE i \in DOMAIN p[v] /\ q[v][i] = p[v][i]

LEMMA TailCuts ==
  ASSUME NEW p \in Pools, NEW w \in Wallets, p[w] # <<>>
  PROVE  Cut(p, [p EXCEPT ![w] = Tail(p[w])], w, 1)
<1>1. /\ p[w] \in Seq(Txs(Requests))
      /\ DOMAIN p[w] = 1 .. Len(p[w]) /\ Len(p[w]) \in Nat /\ Len(p[w]) >= 1
      /\ DOMAIN Tail(p[w]) = 1 .. Len(p[w]) - 1
      /\ \A i \in 1 .. Len(p[w]) - 1 : Tail(p[w])[i] = p[w][i + 1]
  <2>1. p[w] \in Seq(Txs(Requests))
    BY DEF Pools
  <2> QED
    BY <2>1, LenProperties
<1> DEFINE q == [p EXCEPT ![w] = Tail(p[w])]
<1>2. q[w] = Tail(p[w]) /\ \A v \in Wallets : v # w => q[v] = p[v]
  BY DEF Pools
<1> HIDE DEF q
<1>3. Cut(p, q, w, 1)
  <2> SUFFICES ASSUME NEW v \in Wallets, NEW i \in DOMAIN q[v]
               PROVE  IF v = w THEN i + 1 \in DOMAIN p[w] /\ q[w][i] = p[w][i + 1]
                               ELSE i \in DOMAIN p[v] /\ q[v][i] = p[v][i]
    BY DEF Cut
  <2>1. CASE v = w
    <3>1. i \in 1 .. Len(p[w]) - 1
      BY <1>1, <1>2, <2>1
    <3> QED
      BY <1>1, <1>2, <2>1, <3>1
  <2>2. CASE v # w
    BY <1>2, <2>2
  <2> QED
    BY <2>1, <2>2
<1> QED
  BY <1>3 DEF q

LEMMA SubSeqCuts ==
  ASSUME NEW p \in Pools, NEW w \in Wallets, NEW n \in 0 .. Len(p[w]) - 1
  PROVE  Cut(p, [p EXCEPT ![w] = SubSeq(p[w], 1, n)], w, 0)
<1>1. /\ p[w] \in Seq(Txs(Requests))
      /\ DOMAIN p[w] = 1 .. Len(p[w]) /\ Len(p[w]) \in Nat
  BY LenProperties DEF Pools
<1>2. /\ DOMAIN SubSeq(p[w], 1, n) = 1 .. n
      /\ \A i \in 1 .. n : SubSeq(p[w], 1, n)[i] = p[w][i]
  BY <1>1
<1> DEFINE q == [p EXCEPT ![w] = SubSeq(p[w], 1, n)]
<1>3. q[w] = SubSeq(p[w], 1, n) /\ \A v \in Wallets : v # w => q[v] = p[v]
  BY DEF Pools
<1> HIDE DEF q
<1>4. Cut(p, q, w, 0)
  BY <1>1, <1>2, <1>3 DEF Cut
<1> QED
  BY <1>4 DEF q

LEMMA CutPools ==
  ASSUME NEW p \in Pools, NEW q \in Pools, NEW w \in Wallets, NEW d \in 0 .. 1,
         Cut(p, q, w, d)
  PROVE  /\ \A tx : In(q, tx) => In(p, tx)
         /\ PoolOnce(p) => PoolOnce(q)
         /\ PoolOnce(p) /\ d = 1 /\ p[w] # <<>> /\ Mine(Head(p[w])) => ~In(q, Head(p[w]))
<1>1. /\ \A v \in Wallets : DOMAIN q[v] = 1 .. Len(q[v]) /\ Len(q[v]) \in Nat
      /\ \A v \in Wallets : DOMAIN p[v] = 1 .. Len(p[v]) /\ Len(p[v]) \in Nat
  BY LenProperties DEF Pools
<1>2. \A tx : In(q, tx) => In(p, tx)
  BY DEF Cut, In
<1>3. ASSUME PoolOnce(p) PROVE PoolOnce(q)
  <2> SUFFICES ASSUME NEW u \in Wallets, NEW v \in Wallets,
                      NEW i \in DOMAIN q[u], NEW j \in DOMAIN q[v],
                      Mine(q[u][i]), q[u][i] = q[v][j]
               PROVE  u = v /\ i = j
    BY DEF PoolOnce
  <2>1. PICK a \in DOMAIN p[u] : /\ q[u][i] = p[u][a]
                                 /\ u = w => a = i + d
                                 /\ u # w => a = i
    <3>1. CASE u = w
      BY <3>1 DEF Cut
    <3>2. CASE u # w
      BY <3>2 DEF Cut
    <3> QED
      BY <3>1, <3>2
  <2>2. PICK b \in DOMAIN p[v] : /\ q[v][j] = p[v][b]
                                 /\ v = w => b = j + d
                                 /\ v # w => b = j
    <3>1. CASE v = w
      BY <3>1 DEF Cut
    <3>2. CASE v # w
      BY <3>2 DEF Cut
    <3> QED
      BY <3>1, <3>2
  <2>3. u = v /\ a = b
    <3>1. Mine(p[u][a]) /\ p[u][a] = p[v][b]
      BY <2>1, <2>2
    <3> QED
      BY <1>3, <3>1 DEF PoolOnce
  <2> QED
    BY <1>1, <2>1, <2>2, <2>3
<1>4. ASSUME PoolOnce(p), d = 1, p[w] # <<>>, Mine(Head(p[w])), In(q, Head(p[w]))
      PROVE  FALSE
  <2>1. PICK v \in Wallets : \E i \in DOMAIN q[v] : q[v][i] = Head(p[w])
    BY <1>4 DEF In
  <2>2. PICK i \in DOMAIN q[v] : q[v][i] = Head(p[w])
    BY <2>1
  <2>3. p[w] \in Seq(Txs(Requests)) /\ Head(p[w]) = p[w][1] /\ 1 \in DOMAIN p[w]
    BY <1>1, <1>4 DEF Pools
  <2>4. CASE v = w
    <3>1. i + 1 \in DOMAIN p[w] /\ p[w][i + 1] = p[w][1]
      BY <1>4, <2>2, <2>3, <2>4 DEF Cut
    <3>2. i + 1 = 1
      BY <1>4, <2>3, <3>1 DEF PoolOnce
    <3> QED
      BY <1>1, <3>2
  <2>5. CASE v # w
    <3>1. i \in DOMAIN p[v] /\ p[v][i] = p[w][1]
      BY <2>2, <2>3, <2>5 DEF Cut
    <3> QED
      BY <1>4, <2>3, <2>5, <3>1 DEF PoolOnce
  <2> QED
    BY <2>4, <2>5
<1> QED
  BY <1>2, <1>3, <1>4

LEMMA GrownPools ==
  ASSUME NEW p \in Pools, NEW w \in Wallets, NEW tx \in Txs(Requests),
         NEW q \in Pools, q[w] = Append(p[w], tx), \A v \in Wallets : v # w => q[v] = p[v]
  PROVE  /\ \A y : In(q, y) => In(p, y) \/ y = tx
         /\ PoolOnce(p) /\ (~In(p, tx) \/ ~Mine(tx)) => PoolOnce(q)
<1>1. /\ \A v \in Wallets : DOMAIN p[v] = 1 .. Len(p[v]) /\ Len(p[v]) \in Nat
  BY LenProperties DEF Pools
<1>2. /\ DOMAIN q[w] = 1 .. Len(p[w]) + 1
      /\ \A i \in 1 .. Len(p[w]) : q[w][i] = p[w][i]
      /\ q[w][Len(p[w]) + 1] = tx
      /\ \A v \in Wallets : v # w => q[v] = p[v]
  <2>1. q[w] = Append(p[w], tx) /\ p[w] \in Seq(Txs(Requests))
    BY DEF Pools
  <2> QED
    BY <2>1, AppendProperties, LenProperties
<1>3. \A v \in Wallets : \A i \in DOMAIN q[v] :
        \/ i \in DOMAIN p[v] /\ q[v][i] = p[v][i]
        \/ v = w /\ i = Len(p[w]) + 1 /\ q[v][i] = tx
  BY <1>1, <1>2
<1>4. \A y : In(q, y) => In(p, y) \/ y = tx
  BY <1>3 DEF In
<1>5. ASSUME PoolOnce(p), ~In(p, tx) \/ ~Mine(tx)
      PROVE  PoolOnce(q)
  <2> SUFFICES ASSUME NEW u \in Wallets, NEW v \in Wallets,
                      NEW i \in DOMAIN q[u], NEW j \in DOMAIN q[v],
                      Mine(q[u][i]), q[u][i] = q[v][j]
               PROVE  u = v /\ i = j
    BY DEF PoolOnce
  <2>1. CASE i \in DOMAIN p[u] /\ q[u][i] = p[u][i] /\ j \in DOMAIN p[v] /\ q[v][j] = p[v][j]
    <3>1. Mine(p[u][i]) /\ p[u][i] = p[v][j]
      BY <2>1
    <3> QED
      BY <1>5, <2>1, <3>1 DEF PoolOnce
  <2>2. CASE q[u][i] = tx
    <3>1. ~In(p, tx)
      BY <1>5, <2>2
    <3>2. /\ ~(i \in DOMAIN p[u] /\ p[u][i] = tx)
          /\ ~(j \in DOMAIN p[v] /\ p[v][j] = tx)
      BY <3>1 DEF In
    <3>3. u = w /\ i = Len(p[w]) + 1
      BY <1>3, <2>2, <3>2
    <3>4. v = w /\ j = Len(p[w]) + 1
      BY <1>3, <2>2, <3>2
    <3> QED
      BY <3>3, <3>4
  <2> QED
    BY <1>3, <2>1, <2>2
<1> QED
  BY <1>4, <1>5

LEMMA KnownIn ==
  \A tx : /\ InPool(tx) <=> In(pool, tx)
          /\ InPool(tx)' <=> In(pool', tx)
  BY DEF InPool, In

\* What the steps do to the pools, the blocks and what is on its way.
LEMMA TxMoves ==
  ASSUME Shape, [Next]_vars
  PROVE  \/ UNCHANGED <<pool, results, limbo>> /\ ~NodeAdmits /\ ~AsyncSent
         \/ \E w \in Wallets, d \in 0 .. 1 :
              Cut(pool, pool', w, d) /\ UNCHANGED <<results, limbo, disp, job>>
         \/ \E w \in Wallets, res \in {"ok", "failed", "mismatch"} :
              /\ Cut(pool, pool', w, 1) /\ pool[w] # <<>>
              /\ results' = results \cup {ResultOf(Head(pool[w]), res)}
              /\ UNCHANGED <<limbo, disp, job, promise>>
         \/ \E w \in Wallets :
              /\ pool' = [pool EXCEPT ![w] = Append(pool[w], ForeignTx)]
              /\ UNCHANGED <<results, limbo, disp, job>>
         \/ /\ NodeAdmits /\ disp.req \in Requests /\ disp.step = "broadcast"
            /\ \E w \in Wallets : pool' = [pool EXCEPT ![w] = Append(pool[w], Tx(disp.req))]
            /\ UNCHANGED <<results, limbo, job>>
         \/ /\ AsyncSent /\ disp.req \in Requests /\ disp.step = "broadcast"
            /\ UNCHANGED <<pool, results, job>>
            /\ \/ UNCHANGED limbo
               \/ \E x : x.tx = Tx(disp.req) /\ limbo' = limbo \cup {x}
         \/ \E x \in limbo :
              /\ limbo' = limbo \ {x} /\ UNCHANGED <<results, disp, job>>
              /\ \/ UNCHANGED pool
                 \/ \E w \in Wallets : pool' = [pool EXCEPT ![w] = Append(pool[w], x.tx)]
<1>1. pool \in Pools /\ limbo \subseteq LimboType
  BY DEF Shape, TypeOK, ChainTypeOK, Pools, LimboType
<1>2. CASE NodeAdmits
  <2>1. disp.req \in Requests /\ job[disp.req].by \in Wallets
    BY <1>2 DEF NodeAdmits, Shape, DispShape, IsSigned, Idle
  <2>2. /\ disp.step = "broadcast" /\ UNCHANGED <<results, limbo, job>>
        /\ pool' = [pool EXCEPT ![job[disp.req].by] = Append(@, Tx(disp.req))]
    BY <1>2 DEF NodeAdmits, Admit, Rest
  <2> QED
    BY <1>2, <2>1, <2>2
<1>3. CASE AsyncSent
  <2>1. disp.req \in Requests
    BY <1>3 DEF AsyncSent, Shape, DispShape, Idle
  <2>2. /\ disp.step = "broadcast" /\ UNCHANGED <<pool, results, job>>
        /\ \/ UNCHANGED limbo
           \/ \E x : x.tx = Tx(disp.req) /\ limbo' = limbo \cup {x}
    <3> DEFINE y == [tx |-> Tx(disp.req), wallet |-> job[disp.req].by,
                     seq |-> job[disp.req].seq]
    <3>1. limbo' = limbo \cup {y} \/ UNCHANGED limbo
      BY <1>3 DEF AsyncSent
    <3>2. y.tx = Tx(disp.req)
      OBVIOUS
    <3>3. disp.step = "broadcast" /\ UNCHANGED <<pool, results, job>>
      BY <1>3 DEF AsyncSent, chainVars, Rest
    <3> QED
      BY <3>1, <3>2, <3>3
  <2> QED
    BY <1>3, <2>1, <2>2
<1>4. ASSUME NEW x \in limbo, AsyncChecked(x)
      PROVE  \E y \in limbo :
              /\ limbo' = limbo \ {y} /\ UNCHANGED <<results, disp, job>>
              /\ \/ UNCHANGED pool
                 \/ \E w \in Wallets : pool' = [pool EXCEPT ![w] = Append(pool[w], y.tx)]
  <2>1. x.wallet \in Wallets
    BY <1>1 DEF LimboType
  <2>2. /\ limbo' = limbo \ {x} /\ UNCHANGED <<results, disp, job>>
        /\ \/ UNCHANGED pool
           \/ pool' = [pool EXCEPT ![x.wallet] = Append(pool[x.wallet], x.tx)]
    BY <1>4 DEF AsyncChecked, Admit, Rest
  <2> QED
    BY <2>1, <2>2
<1>5. ASSUME NEW w \in Wallets, UNCHANGED <<disp, limbo, Rest>>,
             \/ BlockIncludes(w) \/ ForeignAdmitted(w) \/ ForeignIncluded(w)
             \/ ForeignDisplaces(w) \/ Evicted(w)
      PROVE  \/ UNCHANGED <<pool, results, limbo, disp>>
             \/ \E d \in 0 .. 1 :
                  Cut(pool, pool', w, d) /\ UNCHANGED <<results, limbo, disp, job>>
             \/ \E res \in {"ok", "failed", "mismatch"} :
                  /\ Cut(pool, pool', w, 1) /\ pool[w] # <<>>
                  /\ results' = results \cup {ResultOf(Head(pool[w]), res)}
                  /\ UNCHANGED <<limbo, disp, job, promise>>
             \/ /\ pool' = [pool EXCEPT ![w] = Append(pool[w], ForeignTx)]
                /\ UNCHANGED <<results, limbo, disp, job>>
  <2>1. UNCHANGED <<limbo, disp, job, promise>>
    BY <1>5 DEF Rest
  <2>2. CASE ~UNCHANGED results
    <3>1. pool[w] # <<>> /\ pool' = [pool EXCEPT ![w] = Tail(pool[w])]
          /\ \E res \in {"ok", "failed", "mismatch"} :
               results' = results \cup {ResultOf(Head(pool[w]), res)}
      BY <1>5, <2>2, ChainSteps
    <3>2. Cut(pool, pool', w, 1)
      BY <1>1, <3>1, TailCuts
    <3> QED
      BY <2>1, <3>1, <3>2
  <2>3. CASE UNCHANGED results
    <3>1. CASE UNCHANGED pool
      BY <2>1, <2>3, <3>1
    <3>2. CASE pool' = [pool EXCEPT ![w] = Append(pool[w], ForeignTx)]
      BY <2>1, <2>3, <3>2
    <3>3. CASE pool[w] # <<>> /\ pool' = [pool EXCEPT ![w] = Tail(pool[w])]
      <4>1. Cut(pool, pool', w, 1)
        BY <1>1, <3>3, TailCuts
      <4> QED
        BY <2>1, <2>3, <4>1
    <3>4. ASSUME NEW n \in 0 .. Len(pool[w]) - 1,
                 pool' = [pool EXCEPT ![w] = SubSeq(pool[w], 1, n)]
          PROVE  \E d \in 0 .. 1 : Cut(pool, pool', w, d)
      <4>1. Cut(pool, pool', w, 0)
        BY <1>1, <3>4, SubSeqCuts
      <4> QED
        BY <4>1
    <3> QED
      BY <1>5, <2>1, <2>3, <3>1, <3>2, <3>3, <3>4, ChainSteps
  <2> QED
    BY <2>2, <2>3
<1>6. CASE ChainNext /\ UNCHANGED <<disp, limbo, Rest>>
  <2>1. PICK w \in Wallets : \/ BlockIncludes(w) \/ ForeignAdmitted(w)
                             \/ ForeignIncluded(w) \/ ForeignDisplaces(w) \/ Evicted(w)
    BY <1>6 DEF ChainNext
  <2>2. UNCHANGED disp => ~NodeAdmits /\ ~AsyncSent
    <3>1. disp \in StageType
      BY DEF Shape, TypeOK, StageType
    <3>2. NodeAdmits \/ AsyncSent => disp.step = "broadcast" /\ disp'.step # "broadcast"
      BY <3>1 DEF NodeAdmits, AsyncSent, Goes, AfterError, StageType
    <3> QED
      BY <3>2
  <2> QED
    BY <1>5, <1>6, <2>1, <2>2
<1>7. CASE UNCHANGED <<pool, results, limbo>> /\ ~NodeAdmits /\ ~AsyncSent
  BY <1>7
<1>8. \/ NodeAdmits \/ AsyncSent \/ \E x \in limbo : AsyncChecked(x)
      \/ ChainNext /\ UNCHANGED <<disp, limbo, Rest>>
      \/ UNCHANGED <<pool, results, limbo>>
  BY Writers DEF NodeStep
<1> QED
  BY <1>2, <1>3, <1>4, <1>6, <1>7, <1>8

\* A transaction of a request becomes known when dispatchTx() sends it, and
\* one that has no consequences any more stays so.
LEMMA KnownStep ==
  ASSUME Shape, [Next]_vars, NEW tx, tx.req \in Requests
  PROVE  /\ Known(tx)' => Known(tx) \/ (/\ NodeAdmits \/ AsyncSent
                                        /\ disp.step = "broadcast" /\ tx = Tx(disp.req))
         /\ Live(tx)' => Live(tx) \/ (/\ NodeAdmits \/ AsyncSent
                                      /\ disp.step = "broadcast" /\ tx = Tx(disp.req))
<1> USE DEF Known, Live, InBlock, InLimbo
<1>0. /\ pool \in Pools /\ pool' \in Pools
      /\ limbo \subseteq LimboType /\ ForeignTx \in Txs(Requests) /\ tx # ForeignTx
  <2>1. pool \in Pools /\ limbo \subseteq LimboType
    BY DEF Shape, TypeOK, ChainTypeOK, Pools, LimboType
  <2>2. pool' \in Pools
    BY ChainTypes DEF ChainTypeOK, Pools
  <2>3. ForeignTx \in Txs(Requests) /\ tx # ForeignTx
    BY RequestsAreNumbers DEF ForeignTx, Txs
  <2> QED
    BY <2>1, <2>2, <2>3
<1>1. CASE UNCHANGED <<pool, results, limbo>>
  BY <1>1, KnownIn
<1>2. ASSUME NEW w \in Wallets, NEW d \in 0 .. 1, Cut(pool, pool', w, d),
             UNCHANGED <<results, limbo>>
      PROVE  (Known(tx)' => Known(tx)) /\ (Live(tx)' => Live(tx))
  <2>1. InPool(tx)' => InPool(tx)
    BY <1>0, <1>2, CutPools, KnownIn
  <2> QED
    BY <1>2, <2>1
<1>3. ASSUME NEW w \in Wallets, NEW res, Cut(pool, pool', w, 1), pool[w] # <<>>,
             results' = results \cup {ResultOf(Head(pool[w]), res)}, UNCHANGED limbo
      PROVE  (Known(tx)' => Known(tx)) /\ (Live(tx)' => Live(tx))
  <2>1. InPool(tx)' => InPool(tx)
    BY <1>0, <1>3, CutPools, KnownIn
  <2>2. InPool(Head(pool[w]))
    <3>1. pool[w] \in Seq(Txs(Requests))
      BY <1>0 DEF Pools
    <3>2. 1 \in DOMAIN pool[w] /\ Head(pool[w]) = pool[w][1]
      BY <1>3, <3>1
    <3> QED
      BY <3>2 DEF InPool
  <2>3. \A x \in results' : x \in results \/ x.tx = Head(pool[w])
    BY <1>3 DEF ResultOf
  <2> QED
    BY <1>3, <2>1, <2>2, <2>3
<1>4. ASSUME NEW w \in Wallets, NEW t \in Txs(Requests),
             pool' = [pool EXCEPT ![w] = Append(pool[w], t)]
      PROVE  InPool(tx)' => InPool(tx) \/ tx = t
  <2>1. \A y : In(pool', y) => In(pool, y) \/ y = t
    <3>1. pool'[w] = Append(pool[w], t) /\ \A v \in Wallets : v # w => pool'[v] = pool[v]
      BY <1>0, <1>4 DEF Pools
    <3> QED
      BY <1>0, <3>1, GrownPools
  <2> QED
    BY <2>1, KnownIn
<1>5. CASE \E w \in Wallets :
              /\ pool' = [pool EXCEPT ![w] = Append(pool[w], ForeignTx)]
              /\ UNCHANGED <<results, limbo, disp, job>>
  BY <1>0, <1>4, <1>5
<1>6. CASE /\ NodeAdmits /\ disp.req \in Requests /\ disp.step = "broadcast"
           /\ \E w \in Wallets : pool' = [pool EXCEPT ![w] = Append(pool[w], Tx(disp.req))]
           /\ UNCHANGED <<results, limbo, job>>
  BY <1>4, <1>6, TxTypes
<1>7. CASE /\ AsyncSent /\ disp.req \in Requests /\ disp.step = "broadcast"
           /\ UNCHANGED <<pool, results, job>>
           /\ \/ UNCHANGED limbo
              \/ \E x : x.tx = Tx(disp.req) /\ limbo' = limbo \cup {x}
  <2>1. InPool(tx)' <=> InPool(tx)
    BY <1>7, KnownIn
  <2>2. \A x \in limbo' : x \in limbo \/ x.tx = Tx(disp.req)
    BY <1>7
  <2> QED
    BY <1>7, <2>1, <2>2
<1>8. ASSUME NEW x \in limbo, limbo' = limbo \ {x}, UNCHANGED results,
             \/ UNCHANGED pool
             \/ \E w \in Wallets : pool' = [pool EXCEPT ![w] = Append(pool[w], x.tx)]
      PROVE  (Known(tx)' => Known(tx)) /\ (Live(tx)' => Live(tx))
  <2>1. x.tx \in Txs(Requests)
    BY <1>0 DEF LimboType
  <2>2. InPool(tx)' => InPool(tx) \/ tx = x.tx
    BY <1>4, <1>8, <2>1, KnownIn
  <2> QED
    BY <1>8, <2>2
<1> QED
  BY <1>1, <1>2, <1>3, <1>5, <1>6, <1>7, <1>8, TxMoves

LEMMA KnownOnceStep ==
  ASSUME Shape, UnsentUnknown, KnownOnce, [Next]_vars
  PROVE  KnownOnce'
<1> USE DEF InLimbo
<1>0. /\ pool \in Pools /\ pool' \in Pools /\ results \subseteq [tx : Txs(Requests),
                                                 res : {"ok", "failed", "mismatch"}]
      /\ limbo \subseteq LimboType /\ ForeignTx \in Txs(Requests) /\ ~Mine(ForeignTx)
  <2>1. pool \in Pools /\ limbo \subseteq LimboType
        /\ results \subseteq [tx : Txs(Requests), res : {"ok", "failed", "mismatch"}]
    BY DEF Shape, TypeOK, ChainTypeOK, Pools, LimboType
  <2>2. pool' \in Pools
    BY ChainTypes DEF ChainTypeOK, Pools
  <2>3. ForeignTx \in Txs(Requests) /\ ~Mine(ForeignTx)
    BY RequestsAreNumbers DEF ForeignTx, Txs, Mine
  <2> QED
    BY <2>1, <2>2, <2>3
<1>1. CASE UNCHANGED <<pool, results, limbo>>
  BY <1>1 DEF KnownOnce
<1>2. ASSUME NEW w \in Wallets, NEW d \in 0 .. 1, Cut(pool, pool', w, d),
             UNCHANGED <<results, limbo>>
      PROVE  KnownOnce'
  <2>1. PoolOnce(pool') /\ \A tx : In(pool', tx) => In(pool, tx)
    BY <1>0, <1>2, CutPools DEF KnownOnce
  <2> QED
    BY <1>2, <2>1 DEF KnownOnce
<1>3. ASSUME NEW w \in Wallets, NEW res, Cut(pool, pool', w, 1), pool[w] # <<>>,
             results' = results \cup {ResultOf(Head(pool[w]), res)}, UNCHANGED limbo
      PROVE  KnownOnce'
  <2> DEFINE tx == Head(pool[w])
  <2>1. PoolOnce(pool') /\ \A y : In(pool', y) => In(pool, y)
    BY <1>0, <1>3, CutPools DEF KnownOnce
  <2>2. Mine(tx) => ~In(pool', tx)
    BY <1>0, <1>3, CutPools DEF KnownOnce
  <2>3. In(pool, tx)
    <3>1. pool[w] \in Seq(Txs(Requests))
      BY <1>0 DEF Pools
    <3>2. 1 \in DOMAIN pool[w] /\ Head(pool[w]) = pool[w][1]
      BY <1>3, <3>1
    <3> QED
      BY <3>2 DEF In
  <2>4. \A x \in results' : x \in results \/ x = ResultOf(tx, res)
    BY <1>3
  <2>5. ResultOf(tx, res).tx = tx
    BY DEF ResultOf
  <2> HIDE DEF tx
  <2>6. \A x, y \in results' : Mine(x.tx) /\ x.tx = y.tx => x = y
    BY <2>3, <2>4, <2>5 DEF KnownOnce
  <2>7. \A x \in results' : Mine(x.tx) => ~In(pool', x.tx) /\ ~InLimbo(x.tx)
    BY <2>1, <2>2, <2>3, <2>4, <2>5 DEF KnownOnce
  <2>8. \A x \in limbo : ~In(pool', x.tx)
    BY <2>1 DEF KnownOnce
  <2> QED
    BY <1>3, <2>1, <2>6, <2>7, <2>8 DEF KnownOnce
<1>4. ASSUME NEW w \in Wallets, NEW t \in Txs(Requests),
             pool' = [pool EXCEPT ![w] = Append(pool[w], t)]
      PROVE  /\ \A y : In(pool', y) => In(pool, y) \/ y = t
             /\ PoolOnce(pool) /\ (~In(pool, t) \/ ~Mine(t)) => PoolOnce(pool')
  <2>1. pool'[w] = Append(pool[w], t) /\ \A v \in Wallets : v # w => pool'[v] = pool[v]
    BY <1>0, <1>4 DEF Pools
  <2> QED
    BY <1>0, <2>1, GrownPools
<1>5. CASE \E w \in Wallets :
              /\ pool' = [pool EXCEPT ![w] = Append(pool[w], ForeignTx)]
              /\ UNCHANGED <<results, limbo, disp, job>>
  <2>1. /\ \A y : In(pool', y) => In(pool, y) \/ y = ForeignTx
        /\ PoolOnce(pool')
    BY <1>0, <1>4, <1>5 DEF KnownOnce
  <2> QED
    BY <1>0, <1>5, <2>1 DEF KnownOnce
<1>6. ASSUME disp.step = "broadcast"
      PROVE  ~Known(Tx(disp.req))
  <2>1. disp.req \in Requests
    BY <1>6 DEF Shape, DispShape, Idle
  <2> QED
    BY <1>6, <2>1 DEF UnsentUnknown, Unsent
<1>7. CASE /\ NodeAdmits /\ disp.req \in Requests /\ disp.step = "broadcast"
           /\ \E w \in Wallets : pool' = [pool EXCEPT ![w] = Append(pool[w], Tx(disp.req))]
           /\ UNCHANGED <<results, limbo, job>>
  <2> DEFINE tx == Tx(disp.req)
  <2>1. tx \in Txs(Requests) /\ ~Known(tx)
    BY <1>6, <1>7, TxTypes
  <2>2. ~In(pool, tx) /\ ~InLimbo(tx) /\ ~InBlock(tx)
    BY <2>1, KnownIn DEF Known
  <2>3. (\A y : In(pool', y) => In(pool, y) \/ y = tx) /\ PoolOnce(pool')
    BY <1>4, <1>7, <2>1, <2>2 DEF KnownOnce
  <2> HIDE DEF tx
  <2> QED
    BY <1>7, <2>2, <2>3 DEF KnownOnce, InBlock
<1>8. CASE /\ AsyncSent /\ disp.req \in Requests /\ disp.step = "broadcast"
           /\ UNCHANGED <<pool, results, job>>
           /\ \/ UNCHANGED limbo
              \/ \E x : x.tx = Tx(disp.req) /\ limbo' = limbo \cup {x}
  <2>1. CASE UNCHANGED limbo
    BY <1>8, <2>1 DEF KnownOnce
  <2>2. ASSUME NEW z, z.tx = Tx(disp.req), limbo' = limbo \cup {z}
        PROVE  KnownOnce'
    <3>1. ~In(pool, z.tx) /\ ~InLimbo(z.tx) /\ ~InBlock(z.tx)
      BY <1>6, <1>8, <2>2, KnownIn DEF Known
    <3>2. Mine(z.tx)
      BY <1>8, <2>2 DEF Mine, Tx
    <3>3. UNCHANGED <<pool, results>>
      BY <1>8
    <3>4. \A x, y \in limbo' : x.tx = y.tx => x = y
      BY <2>2, <3>1 DEF KnownOnce
    <3>5. \A x \in limbo' : Mine(x.tx) /\ ~In(pool, x.tx)
      BY <2>2, <3>1, <3>2 DEF KnownOnce
    <3>6. \A x \in results : Mine(x.tx) => ~\E y \in limbo' : y.tx = x.tx
      BY <2>2, <3>1 DEF KnownOnce, InBlock
    <3> QED
      BY <3>3, <3>4, <3>5, <3>6 DEF KnownOnce
  <2> QED
    BY <1>8, <2>1, <2>2
<1>9. ASSUME NEW z \in limbo, limbo' = limbo \ {z}, UNCHANGED results,
             \/ UNCHANGED pool
             \/ \E w \in Wallets : pool' = [pool EXCEPT ![w] = Append(pool[w], z.tx)]
      PROVE  KnownOnce'
  <2>1. z.tx \in Txs(Requests) /\ Mine(z.tx) /\ ~In(pool, z.tx)
    BY <1>0 DEF LimboType, KnownOnce
  <2>2. (\A y : In(pool', y) => In(pool, y) \/ y = z.tx) /\ PoolOnce(pool')
    BY <1>4, <1>9, <2>1 DEF KnownOnce
  <2>3. \A x \in limbo' : x \in limbo /\ x.tx # z.tx
    BY <1>9 DEF KnownOnce
  <2>4. \A x \in results : Mine(x.tx) => x.tx # z.tx
    BY DEF KnownOnce
  <2> QED
    BY <1>9, <2>2, <2>3, <2>4 DEF KnownOnce
<1> QED
  BY <1>1, <1>2, <1>3, <1>5, <1>7, <1>8, <1>9, TxMoves

-----------------------------------------------------------------------------
(* A request rejected for its sequence number is done with. *)

\* How promises come to be resolved or rejected for a sequence number.
LEMMA Verdicts ==
  ASSUME Shape, [Next]_vars, NEW q \in Requests, promise'[q] # promise[q]
  PROVE  /\ promise'[q] = "resolved" =>
              /\ DispatchSucceeds \/ MergeReloaded
              /\ q = disp.req /\ promise[q] = "pending"
              /\ disp' = Idle /\ Settled(disp.req, "resolved")
         /\ promise'[q] = "rejectedForNonce" =>
              /\ DispatchFails /\ disp.step = "mismatch" /\ disp.req \in Requests
              /\ promise[disp.req] = "pending" /\ disp' = Idle
              /\ q = disp.req \/ Waits(q, disp.req)
<1> SUFFICES ASSUME promise'[q] \in {"resolved", "rejectedForNonce"}
             PROVE  \/ /\ promise'[q] = "resolved"
                       /\ DispatchSucceeds \/ MergeReloaded
                       /\ q = disp.req /\ promise[q] = "pending"
                       /\ disp' = Idle /\ Settled(disp.req, "resolved")
                    \/ /\ promise'[q] = "rejectedForNonce"
                       /\ DispatchFails /\ disp.step = "mismatch" /\ disp.req \in Requests
                       /\ promise[disp.req] = "pending" /\ disp' = Idle
                       /\ q = disp.req \/ Waits(q, disp.req)
  OBVIOUS
<1>1. promise \in [Requests -> Promises]
  BY DEF Shape, TypeOK, Promises
<1>2. ASSUME NEW r \in Requests, Settled(r, "rejected") PROVE FALSE
  BY <1>2, SettledPromises
<1>3. ~\E r \in Requests : Submit(r)
  BY <1>1, SubmitIsOwn, OwnAndItsMerges DEF Submit
<1>4. ~\E m \in Merges : MergeStep(m)
  BY <1>1, MergesOfCallers, RequestsAreNumbers
  DEF MergeStep, MergeFollowed, MergeFollowFails
<1>5. ~SignBegins
  BY <1>1, <1>2, SignBeginsOn
<1>6. ~SignReturns
  <2>1. SignReturns => UNCHANGED promise \/ (sign.req \in Requests /\ Settled(sign.req, "rejected"))
    BY DEF SignReturns, Shape, SignShape, Idle
  <2> QED
    BY <1>2, <2>1
<1>7. CASE DispatchSucceeds \/ MergeReloaded
  <2>1. disp.req \in Requests
    <3>1. disp.step # "idle"
      BY <1>7 DEF DispatchSucceeds, MergeReloaded
    <3> QED
      BY <3>1 DEF Shape, DispShape, Idle
  <2>2. disp' = Idle /\ Settled(disp.req, "resolved")
    BY <1>7 DEF DispatchSucceeds, MergeReloaded
  <2> QED
    BY <1>7, <2>1, <2>2, SettledPromises
<1>8. CASE DispatchFails
  <2>1. disp.req \in Requests
    <3>1. disp.step # "idle"
      BY <1>8 DEF DispatchFails
    <3> QED
      BY <3>1 DEF Shape, DispShape, Idle
  <2>2. disp.step = "mismatch" /\ Settled(disp.req, "rejectedForNonce") /\ disp' = Idle
    <3>1. /\ disp' = Idle
          /\ \/ disp.step = "failed" /\ Settled(disp.req, "rejected")
             \/ disp.step = "mismatch" /\ Settled(disp.req, "rejectedForNonce")
             \/ UNCHANGED promise
      BY <1>8 DEF DispatchFails
    <3> QED
      BY <1>2, <2>1, <3>1
  <2> QED
    BY <1>8, <2>1, <2>2, SettledPromises
<1> QED
  BY <1>3, <1>4, <1>5, <1>6, <1>7, <1>8, Writers

\* What dispatchTx() has in hand stays there until it is done with.
LEMMA DispMoves ==
  ASSUME Shape, [Next]_vars, disp.req \in Requests
  PROVE  /\ \/ UNCHANGED disp
            \/ disp'.req = disp.req /\ disp'.step # "broadcast"
            \/ disp' = Idle
         /\ NodeAdmits \/ AsyncSent => disp'.req = disp.req /\ disp'.step # "broadcast"
<1>1. disp \in StageType /\ disp # Idle
  BY RequestsAreNumbers DEF Shape, TypeOK, StageType, Idle
<1>2. ASSUME NEW step, Goes(step)
      PROVE  disp'.req = disp.req /\ disp'.step = step
  BY <1>1, <1>2 DEF Goes, StageType
<1>3. ASSUME NodeAdmits \/ AsyncSent
      PROVE  disp'.req = disp.req /\ disp'.step # "broadcast"
  <2>1. \E step \in {"polling", "succeeded", "failed"} : Goes(step)
    BY <1>3 DEF NodeAdmits, AsyncSent, AfterError
  <2> QED
    BY <1>2, <2>1
<1> DEFINE Moved == \/ UNCHANGED disp
                    \/ disp'.req = disp.req /\ disp'.step # "broadcast"
                    \/ disp' = Idle
<1>4. CASE DispatchBegins
  BY <1>1, <1>4 DEF DispatchBegins
<1>5. ASSUME NodeRefuses \/ PollFinds \/ PollTimesOut \/ MergeReloadFails \/ RetryBegins
      PROVE  Moved
  <2>1. \E step : step # "broadcast" /\ Goes(step)
    BY <1>5 DEF NodeRefuses, PollFinds, PollTimesOut, MergeReloadFails, RetryBegins,
       AfterError, Delivered
  <2> QED
    BY <1>2, <2>1
<1>6. ASSUME DispatchSucceeds PROVE Moved
  <2>1. disp' = Idle \/ \E step : step # "broadcast" /\ Goes(step)
    BY <1>6 DEF DispatchSucceeds, AfterError
  <2> QED
    BY <1>2, <2>1
<1>7. ASSUME DispatchFails \/ MergeReloaded \/ RetryQueued \/ RetryAbandoned
      PROVE  Moved
  BY <1>7 DEF DispatchFails, MergeReloaded, RetryQueued, RetryAbandoned
<1>8. Moved
  BY <1>3, <1>4, <1>5, <1>6, <1>7, Writers DEF DispatchStep
<1> QED
  BY <1>3, <1>8

\* Only a retry makes a request one that has not been sent.
LEMMA UnsentStep ==
  ASSUME Shape, Places, [Next]_vars, NEW r \in Requests, Unsent(r)'
  PROVE  \/ /\ Unsent(r) /\ job'[r].reattempts = job[r].reattempts
            /\ ~(disp.req = r /\ (NodeAdmits \/ AsyncSent))
         \/ RetryQueued /\ r = disp.req /\ job'[r].reattempts = job[r].reattempts + 1
<1>1. CASE RetryQueued /\ r = disp.req /\ job'[r].reattempts = job[r].reattempts + 1
  BY <1>1
<1>2. CASE job'[r].reattempts = job[r].reattempts
  <2>0. ~RetryQueued \/ r # disp.req
    <3>1. job \in [Requests -> Jobs]
      BY DEF Shape, TypeOK, Jobs
    <3>2. RetryQueued /\ r = disp.req => job'[r].reattempts = job[r].reattempts + 1
      BY <3>1 DEF RetryQueued, Jobs
    <3>3. job[r].reattempts \in 0 .. 1
      BY DEF Shape, TypeOK
    <3> QED
      BY <1>2, <3>2, <3>3
  <2>1. CASE NotYet(r)
    <3>1. ~Placed(r)
      BY <2>1 DEF Places, NotYetPlaced
    <3> QED
      BY <1>2, <2>1, <3>1 DEF Unsent, Placed
  <2>2. CASE ~NotYet(r)
    <3>1. ~NotYet(r)'
      BY <2>2, NotYetBefore
    <3>2. Placed(r)' /\ (disp'.req = r => disp'.step = "broadcast")
      <4>1. OnePlace'
        BY OnePlaceStep
      <4> QED
        BY <3>1, <4>1 DEF Unsent, Placed, OnePlace
    <3>3. Placed(r)
      BY <2>2, <3>2, PlacedStep
    <3>4. CASE disp.req # r
      BY <1>2, <3>3, <3>4 DEF Placed, Unsent
    <3>5. CASE disp.req = r
      <4>1. CASE UNCHANGED disp
        BY <1>2, <3>2, <3>5, <4>1, DispMoves DEF Unsent
      <4>2. CASE disp'.req = disp.req /\ disp'.step # "broadcast"
        BY <3>2, <3>5, <4>2
      <4>3. CASE disp' = Idle
        <5>1. ~Queued(signQ, r) /\ ~Queued(dispQ, r) /\ ~Signing(r)
          BY <3>5 DEF Places, OnePlace
        <5>2. disp # Idle /\ disp'.req # disp.req
          BY <3>5, <4>3, RequestsAreNumbers DEF Idle
        <5>3. ~RetryQueued
          BY <2>0, <3>5
        <5>4. /\ DispatchSucceeds \/ MergeReloaded \/ RetryAbandoned \/ DispatchFails
              /\ UNCHANGED <<signQ, dispQ, sign>>
          <6>1. ~NoneMoves
            BY <5>2 DEF NoneMoves
          <6> QED
            BY <5>2, <5>3, <6>1, Moves
        <5> QED
          BY <3>2, <4>3, <5>1, <5>2, <5>4, <3>5 DEF Placed, Signing
      <4> QED
        BY <3>5, <4>1, <4>2, <4>3, DispMoves
    <3> QED
      BY <3>4, <3>5
  <2> QED
    BY <2>1, <2>2
<1> QED
  BY <1>1, <1>2, AttemptsStay

LEMMA TriesStep ==
  ASSUME Shape, Places, TriesUpToNow, UnsentUnknown, [Next]_vars
  PROVE  TriesUpToNow' /\ UnsentUnknown'
<1>0. \A r \in Requests : job[r].reattempts \in Nat /\ job'[r].reattempts \in Nat
  <2>1. job \in [Requests -> Jobs]
    BY DEF Shape, TypeOK, Jobs
  <2>2. job' \in [Requests -> Jobs]
    BY JobTypes
  <2> QED
    BY <2>1, <2>2 DEF Jobs
<1>1. ASSUME NEW r \in Requests, NEW t \in Nat, t > job'[r].reattempts
      PROVE  ~Known([req |-> r, try |-> t])'
  <2>1. t > job[r].reattempts
    BY <1>0, <1>1, AttemptsStay
  <2> DEFINE tx == [req |-> r, try |-> t]
  <2>2. tx = Tx(disp.req) => disp.req = r /\ t = job[r].reattempts
    BY DEF Tx
  <2>3. ~Known(tx) /\ tx.req = r
    BY <2>1 DEF TriesUpToNow
  <2> HIDE DEF tx
  <2>4. ~Known(tx)'
    BY <1>0, <2>1, <2>2, <2>3, KnownStep
  <2> QED
    BY <2>4 DEF tx
<1>2. ASSUME NEW r \in Requests, Unsent(r)'
      PROVE  \E tx : tx = [req |-> r, try |-> job'[r].reattempts] /\ ~Known(tx)'
  <2>1. PICK tx : tx = [req |-> r, try |-> job'[r].reattempts]
    OBVIOUS
  <2>2. tx.req = r
    BY <2>1
  <2>3. CASE /\ Unsent(r) /\ job'[r].reattempts = job[r].reattempts
             /\ ~(disp.req = r /\ (NodeAdmits \/ AsyncSent))
    <3>1. ~Known(tx)
      BY <2>1, <2>3 DEF UnsentUnknown, Tx
    <3>2. tx = Tx(disp.req) => disp.req = r
      BY <2>2 DEF Tx
    <3> QED
      BY <2>1, <2>2, <2>3, <3>1, <3>2, KnownStep
  <2>4. CASE RetryQueued /\ r = disp.req /\ job'[r].reattempts = job[r].reattempts + 1
    <3>1. ~Known(tx)
      BY <1>0, <2>1, <2>4 DEF TriesUpToNow
    <3>2. disp.step = "reload"
      BY <2>4 DEF RetryQueued
    <3> QED
      BY <2>1, <2>2, <3>1, <3>2, KnownStep
  <2> QED
    BY <1>2, <2>3, <2>4, UnsentStep
<1>3. UnsentUnknown'
  BY <1>2 DEF UnsentUnknown, Tx, Known, InBlock, InPool, InLimbo
<1> QED
  BY <1>1, <1>3 DEF TriesUpToNow

LEMMA LiveIsKnown == \A tx : Live(tx) => Known(tx)
  BY DEF Live, Known, InBlock

\* A transaction that dispatchTx() did not just send does not come to life.
LEMMA StaysDead ==
  ASSUME Shape, [Next]_vars, NEW r \in Requests, NEW t \in Nat,
         ~Live([req |-> r, try |-> t]),
         disp.req = r /\ disp.step = "broadcast" => t # job[r].reattempts
  PROVE  ~Live([req |-> r, try |-> t])'
<1> DEFINE tx == [req |-> r, try |-> t]
<1>1. tx = Tx(disp.req) => disp.req = r /\ t = job[r].reattempts
  BY DEF Tx
<1>2. ~Live(tx) /\ tx.req = r
  OBVIOUS
<1> HIDE DEF tx
<1>3. ~Live(tx)'
  BY <1>1, <1>2, KnownStep
<1> QED
  BY <1>3 DEF tx

\* A mismatch means that the transaction is dead, and the next one is not
\* made before its sequence has been refused.
LEMMA OldTriesStep ==
  ASSUME Shape, TriesUpToNow, OldTriesDead, MismatchIsDead, [Next]_vars
  PROVE  OldTriesDead'
<1> SUFFICES ASSUME NEW r \in Requests, NEW t \in Nat, t < job'[r].reattempts
             PROVE  ~Live([req |-> r, try |-> t])'
  BY DEF OldTriesDead
<1>0. job[r].reattempts \in Nat
  BY DEF Shape, TypeOK
<1>1. CASE t < job[r].reattempts
  <2>1. ~Live([req |-> r, try |-> t])
    BY <1>1 DEF OldTriesDead
  <2> QED
    BY <1>0, <1>1, <2>1, StaysDead
<1>2. CASE RetryQueued /\ r = disp.req /\ job'[r].reattempts = job[r].reattempts + 1
           /\ t = job[r].reattempts
  <2>1. disp.step = "reload"
    BY <1>2 DEF RetryQueued
  <2>2. ~Live([req |-> r, try |-> t])
    BY <1>2, <2>1 DEF MismatchIsDead, Tx
  <2> QED
    BY <2>1, <2>2, StaysDead
<1> QED
  BY <1>0, <1>1, <1>2, AttemptsStay

\* What dispatchTx() takes for a mismatch is one.
LEMMA MismatchComes ==
  ASSUME Shape, UnsentUnknown, KnownOnce, MismatchIsDead, [Next]_vars,
         disp'.step \in {"mismatch", "reload"}
  PROVE  /\ disp.req \in Requests /\ disp'.req = disp.req
         /\ ~Live(Tx(disp.req)) /\ (disp.step = "broadcast" => UNCHANGED <<pool, results, limbo>>)
<1> DEFINE Goal == /\ disp.req \in Requests /\ disp'.req = disp.req
                   /\ ~Live(Tx(disp.req))
                   /\ disp.step = "broadcast" => UNCHANGED <<pool, results, limbo>>
<1>0. /\ disp \in StageType /\ Idle.step = "idle"
      /\ disp.step # "idle" => disp.req \in Requests
  BY DEF Shape, TypeOK, StageType, DispShape, Idle
<1>1. ASSUME NEW step, Goes(step)
      PROVE  disp'.req = disp.req /\ disp'.step = step
  BY <1>0, <1>1 DEF Goes, StageType
<1>2. CASE UNCHANGED disp
  BY <1>0, <1>2 DEF MismatchIsDead
<1>3. CASE NodeRefuses
  <2>1. disp.step = "broadcast" /\ UNCHANGED <<pool, results, limbo>>
    BY <1>3 DEF NodeRefuses, Rest
  <2>2. disp.req \in Requests /\ Unsent(disp.req)
    BY <1>0, <2>1 DEF Unsent
  <2>3. ~Known(Tx(disp.req))
    BY <2>2 DEF UnsentUnknown
  <2>4. disp'.req = disp.req
    BY <1>1, <1>3 DEF NodeRefuses
  <2> QED
    BY <2>1, <2>2, <2>3, <2>4, LiveIsKnown
<1>4. CASE PollFinds
  <2>1. PICK x \in results : x.tx = Tx(disp.req) /\ Goes(Delivered(x.res))
    BY <1>4 DEF PollFinds
  <2>2. disp.step = "polling"
    BY <1>4 DEF PollFinds
  <2>3. x.res = "mismatch"
    BY <1>1, <2>1 DEF Delivered, AfterError
  <2>4. disp.req \in Requests /\ Mine(x.tx)
    BY <1>0, <2>1, <2>2 DEF Mine, Tx
  <2>5. ~In(pool, x.tx) /\ ~InLimbo(x.tx)
    BY <2>4 DEF KnownOnce
  <2>6. \A y \in results : y.tx = x.tx => y = x
    BY <2>4 DEF KnownOnce
  <2>7. ~Live(x.tx)
    BY <2>3, <2>5, <2>6, KnownIn DEF Live
  <2> QED
    BY <1>1, <2>1, <2>2, <2>4, <2>7
<1>5. CASE RetryBegins
  <2>1. disp.step = "mismatch" /\ disp'.req = disp.req
    BY <1>1, <1>5 DEF RetryBegins
  <2> QED
    BY <1>0, <2>1 DEF MismatchIsDead
<1>6. ASSUME DispatchBegins \/ NodeAdmits \/ AsyncSent \/ PollTimesOut \/ DispatchSucceeds
             \/ DispatchFails \/ MergeReloaded \/ MergeReloadFails
             \/ RetryQueued \/ RetryAbandoned
      PROVE  UNCHANGED disp
  <2>1. \/ disp' = Idle \/ UNCHANGED disp
        \/ disp' = [Idle EXCEPT !.req = Head(dispQ), !.step = "broadcast"]
        \/ \E step : step \notin {"mismatch", "reload"} /\ Goes(step)
    BY <1>6 DEF DispatchBegins, NodeAdmits, AsyncSent, PollTimesOut, DispatchSucceeds,
       DispatchFails, MergeReloaded, MergeReloadFails, RetryQueued, RetryAbandoned, AfterError
  <2>2. CASE disp' = [Idle EXCEPT !.req = Head(dispQ), !.step = "broadcast"]
    BY <2>2 DEF Idle
  <2> QED
    BY <1>0, <1>1, <2>1, <2>2
<1> QED
  BY <1>2, <1>3, <1>4, <1>5, <1>6, Writers DEF DispatchStep

LEMMA MismatchStep ==
  ASSUME Shape, UnsentUnknown, KnownOnce, MismatchIsDead, [Next]_vars
  PROVE  MismatchIsDead'
<1> SUFFICES ASSUME disp'.step \in {"mismatch", "reload"}
             PROVE  \E tx : /\ tx = [req |-> disp'.req, try |-> job'[disp'.req].reattempts]
                            /\ ~Live(tx)'
  BY DEF MismatchIsDead, Tx, Live, InPool, InLimbo
<1>1. PICK r \in Requests : r = disp.req
  BY MismatchComes
<1>2. disp'.req = r /\ ~Live(Tx(r))
  BY <1>1, MismatchComes
<1>3. job[r].reattempts \in Nat
  BY DEF Shape, TypeOK
<1>4. job'[r].reattempts = job[r].reattempts
  <2>1. RetryQueued => disp' = Idle
    BY DEF RetryQueued
  <2> QED
    BY <2>1, AttemptsStay DEF Idle
<1>5. PICK tx : tx = [req |-> r, try |-> job[r].reattempts]
  OBVIOUS
<1>6. ~Live(tx) /\ tx.req \in Requests
  BY <1>2, <1>5 DEF Tx
<1>7. ~Live(tx)'
  <2>1. CASE disp.step = "broadcast"
    <3>1. UNCHANGED <<pool, results, limbo>>
      BY <2>1, MismatchComes
    <3> QED
      BY <1>6, <3>1 DEF Live, InPool, InLimbo
  <2>2. CASE disp.step # "broadcast"
    BY <1>6, <2>2, KnownStep
  <2> QED
    BY <2>1, <2>2
<1> QED
  BY <1>2, <1>4, <1>5, <1>7

LEMMA NonceRejectedStep ==
  ASSUME Shape, Places, UnsentUnknown, MismatchIsDead, NonceRejected, [Next]_vars
  PROVE  NonceRejected'
<1> SUFFICES ASSUME NEW r \in Requests, promise'[r] = "rejectedForNonce"
             PROVE  /\ ~Placed(r)'
                    /\ \E tx : /\ tx = [req |-> r, try |-> job'[r].reattempts]
                               /\ ~Live(tx)'
  BY DEF NonceRejected, Tx, Live, InPool, InLimbo
<1>1. job[r].reattempts \in Nat
  BY DEF Shape, TypeOK
<1>2. /\ ~Live(Tx(r)) /\ (disp.req = r => disp.step # "broadcast")
      /\ ~Placed(r)' /\ (RetryQueued => disp.req # r)
  <2>1. CASE promise[r] = "rejectedForNonce"
    <3>1. ~Live(Tx(r)) /\ ~Placed(r)
      BY <2>1 DEF NonceRejected
    <3>2. ~NotYet(r)
      BY <2>1 DEF NotYet
    <3>3. ~Placed(r)'
      BY <3>1, <3>2, PlacedStep
    <3> QED
      BY <3>1, <3>3 DEF Placed
  <2>2. CASE promise[r] # "rejectedForNonce"
    <3>1. /\ DispatchFails /\ disp.step = "mismatch" /\ disp.req \in Requests /\ disp' = Idle
          /\ r = disp.req \/ Waits(r, disp.req)
      BY <2>2, Verdicts
    <3>2. ~RetryQueued
      BY <3>1 DEF RetryQueued
    <3>3. CASE r = disp.req
      <4>1. ~Live(Tx(r))
        BY <3>1, <3>3 DEF MismatchIsDead
      <4>2. ~Queued(signQ, r) /\ ~Queued(dispQ, r) /\ ~Signing(r)
        BY <3>3 DEF Places, OnePlace
      <4>3. UNCHANGED <<signQ, dispQ, sign>> /\ disp'.req = None
        BY <3>1 DEF DispatchFails, Idle
      <4>4. ~Placed(r)'
        BY <4>2, <4>3, RequestsAreNumbers DEF Placed, Signing
      <4> QED
        BY <3>1, <3>2, <4>1, <4>4
    <3>4. CASE Waits(r, disp.req)
      <4>1. NotYet(r) /\ promise'[r] # "pending"
        BY <3>4 DEF Waits, NotYet
      <4>2. ~Placed(r) /\ ~Known(Tx(r))
        BY <4>1 DEF Places, NotYetPlaced, UnsentUnknown, Unsent
      <4>3. ~Placed(r)'
        BY <4>1, <4>2, PlacedStep
      <4> QED
        BY <3>1, <3>2, <4>2, <4>3, LiveIsKnown
    <3> QED
      BY <3>1, <3>3, <3>4
  <2> QED
    BY <2>1, <2>2
<1>3. job'[r].reattempts = job[r].reattempts
  BY <1>2, AttemptsStay
<1>4. PICK tx : tx = [req |-> r, try |-> job[r].reattempts]
  OBVIOUS
<1>5. ~Live(tx) /\ tx.req = r /\ tx = Tx(r)
  BY <1>2, <1>4 DEF Tx
<1>6. tx = Tx(disp.req) => disp.req = r
  BY <1>5 DEF Tx
<1>7. ~Live(tx)'
  BY <1>2, <1>5, <1>6, KnownStep
<1> QED
  BY <1>2, <1>3, <1>4, <1>7

\* What there is to know about the transactions of requests.
Sends == /\ TriesUpToNow /\ UnsentUnknown /\ OldTriesDead
         /\ MismatchIsDead /\ NonceRejected /\ KnownOnce

LEMMA SendsInit == Init => Sends
<1> SUFFICES ASSUME Init PROVE Sends
  OBVIOUS
<1>1. /\ pool = [w \in Wallets |-> <<>>] /\ results = {} /\ limbo = {}
      /\ disp.step = "idle" /\ \A r \in Requests : promise[r] = "none"
  BY DEF Init, ChainInit, Idle
<1>2. \A tx : ~In(pool, tx)
  BY <1>1 DEF In
<1>3. \A tx : ~Known(tx) /\ ~Live(tx)
  BY <1>1, <1>2, KnownIn DEF Known, Live, InBlock, InLimbo
<1>4. KnownOnce
  BY <1>1 DEF KnownOnce, PoolOnce
<1> QED
  BY <1>1, <1>3, <1>4
  DEF Sends, TriesUpToNow, UnsentUnknown, OldTriesDead, MismatchIsDead, NonceRejected

LEMMA SendsStep ==
  ASSUME Shape, Places, Sends, [Next]_vars
  PROVE  Sends'
  BY TriesStep, OldTriesStep, MismatchStep, NonceRejectedStep, KnownOnceStep DEF Sends

\* A transaction that is not the request's present one has no consequences.
LEMMA OnlyPresentTry ==
  ASSUME Shape, Sends, NEW r \in Requests, NEW t \in Nat, Live([req |-> r, try |-> t])
  PROVE  t = job[r].reattempts
<1>1. job[r].reattempts \in Nat
  BY DEF Shape, TypeOK
<1>2. ~(t < job[r].reattempts)
  BY DEF Sends, OldTriesDead
<1>3. ~(t > job[r].reattempts)
  BY LiveIsKnown DEF Sends, TriesUpToNow
<1> QED
  BY <1>1, <1>2, <1>3

\* NonceRejectionIsFinal: when dispatchTx() rejects a promise for its sequence
\* number, neither the SDK nor the node has a transaction of the request left,
\* so that its caller may submit the messages again without doing them twice.
THEOREM NonceRejectionFinal == Spec => []NonceRejectionIsFinal
<1>1. Shape /\ Places /\ Sends => NonceRejectionIsFinal
  <2> SUFFICES ASSUME Shape, Places, Sends, NEW r \in Requests,
                      promise[r] = "rejectedForNonce"
               PROVE  LiveTries(r) = {} /\ ~InHand(r)
    BY DEF NonceRejectionIsFinal
  <2>1. ~Live(Tx(r)) /\ ~Placed(r)
    BY DEF Sends, NonceRejected
  <2>2. ASSUME NEW t \in 0 .. 1, Live([req |-> r, try |-> t]) PROVE FALSE
    <3>1. t = job[r].reattempts
      BY <2>2, OnlyPresentTry
    <3> QED
      BY <2>1, <2>2, <3>1 DEF Tx
  <2>3. LiveTries(r) = {}
    BY <2>2 DEF LiveTries, Live, InLimbo
  <2> QED
    BY <2>1, <2>3, PlacedIsInHand
<1>2. Shape /\ Places /\ Sends /\ [Next]_vars => (Shape /\ Places /\ Sends)'
  BY ShapeStep, PlacesStep, SendsStep
<1> QED
  BY <1>1, <1>2, ShapeInit, PlacesInit, SendsInit, PTL DEF Spec

-----------------------------------------------------------------------------
(* Results, and what a merge has to do with them. *)

LEMMA ResultsGrow ==
  ASSUME Shape, [Next]_vars
  PROVE  results \subseteq results'
  BY TxMoves

LEMMA MergesStayOnChain ==
  ASSUME Shape, [Next]_vars
  PROVE  /\ \A w : MergedOnChain(w) => MergedOnChain(w)'
         /\ \A r : Executed(r) => Executed(r)'
         /\ \A r : IsMerge(r)' <=> IsMerge(r)
         /\ \A r : Author(r)' = Author(r)
<1>1. scenario' = scenario /\ results \subseteq results'
  BY ScenarioStays, ResultsGrow
<1>2. \A r : IsMerge(r)' <=> IsMerge(r)
  BY <1>1 DEF IsMerge
<1>3. \A r : Author(r)' = Author(r)
  BY <1>1 DEF Author
<1>4. \A r : Executed(r) => Executed(r)'
  BY <1>1 DEF Executed
<1>5. \A w : MergedOnChain(w) => MergedOnChain(w)'
  BY <1>1 DEF MergedOnChain, IsMerge, Author
<1> QED
  BY <1>2, <1>3, <1>4, <1>5

\* dispatchTx() takes for a success, in block mode, only what it has found
\* executed.
LEMMA SucceededComes ==
  ASSUME Shape, SucceededIsExecuted, [Next]_vars,
         disp'.step \in {"succeeded", "merge"}, Mode(disp'.req) = "block"
  PROVE  /\ disp.req \in Requests /\ disp'.req = disp.req
         /\ ResultOf(Tx(disp.req), "ok") \in results
<1>0. /\ disp \in StageType /\ Idle.step = "idle"
      /\ disp.step # "idle" => disp.req \in Requests
      /\ results \subseteq [tx : Txs(Requests), res : {"ok", "failed", "mismatch"}]
  BY DEF Shape, TypeOK, ChainTypeOK, StageType, DispShape, Idle
<1>1. ASSUME NEW step, Goes(step)
      PROVE  disp'.req = disp.req /\ disp'.step = step
  BY <1>0, <1>1 DEF Goes, StageType
<1>2. CASE UNCHANGED disp
  BY <1>0, <1>2 DEF SucceededIsExecuted
<1>3. ASSUME NodeAdmits \/ AsyncSent PROVE FALSE
  <2>1. CASE NodeAdmits
    <3>1. /\ Goes(IF Mode(disp.req) = "block" THEN "polling" ELSE "succeeded")
             \/ Goes("failed")
      BY <2>1 DEF NodeAdmits, AfterError
    <3> QED
      BY <1>1, <3>1
  <2>2. CASE AsyncSent
    <3>1. Mode(disp.req) = "async" /\ (Goes("succeeded") \/ Goes("failed"))
      BY <2>2 DEF AsyncSent, AfterError
    <3> QED
      BY <1>1, <3>1
  <2> QED
    BY <1>3, <2>1, <2>2
<1>4. CASE PollFinds
  <2>1. PICK x \in results : x.tx = Tx(disp.req) /\ Goes(Delivered(x.res))
    BY <1>4 DEF PollFinds
  <2>2. disp.step = "polling"
    BY <1>4 DEF PollFinds
  <2>3. x.res = "ok" /\ disp'.req = disp.req
    BY <1>1, <2>1 DEF Delivered, AfterError
  <2>4. x = [tx |-> x.tx, res |-> x.res]
    BY <1>0
  <2>5. x = ResultOf(Tx(disp.req), "ok")
    BY <2>1, <2>3, <2>4 DEF ResultOf
  <2> QED
    BY <1>0, <2>2, <2>3, <2>5
<1>5. CASE DispatchSucceeds
  <2>1. disp.step = "succeeded"
    BY <1>5 DEF DispatchSucceeds
  <2>2. disp' = Idle \/ \E step : Goes(step)
    BY <1>5 DEF DispatchSucceeds
  <2>3. disp'.req = disp.req
    BY <1>0, <1>1, <2>2
  <2> QED
    BY <1>0, <2>1, <2>3 DEF SucceededIsExecuted
<1>6. ASSUME DispatchBegins \/ NodeRefuses \/ PollTimesOut
             \/ DispatchFails \/ MergeReloaded \/ MergeReloadFails
             \/ RetryBegins \/ RetryQueued \/ RetryAbandoned
      PROVE  UNCHANGED disp
  <2>1. \/ disp' = Idle \/ UNCHANGED disp
        \/ disp' = [Idle EXCEPT !.req = Head(dispQ), !.step = "broadcast"]
        \/ \E step : step \notin {"succeeded", "merge"} /\ Goes(step)
    BY <1>6 DEF DispatchBegins, NodeRefuses, PollTimesOut, DispatchFails, MergeReloaded,
       MergeReloadFails, RetryBegins, RetryQueued, RetryAbandoned, AfterError
  <2>2. CASE disp' = [Idle EXCEPT !.req = Head(dispQ), !.step = "broadcast"]
    BY <2>2 DEF Idle
  <2> QED
    BY <1>0, <1>1, <2>1, <2>2
<1> QED
  BY <1>2, <1>3, <1>4, <1>5, <1>6, Writers DEF DispatchStep

LEMMA SucceededStep ==
  ASSUME Shape, SucceededIsExecuted, [Next]_vars
  PROVE  SucceededIsExecuted'
<1> SUFFICES ASSUME disp'.step \in {"succeeded", "merge"}, Mode(disp'.req) = "block"
             PROVE  ResultOf([req |-> disp'.req, try |-> job'[disp'.req].reattempts], "ok")
                      \in results'
  BY ScenarioStays DEF SucceededIsExecuted, Mode, Tx, ResultOf
<1>1. /\ disp.req \in Requests /\ disp'.req = disp.req
      /\ ResultOf(Tx(disp.req), "ok") \in results
  BY SucceededComes
<1>2. ~RetryQueued
  BY DEF RetryQueued, Idle
<1>3. job'[disp.req].reattempts = job[disp.req].reattempts
  BY <1>1, <1>2, AttemptsStay
<1>4. results \subseteq results'
  BY ResultsGrow
<1> QED
  BY <1>1, <1>3, <1>4 DEF Tx

LEMMA SucceededExecuted ==
  ASSUME Shape, SucceededIsExecuted, disp.step \in {"succeeded", "merge"},
         Mode(disp.req) = "block"
  PROVE  Executed(disp.req)
<1>1. ResultOf(Tx(disp.req), "ok") \in results
  BY DEF SucceededIsExecuted
<1>2. ResultOf(Tx(disp.req), "ok").tx.req = disp.req /\ ResultOf(Tx(disp.req), "ok").res = "ok"
  BY DEF ResultOf, Tx
<1> QED
  BY <1>1, <1>2 DEF Executed

AllBlocks == \A m \in Requests : Mode(m) = "block"

MergedIsMerged == \A w \in Wallets : merged[w] => MergedOnChain(w)

LEMMA AnsweredIsReload == \A a : Answered(a) => reload[a] # NoReload
  BY DEF Answered, NoReload

LEMMA ReturnedIsReload == \A a : Returned(a) => reload[a] # NoReload
<1> SUFFICES ASSUME NEW a, Returned(a)
             PROVE  reload[a] # NoReload
  OBVIOUS
<1>1. Answered(a) \/ reload[a].step = "missing"
  BY DEF Returned
<1>2. reload[a].step = "missing" => reload[a] # NoReload
  BY DEF NoReload
<1> QED
  BY <1>1, <1>2, AnsweredIsReload

\* Where the cached status comes from.
LEMMA StatusFrom ==
  ASSUME Shape, NEW a \in Actors, NEW anyway \in BOOLEAN, StatusAssigned(a, anyway),
         reload[a] # NoReload, NEW w \in Wallets, merged'[w]
  PROVE  merged[w] \/ (w = reload[a].wallet /\ (anyway \/ reload[a].step = "merged"))
<1>1. merged \in [Wallets -> BOOLEAN] /\ reload[a].wallet \in Wallets
  BY DEF Shape, TypeOK, ReloadShape
<1>2. merged' = [merged EXCEPT ![reload[a].wallet] = anyway \/ reload[a].step = "merged"]
  BY DEF StatusAssigned
<1>3. CASE w = reload[a].wallet
  <2>1. merged'[w] = (anyway \/ reload[a].step = "merged")
    BY <1>1, <1>2, <1>3
  <2> QED
    BY <1>3, <2>1
<1>4. CASE w # reload[a].wallet
  BY <1>1, <1>2, <1>4
<1> QED
  BY <1>3, <1>4

LEMMA MergedStep ==
  ASSUME Shape, SucceededIsExecuted, MergeFacts, AllBlocks, [Next]_vars
  PROVE  \A w \in Wallets : merged'[w] => MergedOnChain(w)
<1> SUFFICES ASSUME NEW w \in Wallets, merged'[w]
             PROVE  MergedOnChain(w)
  OBVIOUS
<1>0. merged \in [Wallets -> BOOLEAN] /\ reload \in [Actors -> ReloadType]
  BY DEF Shape, TypeOK, ReloadType
<1>1. merged[w] => MergedOnChain(w)
  BY DEF MergeFacts, AllBlocks
<1>2. ASSUME NEW a \in Actors, Returned(a)
      PROVE  MergedOnChain(w)
  <2> SUFFICES ASSUME ~UNCHANGED merged
               PROVE  MergedOnChain(w)
    BY <1>1
  <2>1. reload[a] # NoReload /\ StatusAssigned(a, FALSE)
    <3>1. Answered(a) /\ StatusAssigned(a, FALSE)
      BY <1>2 DEF Returned
    <3> QED
      BY <3>1, AnsweredIsReload
  <2>2. merged[w] \/ (w = reload[a].wallet /\ reload[a].step = "merged")
    BY <2>1, StatusFrom
  <2> QED
    BY <1>1, <2>2 DEF MergeFacts, AllBlocks
<1>3. CASE AppReloadEnds \/ Loaded \/ RetryQueued
  <2>1. UNCHANGED merged \/ \E a \in Actors : Returned(a)
    BY <1>3, ActorsDiffer DEF AppReloadEnds, Loaded, RetryQueued
  <2> QED
    BY <1>1, <1>2, <2>1
<1>4. CASE \E m \in Merges : MergeFollowed(m)
  BY <1>2, <1>4, ActorsDiffer DEF MergeFollowed
<1>5. CASE MergeReloaded
  <2>1. /\ disp.step = "merge" /\ reload[Dispatcher] # NoReload
        /\ StatusAssigned(Dispatcher, TRUE) /\ Dispatcher \in Actors
    <3>1. /\ disp.step = "merge" /\ Answered(Dispatcher)
          /\ StatusAssigned(Dispatcher, TRUE) /\ Dispatcher \in Actors
      BY <1>5, ActorsDiffer DEF MergeReloaded
    <3> QED
      BY <3>1, AnsweredIsReload
  <2>2. MergesSigner(disp.req) /\ reload[Dispatcher].wallet = job[disp.req].by
    BY <2>1 DEF MergeFacts, AllBlocks
  <2>3. disp.req \in Requests
    BY <2>1 DEF Shape, DispShape, Idle
  <2>4. Executed(disp.req)
    BY <2>1, <2>3, SucceededExecuted DEF AllBlocks
  <2>5. MergedOnChain(job[disp.req].by)
    BY <2>2, <2>3, <2>4 DEF MergesSigner, Executed, MergedOnChain
  <2>6. merged[w] \/ w = reload[Dispatcher].wallet
    BY <2>1, StatusFrom
  <2> QED
    BY <1>1, <2>2, <2>5, <2>6
<1>6. ASSUME NEW a \in Actors, AccountAssigned(a)
      PROVE  merged[w]
  <2>1. merged' = [merged EXCEPT ![reload[a].wallet] = FALSE]
    BY <1>6 DEF AccountAssigned
  <2> QED
    BY <1>0, <2>1
<1> QED
  BY <1>1, <1>3, <1>4, <1>5, <1>6, Writers

LEMMA StatusStep ==
  ASSUME Shape, MergeFacts, AllBlocks, [Next]_vars, NEW a \in Actors,
         reload'[a].step = "merged"
  PROVE  MergedOnChain(reload'[a].wallet)
<1>0. reload \in [Actors -> ReloadType]
  BY DEF Shape, TypeOK, ReloadType
<1>1. CASE reload'[a] = reload[a]
  BY <1>1 DEF MergeFacts, AllBlocks
<1>2. ASSUME NEW b \in Actors, ReloadStep(b), reload'[a] # reload[a]
      PROVE  MergedOnChain(reload'[a].wallet)
  <2>1. b = a /\ reload'[a].wallet = reload[a].wallet
    BY <1>2, ReloadStepKeeps
  <2>2. StatusQueried(a)
    BY <1>0, <1>2, <2>1 DEF ReloadStep, AccountQueried, AccountAssigned, ReloadType
  <2>3. reload'[a].step = IF MergedOnChain(reload[a].wallet) THEN "merged" ELSE "unmerged"
    BY <1>0, <2>2 DEF StatusQueried, ReloadType
  <2> QED
    BY <2>1, <2>3
<1>3. CASE AsksOrEnds /\ reload'[a] # reload[a]
  <2>1. reload'[a] = NoReload \/ \E w : reload'[a] = [step |-> "asked", wallet |-> w, seq |-> None]
    BY <1>3 DEF AsksOrEnds
  <2>2. reload'[a] = NoReload => reload'[a].step = "idle"
    BY DEF NoReload
  <2>3. ASSUME NEW w, reload'[a] = [step |-> "asked", wallet |-> w, seq |-> None]
        PROVE  reload'[a].step = "asked"
    BY <2>3
  <2> QED
    BY <2>1, <2>2, <2>3
<1> QED
  BY <1>1, <1>2, <1>3, ReloadsAskOrEnd

\* A caller's merge has been executed when its account is reloaded.
LEMMA FollowedStep ==
  ASSUME Shape, SucceededIsExecuted, MergeFacts, AllBlocks, [Next]_vars,
         NEW m \in Merges, reload'[m] # NoReload
  PROVE  Executed(m)
<1>0. /\ reload \in [Actors -> ReloadType] /\ m \in Actors
      /\ m # Signer /\ m # Dispatcher /\ m # App
  BY ActorsDiffer DEF Shape, TypeOK, ReloadType
<1>1. CASE reload[m] # NoReload
  BY <1>1 DEF MergeFacts, AllBlocks
<1>2. CASE reload[m] = NoReload
  <2>1. CASE \E a \in Actors : ReloadStep(a)
    BY <1>0, <1>2, <2>1, ReloadStepKeeps
  <2>2. CASE \E k \in Merges : MergeStep(k)
    BY <1>0, <1>2, <2>2 DEF MergeStep, MergeFollowed, MergeFollowFails, Returned, Failed, Ends
  <2>3. CASE AppReloads \/ AppReloadEnds
    BY <1>0, <1>2, <2>3 DEF AppReloads, AppReloadEnds, Asks, Returned, Failed, Ends
  <2>4. CASE Prepared \/ Loaded \/ SigningFails
    BY <1>0, <1>2, <2>4 DEF Prepared, Loaded, SigningFails, Asks, Returned, Failed, Ends
  <2>5. CASE MergeReloadFails \/ RetryBegins \/ RetryQueued \/ RetryAbandoned
    BY <1>0, <1>2, <2>5 DEF MergeReloadFails, RetryBegins, RetryQueued, RetryAbandoned,
       Asks, Returned, Failed, Ends
  <2>6. CASE UNCHANGED reload
    BY <1>2, <2>6
  <2>7. CASE DispatchSucceeds \/ MergeReloaded
    <3>1. \/ reload'[m] = reload[m]
          \/ reload' = Following(reload, disp.req)
          \/ reload' = Following([reload EXCEPT ![Dispatcher] = NoReload], disp.req)
      BY <1>0, <2>7 DEF DispatchSucceeds, MergeReloaded, Asks
    <3>2. m = disp.req
      BY <1>0, <1>2, <3>1 DEF Following
    <3>3. disp.step \in {"succeeded", "merge"} /\ m \in Requests
      BY <2>7, RequestsAreNumbers DEF DispatchSucceeds, MergeReloaded
    <3> QED
      BY <3>2, <3>3, SucceededExecuted DEF AllBlocks
  <2> QED
    BY <2>1, <2>2, <2>3, <2>4, <2>5, <2>6, <2>7, Writers
<1> QED
  BY <1>1, <1>2

\* A merge stays one while its account is being reloaded.
LEMMA MergeInHandStep ==
  ASSUME Shape, Places, MergeFacts, AllBlocks, [Next]_vars, disp'.step = "merge"
  PROVE  /\ IsMerge(disp'.req) /\ job'[disp'.req].msgs = "raw"
         /\ job'[disp'.req].by = Author(disp'.req)
         /\ reload'[Dispatcher].wallet = job'[disp'.req].by
<1> SUFFICES ASSUME NEW r, r = disp'.req
             PROVE  /\ IsMerge(r) /\ job'[r].msgs = "raw" /\ job'[r].by = Author(r)
                    /\ reload'[Dispatcher].wallet = job'[r].by
  OBVIOUS
<1>0. /\ disp \in StageType /\ Idle.step = "idle" /\ reload \in [Actors -> ReloadType]
      /\ disp.step # "idle" => disp.req \in Requests
  BY DEF Shape, TypeOK, StageType, DispShape, Idle, ReloadType
<1>1. ASSUME NEW step, Goes(step)
      PROVE  disp'.req = disp.req /\ disp'.step = step
  BY <1>0, <1>1 DEF Goes, StageType
<1>2. CASE UNCHANGED disp
  <2>1. MergesSigner(r) /\ reload[Dispatcher].wallet = job[r].by /\ r \in Requests
    BY <1>0, <1>2 DEF MergeFacts, AllBlocks
  <2>2. reload'[Dispatcher].wallet = reload[Dispatcher].wallet
    BY <1>2, DispatchersReloadStays
  <2>3. job'[r].msgs = job[r].msgs /\ job'[r].by = job[r].by
    <3>1. SignBegins => Head(signQ) # r
      BY <1>2, SignBeginsMoves DEF Places, OnePlace
    <3> QED
      BY <2>1, <3>1, JobSteps
  <2> QED
    BY <2>1, <2>2, <2>3 DEF MergesSigner
<1>3. CASE DispatchSucceeds
  <2>1. disp' # Idle
    BY <1>0
  <2>2. \/ /\ MergesSigner(disp.req) /\ Goes("merge")
           /\ Asks(Dispatcher, job[disp.req].by)
        \/ Goes("failed")
    BY <1>3, <2>1 DEF DispatchSucceeds, AfterError
  <2>3. /\ MergesSigner(disp.req) /\ disp'.req = disp.req
        /\ Asks(Dispatcher, job[disp.req].by)
    BY <1>1, <2>2
  <2>4. reload'[Dispatcher].wallet = job[disp.req].by
    BY <1>0, <2>3, ActorsDiffer DEF Asks
  <2>5. UNCHANGED job
    BY <1>3 DEF DispatchSucceeds
  <2> QED
    BY <2>3, <2>4, <2>5 DEF MergesSigner
<1>4. ASSUME DispatchBegins \/ NodeAdmits \/ NodeRefuses \/ AsyncSent \/ PollFinds
             \/ PollTimesOut \/ DispatchFails \/ MergeReloaded \/ MergeReloadFails
             \/ RetryBegins \/ RetryQueued \/ RetryAbandoned
      PROVE  UNCHANGED disp
  <2>1. \/ disp' = Idle \/ UNCHANGED disp
        \/ disp' = [Idle EXCEPT !.req = Head(dispQ), !.step = "broadcast"]
        \/ \E step : step # "merge" /\ Goes(step)
    BY <1>4 DEF DispatchBegins, NodeAdmits, NodeRefuses, AsyncSent, PollFinds, PollTimesOut,
       DispatchFails, MergeReloaded, MergeReloadFails, RetryBegins, RetryQueued,
       RetryAbandoned, AfterError, Delivered
  <2>2. CASE disp' = [Idle EXCEPT !.req = Head(dispQ), !.step = "broadcast"]
    BY <2>2 DEF Idle
  <2> QED
    BY <1>0, <1>1, <2>1, <2>2
<1> QED
  BY <1>2, <1>3, <1>4, Writers DEF DispatchStep

\* The wallet of the merge that a caller waits for is the caller's.
LEMMA AwaitedMergesAuthor ==
  ASSUME NEW r \in Own
  PROVE  Author(AwaitedMerge(r)) = Author(r)
<1>1. /\ AwaitedMerge(r) \notin Own /\ Caller(AwaitedMerge(r)) = r
      /\ AwaitedMerge(r) # SideMerge(r)
  BY OwnAndItsMerges, MergesOfCallers
<1> QED
  BY <1>1 DEF Author

\* A request is queued once the account of its wallet is merged.
LEMMA MergedFirstStep ==
  ASSUME Shape, Places, MergeFacts, AllBlocks, [Next]_vars,
         scenario.merge # "off", NEW r \in Own \ scenario.ownMerges, Placed(r)'
  PROVE  MergedOnChain(Author(r))
<1>0. r \in Requests /\ r \in Own /\ r \notin Merges /\ Author(r) \in Wallets
  BY OwnAndItsMerges, AuthorIsWallet DEF Shape
<1>1. CASE Placed(r)
  BY <1>1 DEF MergeFacts, AllBlocks
<1>2. CASE NotYet(r) /\ promise'[r] = "pending"
  <2>1. CASE Submit(r)
    <3>1. AwaitedMerge(r) \in Requests /\ AwaitedMerge(r) # r
      BY <1>0, OwnAndItsMerges
    <3>2. promise \in [Requests -> Promises]
      BY DEF Shape, TypeOK, Promises
    <3>3. promise' # [promise EXCEPT ![r] = "rejected"]
      BY <1>0, <1>2, <3>2
    <3>4. promise' # [promise EXCEPT ![r] = "merging", ![AwaitedMerge(r)] = "pending"]
      BY <1>0, <1>2, <3>1, <3>2
    <3>5. ~MergeRequired(r, Author(r))
      BY <2>1, <3>3, <3>4 DEF Submit
    <3>6. merged[Author(r)]
      BY <1>0, <3>5 DEF MergeRequired, IsMerge
    <3> QED
      BY <1>0, <3>6 DEF MergeFacts, AllBlocks
  <2>2. ASSUME NEW m \in Merges, MergeFollowed(m), r = Caller(m), Waits(r, m)
        PROVE  MergedOnChain(Author(r))
    <3>1. reload[m] # NoReload
      BY <2>2, ReturnedIsReload DEF MergeFollowed
    <3>2. Executed(m)
      BY <2>2, <3>1 DEF MergeFacts, AllBlocks
    <3>3. Author(m) = Author(r)
      BY <1>0, <2>2, AwaitedMergesAuthor DEF Waits
    <3>4. m \in Requests /\ IsMerge(m)
      BY <2>2, RequestsAreNumbers DEF IsMerge
    <3> QED
      BY <3>2, <3>3, <3>4 DEF Executed, MergedOnChain
  <2>3. \A s \in Own : r # AwaitedMerge(s)
    BY <1>0, OwnAndItsMerges
  <2>4. MergesAside(Head(signQ), Recommended(Head(signQ))) => r # SideMerge(Head(signQ))
    BY <1>0, MergesOfCallers DEF MergesAside
  <2> QED
    BY <1>0, <1>2, <2>1, <2>2, <2>3, <2>4, PromiseMoves DEF NotYet, Final
<1> QED
  BY <1>0, <1>1, <1>2, PlacedStep

LEMMA MergeFactsStep ==
  ASSUME Shape, Places, SucceededIsExecuted, MergeFacts, [Next]_vars
  PROVE  MergeFacts'
<1> SUFFICES ASSUME AllBlocks PROVE MergeFacts'
  BY ScenarioStays DEF MergeFacts, AllBlocks, Mode
<1>1. \A w \in Wallets : merged'[w] => MergedOnChain(w)'
  BY MergedStep, MergesStayOnChain
<1>2. (\A a \in Actors : reload[a].step = "merged" => MergedOnChain(reload[a].wallet))'
  <2> SUFFICES ASSUME NEW a \in Actors, reload'[a].step = "merged",
                      NEW w, w = reload'[a].wallet
               PROVE  MergedOnChain(w)'
    BY DEF MergedOnChain
  <2> QED
    BY StatusStep, MergesStayOnChain
<1>3. \A m \in Merges : reload'[m] # NoReload => Executed(m)'
  BY FollowedStep, MergesStayOnChain
<1>4. (disp.step = "merge" => /\ MergesSigner(disp.req)
                              /\ reload[Dispatcher].wallet = job[disp.req].by)'
  BY MergeInHandStep, ScenarioStays DEF MergesSigner, IsMerge, Author
<1>5. (scenario.merge # "off" =>
         \A r \in Own \ scenario.ownMerges : Placed(r) => MergedOnChain(Author(r)))'
  <2> SUFFICES ASSUME scenario.merge # "off", NEW r \in Own \ scenario.ownMerges, Placed(r)',
                      NEW w, w = Author(r)
               PROVE  MergedOnChain(w)'
    BY ScenarioStays DEF MergedOnChain, Author
  <2> QED
    BY MergedFirstStep, MergesStayOnChain
<1>6. (\A w \in Wallets : merged[w] => MergedOnChain(w))'
  BY <1>1
<1>7. (\A m \in Merges : reload[m] # NoReload => Executed(m))'
  BY <1>3
<1> QED
  BY <1>2, <1>4, <1>5, <1>6, <1>7 DEF MergeFacts

\* MergeComesFirst: with triggerMerge a caller's transaction is put into
\* txSignManager only when the account of its wallet has been merged on the
\* chain, whatever reloadAccount() has made of the cached status since.
THEOREM MergeAlwaysFirst == Spec => []MergeComesFirst
<1> DEFINE Inv == Shape /\ Places /\ SucceededIsExecuted /\ MergeFacts
<1>1. Init => SucceededIsExecuted /\ MergeFacts
  <2> SUFFICES ASSUME Init PROVE SucceededIsExecuted /\ MergeFacts
    OBVIOUS
  <2>1. /\ disp.step = "idle" /\ \A w \in Wallets : ~merged[w]
        /\ \A a \in Actors : reload[a] = NoReload
        /\ \A r \in Requests : promise[r] = "none"
    BY DEF Init, Idle
  <2>2. \A m \in Merges : m \in Actors
    BY ActorsDiffer
  <2>3. \A r \in Own : ~Placed(r)
    BY <2>1, PlacesInit, RequestsAreNumbers DEF Places, NotYetPlaced, NotYet
  <2>4. \A a \in Actors : reload[a].step = "idle"
    BY <2>1 DEF NoReload
  <2> QED
    BY <2>1, <2>2, <2>3, <2>4 DEF SucceededIsExecuted, MergeFacts
<1>2. Inv /\ [Next]_vars => Inv'
  BY ShapeStep, PlacesStep, SucceededStep, MergeFactsStep
<1>3. Inv => MergeComesFirst
  BY PlacedIsInHand, RequestsAreNumbers DEF MergeFacts, MergeComesFirst
<1> QED
  BY <1>1, <1>2, <1>3, ShapeInit, PlacesInit, PTL DEF Spec

-----------------------------------------------------------------------------
(* TxPipeline implements RequestLife. *)

Executions(r) == {x \in results : x.tx.req = r /\ x.res = "ok"}

\* Whatever has been executed for a request is the transaction it was last
\* sent with, and that is in one block only.
LEMMA ExecutedOnce ==
  Shape /\ Sends =>
    \A r \in Requests :
      /\ \A x, y \in Executions(r) : x = y
      /\ Executions(r) # {} => Live(Tx(r)) /\ InBlock(Tx(r))
<1> SUFFICES ASSUME Shape, Sends, NEW r \in Requests
             PROVE  /\ \A x, y \in Executions(r) : x = y
                    /\ Executions(r) # {} => Live(Tx(r)) /\ InBlock(Tx(r))
  OBVIOUS
<1>1. ASSUME NEW x \in Executions(r)
      PROVE  x.tx = Tx(r) /\ Live(Tx(r)) /\ InBlock(Tx(r)) /\ x \in results
  <2>1. x \in results /\ x.tx.req = r /\ x.res = "ok"
    BY <1>1 DEF Executions
  <2>2. x.tx \in Txs(Requests)
    BY <2>1 DEF Shape, TypeOK, ChainTypeOK
  <2>3. PICK t \in Nat : x.tx = [req |-> r, try |-> t]
    BY <2>1, <2>2 DEF Txs
  <2>4. Live(x.tx) /\ InBlock(x.tx)
    BY <2>1 DEF Live, InBlock
  <2>5. t = job[r].reattempts
    BY <2>3, <2>4, OnlyPresentTry
  <2> QED
    BY <2>1, <2>3, <2>4, <2>5 DEF Tx
<1>2. \A x, y \in results : Mine(x.tx) /\ x.tx = y.tx => x = y
  BY DEF Sends, KnownOnce
<1>3. Mine(Tx(r))
  BY DEF Mine, Tx
<1> QED
  BY <1>1, <1>2, <1>3

LEMMA ExecutedOnceNext ==
  (Shape /\ Sends)' =>
    \A r \in Requests :
      /\ \A x, y \in Executions(r)' : x = y
      /\ Executions(r)' # {} => Live(Tx(r))'
<1>1. (Shape /\ Sends =>
        \A r \in Requests :
          /\ \A x, y \in Executions(r) : x = y
          /\ Executions(r) # {} => Live(Tx(r)) /\ InBlock(Tx(r)))'
  BY ExecutedOnce, PTL
<1> QED
  BY <1>1

LEMMA NumberOfExecutions ==
  /\ Cardinality({}) = 0
  /\ \A S : S # {} /\ (\A x, y \in S : x = y) => Cardinality(S) = 1
<1>1. ASSUME NEW S, S # {}, \A x, y \in S : x = y
      PROVE  Cardinality(S) = 1
  <2>1. PICK x : x \in S
    BY <1>1
  <2>2. S = {x}
    BY <1>1, <2>1
  <2> QED
    BY <2>2, FS_Singleton
<1> QED
  BY <1>1, FS_EmptySet

\* A block that executes something for a request does it for the first time,
\* and its caller has asked for it and has not been told that it is in vain.
LEMMA ExecutionsStep ==
  ASSUME Shape, Places, Sends, [Next]_vars, NEW r \in Requests,
         Executions(r)' # Executions(r)
  PROVE  /\ Executions(r) = {} /\ Executions(r)' # {} /\ UNCHANGED promise
         /\ promise[r] \notin {"none", "merging", "rejectedForNonce"}
<1> USE DEF Executions
<1>1. PICK w \in Wallets, res \in {"ok", "failed", "mismatch"} :
        /\ pool[w] # <<>> /\ results' = results \cup {ResultOf(Head(pool[w]), res)}
        /\ UNCHANGED promise
  BY TxMoves
<1> DEFINE tx == Head(pool[w])
<1>2. tx.req = r /\ res = "ok"
  <2>1. ResultOf(tx, res).tx = tx /\ ResultOf(tx, res).res = res
    BY DEF ResultOf
  <2> QED
    BY <1>1, <2>1
<1>3. In(pool, tx) /\ tx \in Txs(Requests)
  <2>1. pool[w] \in Seq(Txs(Requests))
    BY DEF Shape, TypeOK, ChainTypeOK
  <2>2. 1 \in DOMAIN pool[w] /\ Head(pool[w]) = pool[w][1] /\ tx \in Txs(Requests)
    BY <1>1, <2>1
  <2> QED
    BY <2>2 DEF In
<1> HIDE DEF tx
<1>4. PICK t \in Nat : tx = [req |-> r, try |-> t]
  BY <1>2, <1>3 DEF Txs
<1>5. Live(tx)
  BY <1>3, KnownIn DEF Live
<1>6. tx = Tx(r)
  BY <1>4, <1>5, OnlyPresentTry DEF Tx
<1>7. promise[r] \notin {"none", "merging", "rejectedForNonce"}
  BY <1>5, <1>6, LiveIsKnown
  DEF Sends, UnsentUnknown, Unsent, NotYet, NonceRejected
<1>8. Executions(r) = {}
  <2>1. ~InBlock(tx)
    BY <1>2, <1>3 DEF Sends, KnownOnce, Mine, InBlock
  <2> QED
    BY <1>6, <2>1, ExecutedOnce
<1>9. Executions(r)' # {}
  BY <1>8
<1> QED
  BY <1>1, <1>7, <1>8, <1>9

\* What becomes of a promise, when nothing is executed.
LEMMA PromiseLife ==
  ASSUME Shape, Places, Sends, SucceededIsExecuted, [Next]_vars, (Shape /\ Sends)',
         NEW r \in Requests, promise'[r] # promise[r], Executions(r)' = Executions(r)
  PROVE  \/ promise[r] = "none" /\ promise'[r] = "merging"
         \/ promise[r] \in {"none", "merging"} /\ promise'[r] = "pending"
         \/ /\ promise[r] = "pending" /\ promise'[r] = "resolved"
            /\ Mode(r) = "block" => Executions(r) # {}
         \/ promise[r] \in {"none", "merging", "pending"} /\ promise'[r] = "rejected"
         \/ /\ promise[r] \in {"merging", "pending"} /\ promise'[r] = "rejectedForNonce"
            /\ Executions(r) = {}
<1>1. CASE promise[r] \in {"merging", "pending"} /\ promise'[r] \in Final
  <2>1. CASE promise'[r] = "resolved"
    <3>1. r = disp.req /\ promise[r] = "pending" /\ disp.step \in {"succeeded", "merge"}
      BY <2>1, Verdicts DEF DispatchSucceeds, MergeReloaded
    <3>2. Mode(r) = "block" => Executions(r) # {}
      BY <3>1, SucceededExecuted DEF Executed, Executions
    <3> QED
      BY <2>1, <3>1, <3>2
  <2>2. CASE promise'[r] = "rejectedForNonce"
    <3>1. ~Live(Tx(r))'
      BY <2>2 DEF Sends, NonceRejected
    <3>2. Executions(r)' = {}
      BY <3>1, ExecutedOnceNext
    <3> QED
      BY <1>1, <2>2, <3>2
  <2>3. CASE promise'[r] = "rejected"
    BY <1>1, <2>3
  <2> QED
    BY <1>1, <2>1, <2>2, <2>3 DEF Final
<1>2. CASE promise[r] = "none" /\ promise'[r] \in {"rejected", "merging", "pending"}
  BY <1>2
<1>3. ASSUME NEW s \in Own, r = AwaitedMerge(s), promise[s] = "none", promise'[r] = "pending"
      PROVE  promise[r] = "none" /\ promise'[r] = "pending"
  BY <1>3 DEF Places, MergesUnasked
<1>4. ASSUME NEW m, Waits(r, m), promise'[r] = "pending"
      PROVE  promise[r] = "merging" /\ promise'[r] = "pending"
  BY <1>4 DEF Waits
<1>5. CASE /\ SignBegins /\ MergesAside(Head(signQ), Recommended(Head(signQ)))
           /\ r = SideMerge(Head(signQ)) /\ promise'[r] = "pending"
  <2>1. Head(signQ) \in Own /\ job[Head(signQ)].reattempts = 0 /\ Queued(signQ, Head(signQ))
    BY <1>5, SignBeginsMoves DEF MergesAside
  <2>2. promise[r] = "none"
    BY <1>5, <2>1 DEF Places, MergesUnasked
  <2> QED
    BY <1>5, <2>2
<1> QED
  BY <1>1, <1>2, <1>3, <1>4, <1>5, PromiseMoves

\* RequestLife: a request is executed at most once and never before it was
\* asked for; its promise is settled once; resolved in block mode it means
\* that the messages were executed, and rejected for its sequence number that
\* they never are (sdk.ts, dispatchTx()).
THEOREM RequestsLive == Spec => RefinesRequestLife
<1> DEFINE Inv == Shape /\ Places /\ Sends /\ SucceededIsExecuted
           number == [r \in Requests |-> Cardinality(Executions(r))]
           blocks == {r \in Requests : Mode(r) = "block"}
<1>1. Init => Life!Init
  <2> SUFFICES ASSUME Init PROVE Life!Init
    OBVIOUS
  <2>1. \A r \in Requests : {x \in results : x.tx.req = r /\ x.res = "ok"} = {}
    BY DEF Init, ChainInit
  <2>2. [r \in Requests |-> Cardinality({x \in results : x.tx.req = r /\ x.res = "ok"})]
          = [r \in Requests |-> 0]
    BY <2>1, NumberOfExecutions
  <2>3. promise = [r \in Requests |-> "none"]
    BY DEF Init
  <2> QED
    BY <2>2, <2>3 DEF Life!Init
<1>2. Inv /\ Inv' /\ [Next]_vars => [Life!Next]_(Life!vars)
  <2> SUFFICES ASSUME Inv, Inv', [Next]_vars PROVE Life!Next
    OBVIOUS
  <2>1. blocks' = blocks
    BY ScenarioStays DEF Mode
  <2>2. ASSUME NEW r \in Requests
        PROVE  Life!Step(r)
    <3> DEFINE n(rs) == [q \in Requests |->
                           Cardinality({x \in rs : x.tx.req = q /\ x.res = "ok"})]
    <3>1. n(results)[r] = Cardinality(Executions(r))
          /\ n(results')[r] = Cardinality(Executions(r)')
      BY DEF Executions
    <3>2. CASE Executions(r)' # Executions(r)
      <4>1. /\ Executions(r) = {} /\ Executions(r)' # {} /\ promise'[r] = promise[r]
            /\ promise[r] \notin {"none", "merging", "rejectedForNonce"}
        BY <3>2, ExecutionsStep
      <4>2. n(results)[r] = 0 /\ n(results')[r] = 1
        BY <3>1, <4>1, NumberOfExecutions, ExecutedOnceNext
      <4> QED
        BY <4>1, <4>2 DEF Life!Step, Life!Executes
    <3>3. CASE Executions(r)' = Executions(r)
      <4>1. n(results')[r] = n(results)[r]
        BY <3>1, <3>3
      <4>2. CASE promise'[r] = promise[r]
        BY <4>1, <4>2 DEF Life!Step, Life!Stays
      <4>3. CASE promise'[r] # promise[r]
        <5>1. Executions(r) # {} => n(results)[r] = 1
          BY <3>1, NumberOfExecutions, ExecutedOnce
        <5>2. Executions(r) = {} => n(results)[r] = 0
          BY <3>1, NumberOfExecutions
        <5>3. \/ promise[r] = "none" /\ promise'[r] = "merging"
              \/ promise[r] \in {"none", "merging"} /\ promise'[r] = "pending"
              \/ /\ promise[r] = "pending" /\ promise'[r] = "resolved"
                 /\ r \in blocks => n(results)[r] = 1
              \/ promise[r] \in {"none", "merging", "pending"} /\ promise'[r] = "rejected"
              \/ /\ promise[r] \in {"merging", "pending"} /\ promise'[r] = "rejectedForNonce"
                 /\ n(results)[r] = 0
          BY <3>3, <4>3, <5>1, <5>2, PromiseLife
        <5> QED
          BY <4>1, <5>3 DEF Life!Step, Life!Stays, Life!Asks, Life!Resolves, Life!Rejects,
             Life!RejectsForNonce, Life!Promise
      <4> QED
        BY <4>2, <4>3
    <3> QED
      BY <3>2, <3>3
  <2> QED
    BY <2>1, <2>2 DEF Life!Next
<1>3. Init => SucceededIsExecuted
  BY DEF Init, Idle, SucceededIsExecuted
<1>4. Inv /\ [Next]_vars => Inv'
  BY ShapeStep, PlacesStep, SendsStep, SucceededStep
<1> QED
  BY <1>1, <1>2, <1>3, <1>4, ShapeInit, PlacesInit, SendsInit, PTL
  DEF Spec, RefinesRequestLife, Life!Spec

-----------------------------------------------------------------------------
(* First attempts keep their order. *)

LEMMA AscendingConcat ==
  ASSUME NEW S \in SUBSET Requests, NEW p \in Seq(Requests), NEW q \in Seq(Requests)
  PROVE  /\ p \o q \in Seq(Requests)
         /\ \A x : Queued(p \o q, x) <=> Queued(p, x) \/ Queued(q, x)
         /\ /\ Ascending(p, S) /\ Ascending(q, S)
            /\ \A x, y \in S : Queued(p, x) /\ Queued(q, y) => x < y
            => Ascending(p \o q, S)
<1>1. /\ p \o q \in Seq(Requests) /\ Len(p) \in Nat /\ Len(q) \in Nat
      /\ DOMAIN (p \o q) = 1 .. Len(p) + Len(q)
      /\ DOMAIN p = 1 .. Len(p) /\ DOMAIN q = 1 .. Len(q)
      /\ \A i \in 1 .. Len(p) + Len(q) :
           (p \o q)[i] = IF i <= Len(p) THEN p[i] ELSE q[i - Len(p)]
  BY ConcatProperties, LenProperties
<1>2. \A x : Queued(p \o q, x) => Queued(p, x) \/ Queued(q, x)
  BY <1>1 DEF Queued
<1>3. \A i \in DOMAIN p : i \in DOMAIN (p \o q) /\ (p \o q)[i] = p[i]
  BY <1>1
<1>4. ASSUME NEW i \in DOMAIN q
      PROVE  Len(p) + i \in DOMAIN (p \o q) /\ (p \o q)[Len(p) + i] = q[i]
  BY <1>1
<1>5. \A x : Queued(p, x) \/ Queued(q, x) => Queued(p \o q, x)
  BY <1>3, <1>4 DEF Queued
<1>6. ASSUME Ascending(p, S), Ascending(q, S),
             \A x, y \in S : Queued(p, x) /\ Queued(q, y) => x < y,
             NEW i \in DOMAIN (p \o q), NEW j \in DOMAIN (p \o q), i < j,
             (p \o q)[i] \in S, (p \o q)[j] \in S
      PROVE  (p \o q)[i] < (p \o q)[j]
  <2>1. CASE j <= Len(p)
    BY <1>1, <1>6, <2>1 DEF Ascending
  <2>2. CASE i > Len(p)
    <3>1. /\ i - Len(p) \in DOMAIN q /\ j - Len(p) \in DOMAIN q
          /\ i - Len(p) < j - Len(p)
          /\ (p \o q)[i] = q[i - Len(p)] /\ (p \o q)[j] = q[j - Len(p)]
      BY <1>1, <1>6, <2>2
    <3> QED
      BY <1>6, <3>1 DEF Ascending
  <2>3. CASE i <= Len(p) /\ j > Len(p)
    <3>1. Queued(p, (p \o q)[i]) /\ Queued(q, (p \o q)[j])
      BY <1>1, <2>3 DEF Queued
    <3> QED
      BY <1>6, <3>1
  <2> QED
    BY <1>1, <2>1, <2>2, <2>3
<1> QED
  BY <1>1, <1>2, <1>5, <1>6 DEF Ascending

LEMMA AscendingOne ==
  ASSUME NEW S, NEW r \in Requests
  PROVE  <<r>> \in Seq(Requests) /\ Ascending(<<r>>, S) /\ \A x : Queued(<<r>>, x) <=> x = r
  BY DEF Ascending, Queued

LEMMA AscendingNone ==
  ASSUME NEW S
  PROVE  <<>> \in Seq(Requests) /\ Ascending(<<>>, S) /\ \A x : ~Queued(<<>>, x)
  BY DEF Ascending, Queued

LEMMA AscendingAppend ==
  ASSUME NEW S \in SUBSET Requests, NEW q \in Seq(Requests), NEW r \in Requests,
         Ascending(q, S), r \in S => \A x \in S : Queued(q, x) => x < r
  PROVE  Ascending(Append(q, r), S)
<1>1. Append(q, r) = q \o <<r>>
  OBVIOUS
<1>2. <<r>> \in Seq(Requests) /\ Ascending(<<r>>, S) /\ \A x : Queued(<<r>>, x) <=> x = r
  BY AscendingOne
<1>3. \A x, y \in S : Queued(q, x) /\ Queued(<<r>>, y) => x < y
  BY <1>2
<1>4. Ascending(q \o <<r>>, S)
  BY <1>2, <1>3, AscendingConcat
<1> QED
  BY <1>1, <1>4

LEMMA AscendingTail ==
  ASSUME NEW S, NEW q \in Seq(Requests), q # <<>>, Ascending(q, S)
  PROVE  /\ Ascending(Tail(q), S)
         /\ \A x \in S : Head(q) \in S /\ Queued(Tail(q), x) => Head(q) < x
<1>1. /\ Head(q) = q[1] /\ DOMAIN q = 1 .. Len(q) /\ Len(q) \in Nat /\ Len(q) >= 1
      /\ DOMAIN Tail(q) = 1 .. Len(q) - 1
      /\ \A i \in 1 .. Len(q) - 1 : Tail(q)[i] = q[i + 1]
  BY LenProperties
<1>2. ASSUME NEW i \in DOMAIN Tail(q), NEW j \in DOMAIN Tail(q), i < j,
             Tail(q)[i] \in S, Tail(q)[j] \in S
      PROVE  Tail(q)[i] < Tail(q)[j]
  <2>1. /\ i + 1 \in DOMAIN q /\ j + 1 \in DOMAIN q /\ i + 1 < j + 1
        /\ Tail(q)[i] = q[i + 1] /\ Tail(q)[j] = q[j + 1]
    BY <1>1, <1>2
  <2> QED
    BY <1>2, <2>1 DEF Ascending
<1>3. ASSUME NEW i \in DOMAIN Tail(q), Tail(q)[i] \in S, Head(q) \in S
      PROVE  Head(q) < Tail(q)[i]
  <2>1. /\ i + 1 \in DOMAIN q /\ 1 \in DOMAIN q /\ 1 < i + 1
        /\ Tail(q)[i] = q[i + 1]
    BY <1>1, <1>3
  <2> QED
    BY <1>1, <1>3, <2>1 DEF Ascending
<1> QED
  BY <1>2, <1>3 DEF Ascending, Queued

LEMMA AscendingFewer ==
  ASSUME NEW S, NEW T \in SUBSET S, NEW q, Ascending(q, S)
  PROVE  Ascending(q, T)
  BY DEF Ascending

LEMMA FirstsStep ==
  ASSUME Shape, [Next]_vars
  PROVE  Firsts' \subseteq Firsts /\ (RetryQueued => disp.req \notin Firsts')
<1>1. \A r \in Requests : job[r].reattempts \in 0 .. 1
  BY DEF Shape, TypeOK
<1>2. Firsts' \subseteq Firsts
  BY <1>1, AttemptsStay DEF Firsts
<1>3. ASSUME RetryQueued PROVE disp.req \notin Firsts'
  <2>1. disp.step = "reload"
    BY <1>3 DEF RetryQueued
  <2>2. disp.req \in Requests
    BY <2>1 DEF Shape, DispShape, Idle
  <2>3. job \in [Requests -> Jobs]
    BY DEF Shape, TypeOK, Jobs
  <2>4. job'[disp.req].reattempts = job[disp.req].reattempts + 1
    BY <1>3, <2>2, <2>3 DEF RetryQueued, Jobs
  <2> QED
    BY <1>1, <2>2, <2>4 DEF Firsts
<1> QED
  BY <1>2, <1>3

LEMMA SubmittedInOrderStep ==
  ASSUME Shape, Places, SubmittedInOrder, [Next]_vars
  PROVE  SubmittedInOrder'
<1>1. ASSUME NEW q \in Own, NEW r \in Own, q < r, promise'[r] # "none", promise'[q] = "none"
      PROVE  FALSE
  <2>1. promise[q] = "none" /\ promise[r] = "none"
    BY <1>1, NotYetBefore, RequestsAreNumbers DEF SubmittedInOrder
  <2>2. Submit(r)
    <3>1. r \in Requests /\ r \notin Merges
      BY RequestsAreNumbers
    <3>2. ~Waits(r, r) /\ \A m : ~Waits(r, m)
      BY <2>1 DEF Waits
    <3>3. SignBegins => r # SideMerge(Head(signQ)) \/ ~MergesAside(Head(signQ), Recommended(Head(signQ)))
      BY <3>1, MergesOfCallers DEF MergesAside
    <3>4. \A s \in Own : r # AwaitedMerge(s)
      BY <3>1, MergesOfCallers
    <3> QED
      BY <1>1, <2>1, <3>1, <3>2, <3>3, <3>4, PromiseMoves
  <2>3. q \in 1 .. r - 1
    BY <1>1, RequestsAreNumbers DEF Own
  <2> QED
    BY <2>1, <2>2, <2>3 DEF Submit
<1>2. ASSUME scenario.merge = "off", NEW m \in Merges
      PROVE  promise'[m] = "none"
  <2>1. promise[m] = "none" /\ m \in Requests /\ m \notin Own
    BY <1>2, RequestsAreNumbers DEF SubmittedInOrder
  <2>2. \A r \in Requests : Submit(r) => promise'[AwaitedMerge(r)] # "pending" \/ m # AwaitedMerge(r)
    <3> SUFFICES ASSUME NEW r \in Requests, Submit(r), m = AwaitedMerge(r)
                 PROVE  promise'[m] = "none"
      OBVIOUS
    <3>1. r \in Own /\ r # m
      BY <2>1, SubmitIsOwn
    <3>2. promise \in [Requests -> Promises]
      BY DEF Shape, TypeOK, Promises
    <3>3. promise'[m] = promise[m]
      BY <1>2, <2>1, <3>1, <3>2 DEF Submit
    <3> QED
      BY <2>1, <3>3
  <2>3. \A n : ~MergesAside(n, Recommended(n))
    BY <1>2 DEF MergesAside
  <2>4. \A n \in Merges : m # Caller(n)
    BY <2>1, MergesOfCallers
  <2> QED
    BY <2>1, <2>2, <2>3, <2>4, RequestsAreNumbers, PromiseMoves
<1>3. ASSUME scenario.merge = "off", NEW r \in Own
      PROVE  promise'[r] # "merging"
  <2>1. promise[r] # "merging" /\ r \in Requests /\ r \notin Merges
    BY <1>3, RequestsAreNumbers DEF SubmittedInOrder
  <2>2. Submit(r) => promise'[r] # "merging"
    <3>1. promise \in [Requests -> Promises]
      BY DEF Shape, TypeOK, Promises
    <3> QED
      BY <1>3, <2>1, <3>1 DEF Submit
  <2> QED
    BY <2>1, <2>2, MergesOfCallers, PromiseMoves DEF Final
<1> QED
  BY <1>1, <1>2, <1>3, ScenarioStays DEF SubmittedInOrder

\* A request comes into the way to the node behind all others.
LEMMA EntersLast ==
  ASSUME Shape, Places, SubmittedInOrder, scenario.merge = "off", [Next]_vars,
         \E r \in Requests : Submit(r) \/ \E m \in Merges : MergeFollowed(m)
  PROVE  \/ UNCHANGED signQ
         \/ \E r \in Requests : /\ signQ' = Append(signQ, r)
                                /\ \A q \in Requests : Placed(q) => q < r
<1>1. \A m \in Merges : MergeFollowed(m) => UNCHANGED signQ
  BY MergesOfCallers, RequestsAreNumbers
     DEF MergeFollowed, Waits, SubmittedInOrder
<1>2. ASSUME NEW r \in Requests, Submit(r), signQ' # signQ
      PROVE  signQ' = Append(signQ, r) /\ \A q \in Requests : Placed(q) => q < r
  <2>1. signQ' = Append(signQ, r) /\ promise[r] = "none" /\ r \in Own
    BY <1>2, SubmitIsOwn DEF Submit, Enqueued
  <2>2. ASSUME NEW q \in Requests, Placed(q) PROVE q < r
    <3>1. ~NotYet(q)
      BY <2>2 DEF Places, NotYetPlaced
    <3>2. promise[q] # "none"
      BY <3>1 DEF NotYet
    <3>3. q \in Own
      BY <3>2 DEF SubmittedInOrder, Requests
    <3>4. ~(r < q) /\ q # r
      BY <2>1, <3>2, <3>3 DEF SubmittedInOrder
    <3> QED
      BY <2>1, <3>3, <3>4 DEF Own
  <2> QED
    BY <2>1, <2>2
<1> QED
  BY <1>1, <1>2

LEMMA InOrderStep ==
  ASSUME Shape, Places, SubmittedInOrder, InOrder, [Next]_vars
  PROVE  InOrder'
<1> SUFFICES ASSUME scenario.merge = "off"
             PROVE  /\ Ascending(signQ', Firsts') /\ Ascending(dispQ', Firsts')
                    /\ \A q, r \in Firsts' :
                         /\ disp'.req = q /\ Placed(r)' => q <= r
                         /\ Queued(dispQ', q) /\ (Signing(r)' \/ Queued(signQ', r)) => q < r
                         /\ Signing(q)' /\ Queued(signQ', r) => q < r
  BY ScenarioStays DEF InOrder
<1> USE DEF Placed
<1>0. /\ signQ \in Seq(Requests) /\ dispQ \in Seq(Requests) /\ None \notin Requests
      /\ Firsts \subseteq Requests /\ Firsts' \subseteq Firsts
      /\ Requests \subseteq Nat
  BY RequestsAreNumbers, FirstsStep DEF Shape, TypeOK, Firsts
<1>A. /\ Ascending(signQ, Firsts') /\ Ascending(dispQ, Firsts')
      /\ \A q, r \in Firsts' :
           /\ disp.req = q /\ Placed(r) => q <= r
           /\ Queued(dispQ, q) /\ (Signing(r) \/ Queued(signQ, r)) => q < r
           /\ Signing(q) /\ Queued(signQ, r) => q < r
  BY <1>0, AscendingFewer DEF InOrder
<1>1. CASE NoneMoves
  BY <1>0, <1>A, <1>1 DEF NoneMoves, SigningSame
<1>2. CASE /\ \E r \in Requests : Submit(r) \/ \E m \in Merges : MergeFollowed(m)
           /\ UNCHANGED <<dispQ, disp, sign>>
  <2>1. \A x \in Requests : Signing(x)' <=> Signing(x)
    BY <1>2 DEF Signing
  <2>2. CASE UNCHANGED signQ
    BY <1>0, <1>A, <1>2, <2>1, <2>2
  <2>3. ASSUME NEW s \in Requests, signQ' = Append(signQ, s),
               \A q \in Requests : Placed(q) => q < s
        PROVE  /\ Ascending(signQ', Firsts') /\ Ascending(dispQ', Firsts')
               /\ \A q, r \in Firsts' :
                    /\ disp'.req = q /\ Placed(r)' => q <= r
                    /\ Queued(dispQ', q) /\ (Signing(r)' \/ Queued(signQ', r)) => q < r
                    /\ Signing(q)' /\ Queued(signQ', r) => q < r
    <3>1. \A y : Queued(signQ', y) <=> Queued(signQ, y) \/ y = s
      BY <1>0, <2>3, QueuedAppend
    <3>2. Ascending(signQ', Firsts')
      BY <1>0, <1>A, <2>3, AscendingAppend
    <3> QED
      BY <1>0, <1>A, <1>2, <2>1, <2>3, <3>1, <3>2
  <2> QED
    BY <1>2, <2>2, <2>3, EntersLast
<1>3. CASE SignBegins /\ UNCHANGED <<dispQ, disp>>
  <2>1. /\ signQ # <<>> /\ signQ' = Tail(signQ) /\ Head(signQ) \in Requests
    BY <1>3, SignBeginsOn DEF MergesAside
  <2>2. \A y : Queued(signQ, y) <=> Queued(Tail(signQ), y) \/ y = Head(signQ)
    BY <1>0, <2>1, QueuedTail
  <2>3. \A y \in Requests : Signing(y)' => y = Head(signQ)
    BY <1>3, SignBeginsMoves
  <2>4. /\ Ascending(Tail(signQ), Firsts')
        /\ \A x \in Firsts' : Head(signQ) \in Firsts' /\ Queued(Tail(signQ), x)
                                => Head(signQ) < x
    BY <1>0, <1>A, <2>1, AscendingTail
  <2>5. \A q, r \in Firsts' : Signing(q)' /\ Queued(signQ', r) => q < r
    BY <1>0, <2>1, <2>3, <2>4
  <2>6. \A q, r \in Firsts' :
          Queued(dispQ', q) /\ (Signing(r)' \/ Queued(signQ', r)) => q < r
    BY <1>0, <1>A, <1>3, <2>1, <2>2, <2>3
  <2>7. \A q, r \in Firsts' : disp'.req = q /\ Placed(r)' => q <= r
    BY <1>0, <1>A, <1>3, <2>1, <2>2, <2>3
  <2> QED
    BY <1>A, <1>3, <2>1, <2>4, <2>5, <2>6, <2>7
<1>4. CASE /\ Signed /\ UNCHANGED <<signQ, disp>> /\ SigningNone
           /\ Signing(sign.req) /\ sign.req \in Requests
           /\ dispQ' = Append(dispQ, sign.req)
  <2>1. \A y : Queued(dispQ', y) <=> Queued(dispQ, y) \/ y = sign.req
    BY <1>0, <1>4, QueuedAppend
  <2>2. Ascending(dispQ', Firsts')
    BY <1>0, <1>A, <1>4, AscendingAppend
  <2>3. \A y \in Requests : ~Signing(y)'
    BY <1>4 DEF SigningNone
  <2> QED
    BY <1>0, <1>A, <1>4, <2>1, <2>2, <2>3
<1>5. CASE SignReturns /\ UNCHANGED <<signQ, dispQ, disp>> /\ SigningNone
  BY <1>0, <1>A, <1>5 DEF SigningNone
<1>6. CASE /\ DispatchBegins /\ UNCHANGED <<signQ, sign>>
           /\ disp = Idle /\ dispQ # <<>> /\ dispQ' = Tail(dispQ)
           /\ \/ disp'.req = Head(dispQ) \/ disp'.req = None
  <2>1. /\ \A y : Queued(dispQ, y) <=> Queued(dispQ', y) \/ y = Head(dispQ)
        /\ Head(dispQ) \in Requests
    BY <1>0, <1>6, QueuedTail
  <2>2. \A x \in Requests : Signing(x)' <=> Signing(x)
    BY <1>6 DEF Signing
  <2>3. /\ Ascending(dispQ', Firsts')
        /\ \A x \in Firsts' : Head(dispQ) \in Firsts' /\ Queued(dispQ', x)
                                => Head(dispQ) < x
    BY <1>0, <1>A, <1>6, AscendingTail
  <2>4. \A q, r \in Firsts' : disp'.req = q /\ Placed(r)' => q <= r
    BY <1>0, <1>A, <1>6, <2>1, <2>2, <2>3
  <2> QED
    BY <1>0, <1>A, <1>6, <2>1, <2>2, <2>3, <2>4
<1>7. CASE /\ RetryQueued /\ UNCHANGED <<dispQ, sign>>
           /\ disp.req \in Requests /\ disp'.req = None
           /\ signQ' = Append(signQ, disp.req)
  <2>1. \A y : Queued(signQ', y) <=> Queued(signQ, y) \/ y = disp.req
    BY <1>0, <1>7, QueuedAppend
  <2>2. \A x \in Requests : Signing(x)' <=> Signing(x)
    BY <1>7 DEF Signing
  <2>3. disp.req \notin Firsts'
    BY <1>7, FirstsStep
  <2>4. Ascending(signQ', Firsts')
    BY <1>0, <1>A, <1>7, <2>3, AscendingAppend
  <2> QED
    BY <1>0, <1>A, <1>7, <2>1, <2>2, <2>3, <2>4
<1>8. CASE /\ DispatchSucceeds \/ MergeReloaded \/ RetryAbandoned \/ DispatchFails
           /\ UNCHANGED <<signQ, dispQ, sign>> /\ disp'.req = None
           /\ disp.req \in Requests
  <2>1. \A x \in Requests : Signing(x)' <=> Signing(x)
    BY <1>8 DEF Signing
  <2> QED
    BY <1>0, <1>A, <1>8, <2>1
<1> QED
  BY <1>1, <1>2, <1>3, <1>4, <1>5, <1>6, <1>7, <1>8, Moves

\* FirstAttemptsInOrder: whatever is retried in between, the requests at
\* their first attempt stand in the order in which signAndBroadcast() was
\* called for them, in the two queues and in signTx() and dispatchTx().
THEOREM FirstsKeepTheirOrder == Spec => []FirstAttemptsInOrder
<1> DEFINE Inv == Shape /\ Places /\ SubmittedInOrder /\ InOrder
<1>1. Init => Inv
  <2> SUFFICES ASSUME Init PROVE Inv
    OBVIOUS
  <2>1. signQ = <<>> /\ dispQ = <<>> /\ sign.req = None /\ disp.req = None
    BY DEF Init, Idle
  <2>2. \A r \in Requests : promise[r] = "none"
    BY DEF Init
  <2>3. SubmittedInOrder
    BY <2>2, RequestsAreNumbers DEF SubmittedInOrder
  <2>4. InOrder
    BY <2>1, RequestsAreNumbers, AscendingNone DEF InOrder, Signing, Firsts
  <2> QED
    BY <2>3, <2>4, ShapeInit, PlacesInit
<1>2. Inv /\ [Next]_vars => Inv'
  BY ShapeStep, PlacesStep, SubmittedInOrderStep, InOrderStep
<1>3. Inv => FirstAttemptsInOrder
  <2> SUFFICES ASSUME Shape, Places, InOrder, scenario.merge = "off"
               PROVE  FirstAttemptsInOrder
    BY DEF FirstAttemptsInOrder
  <2> DEFINE signing == IF sign.step \in {"idle", "complete"} THEN <<>> ELSE <<sign.req>>
             dispatching == IF disp = Idle THEN <<>> ELSE <<disp.req>>
             front == dispatching \o dispQ
             most == front \o signing
             line == most \o signQ
  <2>0. /\ signQ \in Seq(Requests) /\ dispQ \in Seq(Requests)
        /\ Firsts \in SUBSET Requests /\ Requests \subseteq Nat /\ None \notin Requests
    BY RequestsAreNumbers DEF Shape, TypeOK, Firsts
  <2>1. /\ signing \in Seq(Requests) /\ Ascending(signing, Firsts)
        /\ \A x \in Requests : Queued(signing, x) => Signing(x)
    <3>1. CASE sign.step \in {"idle", "complete"}
      BY <3>1, AscendingNone
    <3>2. CASE sign.step \notin {"idle", "complete"}
      <4>1. sign.req \in Requests
        BY <3>2 DEF Shape, SignShape, Idle
      <4> QED
        BY <3>2, <4>1, AscendingOne DEF Signing
    <3> QED
      BY <3>1, <3>2
  <2>2. /\ dispatching \in Seq(Requests) /\ Ascending(dispatching, Firsts)
        /\ \A x \in Requests : Queued(dispatching, x) => disp.req = x
    <3>1. CASE disp = Idle
      BY <3>1, AscendingNone
    <3>2. CASE disp # Idle
      <4>1. disp.req \in Requests
        BY <3>2 DEF Shape, DispShape
      <4> QED
        BY <3>2, <4>1, AscendingOne
    <3> QED
      BY <3>1, <3>2
  <2>3. ASSUME NEW q \in Firsts, NEW r \in Firsts
        PROVE  /\ disp.req = q /\ (Queued(dispQ, r) \/ Signing(r) \/ Queued(signQ, r)) => q < r
               /\ Queued(dispQ, q) /\ (Signing(r) \/ Queued(signQ, r)) => q < r
               /\ Signing(q) /\ Queued(signQ, r) => q < r
    BY <2>0 DEF Places, OnePlace, InOrder, Placed
  <2> HIDE DEF signing, dispatching
  <2>4. /\ front \in Seq(Requests) /\ Ascending(front, Firsts)
        /\ \A x \in Requests : Queued(front, x) <=> Queued(dispatching, x) \/ Queued(dispQ, x)
    BY <2>0, <2>2, <2>3, AscendingConcat DEF InOrder
  <2> HIDE DEF front
  <2>5. /\ most \in Seq(Requests) /\ Ascending(most, Firsts)
        /\ \A x \in Requests : Queued(most, x) <=> Queued(front, x) \/ Queued(signing, x)
    BY <2>0, <2>1, <2>2, <2>3, <2>4, AscendingConcat
  <2> HIDE DEF most
  <2>6. /\ line \in Seq(Requests) /\ Ascending(line, Firsts)
    BY <2>0, <2>1, <2>2, <2>3, <2>4, <2>5, AscendingConcat DEF InOrder
  <2>7. line = dispatching \o dispQ \o signing \o signQ
    BY DEF most, front
  <2> HIDE DEF line
  <2>8. \A i, j \in DOMAIN line :
          i < j /\ job[line[i]].reattempts = 0 /\ job[line[j]].reattempts = 0
            => line[i] < line[j]
    BY <2>6 DEF Ascending, Firsts
  <2> QED
    BY <2>7, <2>8 DEF FirstAttemptsInOrder, signing, dispatching
<1> QED
  BY <1>1, <1>2, <1>3, PTL DEF Spec

-----------------------------------------------------------------------------
(* SequencesLineUp: while nothing disturbs the accounts, the sequence      *)
(* numbers of what is signed and not yet with the node are those from the  *)
(* one expected to the one before the cache's.                             *)

LEMMA Appended ==
  ASSUME NEW q \in Seq(Requests), NEW r \in Requests
  PROVE  /\ DOMAIN q = 1 .. Len(q) /\ Len(q) \in Nat
         /\ DOMAIN Append(q, r) = 1 .. Len(q) + 1
         /\ \A i \in 1 .. Len(q) : Append(q, r)[i] = q[i]
         /\ Append(q, r)[Len(q) + 1] = r
BY AppendProperties, LenProperties

LEMMA Prefixed ==
  ASSUME NEW q \in Seq(Requests), NEW r \in Requests
  PROVE  /\ DOMAIN q = 1 .. Len(q) /\ Len(q) \in Nat
         /\ <<r>> \o q \in Seq(Requests)
         /\ DOMAIN (<<r>> \o q) = 1 .. Len(q) + 1
         /\ (<<r>> \o q)[1] = r
         /\ \A i \in 1 .. Len(q) : (<<r>> \o q)[i + 1] = q[i]
BY LenProperties

\* The next number is handed out.
LEMMA NumberedNext ==
  ASSUME NEW q \in Seq(Requests), NEW r \in Requests, NEW js, NEW ks, NEW w,
         NEW e \in Nat, NEW a \in Nat, Numbered(q, js, w, e, a),
         \A i \in DOMAIN q : ks[q[i]].by = js[q[i]].by /\ ks[q[i]].seq = js[q[i]].seq,
         ks[r].by = w, ks[r].seq = a
  PROVE  Numbered(Append(q, r), ks, w, e, a + 1)
<1> DEFINE t == Append(q, r)
<1>1. /\ DOMAIN q = 1 .. Len(q) /\ Len(q) \in Nat /\ DOMAIN t = 1 .. Len(q) + 1
      /\ \A i \in 1 .. Len(q) : t[i] = q[i]
      /\ t[Len(q) + 1] = r
  BY Appended
<1> HIDE DEF t
<1>2. e <= a /\ a \in e .. a + 1 - 1
  BY DEF Numbered
<1>3. \A i \in DOMAIN q : /\ ks[t[i]].by = js[q[i]].by /\ ks[t[i]].seq = js[q[i]].seq
                          /\ i \in DOMAIN t
  BY <1>1
<1>4. ASSUME NEW i \in DOMAIN t, ks[t[i]].by = w
      PROVE  ks[t[i]].seq \in e .. a + 1 - 1 /\ (i # Len(q) + 1 => ks[t[i]].seq < a)
  <2>1. CASE i = Len(q) + 1
    BY <1>1, <1>2, <2>1
  <2>2. CASE i \in DOMAIN q
    <3>1. js[q[i]].seq \in e .. a - 1
      BY <1>3, <1>4, <2>2 DEF Numbered
    <3> QED
      BY <1>3, <2>2, <3>1
  <2> QED
    BY <1>1, <2>1, <2>2
<1>5. ASSUME NEW i \in DOMAIN t, NEW j \in DOMAIN t, ks[t[i]].by = w, ks[t[j]].by = w, i < j
      PROVE  ks[t[i]].seq < ks[t[j]].seq
  <2>1. i \in DOMAIN q
    BY <1>1, <1>5
  <2>2. CASE j \in DOMAIN q
    BY <1>3, <1>5, <2>1, <2>2 DEF Numbered
  <2>3. CASE j = Len(q) + 1
    BY <1>1, <1>4, <1>5, <2>1, <2>3
  <2> QED
    BY <1>1, <2>2, <2>3
<1>6. ASSUME NEW n \in e .. a + 1 - 1
      PROVE  \E i \in DOMAIN t : ks[t[i]].by = w /\ ks[t[i]].seq = n
  <2>1. CASE n = a
    BY <1>1, <2>1
  <2>2. CASE n \in e .. a - 1
    <3>1. PICK i \in DOMAIN q : js[q[i]].by = w /\ js[q[i]].seq = n
      BY <2>2 DEF Numbered
    <3> QED
      BY <1>3, <3>1
  <2> QED
    BY <2>1, <2>2
<1>7. e <= a + 1
  BY <1>2
<1>8. Numbered(t, ks, w, e, a + 1)
  BY <1>4, <1>5, <1>6, <1>7 DEF Numbered
<1> QED
  BY <1>8 DEF t

\* Other wallets' numbers are not concerned.
LEMMA NumberedBeside ==
  ASSUME NEW q \in Seq(Requests), NEW r \in Requests, NEW js, NEW ks, NEW w, NEW e, NEW a,
         \A i \in DOMAIN q : ks[q[i]].by = js[q[i]].by /\ ks[q[i]].seq = js[q[i]].seq,
         ks[r].by # w
  PROVE  /\ Numbered(q, js, w, e, a) => Numbered(Append(q, r), ks, w, e, a)
         /\ NoneOf(q, js, w) => NoneOf(Append(q, r), ks, w)
<1> DEFINE t == Append(q, r)
<1>1. /\ DOMAIN q = 1 .. Len(q) /\ Len(q) \in Nat /\ DOMAIN t = 1 .. Len(q) + 1
      /\ \A i \in 1 .. Len(q) : t[i] = q[i]
      /\ t[Len(q) + 1] = r
  BY Appended
<1> HIDE DEF t
<1>2. /\ \A i \in DOMAIN q : /\ ks[t[i]].by = js[q[i]].by /\ ks[t[i]].seq = js[q[i]].seq
                             /\ i \in DOMAIN t
      /\ \A i \in DOMAIN t : ks[t[i]].by = w => i \in DOMAIN q
  BY <1>1
<1>3. Numbered(q, js, w, e, a) => Numbered(t, ks, w, e, a)
  BY <1>2 DEF Numbered
<1>4. NoneOf(q, js, w) => NoneOf(t, ks, w)
  BY <1>2 DEF NoneOf
<1> QED
  BY <1>3, <1>4 DEF t

\* The first in line carries the number that is expected.
LEMMA FirstIsExpected ==
  ASSUME NEW q \in Seq(Requests), NEW r \in Requests, NEW js, NEW w,
         NEW e \in Nat, NEW a \in Nat, Numbered(<<r>> \o q, js, w, e, a), js[r].by = w
  PROVE  js[r].seq = e /\ Numbered(q, js, w, e + 1, a)
<1> DEFINE t == <<r>> \o q
<1>1. /\ DOMAIN q = 1 .. Len(q) /\ Len(q) \in Nat /\ DOMAIN t = 1 .. Len(q) + 1
      /\ t[1] = r /\ \A i \in 1 .. Len(q) : t[i + 1] = q[i]
  BY Prefixed
<1>t. Numbered(t, js, w, e, a)
  OBVIOUS
<1> HIDE DEF t
<1>2. 1 \in DOMAIN t /\ js[t[1]].seq \in e .. a - 1
  BY <1>1, <1>t DEF Numbered
<1>3. PICK k \in DOMAIN t : js[t[k]].by = w /\ js[t[k]].seq = e
  <2>1. e \in e .. a - 1
    BY <1>2
  <2> QED
    BY <1>t, <2>1 DEF Numbered
<1>4. js[r].seq = e
  <2>1. CASE k = 1
    BY <1>1, <1>3, <2>1
  <2>2. CASE 1 < k
    <3>1. js[t[1]].seq < js[t[k]].seq
      BY <1>1, <1>2, <1>3, <1>t, <2>2 DEF Numbered
    <3> QED
      BY <1>2, <1>3, <3>1
  <2> QED
    BY <1>1, <2>1, <2>2
<1>5. \A i \in DOMAIN q : i + 1 \in DOMAIN t /\ t[i + 1] = q[i]
  BY <1>1
<1>6. ASSUME NEW i \in DOMAIN q, js[q[i]].by = w
      PROVE  js[q[i]].seq \in e + 1 .. a - 1
  <2>0. i + 1 \in DOMAIN t /\ 1 < i + 1 /\ js[t[i + 1]].by = w /\ js[t[1]].by = w
    BY <1>1, <1>5, <1>6
  <2>1. js[t[1]].seq < js[t[i + 1]].seq
    BY <1>2, <1>t, <2>0 DEF Numbered
  <2>2. js[t[i + 1]].seq \in e .. a - 1
    BY <1>t, <2>0 DEF Numbered
  <2> QED
    BY <1>1, <1>2, <1>4, <1>5, <2>1, <2>2
<1>7. ASSUME NEW n \in e + 1 .. a - 1
      PROVE  \E i \in DOMAIN q : js[q[i]].by = w /\ js[q[i]].seq = n
  <2>1. PICK k2 \in DOMAIN t : js[t[k2]].by = w /\ js[t[k2]].seq = n
    BY <1>t, <1>7 DEF Numbered
  <2>2. k2 # 1
    BY <1>1, <1>4, <2>1
  <2>3. k2 - 1 \in DOMAIN q /\ k2 - 1 + 1 = k2
    BY <1>1, <2>2
  <2>4. t[k2] = q[k2 - 1]
    BY <1>5, <2>3
  <2> QED
    BY <2>1, <2>3, <2>4
<1>8. ASSUME NEW i \in DOMAIN q, NEW j \in DOMAIN q, js[q[i]].by = w, js[q[j]].by = w, i < j
      PROVE  js[q[i]].seq < js[q[j]].seq
  <2>1. i + 1 < j + 1
    BY <1>1, <1>8
  <2> QED
    BY <1>5, <1>8, <1>t, <2>1 DEF Numbered
<1>9. e + 1 <= a
  BY <1>2
<1> QED
  BY <1>4, <1>6, <1>7, <1>8, <1>9 DEF Numbered

\* Nothing changes for the others behind it.
LEMMA RestBeside ==
  ASSUME NEW q \in Seq(Requests), NEW r \in Requests, NEW js, NEW w, NEW e, NEW a,
         js[r].by # w
  PROVE  /\ Numbered(<<r>> \o q, js, w, e, a) => Numbered(q, js, w, e, a)
         /\ NoneOf(<<r>> \o q, js, w) => NoneOf(q, js, w)
<1> DEFINE t == <<r>> \o q
<1>1. /\ DOMAIN q = 1 .. Len(q) /\ Len(q) \in Nat /\ DOMAIN t = 1 .. Len(q) + 1
      /\ t[1] = r /\ \A i \in 1 .. Len(q) : t[i + 1] = q[i]
  BY Prefixed
<1> HIDE DEF t
<1>2. \A i \in DOMAIN q : i + 1 \in DOMAIN t /\ t[i + 1] = q[i]
  BY <1>1
<1>3. NoneOf(t, js, w) => NoneOf(q, js, w)
  BY <1>2 DEF NoneOf
<1>4. ASSUME Numbered(t, js, w, e, a) PROVE Numbered(q, js, w, e, a)
  <2>1. ASSUME NEW i \in DOMAIN q, NEW j \in DOMAIN q, js[q[i]].by = w, js[q[j]].by = w, i < j
        PROVE  js[q[i]].seq < js[q[j]].seq
    <3>1. i + 1 < j + 1
      BY <1>1, <2>1
    <3> QED
      BY <1>2, <1>4, <2>1, <3>1 DEF Numbered
  <2>2. ASSUME NEW n \in e .. a - 1
        PROVE  \E i \in DOMAIN q : js[q[i]].by = w /\ js[q[i]].seq = n
    <3>1. PICK k \in DOMAIN t : js[t[k]].by = w /\ js[t[k]].seq = n
      BY <1>4, <2>2 DEF Numbered
    <3>2. k # 1
      BY <1>1, <3>1
    <3>3. k - 1 \in DOMAIN q /\ k - 1 + 1 = k
      BY <1>1, <3>2
    <3>4. t[k] = q[k - 1]
      BY <1>2, <3>3
    <3> QED
      BY <3>1, <3>3, <3>4
  <2>3. \A i \in DOMAIN q : js[q[i]].by = w => js[q[i]].seq \in e .. a - 1
    BY <1>2, <1>4 DEF Numbered
  <2> QED
    BY <1>4, <2>1, <2>2, <2>3 DEF Numbered
<1> QED
  BY <1>3, <1>4 DEF t

LEMMA OwnSubmittedStep ==
  ASSUME Shape, Places, SubmittedInOrder, OwnSubmitted, [Next]_vars
  PROVE  OwnSubmitted'
<1>0. scenario' = scenario
  BY ScenarioStays
<1>1. SUFFICES ASSUME scenario.merge = "off", NEW r \in Requests, promise'[r] # "none"
               PROVE  r \in 1 .. scenario.requests
  BY <1>0 DEF OwnSubmitted
<1>2. r \in Own /\ r \notin Merges /\ \A q \in Own : promise[q] # "merging"
  BY <1>0, <1>1, SubmittedInOrderStep, RequestsAreNumbers DEF SubmittedInOrder, Requests
<1>3. CASE promise[r] # "none"
  BY <1>1, <1>3 DEF OwnSubmitted
<1>4. CASE promise[r] = "none"
  <2>1. \A m : ~Waits(r, m)
    BY <1>4 DEF Waits
  <2>2. \A s \in Own : r # AwaitedMerge(s)
    BY <1>2, MergesOfCallers
  <2>3. SignBegins => r # SideMerge(Head(signQ)) \/ ~MergesAside(Head(signQ), Recommended(Head(signQ)))
    BY <1>2, MergesOfCallers DEF MergesAside
  <2>4. Submit(r)
    BY <1>1, <1>4, <2>1, <2>2, <2>3, PromiseMoves
  <2>5. r \in 1 .. NumRequests /\ r <= scenario.requests
    BY <1>2, <2>4 DEF Submit, Own
  <2>6. scenario.requests \in Nat
    BY ScenarioTypes DEF Shape
  <2> QED
    BY <2>5, <2>6
<1> QED
  BY <1>3, <1>4

LEMMA UnsignedYetStep ==
  ASSUME Shape, Places, UnsignedYet, [Next]_vars
  PROVE  UnsignedYet'
<1> SUFFICES ASSUME NEW r \in Requests, NotYet(r)'
             PROVE  job'[r].by = None
  BY DEF UnsignedYet
<1>1. NotYet(r) /\ ~Placed(r) /\ job[r].by = None
  BY NotYetBefore DEF Places, NotYetPlaced, UnsignedYet
<1>2. SignBegins => Head(signQ) # r
  BY <1>1, SignBeginsMoves DEF Placed
<1> QED
  BY <1>1, <1>2, JobSteps

\* What takes dispatchTx() into polling or into a retry.
LEMMA ReturnsCome ==
  ASSUME Shape, [Next]_vars, disp'.step \in {"polling", "mismatch", "reload"}
  PROVE  /\ disp.req \in Requests /\ disp'.req = disp.req
         /\ disp.step \in {"polling", "mismatch", "reload"} \/ Authentic(disp.req)
<1>0. /\ disp \in StageType /\ Idle.step = "idle"
      /\ disp.step # "idle" => disp.req \in Requests
  BY DEF Shape, TypeOK, StageType, DispShape, Idle
<1>1. ASSUME NEW step, Goes(step)
      PROVE  disp'.req = disp.req /\ disp'.step = step
  BY <1>0, <1>1 DEF Goes, StageType
<1>2. CASE UNCHANGED disp
  BY <1>0, <1>2
<1>3. CASE NodeRefuses
  <2>1. disp.step = "broadcast"
    BY <1>3 DEF NodeRefuses
  <2>2. CASE Authentic(disp.req)
    BY <1>0, <1>1, <1>3, <2>1, <2>2 DEF NodeRefuses
  <2>3. CASE ~Authentic(disp.req)
    <3>1. Goes("failed")
      BY <1>3, <2>3 DEF NodeRefuses, AfterError
    <3> QED
      BY <1>1, <3>1
  <2> QED
    BY <2>2, <2>3
<1>4. CASE NodeAdmits
  <2>1. disp.step = "broadcast" /\ Authentic(disp.req) /\ \E step : Goes(step)
    BY <1>4 DEF NodeAdmits
  <2> QED
    BY <1>0, <1>1, <2>1
<1>5. CASE PollFinds \/ RetryBegins
  <2>1. disp.step \in {"polling", "mismatch"} /\ \E step : Goes(step)
    BY <1>5 DEF PollFinds, RetryBegins
  <2> QED
    BY <1>0, <1>1, <2>1
<1>6. ASSUME DispatchBegins \/ AsyncSent \/ PollTimesOut \/ DispatchSucceeds
             \/ DispatchFails \/ MergeReloaded \/ MergeReloadFails
             \/ RetryQueued \/ RetryAbandoned
      PROVE  UNCHANGED disp
  <2>1. \/ disp' = Idle \/ UNCHANGED disp
        \/ disp' = [Idle EXCEPT !.req = Head(dispQ), !.step = "broadcast"]
        \/ \E step : step \notin {"polling", "mismatch", "reload"} /\ Goes(step)
    BY <1>6 DEF DispatchBegins, AsyncSent, PollTimesOut, DispatchSucceeds,
       DispatchFails, MergeReloaded, MergeReloadFails, RetryQueued, RetryAbandoned, AfterError
  <2>2. CASE disp' = [Idle EXCEPT !.req = Head(dispQ), !.step = "broadcast"]
    BY <2>2 DEF Idle
  <2> QED
    BY <1>0, <1>1, <2>1, <2>2
<1> QED
  BY <1>2, <1>3, <1>4, <1>5, <1>6, Writers DEF DispatchStep

LEMMA AuthenticStays ==
  ASSUME Shape, [Next]_vars, NEW r \in Requests
  PROVE  \/ (Authentic(r)' <=> Authentic(r)) /\ job'[r].by = job[r].by
         \/ SignBegins /\ r = Head(signQ)
<1>1. Author(r)' = Author(r)
  BY MergesStayOnChain
<1>2. \/ job'[r].by = job[r].by /\ job'[r].signs = job[r].signs
      \/ SignBegins /\ r = Head(signQ)
  BY JobSteps
<1> QED
  BY <1>1, <1>2 DEF Authentic

LEMMA ReturnsAuthenticStep ==
  ASSUME Shape, Places, UnsignedYet, ReturnsAuthentic, [Next]_vars
  PROVE  ReturnsAuthentic'
<1> SUFFICES ASSUME NEW r \in Requests, OnItsWayBack(r)', job'[r].by # None
             PROVE  Authentic(r)'
  BY DEF ReturnsAuthentic
<1>0. /\ signQ \in Seq(Requests) /\ None \notin Requests /\ OnePlace
  BY RequestsAreNumbers DEF Shape, TypeOK, Places
<1>1. ASSUME SignBegins
      PROVE  r # Head(signQ) /\ disp' = disp
             /\ (Queued(signQ', r) => Queued(signQ, r) \/ NotYet(r))
  <2>1. disp' = disp /\ signQ # <<>>
    BY <1>1, SignBeginsOn
  <2>2. EachOnce(signQ) /\ disp.req # Head(signQ)
    BY <1>0, <1>1, SignBeginsMoves DEF OnePlace
  <2>3. /\ ~Queued(Tail(signQ), Head(signQ))
        /\ \A x : Queued(Tail(signQ), x) => Queued(signQ, x)
    BY <1>0, <2>1, <2>2, QueuedTail
  <2>4. \A x \in Requests : Queued(signQ', x) => Queued(Tail(signQ), x) \/ (x # Head(signQ) /\ NotYet(x))
    BY <1>1, SignBeginsMoves DEF NotYet
  <2>5. r # Head(signQ)
    BY <2>1, <2>2, <2>3, <2>4 DEF OnItsWayBack
  <2> QED
    BY <2>1, <2>3, <2>4, <2>5
<1>2. Authentic(r) /\ job'[r].by = job[r].by => Authentic(r)'
  BY <1>1, AuthenticStays
<1>3. job[r].by = job'[r].by
  BY <1>1, JobSteps
<1>4. ~NotYet(r)
  BY <1>3 DEF UnsignedYet
<1>5. OnItsWayBack(r) \/ Authentic(r)
  <2>1. CASE disp'.req = r /\ disp'.step \in {"polling", "mismatch", "reload"}
    BY <2>1, ReturnsCome DEF OnItsWayBack
  <2>2. CASE Queued(signQ', r)
    <3>1. CASE UNCHANGED signQ
      BY <2>2, <3>1 DEF OnItsWayBack
    <3>2. CASE SignBegins
      BY <1>1, <1>4, <2>2, <3>2 DEF OnItsWayBack
    <3>3. CASE \E q \in Requests : Submit(q) \/ \E m \in Merges : MergeFollowed(m)
      <4>1. \/ UNCHANGED signQ
            \/ \E q \in Requests : signQ' = Append(signQ, q) /\ NotYet(q)
        BY <3>3, Entries DEF Places
      <4>2. CASE UNCHANGED signQ
        BY <2>2, <4>2 DEF OnItsWayBack
      <4>3. ASSUME NEW q \in Requests, signQ' = Append(signQ, q), NotYet(q)
            PROVE  OnItsWayBack(r)
        <5>1. Queued(Append(signQ, q), r) <=> Queued(signQ, r) \/ r = q
          BY <1>0, QueuedAppend
        <5>2. Queued(signQ, r)
          BY <1>4, <2>2, <4>3, <5>1
        <5> QED
          BY <5>2 DEF OnItsWayBack
      <4> QED
        BY <4>1, <4>2, <4>3
    <3>4. CASE RetryQueued
      <4>1. disp.step = "reload" /\ signQ' = Append(signQ, disp.req)
        BY <3>4 DEF RetryQueued, Enqueued
      <4>2. disp.req \in Requests
        BY <4>1 DEF Shape, DispShape, Idle
      <4> QED
        BY <1>0, <2>2, <4>1, <4>2, QueuedAppend DEF OnItsWayBack
    <3> QED
      BY <3>1, <3>2, <3>3, <3>4, RequestsAreNumbers, Writers
  <2> QED
    BY <2>1, <2>2 DEF OnItsWayBack
<1>6. Authentic(r)
  BY <1>3, <1>5 DEF ReturnsAuthentic
<1> QED
  BY <1>2, <1>3, <1>6

\* Calm does not come back.
LEMMA CalmBefore ==
  ASSUME Shape, Places, ReturnsAuthentic, [Next]_vars, Calm'
  PROVE  Calm
<1>0. /\ scenario' = scenario /\ disturbed \in Nat /\ appReloads \in Nat
      /\ scenario.requests \in Nat /\ scenario.requests <= NumRequests
  BY ScenarioStays, ScenarioTypes DEF Shape, TypeOK, ChainTypeOK
<1>1. disturbed = 0
  <2>1. CASE UNCHANGED disturbed
    BY <2>1 DEF Calm
  <2>2. CASE NodeRefuses
    BY <1>0, <2>2 DEF NodeRefuses, Disturb, Calm
  <2>3. CASE NodeStep
    BY <1>0, <2>3, ChainSteps DEF NodeStep, ChainNext, AsyncChecked, Calm
  <2> QED
    BY <2>1, <2>2, <2>3, Writers
<1>2. appReloads = 0 /\ grantee # "removed"
  <2>1. CASE UNCHANGED <<appReloads, grantee>>
    BY <2>1 DEF Calm
  <2>2. CASE AppReloads
    BY <1>0, <2>2 DEF AppReloads, Calm
  <2>3. CASE SetGrantee
    BY <2>3 DEF SetGrantee, Calm
  <2> QED
    BY <2>1, <2>2, <2>3, Writers
<1>3. ASSUME NEW r \in 1 .. scenario.requests
      PROVE  job[r].by = None \/ Authentic(r)
  <2>1. r \in Requests
    BY <1>0 DEF Requests, Own
  <2>2. job'[r].by = None \/ Authentic(r)'
    BY <1>0, <1>3 DEF Calm
  <2>3. CASE SignBegins /\ r = Head(signQ)
    <3>1. Queued(signQ, r)
      BY <2>3, SignBeginsMoves
    <3> QED
      BY <2>1, <3>1 DEF ReturnsAuthentic, OnItsWayBack
  <2>4. CASE ~(SignBegins /\ r = Head(signQ))
    <3>1. Authentic(r)' => Authentic(r)
      BY <2>1, <2>4, AuthenticStays
    <3>2. job'[r].by = job[r].by
      BY <2>1, <2>4, JobSteps
    <3> QED
      BY <2>2, <3>1, <3>2
  <2> QED
    BY <2>3, <2>4
<1> QED
  BY <1>0, <1>1, <1>2, <1>3 DEF Calm, Mode

\* What is on its way has no options that could shift a number.
LEMMA CalmRequests ==
  ASSUME Shape, Places, OwnSubmitted, Calm, NEW r \in Requests, Placed(r)
  PROVE  /\ r \in Own /\ ~IsMerge(r) /\ Mode(r) # "async"
         /\ scenario.sequence[r] = None
         /\ job[r].by = None \/ Authentic(r)
<1>1. r \in 1 .. scenario.requests
  BY DEF Places, NotYetPlaced, NotYet, OwnSubmitted, Calm
<1>2. scenario.requests \in Nat /\ scenario.requests <= NumRequests
  BY ScenarioTypes DEF Shape
<1>3. r \in Own
  BY <1>1, <1>2 DEF Own
<1> QED
  BY <1>1, <1>3, RequestsAreNumbers DEF Calm, IsMerge

LEMMA LeavingIs ==
  ASSUME Shape
  PROVE  /\ dispQ \in Seq(Requests) /\ Leaving \in Seq(Requests)
         /\ disp.step = "broadcast" =>
              disp.req \in Requests /\ Leaving = <<disp.req>> \o dispQ
         /\ disp.step # "broadcast" => Leaving = dispQ
<1>1. dispQ \in Seq(Requests)
  BY DEF Shape, TypeOK
<1>2. CASE disp.step = "broadcast"
  <2>1. disp.req \in Requests
    BY <1>2 DEF Shape, DispShape, Idle
  <2> QED
    BY <1>1, <1>2, <2>1, Prefixed DEF Leaving
<1>3. CASE disp.step # "broadcast"
  <2>1. Leaving = <<>> \o dispQ
    BY <1>3 DEF Leaving
  <2> QED
    BY <1>1, <1>3, <2>1, ConcatEmptySeq
<1> QED
  BY <1>1, <1>2, <1>3

LEMMA LeavingHolds ==
  ASSUME Shape, NEW i \in DOMAIN Leaving
  PROVE  /\ Leaving[i] \in Requests /\ IsSigned(job[Leaving[i]])
         /\ \/ Queued(dispQ, Leaving[i])
            \/ disp.step = "broadcast" /\ disp.req = Leaving[i]
<1>1. CASE disp.step # "broadcast"
  BY <1>1, LeavingIs DEF Queued, Shape, DispQShape
<1>2. CASE disp.step = "broadcast"
  <2>1. /\ disp.req \in Requests /\ dispQ \in Seq(Requests)
        /\ Leaving = <<disp.req>> \o dispQ
    BY <1>2, LeavingIs
  <2>2. IsSigned(job[disp.req])
    BY <1>2 DEF Shape, DispShape, Idle
  <2>3. /\ DOMAIN dispQ = 1 .. Len(dispQ) /\ Len(dispQ) \in Nat
        /\ DOMAIN Leaving = 1 .. Len(dispQ) + 1 /\ Leaving[1] = disp.req
        /\ \A j \in 1 .. Len(dispQ) : Leaving[j + 1] = dispQ[j]
    BY <2>1, Prefixed
  <2>4. CASE i = 1
    BY <1>2, <2>1, <2>2, <2>3, <2>4
  <2>5. CASE i # 1
    <3>1. i - 1 \in DOMAIN dispQ /\ i - 1 + 1 = i
      BY <2>3, <2>5
    <3>2. Leaving[i] = dispQ[i - 1]
      BY <2>3, <3>1
    <3> QED
      BY <2>1, <3>1, <3>2 DEF Queued, Shape, DispQShape
  <2> QED
    BY <2>4, <2>5
<1> QED
  BY <1>1, <1>2

\* The node expects the number of what is sent to it next.
LEMMA NextIsExpected ==
  ASSUME Shape, Places, OwnSubmitted, Calm, CalmFacts, disp.step = "broadcast"
  PROVE  /\ disp.req \in Requests /\ job[disp.req].by \in Wallets
         /\ account[job[disp.req].by] \in Nat /\ Expected(job[disp.req].by) \in Nat
         /\ InSequence /\ Authentic(disp.req) /\ Mode(disp.req) # "async"
         /\ Leaving = <<disp.req>> \o dispQ /\ dispQ \in Seq(Requests)
         /\ Numbered(dispQ, job, job[disp.req].by, Expected(job[disp.req].by) + 1,
                     account[job[disp.req].by])
<1>1. /\ disp.req \in Requests /\ dispQ \in Seq(Requests)
      /\ Leaving = <<disp.req>> \o dispQ
  BY LeavingIs
<1>2. IsSigned(job[disp.req])
  BY DEF Shape, DispShape, Idle
<1> DEFINE w == job[disp.req].by
<1>3. w \in Wallets /\ w # None
  BY <1>2 DEF IsSigned
<1>4. Authentic(disp.req) /\ Mode(disp.req) # "async"
  BY <1>1, <1>3, CalmRequests DEF Placed
<1>5. Leaving[1] = disp.req /\ 1 \in DOMAIN Leaving
  BY <1>1, Prefixed
<1>6. ~NoneOf(Leaving, job, w)
  BY <1>5 DEF NoneOf
<1>7. account[w] # None /\ Numbered(Leaving, job, w, Expected(w), account[w])
  BY <1>3, <1>6 DEF CalmFacts, LineGoesOn
<1>8. account[w] \in Nat /\ Expected(w) \in Nat
  <2>1. /\ account \in [Wallets -> Nat \cup {None}] /\ chainSeq \in [Wallets -> Nat]
        /\ pool \in [Wallets -> Seq(Txs(Requests))]
    BY DEF Shape, TypeOK, ChainTypeOK
  <2>2. account[w] \in Nat
    BY <1>3, <1>7, <2>1
  <2>3. chainSeq[w] \in Nat /\ Len(pool[w]) \in Nat
    BY <1>3, <2>1, LenProperties
  <2> QED
    BY <2>2, <2>3 DEF Expected
<1>9. job[disp.req].seq = Expected(w) /\ Numbered(dispQ, job, w, Expected(w) + 1, account[w])
  BY <1>1, <1>7, <1>8, FirstIsExpected
<1> QED
  BY <1>1, <1>3, <1>4, <1>8, <1>9 DEF InSequence

LEMMA NothingMismatchesStep ==
  ASSUME Shape, Places, OwnSubmitted, Calm, CalmFacts, [Next]_vars, Calm'
  PROVE  NothingMismatches'
<1> USE DEF CalmFacts, NothingMismatches
<1>0. /\ disp \in StageType /\ disturbed \in Nat /\ Idle.step = "idle"
      /\ disp.step # "idle" => disp.req \in Requests
      /\ disturbed = 0 /\ disturbed' = 0
  BY DEF Shape, TypeOK, ChainTypeOK, StageType, DispShape, Idle, Calm
<1>1. ASSUME NEW step, Goes(step)
      PROVE  disp'.req = disp.req /\ disp'.step = step
  BY <1>0, <1>1 DEF Goes, StageType
<1>2. \A what : ~Disturb(what)
  BY <1>0 DEF Disturb
<1>3. disp'.step \notin {"mismatch", "reload", "merge"}
  <2>1. CASE UNCHANGED disp
    BY <2>1
  <2>2. ~NodeRefuses
    BY <1>2, NextIsExpected DEF NodeRefuses
  <2>3. ASSUME PollFinds PROVE disp'.step \notin {"mismatch", "reload", "merge"}
    <3>1. PICK x \in results : Goes(Delivered(x.res))
      BY <2>3 DEF PollFinds
    <3>2. Delivered(x.res) \in {"succeeded", "failed"}
      BY <3>1 DEF Delivered, AfterError
    <3> QED
      BY <1>1, <3>1, <3>2
  <2>4. ASSUME DispatchSucceeds PROVE disp'.step \notin {"mismatch", "reload", "merge"}
    <3>1. ~MergesSigner(disp.req)
      <4>1. disp.step = "succeeded"
        BY <2>4 DEF DispatchSucceeds
      <4> QED
        BY <1>0, <4>1, CalmRequests DEF Placed, MergesSigner
    <3>2. disp' = Idle \/ Goes("failed")
      BY <2>4, <3>1 DEF DispatchSucceeds, AfterError
    <3> QED
      BY <1>0, <1>1, <3>2
  <2>5. ~MergeReloaded /\ ~MergeReloadFails /\ ~RetryBegins /\ ~RetryQueued /\ ~RetryAbandoned
    BY DEF MergeReloaded, MergeReloadFails, RetryBegins, RetryQueued, RetryAbandoned
  <2>6. ASSUME DispatchBegins \/ NodeAdmits \/ AsyncSent \/ PollTimesOut \/ DispatchFails
        PROVE  disp'.step \notin {"mismatch", "reload", "merge"}
    <3>1. \/ disp' = Idle \/ UNCHANGED disp
          \/ disp' = [Idle EXCEPT !.req = Head(dispQ), !.step = "broadcast"]
          \/ \E step \in {"polling", "succeeded", "failed"} : Goes(step)
      BY <2>6 DEF DispatchBegins, NodeAdmits, AsyncSent, PollTimesOut, DispatchFails, AfterError
    <3>2. [Idle EXCEPT !.req = Head(dispQ), !.step = "broadcast"].step = "broadcast"
      BY DEF Idle
    <3> QED
      BY <1>0, <1>1, <3>1, <3>2
  <2> QED
    BY <2>1, <2>2, <2>3, <2>4, <2>5, <2>6, Writers DEF DispatchStep
<1>4. limbo' = {}
  <2>1. ~AsyncSent
    BY NextIsExpected DEF AsyncSent
  <2>2. NodeStep => UNCHANGED limbo
    BY DEF NodeStep
  <2> QED
    BY <2>1, <2>2, Writers
<1>5. \A x \in results' : x.res # "mismatch"
  <2>1. CASE UNCHANGED results
    BY <2>1
  <2>2. CASE NodeStep
    <3>1. PICK w \in Wallets : \/ BlockIncludes(w) \/ ForeignAdmitted(w) \/ ForeignIncluded(w)
                               \/ ForeignDisplaces(w) \/ Evicted(w)
      BY <2>2 DEF NodeStep, ChainNext
    <3>2. BlockIncludes(w)
      BY <1>2, <3>1 DEF ForeignAdmitted, ForeignIncluded, ForeignDisplaces, Evicted
    <3>3. PICK res \in {"ok", "failed"} : results' = results \cup {ResultOf(Head(pool[w]), res)}
      BY <3>2 DEF BlockIncludes
    <3> QED
      BY <3>3 DEF ResultOf
  <2> QED
    BY <2>1, <2>2, Writers
<1> QED
  BY <1>3, <1>4, <1>5

\* Only signTx() reloads an account, and only one it finds unknown.
LEMMA CalmReloads ==
  ASSUME Shape, Places, OwnSubmitted, Calm, CalmFacts, [Next]_vars, Calm'
  PROVE  \/ UNCHANGED reload
         \/ /\ Prepared /\ account[SignWallet] = None /\ sign'.step = "load"
            /\ Asks(Signer, SignWallet)
         \/ (Loaded \/ SigningFails) /\ Ends(Signer)
         \/ ReloadStep(Signer)
<1> USE DEF CalmFacts, FirstReloadsOnly, NothingMismatches
<1>0. /\ reload \in [Actors -> ReloadType] /\ appReloads \in Nat
      /\ Signer \in Actors /\ App \in Actors /\ App # Signer
      /\ Merges \subseteq Actors /\ Signer \notin Merges /\ sign \in StageType
  BY ActorsDiffer DEF Shape, TypeOK, ReloadType, StageType, Actors
<1>1. \A a \in Actors : a # Signer =>
        ~Returned(a) /\ ~Failed(a) /\ ~ReloadStep(a)
  BY ReturnedIsReload
  DEF NoReload, Failed, ReloadStep, AccountQueried, AccountAssigned, StatusQueried
<1>2. ~AppReloads
  BY <1>0 DEF AppReloads, Calm
<1>3. ~AppReloadEnds
  BY <1>0, <1>1 DEF AppReloadEnds
<1>4. \A m \in Merges : ~MergeStep(m)
  BY <1>0, <1>1 DEF MergeStep, MergeFollowed, MergeFollowFails
<1>5. ~MergeReloaded /\ ~MergeReloadFails /\ ~RetryBegins /\ ~RetryQueued /\ ~RetryAbandoned
  BY DEF MergeReloaded, MergeReloadFails, RetryBegins, RetryQueued, RetryAbandoned
<1>6. DispatchSucceeds => UNCHANGED reload
  <2> SUFFICES ASSUME DispatchSucceeds PROVE UNCHANGED reload
    OBVIOUS
  <2>1. disp.step = "succeeded"
    BY DEF DispatchSucceeds
  <2>2. disp.req \in Requests
    BY <2>1 DEF Shape, DispShape, Idle
  <2>3. disp.req \in Own /\ ~IsMerge(disp.req)
    BY <2>2, CalmRequests DEF Placed
  <2> QED
    BY <2>3 DEF DispatchSucceeds, MergesSigner, Following
<1>7. Prepared => \/ UNCHANGED reload
                  \/ account[SignWallet] = None /\ sign'.step = "load" /\ Asks(Signer, SignWallet)
  BY <1>0 DEF Prepared, StageType
<1>8. Loaded => Ends(Signer)
  BY DEF Loaded, Returned
<1>9. SigningFails => UNCHANGED reload \/ Ends(Signer)
  BY DEF SigningFails, Failed, Ends
<1>10. (\E a \in Actors : ReloadStep(a)) => ReloadStep(Signer)
  BY <1>1
<1> QED
  BY <1>2, <1>3, <1>4, <1>5, <1>6, <1>7, <1>8, <1>9, <1>10, Writers

\* What becomes of the cached accounts.
LEMMA CalmAccounts ==
  ASSUME Shape, Places, OwnSubmitted, Calm, CalmFacts, [Next]_vars, Calm'
  PROVE  UNCHANGED account \/ Signed \/ AccountAssigned(Signer)
<1>1. ASSUME NEW a \in Actors, AccountAssigned(a) PROVE a = Signer
  BY <1>1 DEF AccountAssigned, CalmFacts, FirstReloadsOnly, NoReload
<1> QED
  BY <1>1, Writers

\* What becomes of the chain: blocks take from the pool what it counted.
LEMMA CalmChain ==
  ASSUME Shape, Places, OwnSubmitted, Calm, CalmFacts, [Next]_vars, Calm'
  PROVE  \/ UNCHANGED <<chainSeq, pool>>
         \/ NodeAdmits /\ UNCHANGED chainSeq
         \/ \E w \in Wallets : BlockIncludes(w)
<1>0. disturbed \in Nat /\ disturbed = 0 /\ disturbed' = 0 /\ limbo = {}
  BY DEF Shape, TypeOK, ChainTypeOK, Calm, CalmFacts, NothingMismatches
<1>1. \A what : ~Disturb(what)
  BY <1>0 DEF Disturb
<1>2. CASE NodeStep
  <2>1. PICK w \in Wallets : \/ BlockIncludes(w) \/ ForeignAdmitted(w) \/ ForeignIncluded(w)
                             \/ ForeignDisplaces(w) \/ Evicted(w)
    BY <1>0, <1>2 DEF NodeStep, ChainNext
  <2>2. BlockIncludes(w)
    BY <1>1, <2>1 DEF ForeignAdmitted, ForeignIncluded, ForeignDisplaces, Evicted
  <2> QED
    BY <2>2
<1> QED
  BY <1>2, Writers

LEMMA FirstReloadsOnlyStep ==
  ASSUME Shape, Places, OwnSubmitted, Calm, CalmFacts, [Next]_vars, Calm'
  PROVE  FirstReloadsOnly'
<1> DEFINE w == reload[Signer].wallet
<1>0. /\ reload \in [Actors -> ReloadType] /\ sign \in StageType
      /\ Signer \in Actors /\ chainSeq \in [Wallets -> Nat]
      /\ account \in [Wallets -> Nat \cup {None}] /\ pool \in [Wallets -> Seq(Txs(Requests))]
      /\ FirstReloadsOnly
  BY ActorsDiffer DEF Shape, TypeOK, ChainTypeOK, ReloadType, StageType, Actors, CalmFacts
<1>1. CASE UNCHANGED reload
  <2>1. \A a \in Actors : a # Signer => reload'[a] = NoReload
    BY <1>0, <1>1 DEF FirstReloadsOnly
  <2>2. CASE reload[Signer] = NoReload
    BY <1>1, <2>1, <2>2 DEF FirstReloadsOnly, NoReload
  <2>3. CASE reload[Signer] # NoReload
    <3>1. sign.step = "load" /\ w \in Wallets
      BY <1>0, <2>3 DEF FirstReloadsOnly, Shape, ReloadShape
    <3>2. UNCHANGED sign
      <4>1. ~SignBegins /\ ~Prepared /\ ~Signed /\ ~SignReturns
        BY <3>1 DEF SignBegins, Prepared, Signed, SignReturns, Idle
      <4>2. ~Loaded /\ ~SigningFails
        BY <1>0, <1>1, <2>3, <3>1 DEF Loaded, SigningFails, Returned, Failed, Ends, NoReload
      <4> QED
        BY <4>1, <4>2, Writers DEF SignStep
    <3>3. reload[Signer].step \in {"asked", "answered"} => account'[w] = None
      <4>1. ~Signed
        BY <3>1 DEF Signed
      <4>2. AccountAssigned(Signer) => FALSE
        BY <1>0, <1>1 DEF AccountAssigned
      <4> QED
        BY <1>0, <4>1, <4>2, CalmAccounts DEF FirstReloadsOnly
    <3>4. reload[Signer].step = "answered" => reload[Signer].seq = chainSeq'[w]
      <4> SUFFICES ASSUME reload[Signer].step = "answered"
                   PROVE  reload[Signer].seq = chainSeq'[w]
        OBVIOUS
      <4>1. pool[w] = <<>> /\ reload[Signer].seq = chainSeq[w]
        BY <1>0, <3>1 DEF FirstReloadsOnly, CalmFacts, LineGoesOn
      <4>2. ASSUME NEW u \in Wallets, BlockIncludes(u)
            PROVE  chainSeq'[w] = chainSeq[w]
        BY <1>0, <3>1, <4>1, <4>2 DEF BlockIncludes, Advance
      <4> QED
        BY <4>1, <4>2, CalmChain
    <3> QED
      BY <1>1, <2>1, <3>1, <3>2, <3>3, <3>4 DEF FirstReloadsOnly
  <2> QED
    BY <2>2, <2>3
<1>2. CASE /\ Prepared /\ account[SignWallet] = None /\ sign'.step = "load"
           /\ Asks(Signer, SignWallet)
  <2>1. /\ reload' = [reload EXCEPT ![Signer] = [step |-> "asked", wallet |-> SignWallet, seq |-> None]]
        /\ UNCHANGED account
    BY <1>2 DEF Prepared, Asks, cache
  <2> QED
    BY <1>0, <1>2, <2>1 DEF FirstReloadsOnly
<1>3. CASE Ends(Signer)
  BY <1>0, <1>3 DEF FirstReloadsOnly, Ends, NoReload
<1>4. CASE ReloadStep(Signer)
  <2>1. /\ UNCHANGED <<sign, chainSeq>>
        /\ \A a \in Actors : a # Signer => reload'[a] = reload[a]
        /\ reload[Signer] # NoReload
    BY <1>0, <1>4 DEF ReloadStep, AccountQueried, AccountAssigned, StatusQueried, NoReload,
       env, chainVars
  <2>2. CASE AccountQueried(Signer)
    BY <1>0, <2>1, <2>2 DEF AccountQueried, FirstReloadsOnly, cache, ReloadType
  <2>3. CASE AccountAssigned(Signer) \/ StatusQueried(Signer)
    <3>1. reload'[Signer].step \in {"assigned", "merged", "unmerged"}
      BY <1>0, <2>3 DEF AccountAssigned, StatusQueried, ReloadType
    <3> QED
      BY <1>0, <2>1, <3>1 DEF FirstReloadsOnly
  <2> QED
    BY <1>4, <2>2, <2>3 DEF ReloadStep
<1> QED
  BY <1>1, <1>2, <1>3, <1>4, CalmReloads

LEMMA SignsTheNextStep ==
  ASSUME Shape, Places, OwnSubmitted, Calm, CalmFacts, [Next]_vars, Calm'
  PROVE  SignsTheNext'
<1> SUFFICES ASSUME sign'.step = "sign"
             PROVE  sign'.seq = account'[job'[sign'.req].by]
  BY DEF SignsTheNext, SignWallet
<1>0. sign \in StageType /\ account \in [Wallets -> Nat \cup {None}]
  BY DEF Shape, TypeOK, StageType
<1>1. CASE UNCHANGED sign
  <2>1. sign.step = "sign" /\ sign.seq = account[job[sign.req].by]
    BY <1>1 DEF CalmFacts, SignsTheNext, SignWallet
  <2>2. sign.req \in Requests
    BY <2>1 DEF Shape, SignShape, Idle
  <2>3. UNCHANGED account
    <3>1. ~Signed
      BY <1>0, <1>1, <2>1 DEF Signed, StageType
    <3>2. ~AccountAssigned(Signer)
      BY <2>1 DEF AccountAssigned, CalmFacts, FirstReloadsOnly, NoReload
    <3> QED
      BY <3>1, <3>2, CalmAccounts
  <2>4. job'[sign.req].by = job[sign.req].by
    <3>1. ~SignBegins
      BY <2>1 DEF SignBegins, Idle
    <3> QED
      BY <2>2, <3>1, JobSteps
  <2> QED
    BY <1>1, <2>1, <2>3, <2>4
<1>2. CASE Prepared \/ Loaded
  <2>1. sign.step \in {"prepare", "load"} /\ UNCHANGED <<job, account>>
    BY <1>2 DEF Prepared, Loaded, cache
  <2>2. sign.req \in Requests /\ Signing(sign.req)
    BY <2>1 DEF Shape, SignShape, Idle, Signing
  <2>3. scenario.sequence[sign.req] = None
    BY <2>2, CalmRequests DEF Placed
  <2>4. TakesSequence(account[SignWallet])
    BY <1>0, <1>2 DEF Prepared, Loaded, StageType
  <2>5. sign'.seq = account[SignWallet] /\ sign'.req = sign.req
    BY <1>0, <2>3, <2>4 DEF TakesSequence, StageType
  <2> QED
    BY <2>1, <2>5 DEF SignWallet
<1>3. CASE SignBegins \/ Signed \/ SigningFails \/ SignReturns
  <2>1. UNCHANGED sign
    BY <1>0, <1>3, SignBeginsOn DEF Signed, SigningFails, SignReturns, Idle, StageType
  <2> QED
    BY <1>1, <2>1
<1> QED
  BY <1>1, <1>2, <1>3, Writers DEF SignStep

\* What becomes of the line to the node.
LEMMA LeavingMoves ==
  ASSUME Shape, Places, OwnSubmitted, Calm, CalmFacts, GranteeWasThere, [Next]_vars, Calm'
  PROVE  \/ ~Signed /\ ~NodeAdmits /\ Leaving' = Leaving
         \/ /\ Signed /\ sign.req \in Requests /\ Leaving' = Append(Leaving, sign.req)
            /\ \A i \in DOMAIN Leaving : Leaving[i] # sign.req
         \/ /\ NodeAdmits /\ disp.step = "broadcast" /\ Leaving' = dispQ
<1>0. /\ disp \in StageType /\ dispQ \in Seq(Requests) /\ sign \in StageType
      /\ Idle.step = "idle"
  BY DEF Shape, TypeOK, StageType, Idle
<1>1. CASE Signed
  <2>1. /\ sign.step = "sign" /\ dispQ' = Append(dispQ, sign.req) /\ UNCHANGED disp
    BY <1>1 DEF Signed, Enqueued
  <2>2. sign.req \in Requests /\ Signing(sign.req)
    BY <2>1 DEF Shape, SignShape, Idle, Signing
  <2>3. Leaving' = Append(Leaving, sign.req)
    <3>1. CASE disp.step # "broadcast"
      <4>1. Leaving = dispQ
        BY <3>1, LeavingIs
      <4>2. Append(dispQ, sign.req) = <<>> \o Append(dispQ, sign.req)
        BY <1>0, <2>2, AppendProperties, ConcatEmptySeq
      <4> QED
        BY <2>1, <3>1, <4>1, <4>2 DEF Leaving
    <3>2. CASE disp.step = "broadcast"
      <4> DEFINE h == <<disp.req>>
                 l == <<sign.req>>
      <4>1. disp.req \in Requests
        BY <3>2, LeavingIs
      <4>2. h \in Seq(Requests) /\ l \in Seq(Requests)
        BY <2>2, <4>1
      <4>3. Leaving = h \o dispQ /\ Leaving' = h \o Append(dispQ, sign.req)
        BY <2>1, <3>2 DEF Leaving
      <4>4. Append(dispQ, sign.req) = dispQ \o l
        BY <1>0, <2>2, AppendIsConcat
      <4>5. h \o dispQ \in Seq(Requests)
        BY <1>0, <4>2, ConcatProperties
      <4>6. Append(h \o dispQ, sign.req) = (h \o dispQ) \o l
        BY <2>2, <4>5, AppendIsConcat
      <4> HIDE DEF h, l
      <4>7. h \o (dispQ \o l) = (h \o dispQ) \o l
        BY <1>0, <4>2, ConcatAssociative
      <4> QED
        BY <4>3, <4>4, <4>6, <4>7
    <3> QED
      BY <3>1, <3>2
  <2>4. \A i \in DOMAIN Leaving : Leaving[i] # sign.req
    <3> SUFFICES ASSUME NEW i \in DOMAIN Leaving, Leaving[i] = sign.req PROVE FALSE
      OBVIOUS
    <3>1. Queued(dispQ, sign.req) \/ disp.req = sign.req
      BY LeavingHolds
    <3> QED
      BY <2>2, <3>1 DEF Places, OnePlace
  <2> QED
    BY <1>1, <2>2, <2>3, <2>4
<1>2. CASE NodeAdmits
  <2>1. disp.step = "broadcast" /\ UNCHANGED dispQ
    BY <1>2 DEF NodeAdmits, Rest
  <2>2. disp'.step # "broadcast"
    BY <1>2, <2>1, LeavingIs, DispMoves
  <2>3. Leaving' = <<>> \o dispQ
    BY <2>1, <2>2 DEF Leaving
  <2> QED
    BY <1>0, <1>2, <2>1, <2>3, ConcatEmptySeq
<1>3. CASE DispatchBegins
  <2>1. /\ disp = Idle /\ dispQ # <<>> /\ dispQ' = Tail(dispQ)
        /\ job[Head(dispQ)].by \in Registered => disp' = [Idle EXCEPT !.req = Head(dispQ), !.step = "broadcast"]
    BY <1>3 DEF DispatchBegins
  <2>2. Head(dispQ) \in Requests /\ Head(dispQ) = dispQ[1] /\ 1 \in DOMAIN dispQ
    BY <1>0, <2>1, LenProperties
  <2>3. job[Head(dispQ)].by \in Registered
    BY <2>2 DEF Shape, DispQShape, IsSigned, GranteeWasThere, Calm, TypeOK, Registered
  <2>4. disp'.step = "broadcast" /\ disp'.req = Head(dispQ)
    BY <2>1, <2>3 DEF Idle
  <2>5. Leaving' = <<Head(dispQ)>> \o Tail(dispQ)
    BY <2>1, <2>4 DEF Leaving
  <2>6. <<Head(dispQ)>> \o Tail(dispQ) = dispQ
    BY <1>0, <2>1
  <2>7. Leaving = dispQ
    BY <2>1, LeavingIs DEF Idle
  <2>8. ~Signed /\ ~NodeAdmits
    <3>1. sign' = sign
      BY <1>3 DEF DispatchBegins
    <3>2. Signed => sign.step = "sign" /\ sign'.step = "complete"
      BY <1>0 DEF Signed, StageType
    <3>3. NodeAdmits => disp.step = "broadcast"
      BY DEF NodeAdmits
    <3> QED
      BY <1>0, <2>1, <3>1, <3>2, <3>3
  <2> QED
    BY <2>5, <2>6, <2>7, <2>8
<1>4. CASE ~Signed /\ ~NodeAdmits /\ ~DispatchBegins
  <2>1. UNCHANGED dispQ
    BY <1>4, Writers
  <2>2. disp.step = "broadcast" => UNCHANGED disp
    <3> SUFFICES ASSUME disp.step = "broadcast" PROVE UNCHANGED disp
      OBVIOUS
    <3>1. InSequence /\ Authentic(disp.req) /\ Mode(disp.req) # "async"
      BY NextIsExpected
    <3>2. ~NodeRefuses
      <4>1. disturbed = 0 /\ disturbed' = 0
        BY DEF Calm
      <4> QED
        BY <3>1, <4>1 DEF NodeRefuses, Disturb
    <3>3. ~AsyncSent
      BY <3>1 DEF AsyncSent
    <3>4. DispatchStep => FALSE
      BY <1>4, <3>2, <3>3 DEF DispatchStep, PollFinds, PollTimesOut, DispatchSucceeds,
         DispatchFails, MergeReloaded, MergeReloadFails, RetryBegins, RetryQueued, RetryAbandoned
    <3> QED
      BY <3>4, Writers
  <2>3. disp.step # "broadcast" => disp'.step # "broadcast"
    <3>1. CASE disp.req \in Requests
      BY <1>0, <3>1, DispMoves
    <3>2. CASE disp = Idle
      <4>1. DispatchStep => FALSE
        BY <1>0, <1>4, <3>2 DEF DispatchStep, NodeRefuses, AsyncSent, PollFinds, PollTimesOut,
           DispatchSucceeds, DispatchFails, MergeReloaded, MergeReloadFails, RetryBegins,
           RetryQueued, RetryAbandoned
      <4> QED
        BY <4>1, Writers
    <3> QED
      BY <3>1, <3>2 DEF Shape, DispShape
  <2>4. Leaving' = Leaving
    BY <2>1, <2>2, <2>3 DEF Leaving
  <2> QED
    BY <1>4, <2>4
<1> QED
  BY <1>1, <1>2, <1>3, <1>4

LEMMA OneAtATimeSteps ==
  ASSUME Shape, Signed
  PROVE  ~NodeAdmits
<1>1. sign.step = "sign" /\ sign'.step = "complete"
  BY DEF Signed, Shape, TypeOK, StageType
<1>2. NodeAdmits => sign' = sign
  BY DEF NodeAdmits, Rest
<1> QED
  BY <1>1, <1>2

\* The node counts one more for what it admits, and the same after a block.
LEMMA CalmExpected ==
  ASSUME Shape, Places, OwnSubmitted, Calm, CalmFacts, [Next]_vars, Calm', NEW w \in Wallets
  PROVE  /\ Expected(w) \in Nat
         /\ IF NodeAdmits /\ w = job[disp.req].by THEN Expected(w)' = Expected(w) + 1
            ELSE /\ Expected(w)' = Expected(w)
                 /\ pool[w] = <<>> => pool'[w] = <<>>
<1>0. /\ chainSeq \in [Wallets -> Nat] /\ pool \in [Wallets -> Seq(Txs(Requests))]
      /\ Len(pool[w]) \in Nat
  BY LenProperties DEF Shape, TypeOK, ChainTypeOK
<1>1. CASE NodeAdmits
  <2>1. /\ Admit(job[disp.req].by, Tx(disp.req)) /\ UNCHANGED chainSeq
        /\ disp.step = "broadcast"
    BY <1>1 DEF NodeAdmits
  <2>2. disp.req \in Requests /\ job[disp.req].by \in Wallets
    BY <2>1, NextIsExpected
  <2>3. Tx(disp.req) \in Txs(Requests)
    BY <2>2, TxTypes
  <2>4. CASE w = job[disp.req].by
    <3>1. pool'[w] = Append(pool[w], Tx(disp.req))
      BY <1>0, <2>1, <2>2, <2>4 DEF Admit
    <3>2. Len(pool'[w]) = Len(pool[w]) + 1
      BY <1>0, <2>3, <3>1, AppendProperties
    <3>3. chainSeq'[w] = chainSeq[w] /\ chainSeq[w] \in Nat
      BY <1>0, <2>1
    <3>4. chainSeq[w] + (Len(pool[w]) + 1) = (chainSeq[w] + Len(pool[w])) + 1
      BY <1>0, <3>3
    <3>5. Expected(w)' = Expected(w) + 1
      BY <3>2, <3>3, <3>4 DEF Expected
    <3> QED
      BY <1>0, <1>1, <2>4, <3>5 DEF Expected
  <2>5. CASE w # job[disp.req].by
    BY <1>0, <2>1, <2>5 DEF Admit, Expected
  <2> QED
    BY <2>4, <2>5
<1>2. CASE ~NodeAdmits /\ UNCHANGED <<chainSeq, pool>>
  BY <1>0, <1>2 DEF Expected
<1>3. ASSUME ~NodeAdmits, NEW u \in Wallets, BlockIncludes(u)
      PROVE  Expected(w)' = Expected(w) /\ (pool[w] = <<>> => pool'[w] = <<>>)
  <2>1. /\ pool[u] # <<>> /\ chainSeq' = [chainSeq EXCEPT ![u] = @ + 1]
        /\ pool' = [pool EXCEPT ![u] = Tail(@)]
    BY <1>3 DEF BlockIncludes, Advance, DropHead
  <2>2. CASE w = u
    <3>1. Len(Tail(pool[w])) = Len(pool[w]) - 1 /\ pool[w] # <<>>
      BY <1>0, <2>1, <2>2, LenProperties
    <3> QED
      BY <1>0, <2>1, <2>2, <3>1 DEF Expected
  <2>3. CASE w # u
    BY <1>0, <2>1, <2>3 DEF Expected
  <2> QED
    BY <2>2, <2>3
<1>4. Expected(w) \in Nat
  BY <1>0 DEF Expected
<1> QED
  BY <1>1, <1>2, <1>3, <1>4, CalmChain

\* Requests that keep their wallet and number keep the line.
LEMMA NumberedSame ==
  ASSUME NEW q, NEW js, NEW ks, NEW w, NEW e, NEW a,
         \A i \in DOMAIN q : ks[q[i]].by = js[q[i]].by /\ ks[q[i]].seq = js[q[i]].seq
  PROVE  /\ Numbered(q, js, w, e, a) => Numbered(q, ks, w, e, a)
         /\ NoneOf(q, js, w) => NoneOf(q, ks, w)
BY DEF Numbered, NoneOf

LEMMA LineGoesOnStep ==
  ASSUME Shape, Places, OwnSubmitted, GranteeWasThere, Calm, CalmFacts, [Next]_vars, Calm'
  PROVE  LineGoesOn'
<1> SUFFICES ASSUME NEW w \in Wallets
             PROVE  IF account'[w] = None
                    THEN pool'[w] = <<>> /\ NoneOf(Leaving', job', w)
                    ELSE Numbered(Leaving', job', w, Expected(w)', account'[w])
  BY DEF LineGoesOn, NoneOf, Numbered
<1>0. /\ account \in [Wallets -> Nat \cup {None}] /\ None \notin Nat
      /\ Leaving \in Seq(Requests) /\ dispQ \in Seq(Requests)
      /\ sign \in StageType /\ disp \in StageType /\ job \in [Requests -> Jobs]
      /\ Expected(w) \in Nat
      /\ IF account[w] = None THEN pool[w] = <<>> /\ NoneOf(Leaving, job, w)
         ELSE Numbered(Leaving, job, w, Expected(w), account[w])
  BY LeavingIs, CalmExpected DEF Shape, TypeOK, StageType, Jobs, CalmFacts, LineGoesOn
<1>1. CASE Signed
  <2>1. /\ sign.step = "sign" /\ sign.req \in Requests
        /\ account' = [account EXCEPT ![SignWallet] = sign.seq + 1]
        /\ job' = [job EXCEPT ![sign.req].seq = sign.seq]
        /\ UNCHANGED pool
    BY <1>1 DEF Signed, NextSequence, Shape, SignShape, Idle, env, chainVars
  <2>2. SignWallet \in Wallets /\ sign.seq = account[SignWallet] /\ sign.seq \in Nat
    BY <2>1 DEF CalmFacts, SignsTheNext, Shape, SignShape, SignWallet, Idle
  <2>3. Leaving' = Append(Leaving, sign.req) /\ \A i \in DOMAIN Leaving : Leaving[i] # sign.req
    BY <1>1, OneAtATimeSteps, LeavingMoves
  <2>4. /\ \A i \in DOMAIN Leaving : /\ job'[Leaving[i]].by = job[Leaving[i]].by
                                     /\ job'[Leaving[i]].seq = job[Leaving[i]].seq
        /\ job'[sign.req].by = SignWallet /\ job'[sign.req].seq = sign.seq
    <3>1. \A i \in DOMAIN Leaving : Leaving[i] \in Requests
      BY LeavingHolds
    <3> QED
      BY <1>0, <2>1, <2>3, <3>1 DEF SignWallet, Jobs
  <2>5. Expected(w)' = Expected(w) /\ pool'[w] = pool[w]
    <3>1. ~NodeAdmits
      BY <1>1, OneAtATimeSteps
    <3> QED
      BY <2>1, <3>1, CalmExpected
  <2>6. CASE w = SignWallet
    <3>1. account[w] \in Nat /\ account'[w] = account[w] + 1 /\ account'[w] # None
      BY <1>0, <2>1, <2>2, <2>6
    <3>2. Numbered(Leaving, job, w, Expected(w), account[w])
      BY <1>0, <3>1
    <3>r. job'[sign.req].by = w /\ job'[sign.req].seq = account[w]
      BY <2>2, <2>4, <2>6
    <3>3. Numbered(Append(Leaving, sign.req), job', w, Expected(w), account[w] + 1)
      <4>1. Leaving \in Seq(Requests) /\ sign.req \in Requests
        BY <1>0, <2>1
      <4>2. Expected(w) \in Nat /\ account[w] \in Nat
        BY <1>0, <3>1
      <4>3. \A i \in DOMAIN Leaving : /\ job'[Leaving[i]].by = job[Leaving[i]].by
                                       /\ job'[Leaving[i]].seq = job[Leaving[i]].seq
        BY <2>4
      <4> QED
        BY <3>2, <3>r, <4>1, <4>2, <4>3, NumberedNext
    <3> QED
      BY <2>3, <2>5, <3>1, <3>3
  <2>7. CASE w # SignWallet
    <3>1. account'[w] = account[w]
      BY <1>0, <2>1, <2>7
    <3>2. /\ Numbered(Leaving, job, w, Expected(w), account[w])
               => Numbered(Append(Leaving, sign.req), job', w, Expected(w), account[w])
          /\ NoneOf(Leaving, job, w) => NoneOf(Append(Leaving, sign.req), job', w)
      BY <1>0, <2>1, <2>4, <2>7, NumberedBeside
    <3> QED
      BY <1>0, <2>3, <2>5, <3>1, <3>2
  <2> QED
    BY <2>6, <2>7
<1>2. CASE NodeAdmits
  <2>1. disp.step = "broadcast" /\ Leaving' = dispQ /\ UNCHANGED <<job, account>>
    <3>1. disp.step = "broadcast" /\ UNCHANGED <<job, account, sign>>
      BY <1>2 DEF NodeAdmits, Rest, cache
    <3>2. ~Signed
      BY <1>2, OneAtATimeSteps
    <3> QED
      BY <1>2, <3>1, <3>2, LeavingMoves
  <2> DEFINE u == job[disp.req].by
  <2>2. /\ u \in Wallets /\ account[u] \in Nat /\ Leaving = <<disp.req>> \o dispQ
        /\ disp.req \in Requests
        /\ Numbered(dispQ, job, u, Expected(u) + 1, account[u])
    BY <2>1, NextIsExpected
  <2>3. CASE w = u
    <3>1. Expected(w)' = Expected(w) + 1
      BY <1>2, <2>3, CalmExpected
    <3> QED
      BY <1>0, <2>1, <2>2, <2>3, <3>1
  <2>4. CASE w # u
    <3>1. Expected(w)' = Expected(w) /\ (pool[w] = <<>> => pool'[w] = <<>>)
      BY <2>4, CalmExpected
    <3>2. /\ Numbered(Leaving, job, w, Expected(w), account[w])
               => Numbered(dispQ, job, w, Expected(w), account[w])
          /\ NoneOf(Leaving, job, w) => NoneOf(dispQ, job, w)
      BY <1>0, <2>2, <2>4, RestBeside
    <3> QED
      BY <1>0, <2>1, <3>1, <3>2
  <2> QED
    BY <2>3, <2>4
<1>3. CASE ~Signed /\ ~NodeAdmits
  <2>1. /\ Leaving' = Leaving /\ Expected(w)' = Expected(w)
        /\ pool[w] = <<>> => pool'[w] = <<>>
    BY <1>3, LeavingMoves, CalmExpected
  <2>2. \A i \in DOMAIN Leaving : /\ job'[Leaving[i]].by = job[Leaving[i]].by
                                  /\ job'[Leaving[i]].seq = job[Leaving[i]].seq
    <3> SUFFICES ASSUME NEW i \in DOMAIN Leaving
                 PROVE  job'[Leaving[i]].by = job[Leaving[i]].by /\ job'[Leaving[i]].seq = job[Leaving[i]].seq
      OBVIOUS
    <3>1. /\ Leaving[i] \in Requests
          /\ Queued(dispQ, Leaving[i]) \/ disp.req = Leaving[i]
      BY LeavingHolds
    <3>2. SignBegins => Leaving[i] # Head(signQ)
      BY <3>1, SignBeginsMoves DEF Places, OnePlace
    <3> QED
      BY <1>3, <3>1, <3>2, JobSteps
  <2>3. /\ Numbered(Leaving, job, w, Expected(w), account[w])
             => Numbered(Leaving, job', w, Expected(w), account[w])
        /\ NoneOf(Leaving, job, w) => NoneOf(Leaving, job', w)
    BY <2>2, NumberedSame
  <2>4. CASE account'[w] = account[w]
    BY <1>0, <2>1, <2>3, <2>4
  <2>5. CASE AccountAssigned(Signer) /\ account'[w] # account[w]
    <3>1. /\ reload[Signer].step = "answered" /\ UNCHANGED job
          /\ account' = [account EXCEPT ![reload[Signer].wallet] = reload[Signer].seq]
      BY <2>5 DEF AccountAssigned
    <3>2. w = reload[Signer].wallet /\ account'[w] = reload[Signer].seq
      BY <1>0, <2>5, <3>1
    <3>3. account[w] = None /\ account'[w] = chainSeq[w]
      BY <3>1, <3>2 DEF CalmFacts, FirstReloadsOnly
    <3>4. pool[w] = <<>> /\ NoneOf(Leaving, job, w)
      BY <1>0, <3>3
    <3>5. Expected(w) = chainSeq[w] /\ chainSeq[w] \in Nat
      BY <3>4 DEF Expected, Shape, TypeOK, ChainTypeOK
    <3>6. Numbered(Leaving, job, w, Expected(w), chainSeq[w])
      BY <3>4, <3>5 DEF Numbered, NoneOf
    <3> QED
      BY <1>0, <2>1, <3>1, <3>3, <3>5, <3>6
  <2> QED
    BY <1>3, <2>4, <2>5, CalmAccounts
<1> QED
  BY <1>1, <1>2, <1>3


\* Before the first call nothing is disturbed and nothing is on its way.
LEMMA CalmInit ==
  Init => /\ OwnSubmitted /\ UnsignedYet /\ ReturnsAuthentic /\ SubmittedInOrder
          /\ OptionsKept /\ GranteeWasThere /\ CalmFacts
<1> SUFFICES ASSUME Init
             PROVE  /\ OwnSubmitted /\ UnsignedYet /\ ReturnsAuthentic /\ SubmittedInOrder
                    /\ OptionsKept /\ GranteeWasThere /\ CalmFacts
  OBVIOUS
<1>1. \A r \in Requests : job[r] =
         [signer |-> scenario.signer[r], bypass |-> r \in scenario.bypass,
          msgs |-> "raw", signs |-> "raw", reattempts |-> 0,
          by |-> None, seq |-> None]
  BY Zenon DEF Init
<1>2. /\ signQ = <<>> /\ dispQ = <<>> /\ sign = Idle /\ disp = Idle
      /\ grantee = "absent" /\ limbo = {} /\ results = {}
      /\ \A r \in Requests : promise[r] = "none"
      /\ \A w \in Wallets : account[w] = None /\ pool[w] = <<>>
      /\ \A a \in Actors : reload[a] = NoReload
  BY DEF Init, ChainInit
<1>3. \A r \in Requests : job[r].by = None
  <2> SUFFICES ASSUME NEW r \in Requests PROVE job[r].by = None
    OBVIOUS
  <2>1. job[r] = [signer |-> scenario.signer[r], bypass |-> r \in scenario.bypass,
                 msgs |-> "raw", signs |-> "raw", reattempts |-> 0,
                 by |-> None, seq |-> None]
    BY <1>1
  <2> QED
    BY <2>1
<1>4. OwnSubmitted /\ UnsignedYet /\ ReturnsAuthentic /\ SubmittedInOrder
  <2>1. Own \subseteq Requests /\ Merges \subseteq Requests
    BY RequestsAreNumbers
  <2> QED
    BY <1>2, <1>3, <2>1 DEF OwnSubmitted, UnsignedYet, ReturnsAuthentic, SubmittedInOrder
<1>5. OptionsKept
  <2> SUFFICES ASSUME NEW r \in Requests
               PROVE  /\ job[r].reattempts = 0 /\ job[r].signer = scenario.signer[r]
                      /\ job[r].bypass = (r \in scenario.bypass)
    BY Zenon DEF OptionsKept
  <2>1. job[r] = [signer |-> scenario.signer[r], bypass |-> r \in scenario.bypass,
                 msgs |-> "raw", signs |-> "raw", reattempts |-> 0,
                 by |-> None, seq |-> None]
    BY <1>1
  <2> QED
    BY <2>1
<1>6. GranteeWasThere
  BY <1>2, <1>3 DEF GranteeWasThere
<1>7. FirstReloadsOnly /\ NothingMismatches /\ SignsTheNext
  <2>1. Signer \in Actors /\ NoReload.step = "idle"
    BY ActorsDiffer DEF NoReload
  <2> QED
    BY <1>2, <2>1 DEF FirstReloadsOnly, NothingMismatches, SignsTheNext, Idle
<1>8. LineGoesOn
  <2>1. DOMAIN Leaving = {}
    BY <1>2 DEF Leaving, Idle
  <2> QED
    BY <1>2, <2>1 DEF LineGoesOn, NoneOf
<1> QED
  BY <1>4, <1>5, <1>6, <1>7, <1>8 DEF CalmFacts

\* While nobody else uses the accounts and nothing is refused, reloaded or
\* removed, signTx() hands out the numbers in a row: what is signed and not
\* yet with the node carries, in order, those from the one that the node
\* expects next to the one before the cache's (wallet.ts, lines 204 and 222).
THEOREM NumbersLineUp == Spec => []SequencesLineUp
<1> DEFINE Base == /\ Shape /\ OptionsKept /\ Places /\ GranteeWasThere
                   /\ SubmittedInOrder /\ OwnSubmitted /\ UnsignedYet
                   /\ ReturnsAuthentic
           Inv == Base /\ (Calm => CalmFacts)
<1>1. Init => Inv
  BY ShapeInit, PlacesInit, CalmInit
<1>2. Inv /\ [Next]_vars => Inv'
  <2> SUFFICES ASSUME Base, Calm => CalmFacts, [Next]_vars
               PROVE  Base' /\ (Calm' => CalmFacts')
    OBVIOUS
  <2>1. Base'
    BY ShapeStep, OptionsStep, PlacesStep, GranteeThereStep, SubmittedInOrderStep,
       OwnSubmittedStep, UnsignedYetStep, ReturnsAuthenticStep
  <2>2. ASSUME Calm' PROVE CalmFacts'
    <3>1. Calm /\ CalmFacts
      BY <2>2, CalmBefore
    <3>2. FirstReloadsOnly' /\ NothingMismatches' /\ SignsTheNext' /\ LineGoesOn'
      BY <2>2, <3>1, FirstReloadsOnlyStep, NothingMismatchesStep, SignsTheNextStep,
         LineGoesOnStep
    <3> QED
      BY <3>2 DEF CalmFacts
  <2> QED
    BY <2>1, <2>2
<1>3. Inv => SequencesLineUp
  <2> SUFFICES ASSUME CalmFacts, NEW w \in Wallets
               PROVE  /\ disp.step # "mismatch"
                      /\ \A i, j \in OnTheWay(w) :
                           i < j => job[Leaving[i]].seq < job[Leaving[j]].seq
                      /\ IF account[w] = None THEN OnTheWay(w) = {}
                         ELSE /\ Expected(w) <= account[w]
                              /\ {job[Leaving[i]].seq : i \in OnTheWay(w)}
                                   = Expected(w) .. account[w] - 1
    <3>1. Wallets # {}
      OBVIOUS
    <3> QED
      BY <3>1 DEF SequencesLineUp
  <2>1. disp.step # "mismatch"
    BY DEF CalmFacts, NothingMismatches
  <2>2. CASE account[w] = None
    <3>1. NoneOf(Leaving, job, w)
      BY <2>2 DEF CalmFacts, LineGoesOn
    <3>2. OnTheWay(w) = {}
      BY <3>1 DEF NoneOf, OnTheWay
    <3> QED
      BY <2>1, <2>2, <3>2
  <2>3. CASE account[w] # None
    <3>1. Numbered(Leaving, job, w, Expected(w), account[w])
      BY <2>3 DEF CalmFacts, LineGoesOn
    <3>2. \A i : i \in OnTheWay(w) <=> i \in DOMAIN Leaving /\ job[Leaving[i]].by = w
      BY DEF OnTheWay
    <3>3. {job[Leaving[i]].seq : i \in OnTheWay(w)} = Expected(w) .. account[w] - 1
      BY <3>1, <3>2 DEF Numbered
    <3>4. /\ \A i, j \in OnTheWay(w) :
               i < j => job[Leaving[i]].seq < job[Leaving[j]].seq
          /\ Expected(w) <= account[w]
      BY <3>1, <3>2 DEF Numbered
    <3> QED
      BY <2>1, <2>3, <3>3, <3>4
  <2> QED
    BY <2>2, <2>3
<1> QED
  BY <1>1, <1>2, <1>3, PTL DEF Spec
=============================================================================
