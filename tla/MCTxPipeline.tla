---------------------------- MODULE MCTxPipeline ----------------------------
(* Small instances of TxPipeline for TLC: the scenarios of its runs. *)
EXTENDS TxPipeline

Always(x) == [r \in Requests |-> x]

\* Requests without options, broadcast in block mode; nothing goes wrong.
Plain == [requests |-> 2, window |-> 2, signer |-> Always(None),
          sequence |-> Always(None), bypass |-> {}, mode |-> Always("block"),
          authorised |-> {}, grantee |-> "none", merge |-> "off",
          ownMerges |-> {}, retryDisabled |-> FALSE,
          faults |-> {}, disturbances |-> {}, maxDisturbed |-> 0,
          maxAppReloads |-> 0]

OnTheNode == {"answerLost", "execFails", "slowBlocks"}
InTheWallet == {"estimateFails", "signRefused"}

\* Three requests in flight, everything on the node may go wrong.
Busy == [Plain EXCEPT !.requests = 3, !.window = 3,
           !.faults = OnTheNode \cup {"signRefused"},
           !.disturbances = DisturbanceKinds, !.maxDisturbed = 1]

\* The application reloads the account at any moment.
Reloading == [Plain EXCEPT !.faults = OnTheNode \cup InTheWallet \cup {"noAccount"},
                !.disturbances = DisturbanceKinds, !.maxDisturbed = 1,
                !.maxAppReloads = 1]
ReloadingTwice == [Reloading EXCEPT !.faults = {}, !.maxDisturbed = 2]

\* Two wallets, one of which is named; nothing that could shift a sequence.
Undisturbed == [Plain EXCEPT !.requests = 3, !.window = 3,
                  !.signer[2] = Grantee, !.bypass = {3},
                  !.grantee = "genuine", !.faults = OnTheNode \cup InTheWallet]

\* A grantee that comes and goes, callbacks and reloads that fail, and a
\* request that names its sequence number.
Granted == [Plain EXCEPT !.sequence[2] = 0, !.bypass = {2},
              !.authorised = {1, 2}, !.grantee = "genuine",
              !.faults = Loses \cup {"slowBlocks", "granteeExpires"},
              !.disturbances = {"foreignIncluded"}, !.maxDisturbed = 1]

\* A grantee that may send the second request only.
HalfGranted == [Granted EXCEPT !.authorised = {2}, !.bypass = {},
                  !.sequence[2] = None]

\* What setGrantee() itself installs.
PlainGrantee == [Granted EXCEPT !.sequence[2] = None, !.grantee = "plain",
                   !.signer[3] = Grantee,
                   !.requests = 3, !.faults = {"walletRemoved"}]

\* The other modes, mixed.
Async == [Plain EXCEPT !.mode = Always("async"), !.maxAppReloads = 1,
            !.faults = {"signRefused", "answerLost"}, !.maxDisturbed = 2,
            !.disturbances = {"foreignAdmitted", "foreignIncluded"}]
Sync == [Plain EXCEPT !.mode = Always("sync"), !.maxAppReloads = 1,
           !.faults = {"answerLost"}, !.retryDisabled = TRUE,
           !.disturbances = {"foreignAdmitted", "evicted"}, !.maxDisturbed = 2]
Mixed == [Plain EXCEPT !.requests = 3, !.window = 2, !.mode[1] = "async",
            !.mode[2] = "sync", !.faults = {"answerLost", "execFails"},
            !.disturbances = {"foreignIncluded"}, !.maxDisturbed = 1]

\* The same, disturbed: its transaction is tried again by the main wallet.
NamedGrantee == [Undisturbed EXCEPT !.requests = 2, !.window = 2,
                   !.authorised = {1}, !.faults = {},
                   !.disturbances = DisturbanceKinds, !.maxDisturbed = 1]

\* Callers whose options, or whose SDK, ask for a merge.
MergingEach == [Plain EXCEPT !.merge = "opts",
                  !.faults = {"execFails", "reloadFails"}]
Merging == [Plain EXCEPT !.merge = "sdk", !.faults = {"execFails", "reloadFails"},
              !.disturbances = {"foreignIncluded"}, !.maxDisturbed = 1]
MergingOne == [Plain EXCEPT !.merge = "sdk", !.window = 1, !.ownMerges = {2},
                 !.requests = 3, !.disturbances = {"foreignIncluded"},
                 !.maxDisturbed = 1]

SafetyScenarios == {Busy, Reloading, ReloadingTwice, Undisturbed, NamedGrantee,
                    Granted, HalfGranted, PlainGrantee, Async, Sync, Mixed,
                    MergingEach, Merging, MergingOne}
=============================================================================
