------------------------- MODULE DebouncedPipeline -------------------------
(***************************************************************************)
(* TxPipeline with the triggers of its two queues (packages/core/src/util/ *)
(* tx.ts), on which it depends whether they keep working.  A queue begins  *)
(* on its tasks when its timer expires; while it works through them, the   *)
(* timer of a task that joins may expire on the running loop, and then the *)
(* queue can be deaf to the tasks that join after the loop has ended       *)
(* (DeafOnlyAfterOverrun of QueueManager).  The steps are those of         *)
(* TxPipeline, fewer of them, so all its invariants hold here.             *)
(***************************************************************************)
EXTENDS TxPipeline, SequencesExt

VARIABLES trigger,  \* a queue's timer is "pending"; or there is none, and the
                    \* threshold is 0 ("quiet") or was left behind ("lost")
          looping   \* the queues whose isProcessingQueue is set

debouncedVars == <<vars, trigger, looping>>

Queues == {Signer, Dispatcher}

Waiting(q) == ToSet(IF q = Signer THEN signQ ELSE dispQ)

Works(q) == IF q = Signer THEN sign # Idle ELSE disp # Idle

DebouncedInit == /\ Init
                 /\ trigger = [q \in Queues |-> "quiet"]
                 /\ looping = {}

-----------------------------------------------------------------------------
\* A step takes a task out of a queue, or puts one into it.
Takes(q) == ~(Waiting(q) \subseteq Waiting(q)')
Joins(q) == ~(Waiting(q)' \subseteq Waiting(q))

\* process() begins: the timer has expired, and the threshold is reset.
Begins(q) == Takes(q) /\ q \notin looping

\* A variant of the next definition: process() takes one task only.
OneTaskOnly(q) == Works(q)'

\* The loop goes on while there are tasks, and looks in the turn in which one
\* is done.
LoopGoesOn(q) == \/ Works(q)'
                 \/ (q \in looping \/ Takes(q)) /\ Waiting(q)' # {}

\* trigger() sets the timer, or trusts in the one there is.  Without one, and
\* with a threshold left behind, it sets one only in the 700 ms after that
\* threshold was chosen.
Triggered(q, inTime) ==
  CASE Joins(q) /\ (trigger[q] # "lost" \/ inTime) -> "pending"
    [] ~Joins(q) /\ Begins(q)                      -> "quiet"
    [] OTHER                                       -> trigger[q]

Debounced ==
  /\ \A q \in Queues : Begins(q) => trigger[q] = "pending"
  /\ \E inTime \in SUBSET {q \in Queues : Joins(q) /\ trigger[q] = "lost"} :
       trigger' = [q \in Queues |-> Triggered(q, q \in inTime)]
  /\ looping' = {q \in Queues : LoopGoesOn(q)}

\* The timer expires on the running loop, or finds nothing to do.
TimerExpires(q) ==
  /\ trigger[q] = "pending"
  /\ q \in looping \/ Waiting(q) = {}
  /\ trigger' = [trigger EXCEPT ![q] = IF q \in looping THEN "lost" ELSE "quiet"]
  /\ UNCHANGED <<vars, looping>>

DebouncedNext == (Next /\ Debounced) \/ \E q \in Queues : TimerExpires(q)

(* A queue whose timer is pending or whose loop is running goes on, every  *)
(* call of the SDK to a node, a signer or a callback returns, and blocks   *)
(* take transactions from the pool.  Nothing is said of when a timer       *)
(* expires that a running loop may be faster than.                         *)
Fairness ==
  /\ WF_debouncedVars(SignStep /\ Debounced)
  /\ WF_debouncedVars(DispatchStep /\ Debounced)
  /\ WF_debouncedVars((\E a \in Actors : ReloadStep(a)) /\ Debounced)
  /\ WF_debouncedVars((\E m \in Merges : MergeStep(m)) /\ Debounced)
  /\ \A w \in Wallets :
       WF_debouncedVars(BlockIncludes(w) /\ UNCHANGED <<disp, limbo, Rest>> /\ Debounced)

FairSpec == DebouncedInit /\ [][DebouncedNext]_debouncedVars /\ Fairness

-----------------------------------------------------------------------------
\* Request r, or the merge its caller waits for, is in a queue that no timer
\* and no loop will get to.
Unheard(r) ==
  \E q \in Queues : /\ trigger[q] = "lost" /\ q \notin looping
                    /\ \/ r \in Waiting(q)
                       \/ \E m \in Waiting(q) : Waits(r, m)

(* Every promise signAndBroadcast() or queueTx() returned is settled, in   *)
(* spite of failures of nodes, signers and blocks; the one exception is a  *)
(* request left in a queue that a timer expiring on its running loop       *)
(* (tx.ts, line 71) has made deaf, and to which nobody else wakes it.      *)
EveryRequestSettles ==
  \A r \in Requests : []<>(r \notin Open) \/ <>[]Unheard(r)

OneAtATime == /\ scenario.window = 1 /\ scenario.faults = {}
              /\ scenario.disturbances \subseteq {"foreignIncluded"}
              /\ scenario.maxDisturbed = 1 /\ scenario.maxAppReloads = 0
              /\ scenario.grantee = "none" /\ ~scenario.retryDisabled
              /\ \A r \in Requests :
                   /\ scenario.signer[r] = None /\ scenario.sequence[r] = None
                   /\ Mode(r) = "block"

(* onSignComplete() returns in the 300 ms before what it was told of is    *)
(* dispatched.                                                             *)
PromptCallback == sign.step = "complete" => disp = Idle

(* "retry sendTx if nonce error once" (line 357): with one request at a    *)
(* time, and a callback that is not slower than all the rest of it, one    *)
(* transaction of somebody else's does no harm.                            *)
EveryRequestResolves ==
  OneAtATime /\ []PromptCallback =>
    \A r \in Own : (r \in Open) ~> (promise[r] = "resolved")
=============================================================================
