---------------------------- MODULE QueueManager ----------------------------
(***************************************************************************)
(* packages/core/src/util/tx.ts: the debounced task queue behind the two   *)
(* transaction queues of DemexSDK.  enqueue() arms a timer; the timer's    *)
(* callback, process(), drains the queue one task at a time.               *)
(*                                                                         *)
(* Time is kept as what is left of it: timer is the time left until the    *)
(* callback of currQueueTrigger may run, threshold what is left until      *)
(* currTriggerThreshold (never below 0; None stands for the field's 0).    *)
(* A callback may run at any moment after its time is up, never before.    *)
(***************************************************************************)
EXTENDS Naturals, Sequences

CONSTANTS Tasks,            \* the tasks callers may enqueue, each a fresh object
          None,             \* no task, no timer, no threshold
          TriggerDelay,     \* options.triggerDelay
          MaxDelay,         \* options.maxDelayThreshold
          CallerHabits      \* what callers do besides enqueue(task) when idle

ASSUME QueueManagerAssumption ==
  /\ TriggerDelay \in Nat \ {0}
  /\ MaxDelay \in Nat
  /\ None \notin Tasks
  /\ None \notin Nat
  /\ CallerHabits \subseteq {"callWhileBusy", "skipTrigger", "callTrigger"}

VARIABLES queue,              \* tasks to be processed, the next one first
          isProcessingQueue,  \* the sync lock of process()
          current,            \* the task the processor is working on
          timer,              \* time left on currQueueTrigger, or None
          threshold,          \* time left to currTriggerThreshold, or None
          accepted,           \* history: every task enqueued, in order
          done,               \* history: every task processed, in order
          overran             \* history: a timer expired on the running loop

vars == <<queue, isProcessingQueue, current, timer, threshold,
          accepted, done, overran>>

Elems(s) == {s[i] : i \in DOMAIN s}

Init == /\ queue = <<>>
        /\ isProcessingQueue = FALSE
        /\ current = None
        /\ timer = None
        /\ threshold = None
        /\ accepted = <<>>
        /\ done = <<>>
        /\ overran = FALSE

-----------------------------------------------------------------------------
(* Variants of trigger() and of the loop of process() with a plausible     *)
(* mistake in them; the runs show that the properties below notice.        *)

TriggerWithoutThreshold ==
  /\ timer' = TriggerDelay
  /\ UNCHANGED threshold

TriggerAlwaysShifts ==
  /\ timer' = TriggerDelay
  /\ threshold' = IF threshold = None /\ MaxDelay > 0
                  THEN MaxDelay ELSE threshold

TriggerAfterMaxDelay ==
  IF threshold # None /\ threshold < TriggerDelay
  THEN UNCHANGED <<timer, threshold>>
  ELSE /\ timer' = MaxDelay
       /\ threshold' = IF threshold = None /\ MaxDelay > 0
                       THEN MaxDelay ELSE threshold

TakeNewest ==
  IF queue = <<>>
  THEN /\ isProcessingQueue' = FALSE
       /\ current' = None
       /\ UNCHANGED queue
  ELSE /\ isProcessingQueue' = TRUE
       /\ current' = queue[Len(queue)]
       /\ queue' = SubSeq(queue, 1, Len(queue) - 1)

TakeNextButKeepTask ==
  IF queue = <<>>
  THEN /\ isProcessingQueue' = FALSE
       /\ current' = None
       /\ UNCHANGED queue
  ELSE /\ isProcessingQueue' = TRUE
       /\ current' = Head(queue)
       /\ UNCHANGED queue

KeepThreshold == UNCHANGED threshold

-----------------------------------------------------------------------------
(* trigger(): arm the timer, or move it, unless that would put it past the *)
(* threshold; the first trigger since process() began sets the threshold.  *)

Trigger ==
  IF threshold # None /\ threshold < TriggerDelay
  THEN UNCHANGED <<timer, threshold>>
  ELSE /\ timer' = TriggerDelay
       /\ threshold' = IF threshold = None /\ MaxDelay > 0
                       THEN MaxDelay ELSE threshold

CallerMayCall == "callWhileBusy" \in CallerHabits \/ ~isProcessingQueue

Enqueue(t, skipTrigger) ==
  /\ CallerMayCall
  /\ skipTrigger => "skipTrigger" \in CallerHabits
  /\ t \notin Elems(accepted)
  /\ queue' = Append(queue, t)
  /\ accepted' = Append(accepted, t)
  /\ IF skipTrigger THEN UNCHANGED <<timer, threshold>> ELSE Trigger
  /\ UNCHANGED <<isProcessingQueue, current, done, overran>>

\* trigger() is public: callers may ask again at any time.
TriggerCall ==
  /\ CallerMayCall
  /\ "callTrigger" \in CallerHabits
  /\ Trigger
  /\ UNCHANGED <<queue, isProcessingQueue, current, accepted, done, overran>>

(* The loop of process(): take the oldest task, or release the lock. *)
TakeNext ==
  IF queue = <<>>
  THEN /\ isProcessingQueue' = FALSE
       /\ current' = None
       /\ UNCHANGED queue
  ELSE /\ isProcessingQueue' = TRUE
       /\ current' = Head(queue)
       /\ queue' = Tail(queue)

ResetThreshold == threshold' = None

\* The timer's callback when no loop is running.
ProcessBegins ==
  /\ timer = 0
  /\ ~isProcessingQueue
  /\ timer' = None
  /\ ResetThreshold
  /\ TakeNext
  /\ overran' = FALSE
  /\ UNCHANGED <<accepted, done>>

\* The timer's callback while a loop is running: an early return.
ProcessReturnsEarly ==
  /\ timer = 0
  /\ isProcessingQueue
  /\ timer' = None
  /\ overran' = TRUE
  /\ UNCHANGED <<queue, isProcessingQueue, current, threshold, accepted, done>>

\* The processor's promise settles; a rejection is logged and ignored.
ProcessorSettles ==
  /\ current # None
  /\ done' = Append(done, current)
  /\ TakeNext
  /\ UNCHANGED <<timer, threshold, accepted, overran>>

Less(left) == IF left = None \/ left = 0 THEN left ELSE left - 1

Tick ==
  /\ timer' = Less(timer)
  /\ threshold' = Less(threshold)
  /\ UNCHANGED <<queue, isProcessingQueue, current, accepted, done, overran>>

Next ==
  \/ \E t \in Tasks, skip \in BOOLEAN : Enqueue(t, skip)
  \/ TriggerCall
  \/ ProcessBegins
  \/ ProcessReturnsEarly
  \/ ProcessorSettles
  \/ Tick

Spec == Init /\ [][Next]_vars

(* Time passes, an expired timer's callback is run, and every task the    *)
(* processor was given settles; callers promise nothing.                   *)
Fairness == /\ WF_vars(Tick)
            /\ WF_vars(ProcessBegins \/ ProcessReturnsEarly)
            /\ WF_vars(ProcessorSettles)

FairSpec == Spec /\ Fairness

-----------------------------------------------------------------------------
(* The state the fields of a QueueManager can take. *)
TypeOK ==
  /\ queue \in Seq(Tasks)
  /\ isProcessingQueue \in BOOLEAN
  /\ current \in Tasks \cup {None}
  /\ timer \in (0 .. TriggerDelay) \cup {None}
  /\ threshold \in (0 .. MaxDelay) \cup {None}
  /\ accepted \in Seq(Tasks)
  /\ done \in Seq(Tasks)
  /\ overran \in BOOLEAN

Running == IF current = None THEN <<>> ELSE <<current>>

(* Unshifting at one end of the array and popping at the other (lines 49   *)
(* and 77) loses no task, runs none twice and keeps the order of enqueue.  *)
NothingLostOrReordered == accepted = (done \o Running) \o queue

(* "max wait for 1s before dispatching queue" (line 62): however often the *)
(* queue is triggered again, a pending timer never lies past the threshold.*)
TimerWithinThreshold ==
  timer # None /\ threshold # None => timer <= threshold

(* trigger() arms no timer when the threshold is near or past, trusting    *)
(* that one is pending (line 57).  The trust is broken, and the queue deaf *)
(* to every later enqueue, only if a timer expired while the loop was      *)
(* running: line 71 then returns before line 73 resets the threshold.      *)
DeafOnlyAfterOverrun ==
  threshold # None /\ timer = None => overran

(* "max wait for 1s before dispatching queue" (line 62): every task a       *)
(* caller enqueued is processed in the end.                                *)
EveryTaskProcessed ==
  \A t \in Tasks : (t \in Elems(accepted)) ~> (t \in Elems(done))

(* A queue whose timer is set processes every task that waits in it, unless *)
(* a timer expires while the loop is running (line 71).                    *)
ProcessedUnlessOverrun ==
  \A t \in Tasks :
    (t \in Elems(queue) /\ timer # None) ~> (t \in Elems(done) \/ overran)

(* The queue is a serial, order-preserving executor of tasks. *)
Serial == INSTANCE SerialQueue
            WITH waiting <- queue, running <- current, finished <- done

RefinesSerialQueue == Serial!Spec
=============================================================================
