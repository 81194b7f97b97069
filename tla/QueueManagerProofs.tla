------------------------- MODULE QueueManagerProofs -------------------------
(***************************************************************************)
(* The safety properties of QueueManager, proved for every set of tasks,   *)
(* every delay and every habit of the callers.                             *)
(*                                                                         *)
(* TypeOK needs one more fact to be inductive: the sync lock is taken      *)
(* exactly while a task is with the processor (LockHeldWhileProcessing),   *)
(* which is what keeps two loops from ever popping the same array.         *)
(***************************************************************************)
EXTENDS QueueManager, SequenceTheorems, TLAPS

LockHeldWhileProcessing == isProcessingQueue = (current # None)

-----------------------------------------------------------------------------

LEMMA NoneIsNoDelay ==
  /\ None \notin 0 .. TriggerDelay
  /\ None \notin 0 .. MaxDelay
  /\ TriggerDelay \in 0 .. TriggerDelay
  /\ MaxDelay \in 0 .. MaxDelay
BY QueueManagerAssumption

LEMMA LessInRange ==
  ASSUME NEW m \in Nat, NEW x \in (0 .. m) \cup {None}
  PROVE  Less(x) \in (0 .. m) \cup {None}
BY QueueManagerAssumption DEF Less

\* What the loop of process() leaves behind: the types and the lock.
LEMMA TakeNextTyped ==
  ASSUME TypeOK, TakeNext
  PROVE  /\ queue' \in Seq(Tasks)
         /\ isProcessingQueue' \in BOOLEAN
         /\ current' \in Tasks \cup {None}
         /\ isProcessingQueue' = (current' # None)
<1>1. CASE queue = <<>>
  BY <1>1 DEF TypeOK, TakeNext
<1>2. CASE queue # <<>>
  <2>1. Head(queue) \in Tasks /\ Tail(queue) \in Seq(Tasks)
    BY <1>2 DEF TypeOK
  <2> QED BY <1>2, <2>1, QueueManagerAssumption DEF TakeNext
<1> QED BY <1>1, <1>2

LEMMA TriggerTyped ==
  ASSUME TypeOK, Trigger
  PROVE  /\ timer' \in (0 .. TriggerDelay) \cup {None}
         /\ threshold' \in (0 .. MaxDelay) \cup {None}
BY NoneIsNoDelay DEF TypeOK, Trigger

\* Every field of a QueueManager keeps its type, and the sync lock is held
\* exactly while a task is with the processor.
THEOREM TypeCorrect == Spec => [](TypeOK /\ LockHeldWhileProcessing)
<1> DEFINE TInv == TypeOK /\ LockHeldWhileProcessing
<1>1. Init => TInv
  <2>1. Init => TypeOK
    <3>1. <<>> \in Seq(Tasks)
      OBVIOUS
    <3> QED BY Zenon, <3>1 DEF Init, TypeOK
  <2>2. Init => LockHeldWhileProcessing
    BY Zenon DEF Init, LockHeldWhileProcessing
  <2> QED BY <2>1, <2>2
<1>2. TInv /\ [Next]_vars => TInv'
  <2> SUFFICES ASSUME TInv, [Next]_vars PROVE TInv'
    OBVIOUS
  <2> USE DEF LockHeldWhileProcessing
  <2>1. ASSUME NEW t \in Tasks, NEW skip \in BOOLEAN, Enqueue(t, skip)
        PROVE  TInv'
    <3>1. /\ timer' \in (0 .. TriggerDelay) \cup {None}
          /\ threshold' \in (0 .. MaxDelay) \cup {None}
      BY <2>1, TriggerTyped DEF Enqueue, TypeOK
    <3>2. Append(queue, t) \in Seq(Tasks) /\ Append(accepted, t) \in Seq(Tasks)
      BY <2>1 DEF TypeOK
    <3> QED BY <2>1, <3>1, <3>2 DEF Enqueue, TypeOK
  <2>2. CASE TriggerCall
    BY <2>2, TriggerTyped DEF TriggerCall, TypeOK
  <2>3. CASE ProcessBegins
    BY <2>3, TakeNextTyped DEF ProcessBegins, ResetThreshold, TypeOK
  <2>4. CASE ProcessReturnsEarly
    BY <2>4 DEF ProcessReturnsEarly, TypeOK
  <2>5. CASE ProcessorSettles
    <3>1. current \in Tasks
      BY <2>5 DEF ProcessorSettles, TypeOK
    <3>2. Append(done, current) \in Seq(Tasks)
      BY <3>1 DEF TypeOK
    <3> QED BY <2>5, <3>2, TakeNextTyped DEF ProcessorSettles, TypeOK
  <2>6. CASE Tick
    <3>1. Less(timer) \in (0 .. TriggerDelay) \cup {None}
      BY LessInRange, QueueManagerAssumption DEF TypeOK
    <3>2. Less(threshold) \in (0 .. MaxDelay) \cup {None}
      BY LessInRange, QueueManagerAssumption DEF TypeOK
    <3> QED BY <2>6, <3>1, <3>2 DEF Tick, TypeOK
  <2>7. CASE UNCHANGED vars
    BY <2>7 DEF vars, TypeOK
  <2> QED BY <2>1, <2>2, <2>3, <2>4, <2>5, <2>6, <2>7 DEF Next
<1> QED BY <1>1, <1>2, PTL DEF Spec

-----------------------------------------------------------------------------

\* The loop of process() moves the oldest task from the queue to the
\* processor: between them they hold the same tasks, in the same order.
LEMMA TakeNextKeepsOrder ==
  ASSUME TypeOK, TakeNext
  PROVE  Running' \o queue' = queue
<1>1. CASE queue = <<>>
  BY <1>1 DEF TakeNext, Running
<1>2. CASE queue # <<>>
  <2>1. /\ Head(queue) \in Tasks
        /\ Tail(queue) \in Seq(Tasks)
        /\ queue = <<Head(queue)>> \o Tail(queue)
    BY <1>2, HeadTailProperties DEF TypeOK
  <2>2. Running' = <<Head(queue)>>
    BY <1>2, <2>1, QueueManagerAssumption DEF TakeNext, Running
  <2> QED BY <1>2, <2>1, <2>2 DEF TakeNext
<1> QED BY <1>1, <1>2

\* Unshifting at one end of the array and popping at the other loses no
\* task, runs none twice and keeps the order in which they were enqueued.
THEOREM FifoCorrect == Spec => []NothingLostOrReordered
<1> DEFINE TInv == TypeOK /\ LockHeldWhileProcessing
<1>1. Init => NothingLostOrReordered
  BY DEF Init, NothingLostOrReordered, Running
<1>2. TInv /\ NothingLostOrReordered /\ [Next]_vars => NothingLostOrReordered'
  <2> SUFFICES ASSUME TInv, NothingLostOrReordered, [Next]_vars
               PROVE  NothingLostOrReordered'
    OBVIOUS
  <2> USE DEF NothingLostOrReordered
  <2>0. Running \in Seq(Tasks)
    BY DEF Running, TypeOK
  <2>1. ASSUME NEW t \in Tasks, NEW skip \in BOOLEAN, Enqueue(t, skip)
        PROVE  NothingLostOrReordered'
    <3>1. /\ queue' = queue \o <<t>>
          /\ accepted' = accepted \o <<t>>
          /\ Running' = Running
          /\ done' = done
      BY <2>1, AppendIsConcat DEF Enqueue, TypeOK, Running
    <3>2. done \o Running \in Seq(Tasks)
      BY <2>0, ConcatProperties DEF TypeOK
    <3>3. <<t>> \in Seq(Tasks)
      OBVIOUS
    <3>4. ((done \o Running) \o queue) \o <<t>>
            = (done \o Running) \o (queue \o <<t>>)
      BY <3>2, <3>3, ConcatAssociative DEF TypeOK
    <3> QED BY <3>1, <3>4
  <2>2. CASE TriggerCall
    BY <2>2 DEF TriggerCall, Running
  <2>3. CASE ProcessBegins
    <3>1. Running' \o queue' = queue
      BY <2>3, TakeNextKeepsOrder DEF ProcessBegins
    <3>2. Running' \in Seq(Tasks) /\ queue' \in Seq(Tasks)
      BY <2>3, TakeNextTyped DEF ProcessBegins, Running
    <3>3. Running = <<>> /\ done' = done /\ accepted' = accepted
      BY <2>3 DEF ProcessBegins, Running, LockHeldWhileProcessing
    <3>4. done \o Running = done
      BY <3>3, ConcatEmptySeq DEF TypeOK
    <3>5. (done \o Running') \o queue' = done \o (Running' \o queue')
      <4>1. done \in Seq(Tasks)
        BY DEF TypeOK
      <4> QED BY <3>2, <4>1, ConcatAssociative
    <3> QED BY <3>1, <3>3, <3>4, <3>5
  <2>4. CASE ProcessReturnsEarly
    BY <2>4 DEF ProcessReturnsEarly, Running
  <2>5. CASE ProcessorSettles
    <3>1. Running' \o queue' = queue
      BY <2>5, TakeNextKeepsOrder DEF ProcessorSettles
    <3>2. Running' \in Seq(Tasks) /\ queue' \in Seq(Tasks)
      BY <2>5, TakeNextTyped DEF ProcessorSettles, Running
    <3>3. /\ Running = <<current>>
          /\ done' = done \o Running
          /\ accepted' = accepted
      BY <2>5, AppendIsConcat DEF ProcessorSettles, Running, TypeOK
    <3>4. done' \in Seq(Tasks)
      BY <2>0, <3>3, ConcatProperties DEF TypeOK
    <3>5. (done' \o Running') \o queue' = done' \o (Running' \o queue')
      BY <3>2, <3>4, ConcatAssociative
    <3> QED BY <3>1, <3>3, <3>5
  <2>6. CASE Tick
    BY <2>6 DEF Tick, Running
  <2>7. CASE UNCHANGED vars
    BY <2>7 DEF vars, Running
  <2> QED BY <2>1, <2>2, <2>3, <2>4, <2>5, <2>6, <2>7 DEF Next
<1> QED BY <1>1, <1>2, TypeCorrect, PTL DEF Spec

-----------------------------------------------------------------------------

\* A pending timer never lies past the threshold, provided that one delay is
\* not already longer than the longest wait.
THEOREM TimerBounded ==
  ASSUME TriggerDelay <= MaxDelay
  PROVE  Spec => []TimerWithinThreshold
<1> DEFINE TInv == TypeOK /\ LockHeldWhileProcessing
<1>1. Init => TimerWithinThreshold
  BY DEF Init, TimerWithinThreshold
<1>2. TInv /\ TimerWithinThreshold /\ [Next]_vars => TimerWithinThreshold'
  <2> SUFFICES ASSUME TInv, TimerWithinThreshold, [Next]_vars
               PROVE  TimerWithinThreshold'
    OBVIOUS
  <2>0. ASSUME Trigger PROVE TimerWithinThreshold'
    BY <2>0, QueueManagerAssumption DEF Trigger, TimerWithinThreshold, TypeOK
  <2>1. ASSUME NEW t \in Tasks, NEW skip \in BOOLEAN, Enqueue(t, skip)
        PROVE  TimerWithinThreshold'
    BY <2>0, <2>1 DEF Enqueue, TimerWithinThreshold
  <2>2. CASE TriggerCall
    BY <2>0, <2>2 DEF TriggerCall
  <2>3. CASE ProcessBegins
    BY <2>3 DEF ProcessBegins, TimerWithinThreshold
  <2>4. CASE ProcessReturnsEarly
    BY <2>4 DEF ProcessReturnsEarly, TimerWithinThreshold
  <2>5. CASE ProcessorSettles
    BY <2>5 DEF ProcessorSettles, TimerWithinThreshold
  <2>6. CASE Tick
    BY <2>6, QueueManagerAssumption
       DEF Tick, Less, TimerWithinThreshold, TypeOK
  <2>7. CASE UNCHANGED vars
    BY <2>7 DEF vars, TimerWithinThreshold
  <2> QED BY <2>1, <2>2, <2>3, <2>4, <2>5, <2>6, <2>7 DEF Next
<1> QED BY <1>1, <1>2, TypeCorrect, PTL DEF Spec

\* The queue ignores trigger() with no timer pending only when a timer has
\* expired on the running loop since the loop began.
THEOREM DeafnessExplained == Spec => []DeafOnlyAfterOverrun
<1> DEFINE TInv == TypeOK /\ LockHeldWhileProcessing
<1>1. Init => DeafOnlyAfterOverrun
  BY DEF Init, DeafOnlyAfterOverrun
<1>2. TInv /\ DeafOnlyAfterOverrun /\ [Next]_vars => DeafOnlyAfterOverrun'
  <2> SUFFICES ASSUME TInv, DeafOnlyAfterOverrun, [Next]_vars
               PROVE  DeafOnlyAfterOverrun'
    OBVIOUS
  <2>0. ASSUME Trigger, overran' = overran PROVE DeafOnlyAfterOverrun'
    BY <2>0, QueueManagerAssumption DEF Trigger, DeafOnlyAfterOverrun
  <2>1. ASSUME NEW t \in Tasks, NEW skip \in BOOLEAN, Enqueue(t, skip)
        PROVE  DeafOnlyAfterOverrun'
    BY <2>0, <2>1 DEF Enqueue, DeafOnlyAfterOverrun
  <2>2. CASE TriggerCall
    BY <2>0, <2>2 DEF TriggerCall
  <2>3. CASE ProcessBegins
    BY <2>3 DEF ProcessBegins, ResetThreshold, DeafOnlyAfterOverrun
  <2>4. CASE ProcessReturnsEarly
    BY <2>4 DEF ProcessReturnsEarly, DeafOnlyAfterOverrun
  <2>5. CASE ProcessorSettles
    BY <2>5 DEF ProcessorSettles, DeafOnlyAfterOverrun
  <2>6. CASE Tick
    BY <2>6, QueueManagerAssumption
       DEF Tick, Less, DeafOnlyAfterOverrun, TypeOK
  <2>7. CASE UNCHANGED vars
    BY <2>7 DEF vars, DeafOnlyAfterOverrun
  <2> QED BY <2>1, <2>2, <2>3, <2>4, <2>5, <2>6, <2>7 DEF Next
<1> QED BY <1>1, <1>2, TypeCorrect, PTL DEF Spec

-----------------------------------------------------------------------------

\* The queue manager implements the serial executor: enqueue() submits, the
\* timer's callback starts the first task, a settled processor finishes one
\* task and starts the next; timers and thresholds only decide when.
THEOREM Refinement == Spec => RefinesSerialQueue
<1> DEFINE TInv == TypeOK /\ LockHeldWhileProcessing
<1>1. Init => Serial!Init
  BY DEF Init, Serial!Init
<1>2. TInv /\ [Next]_vars => [Serial!Next]_Serial!vars
  <2> SUFFICES ASSUME TInv, [Next]_vars
               PROVE  [Serial!Next]_Serial!vars
    OBVIOUS
  <2>0. ASSUME TakeNext PROVE Serial!StartNext
    BY <2>0 DEF TakeNext, Serial!StartNext
  <2>1. ASSUME NEW t \in Tasks, NEW skip \in BOOLEAN, Enqueue(t, skip)
        PROVE  Serial!Next
    BY <2>1 DEF Enqueue, Serial!Next, Serial!Submit
  <2>2. CASE TriggerCall
    BY <2>2 DEF TriggerCall, Serial!vars
  <2>3. CASE ProcessBegins
    BY <2>0, <2>3
       DEF ProcessBegins, LockHeldWhileProcessing, Serial!Next, Serial!Start
  <2>4. CASE ProcessReturnsEarly
    BY <2>4 DEF ProcessReturnsEarly, Serial!vars
  <2>5. CASE ProcessorSettles
    BY <2>0, <2>5 DEF ProcessorSettles, Serial!Next, Serial!Finish
  <2>6. CASE Tick
    BY <2>6 DEF Tick, Serial!vars
  <2>7. CASE UNCHANGED vars
    BY <2>7 DEF vars, Serial!vars
  <2> QED BY <2>1, <2>2, <2>3, <2>4, <2>5, <2>6, <2>7 DEF Next
<1> QED BY <1>1, <1>2, TypeCorrect, PTL DEF Spec, RefinesSerialQueue, Serial!Spec
=============================================================================
