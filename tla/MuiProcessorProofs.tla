------------------------- MODULE MuiProcessorProofs -------------------------
(***************************************************************************)
(* Proofs about MuiProcessor: its wake-ups, its end, and that it runs      *)
(* operations as SerialExecutor promises.                                  *)
(***************************************************************************)
EXTENDS MuiProcessor, SequenceTheorems, TLAPS

-----------------------------------------------------------------------------
(* The inductive invariant. *)

\* The thread holds an operation exactly when it is not idle, and until it has
\* returned the result; without a thread there is none to hold.
ThreadHolds ==
  /\ phase = "idle" <=> current = None
  /\ phase = "returned" /\ current \in Ops => current \in ToSet(idle) \cup ToSet(delivered)
  /\ thread \in {"none", "created"} => current = None
  /\ thread = "none" => queue = <<>> /\ pushed = None

\* An operation scheduled is queued, with the thread, returned or delivered.
NoneLost ==
  \A o \in Ops :
    type[o] # None <=> o \in ToSet(queue) \cup {current} \cup ToSet(idle) \cup ToSet(delivered)

\* Before finalize() there is no STOP, and the thread does not end.
Serving ==
  finalizer = "none" =>
    /\ ~freed
    /\ Stop \notin ToSet(queue) /\ current # Stop /\ pushed # Stop
    /\ thread \in {"none", "created", "looping"}

\* From finalize() on no task is left, and STOP goes its way: from the queue
\* to the thread, which ends, is joined and makes room for the end.
Stopping ==
  finalizer = "main" =>
    /\ users = {} /\ idle = <<>>
    /\ \/ thread = "none" /\ freed /\ queue = <<>> /\ pushed = None /\ current = None
       \/ thread \in {"created", "looping"} /\ ~freed /\ queue = <<Stop>> /\ current = None
       \/ thread = "looping" /\ ~freed /\ queue = <<>> /\ pushed = None
          /\ current = Stop /\ phase = "running"
       \/ thread = "quit" /\ ~freed /\ queue = <<>> /\ pushed = None
          /\ current \in {Stop, None} /\ phase # "running"
       \/ thread = "exited" /\ queue = <<>> /\ pushed = None /\ current = None

\* The thread that would join itself has nothing left either.
Crashing ==
  finalizer = "worker" =>
    aborted /\ ~freed /\ users = {} /\ queue = <<>> /\ idle = <<>> /\ current = None

PInv ==
  /\ TypeOK /\ WakeupPerOperation
  /\ ThreadHolds /\ NoneLost /\ Serving /\ Stopping /\ Crashing

USE DistinctValues

-----------------------------------------------------------------------------
(* Sequences. *)

LEMMA AppendRange ==
  ASSUME NEW S, NEW s \in Seq(S), NEW e \in S
  PROVE  /\ Append(s, e) \in Seq(S)
         /\ Len(Append(s, e)) = Len(s) + 1
         /\ ToSet(Append(s, e)) = ToSet(s) \cup {e}
<1>1. /\ Append(s, e) \in Seq(S) /\ Len(Append(s, e)) = Len(s) + 1
      /\ \A i \in 1 .. Len(s) : Append(s, e)[i] = s[i]
      /\ Append(s, e)[Len(s) + 1] = e
  OBVIOUS
<1>2. DOMAIN Append(s, e) = 1 .. Len(s) + 1 /\ DOMAIN s = 1 .. Len(s) /\ Len(s) \in Nat
  BY <1>1, LenProperties
<1>3. ASSUME NEW x PROVE x \in ToSet(Append(s, e)) <=> x \in ToSet(s) \cup {e}
  <2>1. CASE x = e
    BY <1>1, <1>2, <2>1 DEF ToSet
  <2>2. CASE x # e
    BY <1>1, <1>2, <2>2 DEF ToSet
  <2> QED BY <2>1, <2>2
<1> QED BY <1>1, <1>3

LEMMA HeadTailRange ==
  ASSUME NEW S, NEW s \in Seq(S), s # <<>>
  PROVE  /\ Head(s) \in S /\ Tail(s) \in Seq(S) /\ Len(Tail(s)) = Len(s) - 1
         /\ ToSet(s) = {Head(s)} \cup ToSet(Tail(s))
         /\ \A i \in 1 .. Len(s) - 1 : Tail(s)[i] = s[i + 1]
<1>1. /\ Head(s) \in S /\ Tail(s) \in Seq(S) /\ Len(Tail(s)) = Len(s) - 1
      /\ \A i \in 1 .. Len(s) - 1 : Tail(s)[i] = s[i + 1]
  BY HeadTailProperties
<1>2. Len(s) \in Nat /\ Len(s) > 0 /\ Head(s) = s[1]
  BY EmptySeq
<1>3. DOMAIN s = 1 .. Len(s) /\ DOMAIN Tail(s) = 1 .. Len(s) - 1
  BY <1>1, LenProperties
<1>4. ASSUME NEW x PROVE x \in ToSet(s) <=> x = Head(s) \/ x \in ToSet(Tail(s))
  <2>1. ASSUME x \in ToSet(s), x # Head(s) PROVE x \in ToSet(Tail(s))
    <3>1. PICK i \in 1 .. Len(s) : s[i] = x
      BY <1>3, <2>1 DEF ToSet
    <3>2. i - 1 \in 1 .. Len(s) - 1 /\ Tail(s)[i - 1] = s[i]
      BY <1>1, <1>2, <2>1, <3>1
    <3> QED BY <1>3, <3>1, <3>2 DEF ToSet
  <2>2. ASSUME x \in ToSet(Tail(s)) PROVE x \in ToSet(s)
    <3>1. PICK i \in 1 .. Len(s) - 1 : Tail(s)[i] = x
      BY <1>3, <2>2 DEF ToSet
    <3> QED BY <1>1, <1>2, <1>3, <3>1 DEF ToSet
  <2>3. Head(s) \in ToSet(s)
    BY <1>2, <1>3 DEF ToSet
  <2> QED BY <2>1, <2>2, <2>3
<1> QED BY <1>1, <1>4

LEMMA EmptyRange == ToSet(<<>>) = {}
BY DEF ToSet

LEMMA SingleRange == ASSUME NEW x PROVE ToSet(<<x>>) = {x}
BY DEF ToSet

-----------------------------------------------------------------------------
(* Each action keeps the invariant. *)

LEMMA InitInv == Init => PInv
<1> SUFFICES ASSUME Init PROVE PInv
  OBVIOUS
<1> USE DEF Init
<1>1. TypeOK
  <2>1. queue \in Seq(Ops \cup {Stop}) /\ idle \in Seq(Ops) /\ delivered \in Seq(Ops)
    BY EmptySeq
  <2>2. type \in [Ops -> Types \cup {None}]
    OBVIOUS
  <2> QED BY <2>1, <2>2 DEF TypeOK
<1>4. WakeupPerOperation
  BY DEF WakeupPerOperation
<1>2. ThreadHolds /\ NoneLost
  BY EmptyRange DEF ThreadHolds, NoneLost
<1>3. Serving /\ Stopping /\ Crashing
  BY EmptyRange DEF Serving, Stopping, Crashing
<1> QED BY <1>1, <1>2, <1>3, <1>4 DEF PInv

\* The main thread is in none of the ways to the end.
LEMMA Ready == ASSUME PInv, MainReady PROVE Stop \notin ToSet(queue) /\ current # Stop /\ ~freed
BY DEF PInv, MainReady, Serving

LEMMA ScheduleInv ==
  ASSUME PInv, NEW o \in Ops, NEW t \in Types, MainReady, users # {}, schedule(o, t),
         \/ thread = "none" /\ thread' = "created"
         \/ thread # "none" /\ UNCHANGED thread,
         UNCHANGED <<users, current, phase, device, results, ending>>
  PROVE  PInv'
<1> USE DEF PInv, schedule, push, results, ending
<1>1. o # Stop /\ o # None /\ finalizer = "none" /\ pushed = None /\ ~aborted
  BY DEF MainReady
<1>2. /\ queue' \in Seq(Ops \cup {Stop}) /\ Len(queue') = Len(queue) + 1
      /\ ToSet(queue') = ToSet(queue) \cup {o}
  BY AppendRange DEF TypeOK
<1>3. TypeOK'
  BY <1>2 DEF TypeOK
<1>4. WakeupPerOperation'
  BY <1>1, <1>2 DEF WakeupPerOperation, TypeOK
<1>5. ThreadHolds'
  BY DEF ThreadHolds, TypeOK
<1>6. NoneLost'
  BY <1>2, NoneIsNoType DEF NoneLost, TypeOK
<1>7. Serving' /\ Stopping' /\ Crashing'
  BY <1>1, <1>2 DEF Serving, Stopping, Crashing, TypeOK
<1> QED BY <1>3, <1>4, <1>5, <1>6, <1>7

LEMMA NotifyInv == ASSUME PInv, notify_operation_available PROVE PInv'
<1> USE DEF PInv, notify_operation_available, inner, results, ending
<1>1. TypeOK' /\ WakeupPerOperation'
  BY DEF TypeOK, WakeupPerOperation
<1>2. ThreadHolds' /\ NoneLost'
  BY DEF ThreadHolds, NoneLost
<1>3. Serving' /\ Stopping' /\ Crashing'
  BY DEF Serving, Stopping, Crashing
<1> QED BY <1>1, <1>2, <1>3

\* Without tasks the queue is empty before finalize() begins.
LEMMA NothingQueued ==
  ASSUME PInv, finalizer = "none", (ToSet(queue) \cup {current}) \ {None, Stop} = {}
  PROVE  queue = <<>>
<1> SUFFICES ASSUME queue # <<>> PROVE FALSE
  OBVIOUS
<1>1. Head(queue) \in Ops \cup {Stop} /\ Head(queue) \in ToSet(queue)
  BY HeadTailRange DEF PInv, TypeOK
<1> QED BY <1>1 DEF PInv, Serving

\* The last reference is dropped on the main thread.
LEMMA FinalizeInv ==
  ASSUME PInv, MainReady, users' = {}, idle' = <<>>,
         (ToSet(queue) \cup {current}) \ {None, Stop} = {},
         ToSet(idle) \cup ToSet(delivered) = ToSet(delivered'), delivered' \in Seq(Ops),
         finalize_in_main, UNCHANGED <<type, inner, aborted>>
  PROVE  PInv'
<1> USE DEF PInv, finalize_in_main, inner, push
<1>1. /\ finalizer = "none" /\ pushed = None /\ ~aborted /\ ~freed
      /\ Stop \notin ToSet(queue) /\ current = None
      /\ thread \in {"none", "created", "looping"}
  BY DEF MainReady, Serving, TypeOK
<1>2. queue = <<>>
  BY <1>1, NothingQueued
<1>3. NoneLost'
  BY <1>1, <1>2, EmptyRange, SingleRange DEF NoneLost, work
<1>4. CASE thread = "none"
  <2>1. TypeOK' /\ WakeupPerOperation'
    BY <1>1, <1>2, <1>4, EmptySeq DEF TypeOK, WakeupPerOperation, work
  <2>2. ThreadHolds' /\ Serving' /\ Stopping' /\ Crashing'
    BY <1>1, <1>2, <1>4 DEF ThreadHolds, Serving, Stopping, Crashing, work
  <2> QED BY <1>3, <2>1, <2>2
<1>5. CASE thread # "none"
  <2>1. queue' = <<Stop>> /\ pushed' = Stop /\ Len(queue') = 1
    BY <1>2, <1>5
  <2>2. TypeOK' /\ WakeupPerOperation'
    BY <1>1, <1>2, <1>5, <2>1, EmptySeq DEF TypeOK, WakeupPerOperation
  <2>3. ThreadHolds' /\ Serving' /\ Stopping' /\ Crashing'
    BY <1>1, <1>2, <1>5, <2>1 DEF ThreadHolds, Serving, Stopping, Crashing
  <2> QED BY <1>3, <2>2, <2>3
<1> QED BY <1>4, <1>5

LEMMA UnrefInv == ASSUME PInv, NEW u \in Users, unref(u) PROVE PInv'
<1> USE DEF PInv, unref, results
<1>1. CASE users' = {} /\ Tasks = {}
  <2>1. idle = <<>>
    <3> SUFFICES ASSUME idle # <<>> PROVE FALSE
      OBVIOUS
    <3>1. Head(idle) \in Ops /\ Head(idle) \in ToSet(idle)
      BY HeadTailRange DEF TypeOK
    <3> QED BY <1>1, <3>1 DEF Tasks
  <2>2. ToSet(idle) \cup ToSet(delivered) = ToSet(delivered')
    BY <2>1, EmptyRange
  <2>3. (ToSet(queue) \cup {current}) \ {None, Stop} = {}
    BY <1>1 DEF Tasks
  <2> QED BY <1>1, <2>1, <2>2, <2>3, FinalizeInv DEF TypeOK
<1>2. CASE ~(users' = {} /\ Tasks = {})
  <2>1. UNCHANGED <<work, finalizer, freed, aborted, type, inner, idle, delivered>>
    BY <1>2
  <2>2. finalizer = "none"
    BY DEF MainReady
  <2>3. TypeOK' /\ WakeupPerOperation' /\ ThreadHolds' /\ NoneLost'
    BY <2>1 DEF TypeOK, WakeupPerOperation, ThreadHolds, NoneLost, work, inner
  <2>4. Serving' /\ Stopping' /\ Crashing'
    BY <2>1, <2>2 DEF Serving, Stopping, Crashing, work, inner
  <2> QED BY <2>3, <2>4
<1> QED BY <1>1, <1>2

LEMMA DispatchInv == ASSUME PInv, dispatch PROVE PInv'
<1> USE DEF PInv, dispatch
<1>1. /\ Head(idle) \in Ops /\ idle' \in Seq(Ops) /\ ToSet(idle) = {Head(idle)} \cup ToSet(idle')
  BY HeadTailRange DEF TypeOK
<1>2. delivered' \in Seq(Ops) /\ ToSet(delivered') = ToSet(delivered) \cup {Head(idle)}
  BY <1>1, AppendRange DEF TypeOK
<1>3. CASE users = {} /\ (ToSet(queue) \cup {current} \cup ToSet(idle')) \ {None} = {}
  <2>1. idle' = <<>>
    <3> SUFFICES ASSUME idle' # <<>> PROVE FALSE
      OBVIOUS
    <3>1. Head(idle') \in Ops /\ Head(idle') \in ToSet(idle')
      BY <1>1, HeadTailRange
    <3> QED BY <1>3, <3>1
  <2>2. ToSet(idle) \cup ToSet(delivered) = ToSet(delivered')
    BY <1>1, <1>2, <2>1, EmptyRange
  <2>3. (ToSet(queue) \cup {current}) \ {None, Stop} = {}
    BY <1>3
  <2> QED BY <1>2, <1>3, <2>1, <2>2, <2>3, FinalizeInv
<1>4. CASE ~(users = {} /\ (ToSet(queue) \cup {current} \cup ToSet(idle')) \ {None} = {})
  <2>1. UNCHANGED <<work, finalizer, freed, aborted, type, inner, users>>
    BY <1>4
  <2>2. finalizer = "none"
    BY DEF MainReady
  <2>3. TypeOK' /\ WakeupPerOperation' /\ ThreadHolds'
    BY <1>1, <1>2, <2>1 DEF TypeOK, WakeupPerOperation, ThreadHolds, work, inner
  <2>4. NoneLost'
    BY <1>1, <1>2, <2>1 DEF NoneLost, work, inner
  <2>5. Serving' /\ Stopping' /\ Crashing'
    BY <2>1, <2>2 DEF Serving, Stopping, Crashing, work, inner
  <2> QED BY <2>3, <2>4, <2>5
<1> QED BY <1>3, <1>4

LEMMA JoinInv == ASSUME PInv, join PROVE PInv'
<1> USE DEF PInv, join, work, inner, results
<1>1. TypeOK' /\ WakeupPerOperation' /\ ThreadHolds' /\ NoneLost'
  BY DEF TypeOK, WakeupPerOperation, ThreadHolds, NoneLost
<1>2. Serving' /\ Stopping' /\ Crashing'
  BY DEF Serving, Stopping, Crashing
<1> QED BY <1>1, <1>2

LEMMA PopInv == ASSUME PInv, operation_available_cb PROVE PInv'
<1> USE DEF PInv, operation_available_cb, results, ending
<1>1. queue # <<>>
  BY DEF WakeupPerOperation, TypeOK
<1>2. /\ current' = Head(queue) /\ current' \in Ops \cup {Stop}
      /\ queue' \in Seq(Ops \cup {Stop}) /\ Len(queue') = Len(queue) - 1
      /\ ToSet(queue) = {current'} \cup ToSet(queue')
  <2>1. queue \in Seq(Ops \cup {Stop}) /\ current' = Head(queue) /\ queue' = Tail(queue)
    BY <1>1 DEF TypeOK
  <2>2. Head(queue) \in Ops \cup {Stop} /\ Tail(queue) \in Seq(Ops \cup {Stop})
        /\ Len(Tail(queue)) = Len(queue) - 1
        /\ ToSet(queue) = {Head(queue)} \cup ToSet(Tail(queue))
    BY ONLY <1>1, <2>1, HeadTailRange
  <2> QED BY <2>1, <2>2
<1>3. TypeOK'
  BY <1>1, <1>2 DEF TypeOK
<1>4. WakeupPerOperation'
  BY <1>2 DEF WakeupPerOperation, TypeOK
<1>5. ThreadHolds' /\ NoneLost'
  BY <1>1, <1>2 DEF ThreadHolds, NoneLost, TypeOK
<1>6. Serving' /\ Crashing'
  BY <1>1, <1>2 DEF Serving, Crashing, TypeOK
<1>7. Stopping'
  <2> SUFFICES ASSUME finalizer = "main" PROVE Stopping'
    BY <1>1 DEF Stopping
  <2>1. queue = <<Stop>> /\ ~freed /\ users = {} /\ idle = <<>>
    BY <1>1 DEF Stopping
  <2>2. Len(queue) = 1 /\ queue' = <<>> /\ current' = Stop
    BY <1>2, <2>1
  <2>3. pushed = None
    <3>1. wakeups \in Nat /\ wakeups > 0
      BY DEF TypeOK
    <3>2. 1 = wakeups + (IF pushed = None THEN 0 ELSE 1)
      BY <2>2 DEF WakeupPerOperation
    <3> QED BY <3>1, <3>2
  <2> QED BY <1>1, <2>1, <2>2, <2>3 DEF Stopping
<1> QED BY <1>3, <1>4, <1>5, <1>6, <1>7

LEMMA ReturnInv ==
  ASSUME PInv, ~aborted, phase = "running", current \in Ops,
         device' \in {"null", "closed", "open"}, task_return
  PROVE  PInv'
<1> USE DEF PInv, task_return, work, ending
<1>1. finalizer = "none" /\ current # None /\ current # Stop
  BY DEF Stopping, Crashing, TypeOK
<1>2. idle' \in Seq(Ops) /\ ToSet(idle') = ToSet(idle) \cup {current}
  BY AppendRange DEF TypeOK
<1>3. TypeOK' /\ WakeupPerOperation'
  BY <1>2 DEF TypeOK, WakeupPerOperation
<1>4. ThreadHolds' /\ NoneLost'
  BY <1>1, <1>2 DEF ThreadHolds, NoneLost, TypeOK
<1>5. Serving' /\ Stopping' /\ Crashing'
  BY <1>1 DEF Serving, Stopping, Crashing
<1> QED BY <1>3, <1>4, <1>5

LEMMA AbortInv == ASSUME PInv, Abort PROVE PInv'
<1> USE DEF PInv, Abort, work, inner, results
<1>1. TypeOK' /\ WakeupPerOperation' /\ ThreadHolds' /\ NoneLost'
  BY DEF TypeOK, WakeupPerOperation, ThreadHolds, NoneLost
<1>2. Serving' /\ Stopping' /\ Crashing'
  BY DEF Serving, Stopping, Crashing
<1> QED BY <1>1, <1>2

LEMMA StopInv == ASSUME PInv, run_stop PROVE PInv'
<1> USE DEF PInv, run_stop, work, results, ending
<1>1. /\ finalizer = "main" /\ thread = "looping" /\ ~freed /\ queue = <<>> /\ pushed = None
      /\ users = {} /\ idle = <<>>
  BY DEF Serving, Stopping, Crashing, TypeOK
<1>2. TypeOK' /\ WakeupPerOperation' /\ ThreadHolds' /\ NoneLost'
  BY DEF TypeOK, WakeupPerOperation, ThreadHolds, NoneLost
<1>3. Serving' /\ Stopping' /\ Crashing'
  BY <1>1 DEF Serving, Stopping, Crashing
<1> QED BY <1>2, <1>3

LEMMA ExecuteInv == ASSUME PInv, Execute PROVE PInv'
<1> USE DEF Running
<1>1. CASE run_start
  BY <1>1, ReturnInv, AbortInv DEF run_start
<1>2. CASE run_load_properties
  BY <1>2, ReturnInv, AbortInv DEF run_load_properties
<1>3. CASE run_on_device
  BY <1>3, ReturnInv, AbortInv DEF run_on_device, PInv, TypeOK
<1>4. CASE run_command_malformed
  BY <1>4, ReturnInv DEF run_command_malformed, PInv, TypeOK
<1>5. CASE run_command_no_data
  BY <1>5, AbortInv DEF run_command_no_data
<1> QED BY <1>1, <1>2, <1>3, <1>4, <1>5, StopInv DEF Execute

\* What is empty as a set is empty as a queue.
LEMMA NoElements == ASSUME NEW S, NEW s \in Seq(S), ToSet(s) = {} PROVE s = <<>>
BY HeadTailRange

LEMMA TaskUnrefInv == ASSUME PInv, task_unref PROVE PInv'
<1> USE DEF PInv, task_unref, work, results
<1>1. current # None /\ (finalizer = "none" \/ finalizer = "main")
  BY DEF ThreadHolds, Crashing, TypeOK
<1>2. TypeOK' /\ WakeupPerOperation'
  BY DEF TypeOK, WakeupPerOperation
<1>3. ThreadHolds'
  BY DEF ThreadHolds
<1>4. current \in Ops => current \in ToSet(idle) \cup ToSet(delivered)
  BY DEF ThreadHolds
<1>5. NoneLost'
  BY <1>4 DEF NoneLost
<1>6. Serving'
  BY DEF Serving
<1>7. CASE current # Stop /\ users = {} /\ ToSet(queue) \cup ToSet(idle) = {}
  <2>1. queue = <<>> /\ idle = <<>>
    BY <1>7, NoElements DEF TypeOK
  <2>2. finalizer = "none"
    BY <1>1, <1>7 DEF Stopping
  <2>3. finalizer' = "worker" /\ aborted' /\ ~freed' /\ current' = None
    BY <1>7, <2>2 DEF Serving
  <2> QED BY <1>2, <1>3, <1>5, <1>6, <1>7, <2>1, <2>3 DEF Stopping, Crashing
<1>8. CASE ~(current # Stop /\ users = {} /\ ToSet(queue) \cup ToSet(idle) = {})
  <2>1. Crashing' /\ Stopping'
    BY <1>1, <1>8 DEF Stopping, Crashing
  <2> QED BY <1>2, <1>3, <1>5, <1>6, <2>1
<1> QED BY <1>7, <1>8

LEMMA ThreadInv == ASSUME PInv, inner_thread_func \/ thread_exit PROVE PInv'
<1> USE DEF PInv, inner_thread_func, thread_exit, work, results, ending
<1>1. TypeOK' /\ WakeupPerOperation' /\ ThreadHolds' /\ NoneLost'
  BY DEF TypeOK, WakeupPerOperation, ThreadHolds, NoneLost
<1>2. Serving' /\ Stopping' /\ Crashing'
  BY DEF Serving, Stopping, Crashing, ThreadHolds
<1> QED BY <1>1, <1>2

LEMMA StepInv == PInv /\ [Next]_vars => PInv'
<1> SUFFICES ASSUME PInv, [Next]_vars PROVE PInv'
  OBVIOUS
<1>1. CASE Worker
  BY <1>1, ThreadInv, PopInv, ExecuteInv, TaskUnrefInv DEF Worker
<1>2. CASE MainLoop
  BY <1>2, NotifyInv, DispatchInv, JoinInv DEF MainLoop
<1>3. ASSUME NEW o \in Ops, mui_processor_start(o) PROVE PInv'
  BY <1>3, ScheduleInv DEF mui_processor_start, Types
<1>4. ASSUME NEW o \in Ops, NEW t \in Types, mui_processor_call(o, t) PROVE PInv'
  BY <1>4, ScheduleInv DEF mui_processor_call, inner
<1>5. CASE UNCHANGED vars
  <2> USE <1>5 DEF PInv, vars, work, inner, results, ending
  <2>1. TypeOK' /\ WakeupPerOperation' /\ ThreadHolds' /\ NoneLost'
    BY DEF TypeOK, WakeupPerOperation, ThreadHolds, NoneLost
  <2>2. Serving' /\ Stopping' /\ Crashing'
    BY DEF Serving, Stopping, Crashing
  <2> QED BY <2>1, <2>2
<1> QED BY <1>1, <1>2, <1>3, <1>4, <1>5, UnrefInv DEF Next, Client

\* The inductive invariant.
THEOREM ProcessorInvariance == Spec => []PInv
BY InitInv, StepInv, PTL DEF Spec

\* The variables keep their types, whatever users and the thread do.
THEOREM ProcessorTyped == Spec => []TypeOK
<1>1. PInv => TypeOK
  BY DEF PInv
<1> QED BY <1>1, ProcessorInvariance, PTL

\* Every wake-up finds an operation and every operation has a wake-up.
THEOREM WakeupsMatch == Spec => []WakeupPerOperation
<1>1. PInv => WakeupPerOperation
  BY DEF PInv
<1> QED BY <1>1, ProcessorInvariance, PTL

\* finalize() comes after the last callback, and frees only what is at rest.
THEOREM CleanStop == Spec => []NothingLostAtStop
<1>1. ASSUME PInv PROVE NothingLostAtStop
  <2> USE <1>1 DEF PInv
  <2>1. finalizer # "none" =>
          ToSet(queue) \subseteq {Stop} /\ current \in {Stop, None} /\ idle = <<>>
    BY EmptyRange, SingleRange DEF Stopping, Crashing, TypeOK
  <2>2. finalizer # "none" => \A o \in Ops : type[o] # None => o \in ToSet(delivered)
    BY <2>1, EmptyRange DEF NoneLost
  <2>3. freed => finalizer = "main"
    BY DEF Serving, Crashing, TypeOK
  <2>4. freed => /\ thread \in {"none", "exited"} /\ queue = <<>> /\ pushed = None
                 /\ phase = "idle"
    BY <2>3 DEF Stopping, ThreadHolds
  <2>5. freed => wakeups = 0
    BY <2>4 DEF WakeupPerOperation, TypeOK
  <2> QED BY <2>2, <2>4, <2>5 DEF NothingLostAtStop
<1> QED BY <1>1, ProcessorInvariance, PTL

-----------------------------------------------------------------------------
(* The refinement: what is submitted, executed and delivered.               *)

LEMMA ConcatRange ==
  ASSUME NEW S, NEW s \in Seq(S), NEW t \in Seq(S)
  PROVE  s \o t \in Seq(S) /\ ToSet(s \o t) \subseteq ToSet(s) \cup ToSet(t)
<1>1. s \o t \in Seq(S)
  BY ConcatProperties
<1>2. ASSUME NEW i \in DOMAIN (s \o t) PROVE (s \o t)[i] \in ToSet(s) \cup ToSet(t)
  <2>1. /\ i \in 1 .. Len(s) + Len(t) /\ Len(s) \in Nat /\ Len(t) \in Nat
        /\ DOMAIN s = 1 .. Len(s) /\ DOMAIN t = 1 .. Len(t)
    BY <1>1, <1>2, ConcatProperties, LenProperties
  <2>2. CASE i <= Len(s)
    BY <2>1, <2>2, ConcatProperties DEF ToSet
  <2>3. CASE i > Len(s)
    <3>1. (s \o t)[i] = t[i - Len(s)] /\ i - Len(s) \in DOMAIN t
      BY <2>1, <2>3, ConcatProperties
    <3> QED BY <3>1 DEF ToSet
  <2> QED BY <2>1, <2>2, <2>3
<1> QED BY <1>1, <1>2 DEF ToSet

LEMMA ConcatAppend ==
  ASSUME NEW S, NEW s \in Seq(S), NEW t \in Seq(S), NEW e \in S
  PROVE  s \o Append(t, e) = Append(s \o t, e)
<1>1. <<e>> \in Seq(S) /\ s \o t \in Seq(S)
  BY ConcatProperties
<1>2. Append(t, e) = t \o <<e>> /\ Append(s \o t, e) = (s \o t) \o <<e>>
  BY <1>1, AppendIsConcat
<1> QED BY <1>1, <1>2, ConcatAssociative

LEMMA HeadThenTail ==
  ASSUME NEW S, NEW s \in Seq(S), s # <<>>
  PROVE  /\ <<Head(s)>> \in Seq(S)
         /\ <<Head(s)>> \o Tail(s) = s
<1>1. /\ Head(s) \in S /\ Tail(s) \in Seq(S) /\ Len(Tail(s)) = Len(s) - 1
      /\ \A i \in 1 .. Len(s) - 1 : Tail(s)[i] = s[i + 1]
  BY HeadTailRange
<1>2. <<Head(s)>> \in Seq(S) /\ Len(<<Head(s)>>) = 1 /\ <<Head(s)>>[1] = s[1]
  BY <1>1
<1>3. Len(s) \in Nat \ {0}
  BY EmptySeq
<1>4. /\ <<Head(s)>> \o Tail(s) \in Seq(S) /\ Len(<<Head(s)>> \o Tail(s)) = Len(s)
      /\ \A i \in 1 .. Len(s) : (<<Head(s)>> \o Tail(s))[i] =
                                  IF i <= 1 THEN <<Head(s)>>[i] ELSE Tail(s)[i - 1]
  BY <1>1, <1>2, <1>3, ConcatProperties
<1>5. ASSUME NEW i \in 1 .. Len(s) PROVE (<<Head(s)>> \o Tail(s))[i] = s[i]
  BY <1>1, <1>2, <1>3, <1>4
<1> QED BY <1>2, <1>4, <1>5, SeqEqual

LEMMA WithoutElement ==
  ASSUME NEW S, NEW e, NEW s \in Seq(S \cup {e}), e \notin ToSet(s)
  PROVE  s \in Seq(S)
<1>1. DOMAIN s = 1 .. Len(s) /\ Len(s) \in Nat /\ s \in [1 .. Len(s) -> S \cup {e}]
  BY LenProperties
<1>2. \A i \in 1 .. Len(s) : s[i] \in S
  BY <1>1 DEF ToSet
<1> QED BY <1>1, <1>2

\* The operations that wait are the queue, until there is but STOP.
WaitsInQueue ==
  /\ finalizer = "none" => waiting = queue
  /\ finalizer # "none" => waiting = <<>>
  /\ waiting \in Seq(Ops) /\ ToSet(waiting) \subseteq ToSet(queue)

LEMMA Waits == PInv => WaitsInQueue
<1> SUFFICES ASSUME PInv PROVE WaitsInQueue
  OBVIOUS
<1> USE DEF PInv, WaitsInQueue
<1>1. CASE finalizer = "none"
  <2>1. queue # <<Stop>>
    BY <1>1, SingleRange DEF Serving
  <2>2. queue \in Seq(Ops)
    BY <1>1, WithoutElement DEF Serving, TypeOK
  <2> QED BY <1>1, <2>1, <2>2 DEF waiting
<1>2. CASE finalizer # "none"
  <2>1. waiting = <<>>
    BY <1>2 DEF Stopping, Crashing, TypeOK, waiting
  <2> QED BY <1>2, <2>1, EmptyRange, EmptySeq
<1> QED BY <1>1, <1>2

LEMMA WaitsNext == PInv' => WaitsInQueue'
BY Waits, PTL

LEMMA MappedTypes ==
  ASSUME PInv
  PROVE  /\ executed \in Seq(Ops) /\ inHand \in Seq(Ops) /\ submitted \in Seq(Ops)
         /\ executed \o inHand \in Seq(Ops)
         /\ ToSet(submitted) \subseteq
              ToSet(delivered) \cup ToSet(idle) \cup {current} \cup ToSet(queue)
<1>1. executed \in Seq(Ops) /\ ToSet(executed) \subseteq ToSet(delivered) \cup ToSet(idle)
  BY ConcatRange DEF PInv, TypeOK, executed
<1>2. inHand \in Seq(Ops) /\ ToSet(inHand) \subseteq {current}
  <2>1. CASE inHand = <<>>
    BY <2>1, EmptyRange
  <2>2. CASE inHand # <<>>
    <3>1. inHand = <<current>> /\ current \in Ops
      BY <2>2 DEF inHand, PInv, TypeOK, ThreadHolds
    <3> QED BY <3>1, SingleRange
  <2> QED BY <2>1, <2>2
<1>3. /\ executed \o inHand \in Seq(Ops)
      /\ ToSet(executed \o inHand) \subseteq ToSet(executed) \cup ToSet(inHand)
  BY <1>1, <1>2, ConcatRange
<1>4. /\ submitted \in Seq(Ops)
      /\ ToSet(submitted) \subseteq ToSet(executed \o inHand) \cup ToSet(waiting)
  BY <1>3, Waits, ConcatRange DEF submitted, WaitsInQueue
<1> QED BY <1>1, <1>2, <1>3, <1>4, Waits DEF WaitsInQueue

LEMMA SubmitStep ==
  ASSUME PInv, PInv', NEW o \in Ops, NEW t \in Types, MainReady, schedule(o, t),
         UNCHANGED <<current, phase, results, ending>>
  PROVE  Serial!Submit(o)
<1> USE DEF schedule, push, results, ending
<1>1. finalizer = "none" /\ finalizer' = "none"
  BY DEF MainReady
<1>2. waiting = queue /\ waiting' = Append(queue, o) /\ queue \in Seq(Ops)
  BY <1>1, Waits, WaitsNext DEF WaitsInQueue
<1>3. UNCHANGED <<executed, delivered, inHand>>
  BY DEF executed, inHand
<1>4. submitted' = Append(submitted, o)
  BY <1>2, <1>3, MappedTypes, ConcatAppend, SMTT(40) DEF submitted
<1>5. o \notin ToSet(submitted)
  BY MappedTypes DEF PInv, NoneLost
<1> QED BY <1>3, <1>4, <1>5 DEF Serial!Submit, ToSet

LEMMA PopStep ==
  ASSUME PInv, PInv', operation_available_cb
  PROVE  UNCHANGED <<submitted, executed, delivered>>
<1> USE DEF operation_available_cb, results, ending
<1>1. queue # <<>> /\ current' = Head(queue) /\ queue' = Tail(queue) /\ phase' = "running"
  BY DEF PInv, WakeupPerOperation, TypeOK
<1>2. UNCHANGED <<executed, delivered>>
  BY DEF executed
<1>3. inHand = <<>>
  BY DEF inHand
<1>4. CASE finalizer = "none"
  <2>1. waiting = queue /\ queue \in Seq(Ops) /\ waiting' = Tail(queue)
    BY <1>1, <1>4, Waits, WaitsNext DEF WaitsInQueue
  <2>2. Head(queue) \in Ops /\ Tail(queue) \in Seq(Ops)
    BY <1>1, <2>1, HeadTailRange
  <2>3. inHand' = <<Head(queue)>>
    BY <1>1, <2>2 DEF inHand
  <2>4. <<Head(queue)>> \in Seq(Ops) /\ <<Head(queue)>> \o Tail(queue) = queue
    BY <1>1, <2>1, HeadThenTail
  <2>5. (executed \o <<Head(queue)>>) \o Tail(queue) = executed \o queue
    BY <2>2, <2>4, MappedTypes, ConcatAssociative, SMTT(40)
  <2>6. executed \o <<>> = executed
    BY MappedTypes, ConcatEmptySeq
  <2> QED BY <1>2, <1>3, <2>1, <2>3, <2>5, <2>6 DEF submitted
<1>5. CASE finalizer # "none"
  <2>1. waiting = <<>> /\ waiting' = <<>>
    BY <1>5, Waits, WaitsNext DEF WaitsInQueue
  <2>2. current' = Stop
    BY <1>1, <1>5 DEF PInv, TypeOK, Stopping, Crashing
  <2>3. inHand' = <<>>
    BY <2>2 DEF inHand
  <2> QED BY <1>2, <1>3, <2>1, <2>3 DEF submitted
<1> QED BY <1>4, <1>5

LEMMA ReturnStep ==
  ASSUME PInv, PInv', phase = "running", current \in Ops, task_return
  PROVE  Serial!Execute
<1> USE DEF task_return, work, ending
<1>1. finalizer = "none" /\ waiting' = waiting
  BY DEF PInv, Stopping, Crashing, TypeOK, waiting
<1>2. inHand = <<current>> /\ inHand' = <<>>
  BY DEF inHand
<1>3. executed' = Append(executed, current) /\ delivered' = delivered
  BY ConcatAppend DEF executed, PInv, TypeOK
<1>4. executed \o <<current>> = Append(executed, current)
  BY MappedTypes, AppendIsConcat
<1>5. executed' \in Seq(Ops) /\ executed' \o <<>> = executed'
  BY <1>3, MappedTypes, AppendProperties, ConcatEmptySeq
<1>6. submitted' = submitted /\ submitted = Append(executed, current) \o waiting
  BY <1>1, <1>2, <1>3, <1>4, <1>5 DEF submitted
<1>7. Len(executed) < Len(submitted) /\ submitted[Len(executed) + 1] = current
  <2>1. /\ Append(executed, current) \in Seq(Ops) /\ waiting \in Seq(Ops)
        /\ Len(Append(executed, current)) = Len(executed) + 1
        /\ Append(executed, current)[Len(executed) + 1] = current
    BY MappedTypes, Waits, AppendProperties DEF WaitsInQueue
  <2>2. Len(executed) \in Nat /\ Len(waiting) \in Nat
    BY MappedTypes, Waits, LenProperties DEF WaitsInQueue
  <2> QED BY <1>6, <2>1, <2>2, ConcatProperties
<1> QED BY <1>3, <1>6, <1>7 DEF Serial!Execute

LEMMA DispatchStep == ASSUME PInv, PInv', dispatch PROVE Serial!Deliver
<1> USE DEF dispatch
<1>1. finalizer = "none" /\ idle \in Seq(Ops) /\ delivered \in Seq(Ops)
  BY DEF MainReady, PInv, TypeOK
<1>2. Head(idle) \in Ops /\ Tail(idle) \in Seq(Ops) /\ <<Head(idle)>> \in Seq(Ops)
      /\ <<Head(idle)>> \o Tail(idle) = idle
  BY <1>1, HeadTailRange, HeadThenTail
<1>3. executed' = executed
  <2>1. Append(delivered, Head(idle)) = delivered \o <<Head(idle)>>
    BY <1>1, <1>2, AppendIsConcat
  <2> QED BY <1>1, <1>2, <2>1, ConcatAssociative DEF executed
<1>4. waiting' = waiting
  <2>1. CASE finalizer' = "none"
    <3>1. UNCHANGED work
      BY <2>1 DEF finalize_in_main
    <3> QED BY <3>1 DEF work, waiting
  <2>2. CASE finalizer' # "none"
    <3>1. finalize_in_main /\ (ToSet(queue) \cup {current} \cup ToSet(idle')) \ {None} = {}
      BY <1>1, <2>2
    <3>2. queue = <<>>
      BY <1>1, <3>1, NothingQueued
    <3> QED BY <2>2, <3>2, WaitsNext DEF waiting, WaitsInQueue
  <2> QED BY <2>1, <2>2
<1>5. submitted' = submitted
  BY <1>3, <1>4 DEF submitted, inHand, inner
<1>6. Len(delivered) < Len(executed) /\ executed[Len(delivered) + 1] = Head(idle)
  <2>1. Len(idle) \in Nat \ {0} /\ Len(delivered) \in Nat /\ Head(idle) = idle[1]
    BY <1>1, EmptySeq, LenProperties
  <2> QED BY <1>1, <2>1, ConcatProperties DEF executed
<1> QED BY <1>3, <1>5, <1>6 DEF Serial!Deliver

LEMMA UnrefStep ==
  ASSUME PInv, PInv', NEW u \in Users, unref(u)
  PROVE  UNCHANGED <<submitted, executed, delivered>>
<1> USE DEF unref, results, inner
<1>1. waiting' = waiting
  <2>1. CASE finalizer' = "none"
    BY <2>1 DEF finalize_in_main, work, waiting
  <2>2. CASE finalizer' # "none"
    <3>1. finalizer = "none" /\ Tasks = {}
      BY <2>2 DEF MainReady
    <3>2. queue = <<>>
      BY <3>1, NothingQueued DEF Tasks
    <3> QED BY <2>2, <3>2, WaitsNext DEF waiting, WaitsInQueue
  <2> QED BY <2>1, <2>2
<1> QED BY <1>1 DEF submitted, executed, inHand

\* Every step of the threads is one of SerialExecutor or changes nothing of it.
LEMMA SerialStep ==
  ASSUME PInv, PInv', [Next]_vars
  PROVE  [Serial!Next]_(Serial!vars)
<1> USE DEF Serial!Next, Serial!vars
<1>1. CASE Execute
  <2>1. CASE run_stop
    BY <2>1 DEF run_stop, results, work, submitted, executed, inHand, waiting
  <2>2. CASE Abort
    BY <2>2 DEF Abort, results, work, inner, submitted, executed, inHand, waiting
  <2>3. ASSUME phase = "running", current \in Ops, task_return PROVE Serial!Execute
    BY <2>3, ReturnStep
  <2> QED BY <1>1, <2>1, <2>2, <2>3
          DEF Execute, run_start, run_load_properties, run_on_device,
              run_command_malformed, run_command_no_data, Running
<1>2. CASE task_unref
  BY <1>2 DEF task_unref, work, results, submitted, executed, inHand, waiting
<1>3. CASE inner_thread_func \/ thread_exit \/ notify_operation_available \/ join \/ UNCHANGED vars
  BY <1>3 DEF inner_thread_func, thread_exit, notify_operation_available, join, vars,
              work, inner, results, submitted, executed, inHand, waiting
<1>4. ASSUME NEW o \in Ops, NEW t \in Types,
             mui_processor_start(o) \/ mui_processor_call(o, t)
      PROVE  Serial!Submit(o)
  BY <1>4, SubmitStep DEF mui_processor_start, mui_processor_call, inner, Types
<1> QED BY <1>1, <1>2, <1>3, <1>4, PopStep, DispatchStep, UnrefStep
        DEF Next, Worker, MainLoop, Client, Types

\* Whatever the threads do, and however users let go, a processor executes
\* and delivers what was submitted to it one by one and in order.
THEOREM ProcessorIsSerial == Spec => ImplementsSerialExecutor
<1>1. Init => Serial!Init
  <2> SUFFICES ASSUME Init PROVE Serial!Init
    OBVIOUS
  <2>1. executed = <<>> /\ inHand = <<>> /\ waiting = <<>>
    BY DEF Init, executed, inHand, waiting
  <2> QED BY <2>1 DEF Init, Serial!Init, submitted
<1>2. PInv /\ PInv' /\ [Next]_vars => [Serial!Next]_(Serial!vars)
  BY SerialStep
<1> QED BY <1>1, <1>2, ProcessorInvariance, PTL
        DEF Spec, ImplementsSerialExecutor, Serial!Spec

=============================================================================
