---------------------------- MODULE MuiProcessor ----------------------------
(***************************************************************************)
(* One MuiProcessor of mccr-gtk: an object used by the main thread, whose  *)
(* operations run on a thread of their own that owns the device.  An       *)
(* operation is a GTask: the main thread pushes it into thread_queue and   *)
(* attaches a wake-up to the thread's main context; the thread pops it,    *)
(* runs it, returns its result (which attaches the task to the main        *)
(* context) and drops its own reference to it.  The main thread then       *)
(* dispatches the callback and drops the other one.                        *)
(*                                                                         *)
(* Each task, STOP excepted, holds a reference to the processor, so the    *)
(* last reference may go away on either thread; finalize() then stops the  *)
(* thread and joins it.                                                    *)
(*                                                                         *)
(* The tasks of mui_processor_wait_swipe and mui_processor_run_command     *)
(* that wrap an operation live from the call to the dispatch of its        *)
(* callback: the operation's own task covers their references.             *)
(***************************************************************************)
EXTENDS Naturals, Sequences, SequencesExt

CONSTANTS
  Users,  \* the objects of the GUI holding a reference: window and pages
  Ops,    \* operations to schedule; bounds their number
  Stop,   \* the operation scheduled by finalize()
  None

ASSUME DistinctValues == Stop \notin Ops /\ None \notin Ops /\ Stop # None

VARIABLES
  users,     \* users with a reference
  type,      \* the type of each operation scheduled
  queue,     \* thread_queue
  pushed,    \* the operation pushed whose wake-up is not attached yet
  wakeups,   \* sources attached to thread_context (GLib)
  thread,    \* the thread: "none", "created", "looping", "quit", "exited"
  current,   \* the operation the thread popped
  phase,     \* "idle", "running", "returned": what the thread does with it
  device,    \* priv->device: "null", "closed" or "open"
  idle,      \* tasks returned, attached to the main context (GLib)
  delivered, \* the operations whose callback ran, in order
  finalizer, \* the thread running finalize(): "none", "main", "worker"
  freed,     \* finalize() has returned
  aborted    \* the program failed an assertion or crashed

work    == <<queue, pushed, wakeups>>
inner   == <<thread, current, phase, device>>
results == <<idle, delivered>>
ending  == <<finalizer, freed, aborted>>
vars    == <<users, type, work, inner, results, ending>>

Types == {"START", "LOAD_PROPERTIES", "RESET", "WAIT_SWIPE", "RUN_COMMAND"}

ASSUME NoneIsNoType == None \notin Types

Init ==
  /\ users = Users
  /\ type = [o \in Ops |-> None]
  /\ queue = <<>>
  /\ pushed = None
  /\ wakeups = 0
  /\ thread = "none"
  /\ current = None
  /\ phase = "idle"
  /\ device = "null"
  /\ idle = <<>>
  /\ delivered = <<>>
  /\ finalizer = "none"
  /\ freed = FALSE
  /\ aborted = FALSE

\* Slip: the tasks hold no reference to the processor.
NoTasks == {}

\* The operations whose task is alive, each with a reference to the processor.
Tasks == (ToSet(queue) \cup {current} \cup ToSet(idle)) \ {None, Stop}

\* The main thread is free to run a handler: not inside one, not joining.
MainReady == ~aborted /\ pushed = None /\ finalizer = "none"

-----------------------------------------------------------------------------
(* The main thread. *)

\* Slip: the operation is pushed without a wake-up.
push_silently(o) ==
  /\ queue' = Append(queue, o)
  /\ UNCHANGED <<pushed, wakeups>>

\* Slip: the newest operation goes first.
push_front(o) ==
  /\ queue' = <<o>> \o queue
  /\ pushed' = o
  /\ UNCHANGED wakeups

\* g_async_queue_push().
push(o) ==
  /\ queue' = Append(queue, o)
  /\ pushed' = o
  /\ UNCHANGED wakeups

schedule(o, t) ==
  /\ type[o] = None
  /\ type' = [type EXCEPT ![o] = t]
  /\ push(o)

\* mui_processor_start(): the thread is created, then START is scheduled.
mui_processor_start(o) ==
  /\ MainReady /\ users # {}
  /\ thread = "none"
  /\ thread' = "created"
  /\ schedule(o, "START")
  /\ UNCHANGED <<users, current, phase, device, results, ending>>

\* mui_processor_load_properties(), _reset(), _wait_swipe(), _run_command().
mui_processor_call(o, t) ==
  /\ MainReady /\ users # {}
  /\ thread # "none"
  /\ t # "START"
  /\ schedule(o, t)
  /\ UNCHANGED <<users, inner, results, ending>>

\* notify_operation_available() from the main thread, after the push: the
\* thread may have woken up in between for an earlier operation.
notify_operation_available ==
  /\ ~aborted
  /\ pushed # None
  /\ wakeups' = wakeups + 1
  /\ pushed' = None
  /\ UNCHANGED <<users, type, queue, inner, results, ending>>

\* finalize() on the main thread: without a thread there is nothing to stop;
\* otherwise STOP is pushed, and the main thread goes on to notify and join.
finalize_in_main ==
  /\ finalizer' = "main"
  /\ IF thread = "none"
       THEN freed' = TRUE /\ UNCHANGED work
       ELSE push(Stop) /\ UNCHANGED freed

\* A user drops its reference; the last one finalizes the processor.
unref(u) ==
  /\ MainReady
  /\ u \in users
  /\ users' = users \ {u}
  /\ IF users' = {} /\ Tasks = {}
       THEN finalize_in_main
       ELSE UNCHANGED <<work, finalizer, freed>>
  /\ UNCHANGED <<type, inner, results, aborted>>

\* The main context dispatches the first task returned: its callback runs,
\* then the task is dropped, with its reference unless the thread has not
\* dropped its own yet.
dispatch ==
  /\ MainReady
  /\ idle # <<>>
  /\ idle' = Tail(idle)
  /\ delivered' = Append(delivered, Head(idle))
  /\ IF users = {} /\ (ToSet(queue) \cup {current} \cup ToSet(idle')) \ {None} = {}
       THEN finalize_in_main
       ELSE UNCHANGED <<work, finalizer, freed>>
  /\ UNCHANGED <<users, type, inner, aborted>>

\* Slip: finalize() frees without joining the thread.
free_without_join ==
  /\ ~aborted /\ finalizer = "main" /\ pushed = None /\ ~freed
  /\ freed' = TRUE
  /\ UNCHANGED <<users, type, work, inner, results, finalizer, aborted>>

\* g_thread_join() returns.
join ==
  /\ ~aborted /\ finalizer = "main" /\ pushed = None /\ ~freed
  /\ thread = "exited"
  /\ freed' = TRUE
  /\ UNCHANGED <<users, type, work, inner, results, finalizer, aborted>>

-----------------------------------------------------------------------------
(* The thread of the processor. *)

\* inner_thread_func() enters its main loop.
inner_thread_func ==
  /\ ~aborted
  /\ thread = "created"
  /\ thread' = "looping"
  /\ UNCHANGED <<users, type, work, current, phase, device, results, ending>>

\* A wake-up: operation_available_cb() pops an operation, if there is one.
operation_available_cb ==
  /\ ~aborted
  /\ thread = "looping" /\ phase = "idle"
  /\ wakeups > 0
  /\ wakeups' = wakeups - 1
  /\ IF queue = <<>>
       THEN UNCHANGED <<queue, current, phase>>
       ELSE /\ current' = Head(queue)
            /\ queue' = Tail(queue)
            /\ phase' = "running"
  /\ UNCHANGED <<users, type, pushed, thread, device, results, ending>>

Running(t) ==
  /\ ~aborted
  /\ phase = "running"
  /\ current \in Ops
  /\ type[current] = t

\* Slip: an error path forgets to return a result.
task_return_forgotten ==
  /\ phase' = "returned"
  /\ UNCHANGED <<users, type, work, thread, current, results, ending>>

\* g_task_return_boolean() or g_task_return_error(): the result goes to the
\* main context.
task_return ==
  /\ idle' = Append(idle, current)
  /\ phase' = "returned"
  /\ UNCHANGED <<users, type, work, thread, current, delivered, ending>>

Abort ==
  /\ aborted' = TRUE
  /\ UNCHANGED <<users, type, work, inner, results, finalizer, freed>>

\* The reader may be gone: mccr_device_new() then returns NULL.
run_start ==
  /\ Running("START")
  /\ IF device # "null"
       THEN Abort
       ELSE /\ device' \in {"null", "closed"}
            /\ task_return

\* load_device_properties(): g_assert (self->priv->device), then the device
\* is opened, which may fail; once open it stays open.
run_load_properties ==
  /\ Running("LOAD_PROPERTIES")
  /\ IF device = "null"
       THEN Abort
       ELSE /\ \/ device' = "open"
               \/ device = "closed" /\ device' = "closed"
            /\ task_return

\* RESET, WAIT_SWIPE and RUN_COMMAND hand the device to libmccr, which reads
\* through the pointer.  Whatever the outcome, a result is returned.
run_on_device ==
  /\ \E t \in {"RESET", "WAIT_SWIPE", "RUN_COMMAND"} : Running(t)
  /\ IF device = "null"
       THEN Abort
       ELSE UNCHANGED device /\ task_return

\* run_command() of a malformed command fails before it uses the device; of
\* a command without data it fails the assertion of strhex().
run_command_malformed ==
  /\ Running("RUN_COMMAND")
  /\ UNCHANGED device
  /\ task_return

run_command_no_data ==
  /\ Running("RUN_COMMAND")
  /\ Abort

\* Slip: STOP returns a result like the others.
run_stop_answers ==
  /\ ~aborted
  /\ phase = "running" /\ current = Stop
  /\ device' = "null"
  /\ thread' = "quit"
  /\ phase' = "returned"
  /\ idle' = Append(idle, Stop)
  /\ UNCHANGED <<users, type, work, current, delivered, ending>>

\* Slip: STOP does not quit the loop.
run_stop_goes_on ==
  /\ ~aborted
  /\ phase = "running" /\ current = Stop
  /\ device' = "null"
  /\ phase' = "returned"
  /\ UNCHANGED <<users, type, work, thread, current, results, ending>>

\* STOP drops the device and quits the loop; no callback waits for it.
run_stop ==
  /\ ~aborted
  /\ phase = "running" /\ current = Stop
  /\ device' = "null"
  /\ thread' = "quit"
  /\ phase' = "returned"
  /\ UNCHANGED <<users, type, work, current, results, ending>>

\* g_object_unref (operation_task) at the end of operation_available_cb().
\* If the main thread dispatched the task already and nothing else refers to
\* the processor, finalize() runs here, and the thread joins itself.
task_unref ==
  /\ ~aborted
  /\ phase = "returned"
  /\ phase' = "idle"
  /\ current' = None
  /\ IF current # Stop /\ users = {} /\ (ToSet(queue) \cup ToSet(idle)) = {}
       THEN finalizer' = "worker" /\ aborted' = TRUE
       ELSE UNCHANGED <<finalizer, aborted>>
  /\ UNCHANGED <<users, type, work, thread, device, results, freed>>

\* The loop ends after the callback that quit it.
thread_exit ==
  /\ ~aborted
  /\ thread = "quit" /\ phase = "idle"
  /\ thread' = "exited"
  /\ UNCHANGED <<users, type, work, current, phase, device, results, ending>>

-----------------------------------------------------------------------------
Execute ==
  \/ run_start
  \/ run_load_properties
  \/ run_on_device
  \/ run_command_malformed
  \/ run_command_no_data
  \/ run_stop

Worker ==
  \/ inner_thread_func
  \/ operation_available_cb
  \/ Execute
  \/ task_unref
  \/ thread_exit

MainLoop == notify_operation_available \/ dispatch \/ join

Client ==
  \/ \E o \in Ops : mui_processor_start(o)
  \/ \E o \in Ops, t \in Types : mui_processor_call(o, t)
  \/ \E u \in Users : unref(u)

Next == Worker \/ MainLoop \/ Client

\* The thread is scheduled by the system and its loop serves every source;
\* so does the main loop.  Nothing obliges the GUI to schedule or to unref.
Spec == Init /\ [][Next]_vars /\ WF_vars(Worker) /\ WF_vars(MainLoop)

-----------------------------------------------------------------------------
(* The variables keep their types. *)
TypeOK ==
  /\ users \subseteq Users
  /\ type \in [Ops -> Types \cup {None}]
  /\ queue \in Seq(Ops \cup {Stop})
  /\ pushed \in Ops \cup {Stop, None}
  /\ wakeups \in Nat
  /\ thread \in {"none", "created", "looping", "quit", "exited"}
  /\ current \in Ops \cup {Stop, None}
  /\ phase \in {"idle", "running", "returned"}
  /\ device \in {"null", "closed", "open"}
  /\ idle \in Seq(Ops)
  /\ delivered \in Seq(Ops)
  /\ finalizer \in {"none", "main", "worker"}
  /\ freed \in BOOLEAN
  /\ aborted \in BOOLEAN

\* Every operation in the queue has a wake-up on its way and every wake-up
\* finds an operation: g_async_queue_try_pop() never comes back empty, and
\* no operation is left behind without a wake-up.
WakeupPerOperation ==
  Len(queue) = wakeups + (IF pushed = None THEN 0 ELSE 1)

\* STOP is the last operation: when finalize() begins every operation has
\* been executed and its callback has run, also when the window that asked
\* for it is gone; and since the wake-ups carry the processor without a
\* reference (notify_operation_available), none is pending and the thread is
\* out of the way when the processor is freed.
NothingLostAtStop ==
  /\ finalizer # "none" => \A o \in Ops : type[o] # None => o \in ToSet(delivered)
  /\ freed => /\ thread \in {"none", "exited"}
              /\ wakeups = 0 /\ queue = <<>> /\ phase = "idle"

\* g_assert (self->priv->device) of load_device_properties().
LoadFindsDevice ==
  phase = "running" /\ current \in Ops /\ type[current] = "LOAD_PROPERTIES"
    => device # "null"

\* The operations run in order, one at a time, and each result is delivered
\* once and in order, as SerialExecutor promises.
executed == delivered \o idle
inHand == IF phase = "running" /\ current # Stop THEN <<current>> ELSE <<>>
waiting == IF queue = <<Stop>> THEN <<>> ELSE queue
submitted == executed \o inHand \o waiting
Serial == INSTANCE SerialExecutor WITH Operations <- Ops
ImplementsSerialExecutor == Serial!Spec

\* Every operation scheduled gets its callback, unless the program dies.
EveryOperationAnswered ==
  \A o \in Ops : type[o] # None ~> aborted \/ o \in ToSet(delivered)

\* When the last user lets go, the processor is freed and its thread joined,
\* unless the program dies.
StopsInTheEnd == users = {} ~> aborted \/ freed
=============================================================================
