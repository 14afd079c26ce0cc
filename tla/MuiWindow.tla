------------------------------ MODULE MuiWindow ------------------------------
(***************************************************************************)
(* The window of mccr-gtk: it follows the reader through udev events, sets *)
(* up a MuiProcessor for it, and keeps a chain of wait-for-swipe           *)
(* operations going on the current processor.                              *)
(*                                                                         *)
(* A processor is what SerialExecutor says (MuiProcessor implements it):   *)
(* its operations run one at a time in order on its own thread, and the    *)
(* results of the waits come to the main loop in that order.  A processor  *)
(* the window dropped still runs what it was given, and its last results   *)
(* arrive while the window has another one.                                *)
(***************************************************************************)
EXTENDS Naturals, Sequences, FiniteSets

CONSTANTS
  MaxProcessors, \* bound: processors set up, one per successful reset_window
  MaxTimers,     \* bound: 1-second timers pending at once
  MaxChanges,    \* bound: times the reader is plugged or unplugged
  MaxQueue       \* bound: operations queued on a processor by the user

ASSUME Bounds == /\ MaxProcessors \in Nat /\ MaxTimers \in Nat
                 /\ MaxChanges \in Nat /\ MaxQueue \in Nat

VARIABLES
  attached,     \* the reader is plugged in (environment)
  changes,      \* how often that changed
  uevents,      \* udev events not handled yet (environment)
  processor,    \* priv->processor: 0 is NULL, otherwise the n-th created
  created,      \* processors created so far
  ops,          \* operations queued or running on each processor
  device,       \* the device of each processor; "stale" is a handle to a
                \* reader that was unplugged
  returned,     \* results of waits on their way to the main loop
  device_path,  \* priv->device_path is set
  main_stack,   \* the main stack is visible
  info_bar,     \* an error is shown
  timers,       \* pending 1-second sources (GLib)
  scheduled_id, \* priv->scheduled_id
  warned,       \* a swipe error was reported while no device was known
  disposed,     \* dispose() ran
  aborted       \* the assertion of load_device_properties() failed

reader  == <<attached, changes, uevents>>
procs   == <<processor, created, ops, device>>
ui      == <<device_path, main_stack, info_bar>>
waiting == <<timers, scheduled_id>>
vars    == <<reader, procs, returned, ui, waiting, warned, disposed, aborted>>

Processors == 1 .. MaxProcessors
Timers     == 1 .. MaxTimers

\* start_monitoring() looks for the reader as an event that arrived would.
Init ==
  /\ attached \in BOOLEAN
  /\ changes = 0
  /\ uevents = IF attached THEN 1 ELSE 0
  /\ processor = 0
  /\ created = 0
  /\ ops = [p \in Processors |-> <<>>]
  /\ device = [p \in Processors |-> "null"]
  /\ returned = <<>>
  /\ device_path = FALSE
  /\ main_stack = FALSE
  /\ info_bar = FALSE
  /\ timers = {}
  /\ scheduled_id = 0
  /\ warned = FALSE
  /\ disposed = FALSE
  /\ aborted = FALSE

-----------------------------------------------------------------------------
(* The environment: a change of the reader emits one udev event or two (add *)
(* and bind, remove and unbind).                                            *)

plug_or_unplug ==
  /\ ~aborted
  /\ changes < MaxChanges
  /\ changes' = changes + 1
  /\ attached' = ~attached
  /\ \E n \in 1 .. 2 : uevents' = uevents + n
  /\ device' = [p \in Processors |->
                  IF device[p] = "open" THEN "stale" ELSE device[p]]
  /\ UNCHANGED <<processor, created, ops, returned, ui, waiting, warned, disposed,
                 aborted>>

-----------------------------------------------------------------------------
(* The threads of the processors. *)

Runs(p, t) ==
  /\ ~aborted
  /\ ops[p] # <<>> /\ Head(ops[p]) = t

Done(p) == ops' = [ops EXCEPT ![p] = Tail(@)]

run_start(p) ==
  /\ Runs(p, "START")
  /\ device' = [device EXCEPT ![p] = IF attached THEN "closed" ELSE "null"]
  /\ Done(p)
  /\ UNCHANGED <<reader, processor, created, returned, ui, waiting, warned,
                 disposed, aborted>>

\* Loading the properties opens the device: of a reader that is there, this
\* may fail or not.  An open device is not opened anew, not even a stale one.
run_load(p, result) ==
  /\ Runs(p, "LOAD_PROPERTIES")
  /\ device[p] # "null"
  /\ result \in IF device[p] # "closed" THEN {device[p]}
                ELSE IF attached THEN {"open", "closed"} ELSE {"closed"}
  /\ device' = [device EXCEPT ![p] = result]
  /\ Done(p)
  /\ UNCHANGED <<reader, processor, created, returned, ui, waiting, warned,
                 disposed, aborted>>

\* g_assert (self->priv->device).
run_load_asserts(p) ==
  /\ Runs(p, "LOAD_PROPERTIES")
  /\ device[p] = "null"
  /\ aborted' = TRUE
  /\ UNCHANGED <<reader, procs, returned, ui, waiting, warned, disposed>>

run_wait_swipe(p) ==
  /\ Runs(p, "WAIT_SWIPE")
  /\ \E result \in (IF device[p] = "open" THEN {"ok", "timeout"} ELSE {}) \cup {"failed"} :
       returned' = Append(returned, [processor |-> p, result |-> result])
  /\ Done(p)
  /\ UNCHANGED <<reader, processor, created, device, ui, waiting, warned, disposed,
                 aborted>>

-----------------------------------------------------------------------------
(* Waiting for swipes, on the main thread. *)

\* The operations wait_for_swipe() gives to its processor.
wait_operations(reload_info) ==
  (IF reload_info THEN <<"LOAD_PROPERTIES">> ELSE <<>>) \o <<"WAIT_SWIPE">>

wait_for_swipe(reload_info) ==
  ops' = IF processor = 0
           THEN ops
           ELSE [ops EXCEPT ![processor] = @ \o wait_operations(reload_info)]

\* report_user_error(): an error is shown only while the main stack is.
report_user_error == info_bar' = main_stack

\* A success reloads the properties and waits again.
wait_succeeded ==
  /\ Head(returned).result = "ok"
  /\ wait_for_swipe(TRUE)
  /\ UNCHANGED <<info_bar, warned, waiting>>

\* A timeout waits again.
wait_timed_out ==
  /\ Head(returned).result = "timeout"
  /\ wait_for_swipe(FALSE)
  /\ UNCHANGED <<info_bar, warned, waiting>>

\* Slip: an error ends the chain of waits.
wait_failed_gives_up ==
  /\ Head(returned).result = "failed"
  /\ IF device_path
       THEN UNCHANGED <<info_bar, warned>>
       ELSE report_user_error /\ warned' = TRUE
  /\ UNCHANGED <<ops, waiting>>

\* Another error is reported unless a device is known, and the next wait is
\* scheduled in a second; an id kept from before is overwritten.
wait_failed ==
  /\ Head(returned).result = "failed"
  /\ IF device_path
       THEN UNCHANGED <<info_bar, warned>>
       ELSE report_user_error /\ warned' = TRUE
  /\ Timers \ (timers \cup {scheduled_id}) # {}
  /\ LET t == CHOOSE id \in Timers : id \notin timers \cup {scheduled_id} IN
       /\ timers' = timers \cup {t}
       /\ scheduled_id' = t
  /\ UNCHANGED ops

\* The result of a wait, on whichever processor it ran: the next wait goes
\* to the processor the window has now.
wait_for_swipe_ready ==
  /\ ~aborted
  /\ returned # <<>>
  /\ wait_succeeded \/ wait_timed_out \/ wait_failed
  /\ returned' = Tail(returned)
  /\ UNCHANGED <<reader, processor, created, device, device_path, main_stack,
                 disposed, aborted>>

\* Slip: the callback returns G_SOURCE_CONTINUE.
reschedule_cb_repeats(t) ==
  /\ ~aborted
  /\ t \in timers
  /\ scheduled_id' = 0
  /\ wait_for_swipe(TRUE)
  /\ UNCHANGED <<reader, processor, created, device, returned, ui, timers, warned,
                 disposed, aborted>>

wait_for_swipe_reschedule_cb(t) ==
  /\ ~aborted
  /\ t \in timers
  /\ timers' = timers \ {t}
  /\ scheduled_id' = 0
  /\ wait_for_swipe(TRUE)
  /\ UNCHANGED <<reader, processor, created, device, returned, ui, warned, disposed,
                 aborted>>

-----------------------------------------------------------------------------
(* Following the reader. *)

\* cleanup_processor(), up to the processor itself.
remove_timer ==
  /\ timers' = timers \ {scheduled_id}
  /\ scheduled_id' = 0

\* reset_window() finds no device.
reset_without_device ==
  /\ ~attached
  /\ device_path' = FALSE
  /\ main_stack' = FALSE
  /\ info_bar' = FALSE
  /\ processor' = 0
  /\ UNCHANGED <<created, ops>>

\* reset_window() finds one: setup_processor() starts a processor for it and
\* the first wait.
reset_with_device ==
  /\ attached
  /\ created < MaxProcessors
  /\ device_path' = TRUE
  /\ main_stack' = TRUE
  /\ UNCHANGED info_bar
  /\ created' = created + 1
  /\ processor' = created + 1
  /\ ops' = [ops EXCEPT ![created + 1] = <<"START">> \o wait_operations(TRUE)]

\* Slip: an event is ignored while there is a processor.
reset_window_once ==
  IF processor # 0
    THEN UNCHANGED <<processor, created, ops, ui, waiting>>
    ELSE remove_timer /\ (reset_without_device \/ reset_with_device)

reset_window ==
  /\ remove_timer
  /\ reset_without_device \/ reset_with_device

handle_uevent ==
  /\ ~aborted /\ ~disposed
  /\ uevents > 0
  /\ uevents' = uevents - 1
  /\ reset_window
  /\ UNCHANGED <<attached, changes, device, returned, warned, disposed, aborted>>

\* A remote operation has finished: the properties are reloaded.
remote_services_operation_ongoing_updated ==
  /\ ~aborted /\ ~disposed
  /\ processor # 0
  /\ Len(ops[processor]) < MaxQueue
  /\ ops' = [ops EXCEPT ![processor] = Append(@, "LOAD_PROPERTIES")]
  /\ UNCHANGED <<reader, processor, created, device, returned, ui, waiting, warned,
                 disposed, aborted>>

\* The remote services page reports an error of an operation, also one that
\* was begun for another reader.
user_error ==
  /\ ~aborted /\ ~disposed
  /\ report_user_error
  /\ UNCHANGED <<reader, procs, returned, device_path, main_stack, waiting, warned,
                 disposed, aborted>>

\* The user closes the error, changes the page or begins an operation.
clear_user_error ==
  /\ ~aborted /\ ~disposed
  /\ info_bar
  /\ info_bar' = FALSE
  /\ UNCHANGED <<reader, procs, returned, device_path, main_stack, waiting, warned,
                 disposed, aborted>>

\* Slip: the window that is destroyed keeps its processor.
dispose_keeps_processor ==
  /\ ~aborted /\ ~disposed
  /\ disposed' = TRUE
  /\ remove_timer
  /\ device_path' = FALSE
  /\ UNCHANGED <<reader, procs, returned, main_stack, info_bar, warned, aborted>>

\* The window is destroyed.  The pending waits keep it in memory.
dispose ==
  /\ ~aborted /\ ~disposed
  /\ disposed' = TRUE
  /\ remove_timer
  /\ processor' = 0
  /\ device_path' = FALSE
  /\ UNCHANGED <<reader, created, ops, device, returned, main_stack, info_bar,
                 warned, aborted>>

-----------------------------------------------------------------------------
Thread(p) ==
  \/ run_start(p)
  \/ \E result \in {"open", "closed", "stale"} : run_load(p, result)
  \/ run_load_asserts(p)
  \/ run_wait_swipe(p)

User ==
  remote_services_operation_ongoing_updated \/ user_error \/ clear_user_error \/ dispose

Next ==
  \/ plug_or_unplug
  \/ \E p \in Processors : Thread(p)
  \/ wait_for_swipe_ready
  \/ \E t \in Timers : wait_for_swipe_reschedule_cb(t)
  \/ handle_uevent
  \/ User

\* The main loop serves each kind of source, each thread runs, and the open
\* of a reader that is there does not fail every time.
Fairness ==
  /\ WF_vars(wait_for_swipe_ready)
  /\ WF_vars(handle_uevent)
  /\ \A t \in Timers : WF_vars(wait_for_swipe_reschedule_cb(t))
  /\ \A p \in Processors : WF_vars(Thread(p)) /\ SF_vars(run_load(p, "open"))

Spec == Init /\ [][Next]_vars /\ Fairness

-----------------------------------------------------------------------------
(* The variables keep their types. *)
Operations == {"START", "LOAD_PROPERTIES", "WAIT_SWIPE"}

TypeOK ==
  /\ attached \in BOOLEAN /\ changes \in 0 .. MaxChanges /\ uevents \in Nat
  /\ processor \in 0 .. created /\ created \in 0 .. MaxProcessors
  /\ ops \in [Processors -> Seq(Operations)]
  /\ device \in [Processors -> {"null", "closed", "open", "stale"}]
  /\ returned \in Seq([processor : Processors, result : {"ok", "timeout", "failed"}])
  /\ device_path \in BOOLEAN /\ main_stack \in BOOLEAN /\ info_bar \in BOOLEAN
  /\ timers \subseteq Timers /\ scheduled_id \in 0 .. MaxTimers
  /\ warned \in BOOLEAN /\ disposed \in BOOLEAN /\ aborted \in BOOLEAN

\* The waits queued or running: which processor, and where in its queue.
WaitsIn(queues) ==
  UNION {{p} \X {i \in DOMAIN queues[p] : queues[p][i] = "WAIT_SWIPE"} : p \in Processors}

\* While the window has a processor, a wait is queued or running on it, or a
\* result of one is on its way, or the timer of the next one is running: no
\* interleaving of results, timers and resets lets the chain of waits die.
AlwaysListening ==
  processor # 0 =>
    \/ \E i \in DOMAIN ops[processor] : ops[processor][i] = "WAIT_SWIPE"
    \/ \E i \in DOMAIN returned : returned[i].processor = processor
    \/ timers # {}

\* A chain of waits begins only with the setup of a processor: results,
\* timeouts and errors each continue one chain and start no other.  (The
\* chain of a processor that is dropped goes on with the next processor, so
\* there may be as many as processors were created.)
ChainPerSetup ==
  Cardinality(WaitsIn(ops)) + Len(returned) + Cardinality(timers) <= created

\* No wait is queued or running on any processor, none has a result on its way
\* and no timer will begin one.
Quiet == WaitsIn(ops) = {} /\ returned = <<>> /\ timers = {}

\* A window that was disposed goes quiet and stays quiet: what was queued,
\* running, answered or timed at that moment, on the processor it drops and on
\* earlier ones, comes to an end and nothing of it arms another wait.
QuietAfterDispose == disposed ~> [](aborted \/ Quiet)

\* When the reader stays plugged in and the events were handled, the window
\* ends up with a processor that has the reader open, not the handle of an
\* earlier connection, after any number of failures to open or to read.
ReaderServed ==
  <>[](attached /\ uevents = 0 /\ ~disposed /\ ~aborted)
    => <>[](processor # 0 /\ device[processor] = "open")

\* g_assert (self->priv->device) of load_device_properties(): a processor
\* whose properties are loaded has a device.
LoadFindsDevice ==
  \A p \in Processors :
    ops[p] # <<>> /\ Head(ops[p]) = "LOAD_PROPERTIES" => device[p] # "null"

\* "Ignore error if device gone", in wait_for_swipe_ready().
IgnoreErrorIfDeviceGone == ~warned
=============================================================================
