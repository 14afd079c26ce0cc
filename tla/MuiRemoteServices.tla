--------------------------- MODULE MuiRemoteServices ---------------------------
(***************************************************************************)
(* The remote services page of mccr-gtk, on the main thread.  It downloads *)
(* the lists of keys and of commands from a web service, and on the user's *)
(* choice of a row downloads the key or command for the reader's KSN and   *)
(* MUT and has the processor of the reader run it.  One operation is going *)
(* on at a time; in between, readers come and go, the window resets the    *)
(* page, and the items of loads arrive.                                    *)
(*                                                                         *)
(* Readers are numbered as reset_window() finds them; a KSN or a MUT is    *)
(* the record of its reader and of the key the reader had.  The processor  *)
(* of reader r is called r as well.  A key is named by its id.             *)
(***************************************************************************)
EXTENDS Naturals, Sequences

CONSTANTS
  Keys,          \* keys of the service
  TestKey,       \* the key readers are delivered with, unknown to the service
  Manners,       \* how readers may behave in a session: see "steady"
  MaxReaders,    \* bound: readers found
  MaxOperations, \* bound: operations the user begins
  MaxSteadyOperations, \* bound: the same when readers are steady
  None

ASSUME Distinct == TestKey \notin Keys /\ None \notin Keys /\ None # TestKey
ASSUME Bounds ==
  /\ Manners \subseteq BOOLEAN
  /\ MaxReaders \in Nat /\ MaxOperations \in Nat /\ MaxSteadyOperations \in Nat

VARIABLES
  steady,      \* readers come and go only while the page is at rest, and
               \* answer when their properties are read (environment)
  processor,   \* the page's processor: 0 is NULL, otherwise its reader
  created,     \* readers found so far
  key,         \* the key in each reader (environment)
  queue,       \* operations scheduled on each processor
  items,       \* items on their way to the page
  ksn, ksn_set,
  mut, mut_set,
  key_id,      \* priv->key_id: "current key id, if known"
  cancellable, \* priv->remote_service_cancellable # NULL: operation-ongoing
  listbox,     \* the rows shown
  size_groups, \* the size groups of the rows exist
  n_commands_executed,
  dialog,      \* the row whose confirmation dialog is open
  op,          \* the context of the operation, with its pending callback
  begun,       \* operations the user began
  aborted,     \* an assertion failed
  crashed      \* the use of a NULL processor or of a destroyed row was fatal

reader == <<steady, processor, created, key>>
info   == <<ksn, ksn_set, mut, mut_set, key_id>>
rows   == <<listbox, size_groups>>
vars == <<reader, queue, items, info, cancellable, rows, n_commands_executed,
          dialog, op, begun, aborted, crashed>>

Readers  == 1 .. MaxReaders
AnyKey   == Keys \cup {TestKey}
Identity == [reader : Readers, key : AnyKey]  \* what a KSN or MUT tells

\* A command row is named after its execution type.
Commands == {"KSN", "MUT", "OTHER"}

Init ==
  /\ steady \in Manners
  /\ processor = 0 /\ created = 0
  /\ key \in [Readers -> AnyKey]
  /\ queue = [r \in Readers |-> <<>>]
  /\ items = <<>>
  /\ ksn = None /\ ksn_set = FALSE
  /\ mut = None /\ mut_set = FALSE
  /\ key_id = None
  /\ cancellable = FALSE
  /\ listbox = "empty" /\ size_groups = FALSE
  /\ n_commands_executed = 0
  /\ dialog = None
  /\ op = None
  /\ begun = 0
  /\ aborted = FALSE /\ crashed = FALSE

Alive == ~aborted /\ ~crashed

-----------------------------------------------------------------------------
(* The rows.  The contexts of dialogs and operations point into a row.      *)

Orphan(ctx) == IF ctx = None THEN None ELSE [ctx EXCEPT !.row = FALSE]

common_results_listbox_clear == listbox' = "empty" /\ size_groups' = FALSE

\* The size groups must not be there yet.
common_results_listbox_init ==
  /\ aborted' = size_groups
  /\ size_groups' = TRUE

\* Each row is appended with its context, which names its kind.
common_results_listbox_append_row(kind) == listbox' = kind

-----------------------------------------------------------------------------
(* The reader and the window. *)

MayChangeReader == Alive /\ (steady => op = None /\ dialog = None /\ items = <<>>)

\* Slip: the KSN and the MUT of the old reader stay valid.
reset_keeps_ksn(p) ==
  /\ processor' = p
  /\ common_results_listbox_clear
  /\ dialog' = Orphan(dialog)
  /\ op' = Orphan(op)
  /\ n_commands_executed' = 0
  /\ key_id' = None
  /\ UNCHANGED <<steady, key, items, ksn, ksn_set, mut, mut_set, cancellable, begun, aborted,
                 crashed>>

\* reset_window(): reset() of the page, with the processor p or none.
reset_window(p) ==
  /\ processor' = p
  /\ common_results_listbox_clear
  /\ dialog' = Orphan(dialog)
  /\ op' = Orphan(op)
  /\ n_commands_executed' = 0
  /\ key_id' = None
  /\ ksn_set' = FALSE /\ mut_set' = FALSE
  /\ UNCHANGED <<steady, key, items, ksn, mut, cancellable, begun, aborted, crashed>>

Plug ==
  /\ MayChangeReader
  /\ created < MaxReaders
  /\ created' = created + 1
  /\ queue' = [queue EXCEPT ![created'] = <<"LOAD">>]
  /\ reset_window(created')

Unplug ==
  /\ MayChangeReader
  /\ processor # 0
  /\ UNCHANGED <<created, queue>>
  /\ reset_window(0)

-----------------------------------------------------------------------------
(* The threads of the processors.  A processor the page has let go of still *)
(* serves its queue; what it reports reaches no page, its handler is gone.  *)

Runs(p, t) == Alive /\ queue[p] # <<>> /\ Head(queue[p]) = t

\* load_device_properties(): "n/a" is reported when a read fails.
run_load(p) ==
  /\ Runs(p, "LOAD")
  /\ \E value \in {[reader |-> p, key |-> key[p]]} \cup (IF steady THEN {} ELSE {None}) :
       items' = IF p = processor
                  THEN items \o <<[kind |-> "KSN", value |-> value],
                                  [kind |-> "MUT", value |-> value]>>
                  ELSE items
  /\ queue' = [queue EXCEPT ![p] = Tail(@)]
  /\ UNCHANGED <<reader, info, cancellable, rows, n_commands_executed, dialog, op,
                 begun, aborted, crashed>>

\* The result of mccr_device_reset() is not looked at.
run_reset(p) ==
  /\ Runs(p, "RESET")
  /\ queue' = [queue EXCEPT ![p] = Tail(@)]
  /\ UNCHANGED <<reader, items, info, cancellable, rows, n_commands_executed, dialog, op,
                 begun, aborted, crashed>>

\* The command of the operation: a key update may change the key also when
\* the answer is lost or does not end in the KCV.
run_command(p) ==
  /\ Runs(p, "COMMAND")
  /\ \E result \in {"ok", "failed"}, applied \in BOOLEAN :
       /\ result = "ok" => applied
       /\ key' = IF applied /\ op.kind = "KEY_UPDATE" THEN [key EXCEPT ![p] = op.id] ELSE key
       /\ op' = [op EXCEPT !.stage = result]
  /\ queue' = [queue EXCEPT ![p] = Tail(@)]
  /\ UNCHANGED <<steady, processor, created, items, info, cancellable, rows,
                 n_commands_executed, dialog, begun, aborted, crashed>>

\* report_item(): the KSN or the MUT; a value that does not parse leaves the
\* bytes as they were.
report_item ==
  /\ Alive
  /\ items # <<>>
  /\ items' = Tail(items)
  /\ LET value == Head(items).value IN
       IF Head(items).kind = "KSN"
         THEN /\ ksn_set' = (value # None)
              /\ ksn' = IF value # None THEN value ELSE ksn
              /\ UNCHANGED <<mut, mut_set>>
         ELSE /\ mut_set' = (value # None)
              /\ mut' = IF value # None THEN value ELSE mut
              /\ UNCHANGED <<ksn, ksn_set>>
  /\ UNCHANGED <<reader, queue, key_id, cancellable, rows, n_commands_executed, dialog,
                 op, begun, aborted, crashed>>

-----------------------------------------------------------------------------
(* Operations begin and end. *)

MostOperations == IF steady THEN MaxSteadyOperations ELSE MaxOperations

\* g_assert (!remote_service_cancellable)
Begin ==
  /\ begun < MostOperations
  /\ begun' = begun + 1
  /\ aborted' = cancellable

Context(kind, stage, id, row) ==
  [kind |-> kind, stage |-> stage, id |-> id, ksn |-> ksn, mut |-> mut, row |-> row, proc |-> 0]

Ongoing(context) == cancellable' = TRUE /\ op' = context

\* Slip: the properties are not loaded again.
no_reload == UNCHANGED queue

\* operation-ongoing turns false: the window reloads the properties.
operation_ongoing_updated ==
  queue' = IF processor = 0 THEN queue ELSE [queue EXCEPT ![processor] = Append(@, "LOAD")]

\* Slip: the cancellable outlives the operation.
End_keeps_cancellable ==
  /\ UNCHANGED cancellable
  /\ op' = None
  /\ operation_ongoing_updated

End ==
  /\ cancellable' = FALSE
  /\ op' = None
  /\ operation_ongoing_updated

\* The labels and the spinner of a row are used: of a destroyed one this may
\* be fatal or go unnoticed.
Touch(row) == crashed' \in IF row THEN {FALSE} ELSE BOOLEAN

\* key_update_finished() and generic_command_finished() touch the row the
\* operation was begun from.
Finished == End /\ Touch(op.row)

\* mui_processor_run_command() on the processor of now.
mui_processor_run_command(context) ==
  /\ Ongoing([context EXCEPT !.stage = "run", !.proc = processor])
  /\ queue' = IF processor = 0 THEN queue ELSE [queue EXCEPT ![processor] = Append(@, "COMMAND")]

RunCommand ==
  /\ mui_processor_run_command(op)
  /\ IF processor = 0 THEN crashed' = TRUE ELSE Touch(op.row)

\* Slip: the page stays visible when there is no reader.
main_stack_stays == Alive /\ dialog = None

\* The user reaches the page while there is a reader and no modal dialog.
UserCan == Alive /\ processor # 0 /\ dialog = None

\* Slip: the buttons are not bound to operation-ongoing.
buttons_unbound == TRUE

\* The buttons of the lists are insensitive while an operation is going on.
ButtonsSensitive == ~cancellable

\* The button in the footer, shown once commands were executed; it is
\* sensitive during operations too.  (Bound: one reset queued at a time.)
remote_service_reset_button_clicked ==
  /\ UserCan
  /\ n_commands_executed > 0
  /\ \A i \in DOMAIN queue[processor] : queue[processor][i] # "RESET"
  /\ queue' = [queue EXCEPT ![processor] = Append(@, "RESET")]
  /\ UNCHANGED <<reader, items, info, cancellable, rows, n_commands_executed, dialog, op,
                 begun, aborted, crashed>>

start_main_operation(kind) ==
  /\ UserCan
  /\ ButtonsSensitive
  /\ Begin
  /\ Ongoing(Context(kind, "remote", None, TRUE))
  /\ common_results_listbox_clear
  /\ UNCHANGED <<reader, queue, items, info, n_commands_executed, dialog, crashed>>

remote_service_get_key_list_button_clicked == start_main_operation("KEY_LIST")
remote_service_get_command_list_button_clicked == start_main_operation("COMMAND_LIST")

Pending(kind, stage) == Alive /\ op # None /\ op.kind = kind /\ op.stage = stage

\* The list arrives, or an error does.
get_list_ready(kind, shown) ==
  /\ Pending(kind, "remote")
  /\ End
  /\ \/ common_results_listbox_init /\ common_results_listbox_append_row(shown)
     \/ UNCHANGED <<aborted, rows>>
  /\ UNCHANGED <<reader, items, info, n_commands_executed, dialog, begun, crashed>>

get_key_list_ready == get_list_ready("KEY_LIST", "keys")
get_command_list_ready == get_list_ready("COMMAND_LIST", "commands")

-----------------------------------------------------------------------------
(* A row is chosen.  The row stays alive while its activation is handled,   *)
(* dialog included, even when it has been taken out of the list.            *)

RowActivated(type) == UserCan /\ listbox = type /\ ~cancellable

\* Keys are confirmed in a dialog, and so are some commands; the main loop
\* goes on while the dialog is open.
result_row_confirmation_dialog_run(type, id) ==
  /\ RowActivated(type)
  /\ dialog' = [type |-> type, id |-> id, row |-> TRUE]
  /\ UNCHANGED <<reader, queue, items, info, cancellable, rows, n_commands_executed, op,
                 begun, aborted, crashed>>

result_row_declined ==
  /\ Alive /\ dialog # None
  /\ dialog' = None
  /\ UNCHANGED <<reader, queue, items, info, cancellable, rows, n_commands_executed, op,
                 begun, aborted, crashed>>

Accepted(type) == Alive /\ dialog # None /\ dialog.type = type

run_key_update ==
  /\ Accepted("keys")
  /\ dialog' = None
  /\ IF ksn_set
       THEN Begin /\ Ongoing(Context("KEY_UPDATE", "remote", dialog.id, dialog.row))
       ELSE UNCHANGED <<cancellable, op, begun, aborted>>
  /\ UNCHANGED <<reader, queue, items, info, rows, n_commands_executed, crashed>>

get_key_load_command_ready ==
  /\ Pending("KEY_UPDATE", "remote")
  /\ RunCommand \/ Finished
  /\ UNCHANGED <<reader, items, info, rows, n_commands_executed, dialog, begun, aborted>>

run_key_update_command_ready ==
  /\ \/ Pending("KEY_UPDATE", "ok") /\ key_id' = op.id
     \/ Pending("KEY_UPDATE", "failed") /\ UNCHANGED key_id
  /\ Finished
  /\ UNCHANGED <<reader, items, ksn, ksn_set, mut, mut_set, rows, n_commands_executed,
                 dialog, begun, aborted>>

\* get_command_by_ksn(): with the key id, with the test key, or after a look
\* at the key list.  A command for the test key is built on the spot.
get_command_by_ksn(context) ==
  \/ /\ key_id # None
     /\ Ongoing([context EXCEPT !.stage = "by_ksn"])
     /\ UNCHANGED <<queue, crashed>>
  \/ /\ key_id = None /\ ksn_set /\ ksn.key = TestKey
     /\ \/ End /\ UNCHANGED crashed
        \/ mui_processor_run_command(context) /\ crashed' = (processor = 0)
  \/ /\ key_id = None /\ ~(ksn_set /\ ksn.key = TestKey)
     /\ Ongoing([context EXCEPT !.stage = "find_key"])
     /\ UNCHANGED <<queue, crashed>>

get_command_by_mut(context) ==
  Ongoing([context EXCEPT !.stage = "by_mut"]) /\ UNCHANGED <<queue, crashed>>

\* Slip: an unknown execution type is complained about, and that is it.
generic_command_unfinished(id, row) ==
  LET context == Context("COMMAND", "remote", id, row) IN
  /\ Begin
  /\ \/ id = "KSN" /\ get_command_by_ksn(context)
     \/ id = "MUT" /\ get_command_by_mut(context)
     \/ id = "OTHER" /\ Ongoing(context) /\ UNCHANGED <<queue, crashed>>
  /\ UNCHANGED <<reader, items, info, rows, n_commands_executed>>

run_generic_command(id, row) ==
  LET context == Context("COMMAND", "remote", id, row) IN
  /\ Begin
  /\ \/ id = "KSN" /\ get_command_by_ksn(context)
     \/ id = "MUT" /\ get_command_by_mut(context)
     \/ id = "OTHER" /\ End /\ UNCHANGED crashed
  /\ UNCHANGED <<reader, items, info, rows, n_commands_executed>>

\* Most commands need no confirmation.
result_row_activated_command(id) ==
  /\ RowActivated("commands")
  /\ run_generic_command(id, TRUE)
  /\ UNCHANGED dialog

result_row_accepted_command ==
  /\ Accepted("commands")
  /\ run_generic_command(dialog.id, dialog.row)
  /\ dialog' = None

run_command_received ==
  /\ Pending("COMMAND", "by_ksn") \/ Pending("COMMAND", "by_mut")
  /\ RunCommand \/ Finished
  /\ UNCHANGED <<reader, items, info, rows, n_commands_executed, dialog, begun, aborted>>

\* Slip: any key of the reader is taken for one of the service.
key_list_knows_all ==
  /\ Pending("COMMAND", "find_key")
  /\ \/ /\ ksn_set
        /\ key_id' = ksn.key
        /\ op' = [op EXCEPT !.stage = "by_ksn"]
        /\ UNCHANGED <<queue, cancellable, crashed>>
     \/ Finished /\ UNCHANGED key_id
  /\ UNCHANGED <<reader, items, ksn, ksn_set, mut, mut_set, rows, n_commands_executed,
                 dialog, begun, aborted>>

\* The key list tells the id of the key the KSN belongs to, or does not.
command_by_ksn_get_key_list_ready ==
  /\ Pending("COMMAND", "find_key")
  /\ \/ /\ ksn_set /\ ksn.key # TestKey
        /\ key_id' = ksn.key
        /\ op' = [op EXCEPT !.stage = "by_ksn"]
        /\ UNCHANGED <<queue, cancellable, crashed>>
     \/ Finished /\ UNCHANGED key_id
  /\ UNCHANGED <<reader, items, ksn, ksn_set, mut, mut_set, rows, n_commands_executed,
                 dialog, begun, aborted>>

processor_generic_command_ready ==
  /\ \/ Pending("COMMAND", "ok") /\ n_commands_executed' = n_commands_executed + 1
     \/ Pending("COMMAND", "failed") /\ UNCHANGED n_commands_executed
  /\ Finished
  /\ UNCHANGED <<reader, items, info, rows, dialog, begun, aborted>>

-----------------------------------------------------------------------------
User ==
  \/ remote_service_get_key_list_button_clicked
  \/ remote_service_get_command_list_button_clicked
  \/ \E id \in Keys : result_row_confirmation_dialog_run("keys", id)
  \/ \E id \in Commands : result_row_confirmation_dialog_run("commands", id)
  \/ \E id \in Commands : result_row_activated_command(id)
  \/ remote_service_reset_button_clicked

Dialog ==
  \/ result_row_declined
  \/ run_key_update
  \/ result_row_accepted_command

Callbacks ==
  \/ get_key_list_ready
  \/ get_command_list_ready
  \/ get_key_load_command_ready
  \/ run_key_update_command_ready
  \/ run_command_received
  \/ command_by_ksn_get_key_list_ready
  \/ processor_generic_command_ready

Thread(p) == run_load(p) \/ run_command(p) \/ run_reset(p)

Next ==
  \/ Plug \/ Unplug
  \/ \E p \in Readers : Thread(p)
  \/ report_item
  \/ User
  \/ Dialog
  \/ Callbacks

\* The service answers each request or fails, the threads run and the main
\* loop delivers; nothing obliges the user.
Spec ==
  /\ Init /\ [][Next]_vars
  /\ WF_vars(Callbacks) /\ WF_vars(report_item) /\ \A p \in Readers : WF_vars(Thread(p))

-----------------------------------------------------------------------------
Contexts ==
  [kind : {"KEY_LIST", "COMMAND_LIST", "KEY_UPDATE", "COMMAND"},
   stage : {"remote", "by_ksn", "by_mut", "find_key", "run", "ok", "failed"},
   id : Keys \cup Commands \cup {None}, ksn : Identity \cup {None},
   mut : Identity \cup {None}, row : BOOLEAN, proc : Readers \cup {0}]

Dialogs == [type : {"keys", "commands"}, id : Keys \cup Commands, row : BOOLEAN]

ASSUME NoneIsNoContext == None \notin Contexts \cup Dialogs

\* The variables keep their types.
TypeOK ==
  /\ steady \in BOOLEAN
  /\ processor \in 0 .. created /\ created \in 0 .. MaxReaders
  /\ key \in [Readers -> AnyKey]
  /\ queue \in [Readers -> Seq({"LOAD", "COMMAND", "RESET"})]
  /\ items \in Seq([kind : {"KSN", "MUT"}, value : Identity \cup {None}])
  /\ ksn \in Identity \cup {None} /\ mut \in Identity \cup {None}
  /\ ksn_set \in BOOLEAN /\ mut_set \in BOOLEAN
  /\ key_id \in Keys \cup {None}
  /\ cancellable \in BOOLEAN /\ size_groups \in BOOLEAN
  /\ listbox \in {"empty", "keys", "commands"}
  /\ n_commands_executed \in 0 .. MostOperations
  /\ dialog \in Dialogs \cup {None}
  /\ op \in Contexts \cup {None}
  /\ begun \in 0 .. MostOperations
  /\ aborted \in BOOLEAN /\ crashed \in BOOLEAN

\* The assertions of the page hold whatever readers do meanwhile: no
\* operation begins during another (start_main_operation, run_key_update,
\* run_generic_command), and no list is filled twice
\* (common_results_listbox_init).
AssertionsHold == ~aborted

\* operation-ongoing is true exactly while a callback is pending that will
\* turn it false: no error path leaves the page insensitive, none releases it
\* twice.
OngoingHasCallback ==
  /\ cancellable <=> op # None
  /\ op # None /\ op.stage = "run" /\ Alive
       => \E i \in DOMAIN queue[op.proc] : queue[op.proc][i] = "COMMAND"

\* Every operation ends, also when the reader it was for is gone.
OperationEnds == cancellable ~> ~cancellable \/ ~Alive

\* As long as readers stay where they are during operations, the row an
\* operation or a dialog points to is not destroyed, and a command has a
\* processor to run on.
NothingDangles ==
  steady => /\ ~crashed
            /\ dialog # None => dialog.row
            /\ op # None => op.row

\* ... and a key update, which is asked for only while the KSN is set, runs on
\* the reader whose KSN it was downloaded for, and a key id is kept only beside
\* a KSN of the reader that is there.  (The other commands have no such guard:
\* one begun between a reset and the next load is downloaded for the KSN or
\* the MUT of the reader before.)
KeysForTheirReader ==
  steady =>
    /\ op # None /\ op.stage = "run" /\ op.kind = "KEY_UPDATE" => op.ksn.reader = op.proc
    /\ key_id # None => ksn.reader = processor

\* ... and the page gets to know the key its reader has, also after a key
\* update that failed halfway.
KsnCatchesUp ==
  \A r \in Readers, k \in AnyKey :
    steady /\ processor = r /\ key[r] = k
      ~> \/ ksn_set /\ ksn = [reader |-> r, key |-> k]
         \/ processor # r \/ key[r] # k \/ ~Alive
=============================================================================
