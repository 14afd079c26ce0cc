---------------------------- MODULE SwipeSession ----------------------------
(***************************************************************************)
(* A session of one window: readers come and go, cards are swiped,         *)
(* MuiWindow keeps loading the properties and waiting for a swipe, the     *)
(* thread of its processor runs that and reports items, the main loop      *)
(* delivers results and items, and MuiPageBasic decrypts what it gets.     *)
(*                                                                         *)
(* A reader encrypts each swipe with the KSN of its counter and advances   *)
(* the counter; the KSN read by a load is the one of the next swipe.  A    *)
(* swipe of an open reader is kept by the kernel until the next wait.      *)
(*                                                                         *)
(* A processor the window dropped still runs the waits it was given.  They *)
(* report nothing any more, but the result of each makes the window wait   *)
(* on the processor it has then, so that several chains of waits may share *)
(* one processor.                                                          *)
(***************************************************************************)
EXTENDS MuiPageBasic, Sequences, FiniteSets

CONSTANTS
  FirstKeyType, \* the key type of the interface file
  Manners,   \* how cards may be swiped in a session: see "leisurely"
  MaxSwipes, \* bound: swipes and replacements of a leisurely session
  MaxQuick,  \* bound: the same for a session that is not
  MaxUpsets, \* bound: resets of the window, and loads and waits that fail
  MaxItems,  \* bound: items waiting for the main loop when a load begins
  MaxEdits   \* bound: changes the user makes to BDK, key type and switch

ASSUME FirstIsKeyType == FirstKeyType \in KeyTypes
ASSUME MannersBoolean == Manners \subseteq BOOLEAN
ASSUME SwipeNumbers ==
  /\ MaxSwipes \in Nat /\ MaxQuick \in 0 .. MaxSwipes
  /\ MaxUpsets \in Nat /\ MaxItems \in Nat /\ MaxEdits \in Nat
ASSUME NoneIsNoResult == None \notin {"ok", "timeout", "failed"}
ASSUME KsnsAreCounters == Ksns = 1 .. (MaxSwipes + 1) /\ Data = Ksns

VARIABLES
  leisurely, \* a card is swiped only when the reader is being waited for and
             \* was asked for its KSN since the swipe before, every load opens
             \* the reader and reads the KSN and the security level, a wait
             \* that fails leaves no swipe for the next one, and the window is
             \* not reset between two items of a swipe (environment)
  processor, \* priv->processor of the window is set
  first,     \* the first KSN since the last reset of the window (history)
  counter,   \* the KSN counter of the reader (environment)
  opened,    \* the processor has the reader open
  loaded,    \* the KSN was read since the last swipe (history)
  buffer,    \* swipes not read yet (hidapi)
  lost,      \* swipes lost by a read that failed (history)
  ops,       \* operations queued or running on the processor
  outbox,    \* items of the running operation still to be reported
  running,   \* result the running operation will return, or None
  dropped,   \* waits that processors of the past have still to answer
  returned,  \* results of waits on their way to the main loop
  timers,    \* pending 1-second sources (GLib)
  scheduled, \* priv->scheduled_id is set
  items,     \* items on their way to the page
  edits,     \* changes made by the user
  upsets     \* resets and failures so far

device == <<first, counter, opened, loaded, buffer, lost>>
thread == <<ops, outbox, running>>
chains == <<dropped, returned, timers, scheduled>>
vars   == <<page, leisurely, processor, device, thread, chains, items, edits, upsets>>

Item(kind, value) == [kind |-> kind, value |-> value]
Upset == upsets < MaxUpsets /\ upsets' = upsets + 1
SwipeKinds == {"SWIPE_STARTED", "TRACK_ENCRYPTED_DATA", "SWIPE_FINISHED"}

Init ==
  /\ \E bdk \in Bdks : page = initial_page(bdk, FirstKeyType)
  /\ leisurely \in Manners
  /\ processor = TRUE
  /\ first = 1 /\ counter = 1
  /\ opened = FALSE /\ loaded = FALSE
  /\ buffer = <<>> /\ lost = {}
  /\ ops = <<"LOAD_PROPERTIES", "WAIT_SWIPE">>
  /\ outbox = <<>>
  /\ running = None
  /\ dropped = 0 /\ returned = <<>>
  /\ timers = 0 /\ scheduled = FALSE
  /\ items = <<>>
  /\ edits = 0 /\ upsets = 0

-----------------------------------------------------------------------------
(* The reader.  The data of a swipe is named after its KSN. *)

MaySwipe == counter <= IF leisurely THEN MaxSwipes ELSE MaxQuick

\* The window waits for a swipe.
Waiting == ops # <<>> /\ Head(ops) = "WAIT_SWIPE" /\ running = None

Swipe ==
  /\ MaySwipe
  /\ opened
  /\ leisurely => Waiting /\ loaded /\ buffer = <<>>
  /\ buffer' = Append(buffer, counter)
  /\ counter' = counter + 1
  /\ loaded' = FALSE
  /\ UNCHANGED <<page, leisurely, processor, first, opened, lost, thread, chains, items, edits, upsets>>

-----------------------------------------------------------------------------
(* The window follows the reader. *)

\* The processor property of the page: the handler of the old processor is
\* disconnected, and what it has still to report reaches no page.
set_property == outbox' = <<>>

\* cleanup_processor(): the timer whose id is known is removed.  The waits of
\* the processor that is let go are answered later.
cleanup_processor ==
  /\ timers' = IF scheduled THEN timers - 1 ELSE timers
  /\ scheduled' = FALSE
  /\ dropped' = dropped + Cardinality({i \in DOMAIN ops : ops[i] = "WAIT_SWIPE"})
  /\ set_property

\* reset_window() finds a reader or none.  What the kernel kept for the old
\* processor is not read by the new one.
reset_window(found) ==
  /\ leisurely => \A i \in DOMAIN outbox : outbox[i].kind \notin SwipeKinds
  /\ cleanup_processor
  /\ Upset
  /\ page' = reset(page)
  /\ processor' = found
  /\ ops' = IF found THEN <<"LOAD_PROPERTIES", "WAIT_SWIPE">> ELSE <<>>
  /\ running' = None
  /\ opened' = FALSE /\ loaded' = FALSE
  /\ buffer' = <<>>
  /\ first' = counter'
  /\ UNCHANGED <<leisurely, lost, returned, items, edits>>

\* Another reader is there, or one more event comes for the same.
Replace ==
  /\ counter' = counter \/ (MaySwipe /\ counter' = counter + 1)
  /\ reset_window(TRUE)

Unplug ==
  /\ processor
  /\ UNCHANGED counter
  /\ reset_window(FALSE)

-----------------------------------------------------------------------------
(* The thread of the processor. *)

Begin(op) == running = None /\ ops # <<>> /\ Head(ops) = op

\* load_device_properties(): the reader is opened unless it is open already;
\* what cannot be read is reported as "n/a".
load_device_properties ==
  /\ Begin("LOAD_PROPERTIES")
  /\ Len(items) <= MaxItems
  /\ opened' \in IF opened \/ leisurely THEN {TRUE} ELSE BOOLEAN
  /\ \E ksn \in {counter, None}, level \in Levels \cup {0} :
       /\ leisurely => ksn = counter /\ level # 0
       /\ ~opened' => ksn = None /\ level = 0
       /\ IF ksn = None \/ level = 0 THEN Upset ELSE UNCHANGED upsets
       /\ loaded' = (loaded \/ ksn # None)
       /\ outbox' = <<Item("DUKPT_KSN_AND_COUNTER", ksn), Item("SECURITY_LEVEL", level)>>
  /\ running' = "ok"
  /\ UNCHANGED <<page, leisurely, processor, first, counter, buffer, lost, ops, chains, items,
                 edits>>

\* The oldest swipe is read and reported.
swipe_read ==
  /\ opened /\ buffer # <<>>
  /\ running' = "ok"
  /\ buffer' = Tail(buffer)
  /\ outbox' = <<Item("SWIPE_STARTED", None),
                 Item("TRACK_ENCRYPTED_DATA", Head(buffer)),
                 Item("SWIPE_FINISHED", None)>>
  /\ UNCHANGED <<lost, upsets>>

swipe_timed_out ==
  /\ opened /\ buffer = <<>>
  /\ running' = "timeout"
  /\ UNCHANGED <<buffer, lost, outbox, upsets>>

\* The reader is not open or the read fails: a swipe that was being read is
\* lost, or is left for the next wait.
swipe_failed ==
  /\ IF opened THEN Upset ELSE UNCHANGED upsets
  /\ running' = "failed"
  /\ \/ buffer # <<>> /\ buffer' = Tail(buffer) /\ lost' = lost \cup {Head(buffer)}
     \/ UNCHANGED <<buffer, lost>>
  /\ leisurely => buffer' = <<>>
  /\ UNCHANGED outbox

run_wait_swipe ==
  /\ Begin("WAIT_SWIPE")
  /\ swipe_read \/ swipe_timed_out \/ swipe_failed
  /\ UNCHANGED <<page, leisurely, processor, first, counter, opened, loaded, ops, chains, items,
                 edits>>

\* inthread_report_item(): an item is queued for the main loop.
inthread_report_item ==
  /\ outbox # <<>>
  /\ items' = Append(items, Head(outbox))
  /\ outbox' = Tail(outbox)
  /\ UNCHANGED <<page, leisurely, processor, device, ops, running, chains, edits, upsets>>

\* The operation returns; only the result of a wait is looked at.
operation_returns ==
  /\ running # None /\ outbox = <<>>
  /\ returned' = IF Head(ops) = "WAIT_SWIPE" THEN Append(returned, running) ELSE returned
  /\ ops' = Tail(ops)
  /\ running' = None
  /\ UNCHANGED <<page, leisurely, processor, device, outbox, dropped, timers, scheduled, items,
                 edits, upsets>>

\* A processor of the past answers a wait, whatever its reader did; it has no
\* page to report to.
dropped_wait_returns ==
  /\ dropped > 0
  /\ dropped' = dropped - 1
  /\ \E result \in {"ok", "timeout", "failed"} : returned' = Append(returned, result)
  /\ UNCHANGED <<page, leisurely, processor, device, thread, timers, scheduled, items, edits, upsets>>

-----------------------------------------------------------------------------
(* The main loop: results have a higher priority than items. *)

wait_for_swipe(reload_info) ==
  ops' = IF processor
           THEN ops \o (IF reload_info THEN <<"LOAD_PROPERTIES">> ELSE <<>>) \o <<"WAIT_SWIPE">>
           ELSE ops

\* Slip: a time-out is not followed by another wait.
ready_stops_at_timeout ==
  /\ returned # <<>>
  /\ \/ Head(returned) = "ok" /\ wait_for_swipe(TRUE) /\ UNCHANGED <<timers, scheduled>>
     \/ Head(returned) = "timeout" /\ UNCHANGED <<ops, timers, scheduled>>
     \/ /\ Head(returned) = "failed"
        /\ timers' = timers + 1 /\ scheduled' = TRUE
        /\ UNCHANGED ops
  /\ returned' = Tail(returned)
  /\ UNCHANGED <<page, leisurely, processor, device, outbox, running, dropped, items, edits, upsets>>

\* A wait that failed is repeated in a second; the id of a timer that is
\* pending already is overwritten.  (MuiWindow has the error it reports.)
wait_for_swipe_ready ==
  /\ returned # <<>>
  /\ \/ Head(returned) = "ok" /\ wait_for_swipe(TRUE) /\ UNCHANGED <<timers, scheduled>>
     \/ Head(returned) = "timeout" /\ wait_for_swipe(FALSE) /\ UNCHANGED <<timers, scheduled>>
     \/ /\ Head(returned) = "failed"
        /\ timers' = timers + 1 /\ scheduled' = TRUE
        /\ UNCHANGED ops
  /\ returned' = Tail(returned)
  /\ UNCHANGED <<page, leisurely, processor, device, outbox, running, dropped, items, edits, upsets>>

wait_for_swipe_reschedule_cb ==
  /\ timers > 0
  /\ timers' = timers - 1
  /\ scheduled' = FALSE
  /\ wait_for_swipe(TRUE)
  /\ UNCHANGED <<page, leisurely, processor, device, outbox, running, dropped, returned, items,
                 edits, upsets>>

report_item_cb ==
  /\ returned = <<>>
  /\ items # <<>>
  /\ page' = report_item(page, Head(items))
  /\ items' = Tail(items)
  /\ UNCHANGED <<leisurely, processor, device, thread, chains, edits, upsets>>

Edit ==
  /\ edits < MaxEdits
  /\ edits' = edits + 1
  /\ \/ /\ CanEdit(page)
        /\ \/ \E bdk \in Bdks \cup {None} : page' = bdk_entry_activated(page, bdk)
           \/ \E type \in KeyTypes \ {page.key_type} :
                page' = key_type_updated(page, type)
     \/ CanSwitch(page) /\ page' = decryption_switched(page)
  /\ UNCHANGED <<leisurely, processor, device, thread, chains, items, upsets>>

-----------------------------------------------------------------------------
Worker ==
  \/ load_device_properties
  \/ run_wait_swipe
  \/ inthread_report_item
  \/ operation_returns

MainLoop == wait_for_swipe_ready \/ wait_for_swipe_reschedule_cb \/ report_item_cb

Next == Swipe \/ Replace \/ Unplug \/ Worker \/ dropped_wait_returns \/ MainLoop \/ Edit

\* The thread runs and the main loop serves its sources.  Waits last for
\* seconds, however many chains of them there are: the main loop gets through
\* the results, and to the items, which have the priority of idle sources,
\* again and again.
Spec ==
  /\ Init /\ [][Next]_vars
  /\ WF_vars(Worker) /\ WF_vars(wait_for_swipe_ready) /\ WF_vars(wait_for_swipe_reschedule_cb)
  /\ []<>(returned = <<>>) /\ SF_vars(report_item_cb)

-----------------------------------------------------------------------------
(* The variables keep their types. *)
TypeOK ==
  /\ page \in Pages /\ leisurely \in BOOLEAN /\ processor \in BOOLEAN
  /\ counter \in 1 .. (MaxSwipes + 1) /\ first \in 1 .. counter
  /\ opened \in BOOLEAN /\ loaded \in BOOLEAN
  /\ buffer \in Seq(Data) /\ lost \subseteq Data
  /\ ops \in Seq({"LOAD_PROPERTIES", "WAIT_SWIPE"})
  /\ \A i \in DOMAIN outbox : outbox[i].value \in Ksns \cup Levels \cup {0, None}
  /\ \A i \in DOMAIN items : items[i].value \in Ksns \cup Levels \cup {0, None}
  /\ running \in {"ok", "timeout", "failed", None}
  /\ dropped \in Nat /\ timers \in Nat /\ scheduled \in BOOLEAN
  /\ returned \in Seq({"ok", "timeout", "failed"})
  /\ edits \in 0 .. MaxEdits /\ upsets \in 0 .. MaxUpsets

\* Items of a swipe are still on their way to the page.
Reporting ==
  \E i \in 1 .. Len(items \o outbox) : (items \o outbox)[i].kind \in SwipeKinds

\* "... so that all decryption happens with the correct one": once a swipe is
\* reported, data shown as decrypted was decrypted with the KSN its swipe was
\* encrypted with.
DecryptedWithItsKsn ==
  page.decrypted # None /\ page.decrypted.key # None /\ ~Reporting
    => page.decrypted.key.ksn = page.decrypted.data

\* ... which holds in a leisurely session: once the reader was asked for its
\* KSN, the next swipe that is waited for is decrypted with it, whatever
\* chains of waits there are besides, whatever the user changes and whenever
\* results and items arrive.
DecryptedIfLeisurely == leisurely => DecryptedWithItsKsn

\* Every swipe gets to the page, in the order of the swipes, unless its read
\* failed, the window was reset, or a later swipe has replaced it.
EverySwipeShown ==
  \A n \in 1 .. MaxSwipes :
    counter > n ~> \/ first > n \/ n \in lost
                   \/ page.encrypted # None /\ page.encrypted >= n
=============================================================================
