----------------------------- MODULE MccrDevice -----------------------------
(***************************************************************************)
(* The life of the objects of libmccr: reader devices (struct              *)
(* mccr_device_s), the report descriptor contexts they share with the      *)
(* swipe reports, and the HID handles they open.                           *)
(*                                                                         *)
(* A client is a piece of code holding a pointer to a device.  The         *)
(* clients follow the contract of the API: a client gives back each        *)
(* reference and each successful open once, and two calls of open, close   *)
(* or wait_swipe_report on one device do not overlap (nothing in the       *)
(* library locks them); ref and unref, whose counter is atomic, may        *)
(* happen at any time, also while another client is inside a call.         *)
(***************************************************************************)
EXTENDS Naturals, FiniteSets

CONSTANTS
  Devices,    \* slots for device objects; a slot is not reused
  Clients,    \* holders of device pointers
  Paths,      \* HID paths a reader may appear at
  Contexts,   \* report descriptor contexts that can be allocated
  Handles,    \* hidapi handles
  Reports,    \* swipe reports
  MaxOpens,   \* bound: references held by opens of one device
  None        \* the NULL pointer

ASSUME ObjectsFinite ==
  IsFiniteSet(Clients) /\ IsFiniteSet(Devices) /\ IsFiniteSet(Reports)
ASSUME NoneIsNoObject == None \notin Contexts \cup Handles \cup Clients \cup Paths
ASSUME MaxOpensNat == MaxOpens \in Nat

VARIABLES
  attached,       \* paths of the readers plugged in (environment)
  state,          \* "unused", "live" or "disposed", of each device slot
  path,           \* device->path
  refcount,       \* device->refcount
  desc,           \* device->desc
  hid,            \* device->hid
  feature_report, \* device->feature_report # NULL
  step,           \* how far the open or close running on the device is
  caller,         \* the client inside that open or close
  disposing,      \* devices whose counter dropped to 0, not freed yet
  handles,        \* handles hidapi has open (external)
  ctx_refcount,   \* ctx->refcount, 0 when the context is not allocated
  report,         \* report->desc of each swipe report, None when free
  held,           \* clients owning a reference from new, enumerate or ref
  opened,         \* clients that opened the device and did not close it yet
  opens           \* references taken by open and not given back (history)

objects  == <<state, path, refcount, disposing>>
openInfo == <<desc, hid, feature_report, handles, ctx_refcount>>
calls    == <<step, caller>>
owners   == <<held, opened, opens>>
vars == <<attached, objects, openInfo, calls, report, owners>>

Steps == {"idle", "parsed", "hid_open", "closed"}

-----------------------------------------------------------------------------
Init ==
  /\ attached = {}
  /\ state = [d \in Devices |-> "unused"]
  /\ path = [d \in Devices |-> None]
  /\ refcount = [d \in Devices |-> 0]
  /\ desc = [d \in Devices |-> None]
  /\ hid = [d \in Devices |-> None]
  /\ feature_report = [d \in Devices |-> FALSE]
  /\ step = [d \in Devices |-> "idle"]
  /\ caller = [d \in Devices |-> None]
  /\ disposing = {}
  /\ handles = {}
  /\ ctx_refcount = [x \in Contexts |-> 0]
  /\ report = [r \in Reports |-> None]
  /\ held = [d \in Devices |-> {}]
  /\ opened = [d \in Devices |-> {}]
  /\ opens = [d \in Devices |-> 0]

\* A client has a valid pointer while it owns a reference or an open.
Knows(c, d) == c \in held[d] \cup opened[d]

\* c is not inside a call on d, and no other client is inside one.
MayCall(c, d) == Knows(c, d) /\ step[d] = "idle"

-----------------------------------------------------------------------------
(* The environment: readers are plugged and unplugged. *)

Plug(p) ==
  /\ p \notin attached
  /\ attached' = attached \cup {p}
  /\ UNCHANGED <<objects, openInfo, calls, report, owners>>

Unplug(p) ==
  /\ p \in attached
  /\ attached' = attached \ {p}
  /\ UNCHANGED <<objects, openInfo, calls, report, owners>>

-----------------------------------------------------------------------------
(* Creation and reference counting. *)

Unused == {d \in Devices : state[d] = "unused"}

\* device_new() for every device d of at, reached at path at[d].
device_new(c, at) ==
  /\ state' = [d \in Devices |-> IF d \in DOMAIN at THEN "live" ELSE state[d]]
  /\ path' = [d \in Devices |-> IF d \in DOMAIN at THEN at[d] ELSE path[d]]
  /\ refcount' = [d \in Devices |-> IF d \in DOMAIN at THEN 1 ELSE refcount[d]]
  /\ held' = [d \in Devices |-> IF d \in DOMAIN at THEN {c} ELSE held[d]]
  /\ UNCHANGED <<attached, disposing, openInfo, calls, report, opened, opens>>

\* The first device enumerated at the path wanted, or at any path.
mccr_device_new(c) ==
  \E p \in attached, d \in Unused : device_new(c, [x \in {d} |-> p])

\* One device object for every reader plugged in.
mccr_enumerate_devices(c) ==
  \E new \in SUBSET Unused : \E at \in [new -> attached] :
    /\ new # {}
    /\ \A p \in attached : \E d \in new : at[d] = p
    /\ \A d, e \in new : at[d] = at[e] => d = e
    /\ device_new(c, at)

\* c takes a reference on behalf of e.
mccr_device_ref(c, e, d) ==
  /\ Knows(c, d)
  /\ e \notin held[d]
  /\ refcount' = [refcount EXCEPT ![d] = @ + 1]
  /\ held' = [held EXCEPT ![d] = @ \cup {e}]
  /\ UNCHANGED <<attached, state, path, disposing, openInfo, calls, report,
                 opened, opens>>

\* Slip: the test looks at the counter one too early.
drop_reference_early(d) ==
  /\ refcount' = [refcount EXCEPT ![d] = @ - 1]
  /\ disposing' = IF refcount[d] <= 2 THEN disposing \cup {d} ELSE disposing
  /\ UNCHANGED <<state, path>>

\* The atomic decrement; the client that drops the counter to 0 goes on to
\* free the object.
drop_reference(d) ==
  /\ refcount' = [refcount EXCEPT ![d] = @ - 1]
  /\ disposing' = IF refcount[d] = 1 THEN disposing \cup {d} ELSE disposing
  /\ UNCHANGED <<state, path>>

mccr_device_unref(c, d) ==
  /\ c \in held[d]
  /\ caller[d] # c
  /\ drop_reference(d)
  /\ held' = [held EXCEPT ![d] = @ \ {c}]
  /\ UNCHANGED <<attached, openInfo, calls, report, opened, opens>>

\* The asserts and the free() after the counter dropped to 0.
dispose(d) ==
  /\ d \in disposing
  /\ disposing' = disposing \ {d}
  /\ state' = [state EXCEPT ![d] = "disposed"]
  /\ UNCHANGED <<attached, path, refcount, openInfo, calls, report, owners>>

-----------------------------------------------------------------------------
(* Open and close. *)

\* Slip: the context is freed although someone else refers to it.
ctx_free(x) == [ctx_refcount EXCEPT ![x] = 0]

ctx_unref(x) == [ctx_refcount EXCEPT ![x] = @ - 1]

\* Slip: the feature report is kept.
clear_keeps_feature_report(d) ==
  /\ desc' = [desc EXCEPT ![d] = None]
  /\ ctx_refcount' = IF desc[d] # None THEN ctx_unref(desc[d]) ELSE ctx_refcount
  /\ hid' = [hid EXCEPT ![d] = None]
  /\ handles' = handles \ {hid[d]}
  /\ UNCHANGED feature_report

\* Slip: the handle is forgotten without hid_close().
clear_leaks_handle(d) ==
  /\ feature_report' = [feature_report EXCEPT ![d] = FALSE]
  /\ desc' = [desc EXCEPT ![d] = None]
  /\ ctx_refcount' = IF desc[d] # None THEN ctx_unref(desc[d]) ELSE ctx_refcount
  /\ hid' = [hid EXCEPT ![d] = None]
  /\ UNCHANGED handles

\* device_clear_open_info(): releases whatever open had obtained.
device_clear_open_info(d) ==
  /\ feature_report' = [feature_report EXCEPT ![d] = FALSE]
  /\ desc' = [desc EXCEPT ![d] = None]
  /\ ctx_refcount' = IF desc[d] # None THEN ctx_unref(desc[d]) ELSE ctx_refcount
  /\ hid' = [hid EXCEPT ![d] = None]
  /\ handles' = handles \ {hid[d]}

Return(d) ==
  /\ step' = [step EXCEPT ![d] = "idle"]
  /\ caller' = [caller EXCEPT ![d] = None]

Goto(c, d, s) ==
  /\ step' = [step EXCEPT ![d] = s]
  /\ caller' = [caller EXCEPT ![d] = c]

\* Slip: open does not take its reference.
open_without_reference(c, d) ==
  /\ opens' = [opens EXCEPT ![d] = @ + 1]
  /\ opened' = [opened EXCEPT ![d] = @ \cup {c}]
  /\ UNCHANGED <<state, path, refcount, disposing, held>>

\* "Every successful operation increases refcount".
open_reference(c, d) ==
  /\ refcount' = [refcount EXCEPT ![d] = @ + 1]
  /\ opens' = [opens EXCEPT ![d] = @ + 1]
  /\ opened' = [opened EXCEPT ![d] = @ \cup {c}]
  /\ UNCHANGED <<state, path, disposing, held>>

CanOpen(c, d) == MayCall(c, d) /\ c \notin opened[d] /\ opens[d] < MaxOpens

\* open of a device that is open already.
open_again(c, d) ==
  /\ CanOpen(c, d)
  /\ desc[d] # None
  /\ open_reference(c, d)
  /\ UNCHANGED <<attached, openInfo, calls, report>>

\* The report descriptor is read and parsed into a new context.  A failure
\* to read or parse it returns with nothing obtained.
open_parse(c, d) ==
  /\ CanOpen(c, d)
  /\ desc[d] = None
  /\ path[d] \in attached
  /\ \E x \in Contexts :
       /\ ctx_refcount[x] = 0
       /\ ctx_refcount' = [ctx_refcount EXCEPT ![x] = 1]
       /\ desc' = [desc EXCEPT ![d] = x]
  /\ Goto(c, d, "parsed")
  /\ UNCHANGED <<attached, objects, hid, feature_report, handles, report, owners>>

\* hid_open_path() gives a handle.
open_hid(c, d) ==
  /\ step[d] = "parsed" /\ caller[d] = c
  /\ path[d] \in attached
  /\ \E h \in Handles \ handles :
       /\ hid' = [hid EXCEPT ![d] = h]
       /\ handles' = handles \cup {h}
  /\ Goto(c, d, "hid_open")
  /\ UNCHANGED <<attached, objects, desc, feature_report, ctx_refcount, report,
                 owners>>

\* The feature report is allocated and open succeeds.
open_done(c, d) ==
  /\ step[d] = "hid_open" /\ caller[d] = c
  /\ feature_report' = [feature_report EXCEPT ![d] = TRUE]
  /\ open_reference(c, d)
  /\ Return(d)
  /\ UNCHANGED <<attached, desc, hid, handles, ctx_refcount, report>>

\* Slip: the error path returns without the cleanup.
open_failed_uncleared(c, d) ==
  /\ step[d] \in {"parsed", "hid_open"} /\ caller[d] = c
  /\ Return(d)
  /\ UNCHANGED <<attached, objects, openInfo, report, owners>>

\* hid_open_path() or the allocation failed: everything is given back.
open_failed(c, d) ==
  /\ step[d] \in {"parsed", "hid_open"} /\ caller[d] = c
  /\ device_clear_open_info(d)
  /\ Return(d)
  /\ UNCHANGED <<attached, objects, report, owners>>

\* close of a device that is not open returns at once.
close_not_open(c, d) ==
  /\ MayCall(c, d) /\ c \in opened[d]
  /\ desc[d] = None
  /\ opened' = [opened EXCEPT ![d] = @ \ {c}]
  /\ UNCHANGED <<attached, objects, openInfo, calls, report, held, opens>>

close_clear(c, d) ==
  /\ MayCall(c, d) /\ c \in opened[d]
  /\ desc[d] # None
  /\ device_clear_open_info(d)
  /\ Goto(c, d, "closed")
  /\ UNCHANGED <<attached, objects, report, owners>>

\* "Close operation decreases refcount".
close_unref(c, d) ==
  /\ step[d] = "closed" /\ caller[d] = c
  /\ drop_reference(d)
  /\ opens' = [opens EXCEPT ![d] = @ - 1]
  /\ opened' = [opened EXCEPT ![d] = @ \ {c}]
  /\ Return(d)
  /\ UNCHANGED <<attached, openInfo, report, held>>

-----------------------------------------------------------------------------
(* Swipe reports. *)

\* Slip: the report borrows the context of the device.
wait_swipe_report_borrows(c, d, r) ==
  /\ MayCall(c, d)
  /\ desc[d] # None
  /\ path[d] \in attached
  /\ report[r] = None
  /\ report' = [report EXCEPT ![r] = desc[d]]
  /\ UNCHANGED <<attached, objects, openInfo, calls, owners>>

\* A swipe was received: the report takes a reference to the context.  The
\* other outcomes (not open, time out, failed read) free the input report
\* and change nothing here.
mccr_device_wait_swipe_report(c, d, r) ==
  /\ MayCall(c, d)
  /\ desc[d] # None
  /\ path[d] \in attached
  /\ report[r] = None
  /\ report' = [report EXCEPT ![r] = desc[d]]
  /\ ctx_refcount' = [ctx_refcount EXCEPT ![desc[d]] = @ + 1]
  /\ UNCHANGED <<attached, objects, desc, hid, feature_report, handles, calls, owners>>

mccr_swipe_report_free(r) ==
  /\ report[r] # None
  /\ ctx_refcount' = ctx_unref(report[r])
  /\ report' = [report EXCEPT ![r] = None]
  /\ UNCHANGED <<attached, objects, desc, hid, feature_report, handles, calls, owners>>

-----------------------------------------------------------------------------
Call(c, d) ==
  \/ \E e \in Clients : mccr_device_ref(c, e, d)
  \/ mccr_device_unref(c, d)
  \/ open_again(c, d)
  \/ open_parse(c, d)
  \/ open_hid(c, d)
  \/ open_done(c, d)
  \/ open_failed(c, d)
  \/ close_not_open(c, d)
  \/ close_clear(c, d)
  \/ close_unref(c, d)
  \/ \E r \in Reports : mccr_device_wait_swipe_report(c, d, r)

Next ==
  \/ \E p \in Paths : Plug(p) \/ Unplug(p)
  \/ \E c \in Clients : mccr_device_new(c) \/ mccr_enumerate_devices(c)
  \/ \E c \in Clients, d \in Devices : Call(c, d)
  \/ \E d \in Devices : dispose(d)
  \/ \E r \in Reports : mccr_swipe_report_free(r)

Spec == Init /\ [][Next]_vars

-----------------------------------------------------------------------------
(* The variables keep their types. *)
TypeOK ==
  /\ attached \subseteq Paths
  /\ state \in [Devices -> {"unused", "live", "disposed"}]
  /\ path \in [Devices -> Paths \cup {None}]
  /\ refcount \in [Devices -> Nat]
  /\ desc \in [Devices -> Contexts \cup {None}]
  /\ hid \in [Devices -> Handles \cup {None}]
  /\ feature_report \in [Devices -> BOOLEAN]
  /\ step \in [Devices -> Steps]
  /\ caller \in [Devices -> Clients \cup {None}]
  /\ disposing \subseteq Devices
  /\ handles \subseteq Handles
  /\ ctx_refcount \in [Contexts -> Nat]
  /\ report \in [Reports -> Contexts \cup {None}]
  /\ held \in [Devices -> SUBSET Clients]
  /\ opened \in [Devices -> SUBSET Clients]
  /\ opens \in [Devices -> Nat]

\* A client with a valid pointer, or inside a call, never touches a device
\* that is being freed or was freed, whatever the others unref meanwhile
\* (the atomic counter of mccr_device_ref and mccr_device_unref).
NoUseAfterFree ==
  \A d \in Devices :
    (held[d] \cup opened[d] # {} \/ step[d] # "idle")
      => state[d] = "live" /\ d \notin disposing

\* The counter is exactly the references of the clients plus those of the
\* opens that were not given back, through every path of open and close.
RefcountExact ==
  \A d \in Devices : refcount[d] = Cardinality(held[d]) + opens[d]

\* assert (!device->hid), (!device->feature_report), (!device->desc): the
\* last unref meets a closed device, since an open one holds a reference.
DisposeAsserts ==
  \A d \in Devices :
    d \in disposing \/ state[d] = "disposed"
      => desc[d] = None /\ hid[d] = None /\ ~feature_report[d]

\* Outside open and close, a device has its context, its handle and its
\* feature report or none of them: is_open and wait_swipe_report look at the
\* first, the commands at the last.
OpenAllOrNothing ==
  \A d \in Devices : step[d] = "idle" =>
    /\ desc[d] = None <=> hid[d] = None
    /\ desc[d] = None <=> ~feature_report[d]

\* Every handle hidapi has open belongs to one device: no path of open
\* leaves one behind, and none is used by two devices.
HandlesOwned ==
  /\ handles = {hid[d] : d \in Devices} \ {None}
  /\ \A d, e \in Devices : hid[d] # None /\ hid[d] = hid[e] => d = e

\* A context lives exactly as long as a device or a swipe report points to
\* it: reports read after the close of their device find their usages.
ContextRefcount ==
  \A x \in Contexts :
    ctx_refcount[x] = Cardinality({d \in Devices : desc[d] = x})
                      + Cardinality({r \in Reports : report[r] = x})

\* The comments of open ("Every successful operation increases refcount")
\* and close ("Close operation decreases refcount"): when every client has
\* closed what it opened and dropped its references, the device is freed.
BalancedCloseFrees ==
  \A d \in Devices :
    held[d] = {} /\ opened[d] = {} => refcount[d] = 0
=============================================================================
