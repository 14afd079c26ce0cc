# mccr in TLA+

`mccr` drives MagTek magnetic stripe card readers: `libmccr` talks to a reader
over HID, `mccr-cli` runs one command per process, and `mccr-gtk` is a GUI that
follows the reader, decrypts swipes and updates the reader's keys and
configuration through a web service. This directory holds TLA+ models of it,
TLC configurations that check them, and proofs for TLAPS.

Run a check with `tlc -config MuiWindow.cfg MuiWindow`, the proofs with `tlapm`
on each module whose name ends in `Proofs`. `PROJECT.json` maps every definition to the lines
it models, lists the runs, the hazards of the code with the properties that
cover them, the findings and the theorems. For each property of a passing run it
also names a faulty variant of one definition under which that property fails;
those variants are the operators introduced as "Slip" in the modules, and no
specification uses them.

## The system

| Component | State | Operations | Hard behaviour | What makes it correct |
|---|---|---|---|---|
| `libmccr/mccr.c`: devices | reference counter, descriptor context, HID handle, feature report of each device; contexts shared with swipe reports | new, enumerate, ref, unref, open, close, wait for a swipe report | several threads with one device; `open` failing at each stage; the opens are references, closed all at once | counters are exact, nothing is freed in use or leaked, open is all or nothing |
| `libmccr/mccr-hid.c`: report descriptor | layout of the input and the feature report | parse, look up a usage | items in any order; sizes that wrap; usages without a size | the layout is the one the descriptor means |
| `libmccr/mccr-input-report.c`, getters in `mccr.c` | the report being read | receive, get fields | a report comes in pieces, late, or not at all | a field is what the reader put there; a receive returns |
| `libmccr/mccr-feature-report.c`, commands in `mccr.c` | a request and a response buffer; the reader's last answer | commands, properties | one buffer for all commands; the two halves of a command, with other programs in between; failures at each half | requests are whole and carry nothing old; an answer is the answer to this call |
| `mccr-cli/mccr-cli.c` | options, the device, exit status | list, show, reset, set session id, wait for a swipe | wrong and combined options; readers unplugged or shared with `mccr-gtk`; early exits | the exit status tells whether the one action was carried out |
| `mccr-gtk/mui-processor.c` | a queue, a thread with its main context, the device, tasks | start, load properties, reset, wait for a swipe, run a command, finalize | two threads; a task's last reference dropped on either; stop behind queued work | serial execution, one answer per operation, a clean stop |
| `mccr-gtk/mui-window.c` | current processor, device path, timer, panes | udev events, results of waits, timers, dispose | results and timers of processors that were dropped | always a wait going; the reader there is served, and nothing after dispose |
| `mccr-gtk/mui-page.c` | the page's processor and signal handler | set processor, deliver items | items cross threads as idle callbacks | order of items |
| `mccr-gtk/mui-page-basic.c` | KSN and next KSN, BDK, IPEK, key, tracks, options | items, edits, reset | KSN and swipe arrive separately; cached keys | decryption with the right KSN and key |
| `mccr-gtk/mui-page-remote-services.c` | KSN, MUT, key id, lists, dialog, ongoing operation | lists, key update, commands | callbacks after the reader or the row is gone; nested main loop of the dialog | one operation at a time, each one ends, a key update runs on the reader it was made for |
| `mui-page-remote-services.c`: settings | settings file, entries, key file, 5 s store timer of each page | edit, store, load, dispose | several windows on one file; the timer against closing; reads and writes that fail | the file is what a window shows, texts change for a reason, edits get stored |
| `mccr-gtk/mui-remote-service*.c` | the account of a client | SOAP requests, reading the answers | the account is set and read at different times; answers that are incomplete, repeated or to something else | one account per operation; what is run is what the answer tells |
| `mccr-gtk/mui-app.c`, `mccr-gtk.c` | the windows | open, close, quit | windows closed during operations | |
| `libmccr/mccr-usb.c`, `mccr-raw.c`, `mccr-log.c` | none | reading the descriptor, logging | | not modelled: pure I/O |
| `mui-page-advanced.c`, `common.c`, tests | none | display, conversions | | not modelled |

How they interact: a udev event makes the window look for a reader and set up a
processor, which owns a `libmccr` device on its own thread. The window and the
pages schedule operations on it; results come back as GTask callbacks and what
was read as `report-item` signals, which each page turns into idle callbacks.
The remote services page calls the web service, schedules commands on the
processor of the page at that time, and tells the window through the property
`operation-ongoing` that the properties have to be loaded again.

## Modules

    MccrDevice     <-- MCMccrDevice, MccrDeviceProofs
    FeatureReport  <-- MccrCli <-- MCMccrCli, MccrCliProofs
        FeatureReport <== MccrCli (proved: MccrCliProofs)
    HidDescriptor  <-- SwipeReport <-- SwipeReportProofs
    SerialExecutor <== MuiProcessor <-- MuiProcessorProofs
        (assumed by MuiWindow, SwipeSession, MuiRemoteServices)
    MuiWindow      <-- MuiWindowProofs
    MuiPageBasic   <-- SwipeSession <-- SwipeSessionProofs
    MuiRemoteServices <-- MuiRemoteServicesProofs
    RemoteSettings, RemoteService <-- RemoteAccount <-- MCRemoteAccount, RemoteAccountProofs

    (<-- is extended by, <== is refined by)

**MccrDevice** (`mccr.c`, the context counter of `mccr-hid.c`). Any number of
devices and clients (threads or callers). `open` and `close` are cut where they
call out or change the counter: `open_again`, or `open_parse`, `open_hid`,
`open_done`, with `open_failed` after each; `close_not_open`, or `close_clear` and
`close_unref`. `mccr_device_unref` takes the counter down atomically and
`dispose` frees later, so other threads run in between. `held` and `opened` are
the clients' own knowledge, `opens` counts the references of opens not given
back: they are history, no action of the library reads them. The clients follow the
contract of the header: they use a pointer they have a reference to, and `open`
and `close` of one device do not run at the same time (the fields are not
locked); ref, unref and swipe reports are free. Bounds: two clients, two devices,
two opens per device; with these, all the orders of two last unrefs, of a close
against the other client's open, and of a report outliving its device occur.

**FeatureReport** (`mccr-feature-report.c` and the commands of `mccr.c`). A user is a
process, or the thread of a processor, with a device of its own; readers come and go.
A call is cut where other users can get between: it clears and fills the buffer
(`Begin`), sends (`Send`) and reads back (`Get`), and each half may fail, the first also
after the reader carried the request out. A reader keeps one answer; with libusb hidapi
gives a reader to one user at a time, with hidraw to any number. Of an answer the
model keeps whose call it answers, its result code and its size. Data too long for the
report fails an assertion: the stage `aborted`. `disturbed` is history: another
user sent to the reader between the two transfers of a call.

**MccrCli** (`mccr-cli.c`) is one process of `mccr-cli`, from the command line to the exit
status, next to a `mccr-gtk` that uses the same library (`Gui`). Each action is the
sequence of library calls it makes, taken from `FeatureReport`; `clean_exit` closes the
device, the other exits leave that to the kernel. A session id is what `strtoull` makes of a
text nobody checks: a number, zero for no number, the largest for one too long. `done`
remembers what readers carried out for the process. Bounds: two readers, one of them chosen by
path, one command of `mccr-gtk`, one unplugging, at most two actions on a command line. One
command is enough for an answer to be overwritten between the halves of another.

**HidDescriptor** (`mccr-hid.c`) takes the items of a descriptor one at a time,
any item at any point, so that TLC sees every descriptor of any length with up to
three usages kept. Beside the parser, `hid` holds what the items mean under the
HID specification, as long as each input or feature item has its own usages followed by
their count, with the size before it and one field per usage: this is what the parser
was written for. Outside of it the two differ, on purpose or not: the parser applies
a count at once with the size known so far, forgets size and count for usages
that come later, spreads a count evenly over the usages where HID would repeat the
last one, and does not count padding that has no usage. Sizes wrap at `Word`
(32 in the run, instead of 2^32), which two fields of 16 bits reach. Long
items (of which the parser skips two bytes too few),
a last item that is cut off, and allocation failures are left out.

**SwipeReport** composes it with `mccr_input_report_receive` and the getters.
The reader sends byte after byte, may stop anywhere and be unplugged; a read returns
any part of what was sent. `late` remembers that the in-progress time-out (500 ms) struck
while the rest of a report was to come: from then on every report starts in the
middle of a swipe, and nothing in the code resynchronizes, so `FieldsDelivered` is about
sessions in which this has not happened. Bound: two swipes.

**SerialExecutor** is what a processor promises: operations run one at a time in
the order of submission and each result is delivered once, in that order.
**MuiProcessor** (`mui-processor.c`) is both threads in detail: the push and the
attachment of the wake-up are two steps, the thread pops, runs, returns the task, and
drops its reference; the main loop dispatches and drops the other. `finalize` runs where
the last reference goes. `ImplementsSerialExecutor` is the refinement, with the
operation in hand between the executed ones and the queue. Bounds: two users, three operations:
enough for an operation running, one queued and one whose wake-up is not attached, at the moment the
users let go.

On the thread, `finalize` ends in an abort: `g_main_context_invoke` from the thread
runs STOP directly, and `g_thread_join` of the thread on itself is refused. The
model has it (`task_unref`), as it has the assertion on a device that is gone
(`run_load_properties`) and on an empty command (`run_command_no_data`); all three set
`aborted`, and the liveness properties say "unless the program dies".

**MuiWindow** (`mui-window.c`) uses processors as `SerialExecutor` describes them. A
reader comes and goes, udev events lag behind, a dropped processor finishes what it
was given and its last results arrive when there is another. `device` tells whether
the device of a processor is open on a reader that was unplugged since. Bounds: two
processors, two timers, two changes of the reader, two operations queued by the user: results of
an old processor and a second timer with an overwritten id occur. The chain of waits of a dropped
processor goes on, on the processor there is when its result arrives, beside the chain that one began
with: `ChainPerSetup` bounds the chains by the processors made, not by one.

**MuiPageBasic** (`mui-page-basic.c`) is the page as a record and one operator per
handler; keys are the terms they are computed from. **SwipeSession** puts it at the end of
the whole path of a swipe: reader, kernel buffer, thread, result callbacks,
item callbacks, with the user changing options and the reader being replaced.
Disconnecting the handler of the old processor is `set_property` (`mui-page.c`): what that
processor reports later reaches no page. Its waits (`dropped`) are still answered, at any time and
with any result, and the window then waits on the processor it has: after a reset several chains
share one queue. A wait may fail, with the swipe it was reading lost (`lost`) or left to the next
wait, and is repeated by the timer; a load may fail to open the reader or to read the KSN or the
level. The window is reset with another reader, the same one or none. What the user is told of a
failed wait is in `MuiWindow`. `leisurely` sessions are those in which a card is swiped only while
the window waits for it and the KSN was read since the swipe before (`loaded`), a load opens the reader
and reads both properties, a wait that fails leaves no swipe behind, and the window is not reset
between two items of a swipe. Without `loaded` the second chain makes `DecryptedIfLeisurely`
false: a second wait may be at the head of the queue before the load that follows the first. Bounds: two
swipes or changes of the reader in leisurely sessions, one in others (two in `swipe_quick`), two resets
or failures (one in `swipe_quick`), a load that waits while more than two items are
undelivered (three in `swipe_quick`), one edit, one BDK, two
key types, one security level. They are enough for a reset that leaves a second
chain and a swipe in each chain with a load between, for a failure before or after either, and for
items of one load that arrive after the next has begun.

**MuiRemoteServices** (`mui-page-remote-services.c`) has the lists, the dialog with its
nested main loop, key updates and commands, over readers that come and go. An
operation's context keeps the row, KSN and MUT from when it began; `op.stage` names the
callback that is pending. The list box keeps a row alive while it emits
`row-activated`, dialog included, so the dialog itself cannot lose its row; but the labels an
operation remembers may be gone with a reset, and using them is fatal or goes
unnoticed: `Touch` leaves that open. Running a command without a processor is
a crash. In `steady` sessions readers come and go only while the page is at rest and answer
when their properties are read. A reset of the reader (`run_reset`) is an operation of the
processor like others, which the page does not wait for. Bounds: two readers, one key of the
service besides the test key, two operations, or three when steady: a look-up of
the key, an update and a command can follow each other. `KeysForTheirReader` is about key updates and
the key id: the generic commands have no guard that would make it true of them (see below).

**RemoteSettings** is the account of the remote service in that page: the entries, the key
file behind them, the timer of five seconds that edits restart, and the file, which all
windows share. Loads fail after part of the file was read, saves fail and leave the
file. `reasons` and `failed` are history. **RemoteService** (`mui-remote-service.c`,
`mui-remote-service-utils.c`) is the client: the account it was last given, the request made
of it, and the documents that answer, as elements with named children in any order and
number, down to the command that is run or the key that is found. **RemoteAccount** composes the
two while windows are opened and closed. A page outlives its window as long as its operation;
the answer then finds widgets that are gone, which may end the program
(`answer_too_late`). Bounds: two windows, two fields with two texts, three files to begin with
(none, one without a field, a complete one), three edits or operations, documents of up to three
elements out of seven for commands and nine for keys: every order of an edit in one window, a
save in the other and a request of either occurs, and every way an element may be incomplete.

## Runs

| Run | What it checks | Distinct states | Result |
|---|---|---|---|
| `mccr_device` | `MccrDevice`: counters, disposal, open, handles, contexts, for all interleavings of two clients | 77 507 | holds |
| `device_balanced_close` | `BalancedCloseFrees` | | violated: finding 1 |
| `mccr_cli` | `MccrCli`, with libusb and hidraw: requests, answers, exit status, the process ends | 817 273 | holds |
| `swipe_report` | `SwipeReport`: layout, fields, end of a receive | 930 789 | holds |
| `mui_processor` | `MuiProcessor`: wake-ups, stop, refinement of `SerialExecutor`, answers | 29 332 | holds |
| `mui_window` | `MuiWindow`: there is always a wait going, no more chains than processors made, quiet after dispose, the reader is served | 84 772 | holds |
| `window_device_gone` | `LoadFindsDevice` | | violated: finding 2 |
| `window_error_device_gone` | `IgnoreErrorIfDeviceGone` | | violated: finding 3 |
| `swipe_session` | `SwipeSession`, leisurely or not: keys, what is shown, KSN of leisurely swipes, every swipe shown unless its read failed or a reset came | 825 555 | holds |
| `swipe_quick` | `DecryptedWithItsKsn` for any swipes | | violated: finding 4 |
| `remote_services` | `MuiRemoteServices`, steady or not: one operation at a time, every operation ends; steady: rows and processors of operations, key updates and key ids belong to their reader, the KSN catches up | 234 164 | holds |
| `remote_account` | `RemoteAccount`: one account per operation, what answers are worth, the file and the edits | 341 682 | holds |

Deadlock is not checked: each bounded session may stop (a reader that is never
plugged in, a processor that is freed, a program that ended).

### Findings

1. The opens of a device take references that closing gives back once only: after
   two opens and two closes the device is never freed (`mccr.c:329`, `:388`, `:395`).
2. Unplugging the reader before START runs leaves a processor without device, and the load
   of the properties asserts that there is one (`mui-processor.c:182`).
3. "Ignore error if device gone" is inverted: an error is reported exactly when no
   device is known (`mui-window.c:155`).
4. "All decryption happens with the correct [KSN]" fails when a card is swiped again
   before the properties were loaded (`mui-page-basic.c:302`).

### Noted while modelling

With no property of their own, and part of the models unless said otherwise:

- The "current key id, if known" is the old one after a key update that the reader applied
  but whose answer was lost (`mui-page-remote-services.c:74`, `:585`).
- A reader replaced between the data of a swipe and its end leaves the page with the data of that
  swipe and the KSN of the one before: the handler of the old processor is disconnected
  (`mui-page.c:171`), but what it put into the main loop still arrives. The next edit of an option
  then decrypts with the wrong key. Leisurely sessions exclude it.
- The chain of waits of a dropped processor goes on with the next one (`mui-window.c:147`): two
  waits may be queued, and a swipe may then be read before the KSN that follows the last one. A swipe
  whose read fails is lost (`mui-processor.c:609`).
- The generic commands never look at `ksn_set` or `mut_set` (`mui-page-remote-services.c:1185`,
  `:1192`), and a key update takes the MUT without asking for `mut_set` (`:726`). One begun after
  a replug and before the load is downloaded with what the reader before said and runs on the new one.
  The same happens when the window is reset while an operation waits for the service (`:548`,
  `:666`), for key updates too; `steady` sessions leave out the reset, not the stale values.
- Each wait takes a reference to the window that `wait_for_swipe_ready` does not give back
  (`mui-window.c:179`, not modelled); STOP drops an open device without closing it, which with
  finding 1 leaks the handle (`mui-processor.c:859`); readers of the second vendor id
  are enumerated by `libmccr` but their events are ignored by the window.
- A window closed during an operation leaves callbacks that use what is gone
  (`mui-page-remote-services.c:1661`).
- Windows copy the settings file and do not merge: one that saves puts back what another one
  changed. A file that cannot be read blanks the entries, and the next edit blanks the file.
  A save that fails is not tried again.
- A key with an empty KSI matches every KSN (`ksi_matches_ksn`). Account texts go into the request
  through `xmlNewChild`, which does not escape `&` (not modelled).
- `mccr-cli --set-session-id` rejects zero though the help says any number of 64 bits
  (`mccr-cli.c:257`), and accepts a number with something behind it or too long.
- A byte property of the wrong size is OK with its value unset (`mccr.c:541`), so
  `--show` prints what the variable held.
- The comment at `mccr-cli.c:577` excepts `--show` from opening the device; the code opens it too.
- When a length of a track cannot be read, an uninitialized one is used
  (`mui-processor.c:556`); long items of a descriptor are skipped two bytes short
  (`mccr-hid.c:666`), and usages are dropped when memory runs out (`:189`). None of the three is
  modelled.

## Fairness

Threads run and the main loop serves its sources: weak fairness of each processor's
thread and of each kind of source. Nothing obliges users, readers or events of
the outside to happen, except that a udev event once queued is handled. Strong fairness is
used twice. In `MuiWindow`, the open of a reader that is there does not fail every time
(`run_load(p, "open")`): the window retries for ever, and with opens that always fail nothing could be
served. In `SwipeSession`, items have the priority of idle sources and results overtake them, so
items are not enabled continuously; but a wait lasts seconds, whatever the number of chains, and the
main loop gets through the results again and again (`[]<>(returned = <<>>)`), and then to the items.
No fairness obliges a read or a load to succeed: `MaxUpsets` bounds how often they fail, and
`EverySwipeShown` makes an exception for a swipe whose read did. `MuiRemoteServices` assumes that the web service answers or fails
(requests time out in the client) and that commands return. `SwipeReport` assumes only that reads
return. `MccrCli` assumes that the process runs and that calls of hidapi return: waiting for a
swipe is no part of `CliSteps`, nobody has to swipe a card. `RemoteAccount` lets the timer of each
page go off, which supposes that the user pauses for five seconds now and then.

## Proofs

`MccrDeviceProofs` proves the safety of `MccrDevice` for any finite sets of devices, clients, contexts,
handles, reports and paths, from the assumptions of the module: `ObjectsFinite`
(the sets are finite), `NoneIsNoObject` and `MaxOpensNat`.

The invariants are not inductive one by one: that the counter is exact
says nothing about a client inside `close`, whose reference keeps the device alive
between the clearing and the unref, nor about how many opens can still be closed. `IInv` adds
to them:

- `OpensCover`: each client that has not closed its open is covered by a reference;
- `CallerKnows`: whoever is inside a call has a valid pointer until it returns;
- `CallShape`: what open and close have obtained or released at each step;
- `OpenHolds`: an open device has a reference from an open;
- `DeadUnreferenced`: what is freed or about to be freed has no reference.

`InitInv` and one lemma per action (`NewStep` ... `SwipeReportFreeStep`) give `NextInv`, hence
`Invariance`. Counting is isolated in lemmas on cardinalities (`ClientSets`,
`ContextAllocated`, `ContextReleased`, `ContextBorrowed`, `ContextReturned`), and what an
action leaves alone in `CountsKept`, `ShapeKept`, `HandlesKept`, `ContextsKept`, `CallsKept`.
From `IInv` follow `TypeCorrect`, `SafeUse`, `ExactCounter`, `DisposedClosed`, `OpenIsAtomic`, `NoHandleLeak`
and `ContextsLive`, each naming an invariant of the run `mccr_device`.

`MccrCliProofs` begins with the library: it proves `RequestAsCalled` and `AnswerOfThisCall` for any numbers of users,
readers and calls. What a call finds at the reader depends on who has the reader open:
`HandlesValid` (a handle is that of a reader that is there, and with libusb of nobody else) and
`AnswerWaits` (an undisturbed call in its second half finds its own answer, and only hidraw lets
calls be disturbed) make them inductive, beside the types `FTypeOK`; `ReportInvariance` has one lemma
per action. It then shows that each step of `MccrCli` is one of `FeatureReport` or leaves its
variables alone (`ImplementsFeatureReport`), for every command line and any commands of
`mccr-gtk`, so both properties hold there (`CliCallsSound`). It also proves `DoneAsAsked`
(`StatusTells`), from `FInv` and `CInv`: `main` goes on only with options that fit
(`WayOfMain`), the device is the one they choose and no other reader has an answer of the process
(`ChosenDevice`), the call in progress is one of the action's (`CallsOfAction`), a call that finds
success at the reader, or returned OK, was carried out unless it was disturbed
(`CarriedOutOrDisturbed`), so the status is the truth before it becomes the exit status
(`StatusIsTrue`). What the readers and `mccr-gtk` do in between is summed up in `OthersAct`.
The proof assumes that no status and no answer is `None` (`NoneIsNoStatus`).

`SwipeReportProofs` proves `AgreesWithHid` (`LayoutAgrees`) and `FieldsDelivered` (`FieldsArrive`)
for any word size, usages, numbers of items and swipes. Totals and offsets are recursive functions
over the usages. The library's induction theorems cannot be used, but the order of the natural
numbers is well founded (`WellFoundedInduction`), and from that a set of numbers has a least element
(`NatMin`), a set closed under successor is all of them (`SetInduction`), and a definition that goes
from one place to the next has a value (`PrefixRecursion`); the lemmas on sums (`BitsDef` and
the ones after it) rest on these. `DInv` is the part of the descriptor: while the items are in the
usual order, the parser's usages are the ones HID has (`SameUsages`), with the size their count
gives them once it was read (`CountTaken`), and the reports so far are the fields meant unless these
exceed a word, when nothing is said of them any more (`SameReports`). `StreamInv` is the part of
the swipes: the bytes read, those on the wire and those unsent are whole reports in line
(`ReportsInLine`), which a late report ends and unplugging cuts short.

`RemoteAccountProofs` covers any pages, fields, texts and documents. `SettingsTyped` keeps the types
of the settings. `OneAccount`: the client of a page with an operation still has the account the
operation began with (`AccountInv`). `FileAsShown` and `TextsStay` are action properties:
behind them is that a text in the file is the one an open page shows, unless the page has a reason
to change that field (`FileInv`), which survives the saves of other pages because those give
it reasons. `AnswersWorth` is about the documents: any
number of elements with any children, in any order. `child_contents` gives of each name what the
first child of that name says (`ChildContents`), `complete_elements` lists the elements that
have what is needed in their order (`CompleteElements`, with `Listed` telling the place of each),
so the list is as long as the set of those is large, and begins with its least and ends with its
greatest place (`ListedCount`, `ReadsEnds`). What `run_command_received`, `get_key_load_command_ready` and
`command_by_ksn_get_key_list_ready` take of such a list is then what the reference definition
`Worth` says, which knows of sets of places only (`TakenIsWorth`). The proof assumes the types of the
documents (`DocumentsTyped`) and that `None` is no text and no KSI (`NoneIsNoText`, `NoneIsNoKsi`).

`MuiProcessorProofs` proves the safety of `MuiProcessor` for any users and operations, and that it
implements `SerialExecutor`. `PInv` adds to the two invariants of the run where each operation is
(`NoneLost`), when the thread holds one (`ThreadHolds`), and the way of STOP: before `finalize` there
is none in the queue (`Serving`), after it there is nothing else, and the thread goes from
looping to exited in one order (`Stopping`, `Crashing` for a thread that would join itself). From it follow
`WakeupsMatch` and `CleanStop`. For `ProcessorIsSerial`, each action is shown to be a step of
`SerialExecutor` on the sequences it has submitted, executed and delivered, or to leave them alone.

`MuiWindowProofs` proves for any bounds that the window keeps its types and that it never stops
listening: `AlwaysListening` is inductive once processors and queues have theirs. A wait leaves its queue
only with a result, a result or timer puts a wait or timer in its place, whichever
processor it came from, and a new processor begins with a wait of its own. `WindowNeverForks`
proves `ChainPerSetup`: waits queued are counted as a set of places (`WaitsIn`), and taking the
head of a queue maps the places that are left one to one, so that each step that takes a wait, a
result or a timer puts at most one into its place, and set-up of a processor adds one (`ChainInv`,
which adds that the set is finite).

`SwipeSessionProofs` proves for any KSNs, keys and bounds that the keys the page keeps are those of its
base key and KSN (`KeysStayCurrent`) and that the tracks shown in clear are what
those keys make of the encrypted ones beside them (`ShownStaysCurrent`). Both are about the page as a
record that every handler rewrites, so the lemmas are about the operators of `MuiPageBasic`
first; what makes them inductive is which widgets a security level and a kind of key leave
on the page, and that an item on its way carries what its kind says. It assumes that no
key and nothing shown is `None` (`NoneIsNoKey`).

`DecryptedIfLeisurely` (`LeisurelyDecryption`) follows a swipe through five queues. The invariant
`LInv` takes the items on their way to the page and those of the running operation as one `Line`.
`WaitOK`: at most one swipe waits to be read, it is for the wait at the head of the queue, and
no load came since (`Ready` is that, or a load with no swipe yet). Waits of other chains only ever
join the queue behind the head (`HeadKept`), so none of them gets that swipe. `LineOK`: the data of a swipe stands in the line three places after its KSN, or the page has
that KSN already as the next one. `ReadyOK`: once the properties were loaded, the last KSN in line,
or the page's, is the one of the swipe that is due. `PageSettled`: with no swipe half delivered the page
has the KSN of the data it shows. The proof also assumes that `None` is no result
(`NoneIsNoResult`) and that the key type at the start is one (`FirstIsKeyType`).

`MuiRemoteServicesProofs` proves the five safety properties of `MuiRemoteServices` for any
readers, keys, commands and bounds. `RInv` says what an operation in progress owns: there is
one at most, its stage and the page's callbacks go together, at most one command is queued on
the processors and it is that operation's, while the dialog is open nothing begins, and a
list is not filled while an operation remembers one of its rows. For `steady` sessions it adds
that a KSN or MUT flagged as set, the items on their way, the key id and a key update with the KSN
it was downloaded for are about the reader that is there (`SteadyInv`); other commands are not
covered. It assumes that `None` is no context and no dialog (`NoneIsNoContext`).

### Only model-checked

- Liveness: `ReceiveEnds`, `ProcessEnds`, `EveryOperationAnswered`, `StopsInTheEnd`,
  `QuietAfterDispose`, `ReaderServed`, `EverySwipeShown`, `OperationEnds`, `KsnCatchesUp`,
  `EditIsStored`. The provers do not reason about fairness and `ENABLED`.
- The findings: what a theorem would say of them is false.

Every safety property of a passing run is a theorem. They hold for the models, whose limits are
those named above: what is left out of a module is in no theorem about it either.

## Plan

Left, in this order:

1. The lengths in `run_wait_swipe` and `process_track` of `mui-processor.c`, and the sizes and
   padding of the commands built in `mui-page-remote-services.c`, as operators against reference
   definitions.
2. A refinement of `SerialExecutor` into what `MuiWindow`, `SwipeSession` and `MuiRemoteServices`
   assume of a processor, stated as such and not only by the shape of their actions.
