------------------------------ MODULE MccrCli ------------------------------
(***************************************************************************)
(* One process of mccr-cli, from its options to its exit status, on the    *)
(* readers of FeatureReport and next to a mccr-gtk, whose processor thread *)
(* sends commands of its own to the reader it has open.                    *)
(*                                                                         *)
(* What the process prints is left out, so the reads of --show matter only *)
(* as commands; the swipe report --wait-swipe waits for is in SwipeReport. *)
(***************************************************************************)
EXTENDS FeatureReport, Sequences, FiniteSets

CONSTANTS
  Cli, Gui,    \* the users of the library: this process, and a processor of mccr-gtk
  Paths,       \* readers whose path may be given
  GuiCalls,    \* commands of mccr-gtk
  MaxGuiCalls, \* bound: commands mccr-gtk sends
  MaxPlugs     \* bound: times readers are unplugged

ASSUME TwoUsers == Users = {Cli, Gui} /\ Cli # Gui
ASSUME NoneIsNoStatus == None \notin {"SUCCESS", "FAILURE"} /\ None \notin Answers
ASSUME PathsOfReaders == Paths \subseteq Readers
ASSUME GuiBounds == GuiCalls \subseteq Calls /\ MaxGuiCalls \in Nat /\ MaxPlugs \in Nat

VARIABLES
  options,  \* the command line
  phase,    \* what main() does next: "parse", "init", "device", "open", "run", "exited"
  device,   \* the reader of the device main() created, or None
  step,     \* library calls of the action made so far
  ret,      \* "ret": None until an action set it
  exit,     \* exit status of the process: None while it runs
  done,     \* what readers carried out for the process (history)
  plugs     \* times readers were unplugged

main == <<options, phase, device, step, ret, exit>>
vars == <<report, main, done, plugs>>

Actions == {"list", "show", "reset", "set_session_id", "wait_swipe"}

\* The argument of --set-session-id: a number of 64 bits in hexadecimal, zero,
\* nothing strtoull() finds a number in, a number with something after it, and
\* a number of more bits.
Texts == {"h64", "zero", "text", "h64_text", "h68"}

\* strtoull() of base 16, whose end pointer and errno nobody looks at.
strtoull ==
  [h64 |-> "h64", zero |-> "0", text |-> "0", h64_text |-> "h64", h68 |-> "ffffffffffffffff"]

Options ==
  [actions : SUBSET Actions, session_id : Texts, path : Readers \cup {None},
   first : BOOLEAN, help : BOOLEAN]

\* Of the command lines with several actions those of two; the argument of
\* an option that is not given is fixed.
FewOptions ==
  {o \in Options : /\ Cardinality(o.actions) <= 2
                   /\ o.actions # {"set_session_id"} => o.session_id = "h64"
                   /\ o.path \in Paths \cup {None}
                   /\ o.help => o.path = None /\ ~o.first}

Init ==
  /\ FInit
  /\ options \in FewOptions
  /\ phase = "parse"
  /\ device = None
  /\ step = 0
  /\ ret = None
  /\ exit = None
  /\ done = {}
  /\ plugs = 0

-----------------------------------------------------------------------------
(* main() up to the action.  Errors on the way exit at once. *)

\* The kernel closes what an exiting process has open.
Exits(status) ==
  /\ exit' = status
  /\ phase' = "exited"

AtPhase(p) == phase = p /\ UNCHANGED <<options, step, ret, done, plugs>>

GlobalActions == options.actions \cap {"list"}
DeviceActions == options.actions \ {"list"}

\* Slip: several actions are not an error.
some_action == options.actions # {} /\ (options.path = None \/ ~options.first)

\* "Allow only one action at a time", "only one device selection at a time".
OptionsFit ==
  /\ Cardinality(options.actions) = 1
  /\ options.path = None \/ ~options.first

\* The way through getopt_long() and the checks after it; --help and --version
\* end it.
parse_options ==
  /\ AtPhase("parse")
  /\ \/ options.help /\ Exits("SUCCESS")
     \/ ~options.help /\ ~OptionsFit /\ Exits("FAILURE")
     \/ ~options.help /\ OptionsFit /\ phase' = "init" /\ UNCHANGED exit
  /\ UNCHANGED <<report, device>>

mccr_init ==
  /\ AtPhase("init")
  /\ \/ Exits("FAILURE")
     \/ phase' = (IF DeviceActions # {} THEN "device" ELSE "run") /\ UNCHANGED exit
  /\ UNCHANGED <<report, device>>

\* mccr_device_new(): the reader at the path, or the first one hidapi lists.
Found(path) == IF path = None THEN plugged ELSE plugged \cap {path}

mccr_device_new ==
  /\ AtPhase("device")
  /\ \/ /\ options.path # None \/ options.first
        /\ device' \in Found(options.path)
        /\ phase' = "open"
        /\ UNCHANGED exit
     \/ /\ options.path # None \/ options.first => Found(options.path) = {}
        /\ Exits("FAILURE")
        /\ UNCHANGED device
  /\ UNCHANGED report

\* Every device action opens the device, --show too.
mccr_device_open ==
  /\ AtPhase("open")
  /\ \/ Open(Cli, device) /\ phase' = "run" /\ UNCHANGED exit
     \/ Exits("FAILURE") /\ UNCHANGED report
  /\ UNCHANGED device

-----------------------------------------------------------------------------
(* The actions, as the library calls they make one after the other. *)

run_show ==
  <<common_device_read_property_string("SOFTWARE_ID"),
    common_device_read_property_string("USB_SERIAL_NUMBER"),
    common_device_read_property_byte("POLLING_INTERVAL"),
    common_device_read_property_string("DEVICE_SERIAL_NUMBER"),
    common_device_read_property_string("MAGNESAFE_VERSION_NUMBER"),
    common_device_read_property_byte("TRACK_ID_ENABLE"),
    common_device_read_property_string("ISO_TRACK_MASK"),
    common_device_read_property_string("AAMVA_TRACK_MASK"),
    common_device_read_property_byte("MAX_PACKET_SIZE"),
    mccr_device_get_dukpt_ksn_and_counter, mccr_device_get_reader_state,
    mccr_device_get_security_level, mccr_device_get_encryption_counter,
    mccr_device_get_magtek_update_token>>

run_reset == <<mccr_device_reset>>

\* "if (!value)": zero is an invalid session id.
ValidSessionId == strtoull[options.session_id] # "0"

run_set_session_id ==
  IF ValidSessionId THEN <<mccr_device_set_session_id(strtoull[options.session_id])>> ELSE <<>>

\* The one action that is left, with its library calls.
LibraryCallsOfAction ==
  CASE "list" \in options.actions           -> <<>>
    [] "show" \in DeviceActions             -> run_show
    [] "reset" \in DeviceActions            -> run_reset
    [] "set_session_id" \in DeviceActions   -> run_set_session_id
    [] OTHER                                -> <<>>

Running == phase = "run" /\ ret = None /\ stage[Cli] = "idle"

run_next_call ==
  /\ Running
  /\ step < Len(LibraryCallsOfAction)
  /\ Begin(Cli, LibraryCallsOfAction[step + 1])
  /\ step' = step + 1
  /\ UNCHANGED <<options, phase, device, ret, exit, done, plugs>>

\* The failed reads of --show are printed, and that is it.
StatusOfAction ==
  IF \/ options.actions \subseteq {"list", "show"}
     \/ step > 0 /\ result[Cli].status = "OK"
    THEN "SUCCESS" ELSE "FAILURE"

run_ends ==
  /\ Running
  /\ "wait_swipe" \notin options.actions
  /\ step = Len(LibraryCallsOfAction)
  /\ ret' = StatusOfAction
  /\ UNCHANGED <<report, options, phase, device, step, exit, done, plugs>>

\* A wait without time-out: it ends with a swipe or an error.
run_wait_swipe ==
  /\ Running
  /\ options.actions = {"wait_swipe"}
  /\ \/ hid[Cli] \in plugged /\ ret' = "SUCCESS" /\ done' = done \cup {<<device, "SWIPE">>}
     \/ ret' = "FAILURE" /\ UNCHANGED done
  /\ UNCHANGED <<report, options, phase, device, step, exit, plugs>>

\* Slip: the process that has a device ends.
clean_exit_with_device ==
  /\ phase = "run" /\ ret # None
  /\ device # None /\ Close(Cli)
  /\ Exits(ret)
  /\ UNCHANGED <<options, device, step, ret, done, plugs>>

\* "Clean exit": the device is closed and freed.
clean_exit ==
  /\ phase = "run" /\ ret # None
  /\ IF device # None THEN Close(Cli) ELSE UNCHANGED report
  /\ Exits(ret)
  /\ UNCHANGED <<options, device, step, ret, done, plugs>>

-----------------------------------------------------------------------------
(* The two halves of a library call of the process. *)

\* What the reader carried out, unless the command only reads.
Changes(c) == c.command = "RESET_DEVICE" \/ c.command = "SET_SESSION_ID"

CarriedOut ==
  {<<r, request[Cli].command, request[Cli].data>> :
     r \in {q \in Readers : /\ answer'[q] # None /\ answer'[q].user = Cli
                            /\ answer'[q].n = n[Cli] /\ answer'[q].code = "SUCCESS"}}

cli_send ==
  /\ Send(Cli)
  /\ done' = IF Changes(call[Cli]) THEN done \cup CarriedOut ELSE done
  /\ UNCHANGED <<main, plugs>>

cli_get == Get(Cli) /\ UNCHANGED <<main, done, plugs>>

\* mccr-gtk opens the reader it finds and sends a command now and then; when
\* the reader is gone it drops the device for that of another.  (Bound: it
\* sends while the process runs its action, and stops with it.)
GuiSteps ==
  /\ exit = None
  /\ \/ \E r \in Readers : Open(Gui, r)
     \/ hid[Gui] = "dead" /\ Close(Gui)
     \/ phase = "run" /\ n[Gui] < MaxGuiCalls /\ hid[Gui] # None /\ \E c \in GuiCalls : Begin(Gui, c)
     \/ Send(Gui)
     \/ Get(Gui)
  /\ UNCHANGED <<main, done, plugs>>

ReaderSteps ==
  /\ exit = None
  /\ \E r \in Readers :
       \/ plugs < MaxPlugs /\ Unplug(r) /\ plugs' = plugs + 1
       \/ Plug(r) /\ UNCHANGED plugs
  /\ UNCHANGED <<main, done>>

CliSteps ==
  \/ parse_options \/ mccr_init \/ mccr_device_new \/ mccr_device_open
  \/ run_next_call \/ cli_send \/ cli_get
  \/ run_ends \/ clean_exit

Next == ReaderSteps \/ GuiSteps \/ CliSteps \/ run_wait_swipe

\* The process runs and hidapi returns.  Nobody has to swipe a card.
Spec == Init /\ [][Next]_vars /\ WF_vars(CliSteps)

-----------------------------------------------------------------------------
\* What the command line asks for, on which readers, when it asks for one
\* thing: a reset, a session id or a swipe.
Asked ==
  LET readers == IF options.path = None THEN Readers ELSE {options.path} IN
  CASE options.actions = {"reset"} -> readers \X {"RESET_DEVICE"} \X {None}
    [] options.actions = {"set_session_id"} ->
         readers \X {"SET_SESSION_ID"} \X {strtoull[options.session_id]}
    [] options.actions = {"wait_swipe"} -> readers \X {"SWIPE"}
    [] OTHER -> {}

\* The exit status can be trusted: success means that one action was asked
\* for and that the chosen reader carried it out, unless another user of the
\* reader got between; and whatever the status, the readers carried out
\* nothing else.
DoneAsAsked ==
  /\ done \subseteq Asked
  /\ exit = "SUCCESS" /\ ~options.help =>
       /\ Cardinality(options.actions) = 1
       /\ Asked = {} \/ done # {} \/ disturbed[Cli]

\* The process exits, whatever fails and whatever other users of the reader
\* do; only a swipe it may wait for without end.
ProcessEnds == <>(exit # None \/ options.actions = {"wait_swipe"})

\* Every step of the process and of mccr-gtk is one of the library's.
UsesFeatureReport == FSpec
=============================================================================
