---------------------------- MODULE RemoteAccount ----------------------------
(***************************************************************************)
(* The account in the entries of remote services pages, stored in the      *)
(* settings file (RemoteSettings) and sent along with every request        *)
(* (RemoteService), while windows are opened and closed.                   *)
(***************************************************************************)
EXTENDS RemoteSettings, RemoteService

CONSTANTS
  MaxWindows, \* bound: windows opened
  MaxActs     \* bound: what the user does in them, edits and operations

ASSUME ClientPerPage == Clients = Pages
ASSUME AccountsAreEntries == Accounts = [Fields -> Texts]
ASSUME RunBounds == MaxWindows \in Nat /\ MaxActs \in Nat

VARIABLES windows, acts

bounded == <<windows, acts>>
vars == <<account, service, bounded>>

Init ==
  /\ RInit /\ SInit
  /\ windows = 0 /\ acts = 0

-----------------------------------------------------------------------------
(* Windows.  A page has a client of its own, and lasts as long as its       *)
(* operation, even closed: its place is taken again after that.             *)

mui_page_remote_services_new(p) ==
  /\ windows < MaxWindows
  /\ windows' = windows + 1
  /\ op[p] = None
  /\ load_settings(p)
  /\ UNCHANGED <<service, acts>>

\* The program ends, and with it what is going on.
Ends ==
  /\ quit
  /\ client' = [p \in Clients |-> Unset]
  /\ op' = [p \in Clients |-> None]

\* With the last window the program ends too.
close_window(p) ==
  /\ UNCHANGED bounded
  /\ \/ open = {p} /\ Ends
     \/ /\ open # {p}
        /\ dispose(p)
        /\ client' = [client EXCEPT ![p] = Unset]
        /\ UNCHANGED op

quit_cb == Ends /\ UNCHANGED bounded

\* The user writes a text in an entry.
write_entry(p) ==
  /\ acts < MaxActs
  /\ acts' = acts + 1
  /\ \E f \in Fields, text \in Texts : Edit(p, f, text)
  /\ UNCHANGED <<service, windows>>

timeout(p) == settings_store_cb(p) /\ UNCHANGED <<service, bounded>>

-----------------------------------------------------------------------------
(* Operations. *)

\* With the account the entries show now.
begin_operation(p) ==
  /\ p \in open
  /\ acts < MaxActs
  /\ acts' = acts + 1
  /\ \E operation \in Operations : Begin(p, operation, entries[p])
  /\ UNCHANGED <<account, windows>>

answer(p) ==
  /\ p \in open
  /\ \/ \E outcome \in Outcomes : Answered(p, outcome)
     \/ mui_processor_run_command_finish(p)
  /\ UNCHANGED <<account, bounded>>

\* The answer comes to a page that is gone: its widgets are used, and when
\* there is something to ask or to run the client or processor that are NULL.
answer_too_late(p) ==
  /\ p \notin open /\ op[p] # None
  /\ \/ Over(p) /\ UNCHANGED account
     \/ Ends
  /\ UNCHANGED bounded

Step(p) ==
  \/ mui_page_remote_services_new(p)
  \/ close_window(p)
  \/ write_entry(p)
  \/ timeout(p)
  \/ begin_operation(p)
  \/ answer(p)
  \/ answer_too_late(p)

Next == quit_cb \/ \E p \in Pages : Step(p)

\* The main loop dispatches timers; that one goes off supposes that the user
\* pauses for five seconds.
Spec == Init /\ [][Next]_vars /\ \A p \in Pages : WF_vars(timeout(p))

\* The variables keep their types.
TypeOK ==
  /\ SettingsTypeOK /\ ServiceTypeOK
  /\ windows \in 0 .. MaxWindows /\ acts \in 0 .. MaxActs
=============================================================================
