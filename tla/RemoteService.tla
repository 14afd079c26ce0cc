---------------------------- MODULE RemoteService ----------------------------
(***************************************************************************)
(* The client of the remote service a page has: SOAP requests made of the  *)
(* account it was last given and of what is asked for, and the documents   *)
(* they are answered with, up to the command that is run or the key that   *)
(* is found.  What the answers do to the page is in MuiRemoteServices; the *)
(* readers too, so that whether the page knows the id of the current key   *)
(* is open here.                                                           *)
(*                                                                         *)
(* A document is the response it holds and the elements of it, commands or *)
(* keys; an element is a sequence of children, each a name and a content.  *)
(***************************************************************************)
EXTENDS Naturals, Sequences, FiniteSetsExt

CONSTANTS
  Clients,    \* clients, each named after its page
  Accounts,
  Unset,      \* the account of a client that was given none
  Documents,  \* bound: documents the service may answer with
  CurrentKsis, \* the KSIs the reader's KSN begins with, an empty one too
  None

ASSUME UnsetIsNoAccount == Unset \notin Accounts
ASSUME NoneIsNoKsi == None \notin CurrentKsis

Children == [name : STRING, content : STRING]

ASSUME DocumentsTyped == \A document \in Documents : document.elements \in Seq(Seq(Children))
ASSUME NoneIsNoText == None \notin STRING

VARIABLES
  client, \* url, customer_code, username, ... of each client
  op      \* the operation of each page, with the request that is out

service == <<client, op>>

Actions == {"GetKeyList", "GetKeyLoadCommand", "GetCommandList", "GetCommandByKSN",
            "GetCommandByMUT"}

-----------------------------------------------------------------------------
(* Reading a document. *)

CommandNames == {"ID", "CommandType", "Description", "ExecutionTypeEnum", "Name", "Value"}
KeyNames     == {"ID", "Description", "KSI", "KeyName", "KeySlotNamePrefix"}

\* The children of an element one after the other: names that are unknown or
\* were there before are left out.
child_contents(names, element) ==
  LET info[i \in 0 .. Len(element)] ==
        IF i = 0 THEN [n \in names |-> None]
        ELSE LET child == element[i] IN
             IF child.name \in names /\ info[i - 1][child.name] = None
               THEN [info[i - 1] EXCEPT ![child.name] = child.content] ELSE info[i - 1]
  IN info[Len(element)]

\* Slip: elements that lack a field are kept.
all_elements(names, needed, elements) ==
  [i \in DOMAIN elements |-> child_contents(names, elements[i])]

\* Elements without the fields that are needed are dropped.
complete_elements(names, needed, elements) ==
  LET array[i \in 0 .. Len(elements)] ==
        IF i = 0 THEN <<>>
        ELSE LET info == child_contents(names, elements[i]) IN
             IF \A n \in needed : info[n] # None
               THEN Append(array[i - 1], info) ELSE array[i - 1]
  IN array[Len(elements)]

common_command_info_build_array(elements) ==
  complete_elements(CommandNames, {"Name", "Value"}, elements)

parse_get_key_list_response(elements) == complete_elements(KeyNames, {"ID"}, elements)

\* The XPath expression for a response finds nothing in any other.
ElementsOf(action, document) == IF document.response = action THEN document.elements ELSE <<>>

-----------------------------------------------------------------------------
(* What the page takes from an answer. *)

\* Exactly one command.
run_command_received(commands) ==
  IF Len(commands) = 1 THEN commands[1]["Value"] ELSE None

\* The command that changes the key, and the value the response is checked with.
get_key_load_command_ready(commands) ==
  IF /\ Len(commands) = 2
     /\ commands[1]["Name"] = "ChangeKey"
     /\ commands[2]["Name"] = "KCV"
    THEN commands[1]["Value"] ELSE None

\* ksi_matches_ksn(): the first key of the list whose KSI the KSN begins with.
command_by_ksn_get_key_list_ready(keys) ==
  LET current == {i \in DOMAIN keys : keys[i]["KSI"] \in CurrentKsis} IN
  IF current = {} THEN None ELSE keys[Min(current)]["ID"]

\* What is run, or found in the list of keys.
Taken(action, document) ==
  LET elements == ElementsOf(action, document)
      commands == common_command_info_build_array(elements)
  IN CASE action = "GetKeyList" ->
            command_by_ksn_get_key_list_ready(parse_get_key_list_response(elements))
       [] action = "GetKeyLoadCommand" -> get_key_load_command_ready(commands)
       [] action \in {"GetCommandByKSN", "GetCommandByMUT"} -> run_command_received(commands)
       [] action = "GetCommandList" -> None

\* What may come of a request.  None also stands for one that fails: the URL
\* does not parse, the connection breaks, the body is cut off or is no XML.
Outcomes ==
  {[action |-> action, taken |-> Taken(action, document)] :
     action \in Actions, document \in Documents}
  \cup [action : Actions, taken : {None}]

-----------------------------------------------------------------------------
(* Operations.  An operation is for a list, to run a command, or, first, to *)
(* find the key the command is to be made with; "shown" is the account the  *)
(* page showed when it began (history), "account" what is in the request.   *)

Operations ==
  [action : {"GetKeyList", "GetCommandList"}, for : {"list"}]
  \cup [action : {"GetKeyLoadCommand", "GetCommandByKSN", "GetCommandByMUT"}, for : {"run"}]
  \cup [action : {"GetKeyList"}, for : {"find_key"}]

SInit ==
  /\ client = [p \in Clients |-> Unset]
  /\ op = [p \in Clients |-> None]

\* Slip: one account for the clients of all pages.
fields_of_all_clients(p, shown) == client' = [q \in Clients |-> shown]

\* The client copies the account the page shows.
mui_remote_service_set_common_request_fields(p, shown) ==
  client' = [client EXCEPT ![p] = shown]

\* A request is made of the account the client has.
common_list_request_build(operation, shown, account_of_client) ==
  [action |-> operation.action, for |-> operation.for,
   shown |-> shown, account |-> account_of_client]

remote_service_http_request(p, request) == op' = [op EXCEPT ![p] = request]

\* start_main_operation(), run_key_update() and run_generic_command(), when no
\* operation is going on in the page.
Begin(p, operation, shown) ==
  /\ op[p] = None
  /\ mui_remote_service_set_common_request_fields(p, shown)
  /\ remote_service_http_request(p, common_list_request_build(operation, shown, client'[p]))

Asked(p) == op[p] # None /\ op[p].for # "answer"

\* A list has come, or an operation is over for any other reason.
Over(p) == op' = [op EXCEPT ![p] = None] /\ UNCHANGED client

\* The key is found: the command is asked for, with what the client has.
get_command_by_ksn(p) ==
  /\ remote_service_http_request(p,
       common_list_request_build([action |-> "GetCommandByKSN", for |-> "run"],
                                 op[p].shown, client[p]))
  /\ UNCHANGED client

\* The reader runs the command, in its own time.
mui_processor_run_command(p) == op' = [op EXCEPT ![p].for = "answer"] /\ UNCHANGED client

\* session_send_async_ready() and the callback of the request, in one turn of
\* the main loop.
Answered(p, outcome) ==
  /\ Asked(p)
  /\ outcome.action = op[p].action
  /\ \/ (op[p].for = "list" \/ outcome.taken = None) /\ Over(p)
     \/ op[p].for = "find_key" /\ outcome.taken # None /\ get_command_by_ksn(p)
     \/ op[p].for = "run" /\ outcome.taken # None /\ mui_processor_run_command(p)

\* The reader has answered, or not.
mui_processor_run_command_finish(p) == op[p] # None /\ ~Asked(p) /\ Over(p)

-----------------------------------------------------------------------------
(* Properties. *)

ServiceTypeOK ==
  /\ client \in [Clients -> Accounts \cup {Unset}]
  /\ op \in [Clients -> [action : Actions, for : {"list", "find_key", "run", "answer"},
                         shown : Accounts, account : Accounts] \cup {None}]

\* Every request of an operation is made of the account its page showed when
\* the user began it, in all its fields, whatever is written in the entries
\* and asked by other pages meanwhile (start_main_operation, run_key_update,
\* run_generic_command, get_command_by_ksn).
AccountOfOperation == \A p \in Clients : op[p] # None => op[p].account = op[p].shown

\* The elements that have a child of each of the names; what they tell.
Complete(element, names) == \A n \in names : \E i \in DOMAIN element : element[i].name = n
Said(element, n) ==
  LET first == CHOOSE i \in DOMAIN element :
                 /\ element[i].name = n
                 /\ \A j \in 1 .. i - 1 : element[j].name # n
  IN element[first].content

\* What an answer is worth: nothing when it answers something else; the value
\* of the one complete command; of two, named as they must be, the first; the
\* id of the first complete key whose KSI the KSN begins with.
Worth(action, document) ==
  LET names == IF action = "GetKeyList" THEN {"ID"} ELSE {"Name", "Value"}
      elements == document.elements
      complete == {i \in DOMAIN elements : Complete(elements[i], names)}
      mine == {i \in complete : /\ Complete(elements[i], {"KSI"})
                                /\ Said(elements[i], "KSI") \in CurrentKsis}
  IN CASE document.response # action -> None
       [] action = "GetKeyList" /\ document.response = action /\ mine # {} ->
            Said(elements[Min(mine)], "ID")
       [] /\ action \in {"GetCommandByKSN", "GetCommandByMUT"} /\ document.response = action
          /\ Cardinality(complete) = 1 -> Said(elements[Min(complete)], "Value")
       [] /\ action = "GetKeyLoadCommand" /\ document.response = action
          /\ Cardinality(complete) = 2
          /\ Said(elements[Min(complete)], "Name") = "ChangeKey"
          /\ Said(elements[Max(complete)], "Name") = "KCV" -> Said(elements[Min(complete)], "Value")
       [] OTHER -> None

TakenAsWorth ==
  {action \in Actions : \A document \in Documents :
     Taken(action, document) = Worth(action, document)}

\* Whatever document comes for a request that is out, a command is run, or a
\* key taken for the current one, exactly when the document tells it (the
\* five parsers, run_command_received, get_key_load_command_ready,
\* command_by_ksn_get_key_list_ready).
RunsWhatItAskedFor == \A p \in Clients : Asked(p) => op[p].action \in TakenAsWorth
=============================================================================
