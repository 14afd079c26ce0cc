---------------------------- MODULE FeatureReport ----------------------------
(***************************************************************************)
(* The feature report of libmccr and the commands of the library that are  *)
(* built on it.  A device that is open has one report: a buffer for the    *)
(* request and one for the response, which every command clears, fills,    *)
(* sends and reads back.  A reader keeps one answer, to the last request   *)
(* it got from anybody.                                                    *)
(*                                                                         *)
(* A user is a process, or the thread of a processor, with a device of its *)
(* own.  libusb lets one user at a time open a reader, hidraw any number.  *)
(* Bytes are abstract: of an answer the model keeps whose call it is for,  *)
(* its result code and its size.  Memory does not run out.                 *)
(***************************************************************************)
EXTENDS Naturals

CONSTANTS
  Users,   \* the users of the library
  Readers, \* the readers there are
  Calls,   \* calls of commands the users make, a subset of LibraryCalls
  Data,    \* data of requests
  Long,    \* those that do not fit into the report
  Codes,   \* result codes readers answer with
  None

ASSUME NoneIsNone == None \notin Users /\ None \notin Readers /\ None \notin Data
ASSUME DeadIsDead == "dead" \notin Readers /\ "dead" # None
ASSUME LongData == Long \subseteq Data

Commands ==
  {"GET_PROPERTY", "SET_SECURITY_LEVEL", "GET_DUKPT_KSN_AND_COUNTER", "SET_SESSION_ID",
   "GET_READER_STATE", "GET_MAGTEK_UPDATE_TOKEN", "GET_ENCRYPTION_COUNTER",
   "RESET_DEVICE", "GENERIC"}

\* What a command of the library sends, the size of the answer it wants (0 is
\* any), and whether it fails when the size is another.
LibraryCalls ==
  [command : Commands, data : Data \cup {None}, size : Nat, strict : BOOLEAN]

ASSUME CallsTyped == Calls \subseteq LibraryCalls

Command(command, size) ==
  [command |-> command, data |-> None, size |-> size, strict |-> TRUE]

common_device_read_property_string(id) ==
  [command |-> "GET_PROPERTY", data |-> id, size |-> 0, strict |-> TRUE]

\* Another size is logged, and the value is left alone.
common_device_read_property_byte(id) ==
  [command |-> "GET_PROPERTY", data |-> id, size |-> 1, strict |-> FALSE]

mccr_device_reset == Command("RESET_DEVICE", 0)
mccr_device_get_dukpt_ksn_and_counter == Command("GET_DUKPT_KSN_AND_COUNTER", 10)
mccr_device_set_session_id(id) ==
  [command |-> "SET_SESSION_ID", data |-> id, size |-> 0, strict |-> TRUE]
mccr_device_get_reader_state == Command("GET_READER_STATE", 2)

\* The level is read with the command that sets it, without data.
mccr_device_get_security_level == Command("SET_SECURITY_LEVEL", 1)
mccr_device_get_encryption_counter == Command("GET_ENCRYPTION_COUNTER", 19)
mccr_device_get_magtek_update_token == Command("GET_MAGTEK_UPDATE_TOKEN", 36)
mccr_device_run_generic(blob) ==
  [command |-> "GENERIC", data |-> blob, size |-> 0, strict |-> TRUE]

-----------------------------------------------------------------------------
VARIABLES
  backend,   \* "usb" or "raw": how hidapi was built (environment)
  plugged,   \* readers plugged in (environment)
  answer,    \* the answer each reader keeps (environment)
  hid,       \* the reader each user has open: None, or "dead" when it is gone
  request,   \* report->request of each user
  response,  \* report->response of each user
  call,      \* the call each user is inside of
  stage,     \* "idle", "send" or "get": what the call does next; "aborted"
  n,         \* calls each user has made
  result,    \* what the last call of each user returned
  disturbed  \* another user sent to the reader while the call waited to read

buffers  == <<request, response>>
progress == <<call, stage, n, result>>
report   == <<backend, plugged, answer, hid, buffers, progress, disturbed>>

ZeroRequest == [command |-> None, data |-> None]

\* A cleared response reads as success without data, of no call.
ZeroResponse == [user |-> None, n |-> 0, code |-> "SUCCESS", size |-> 0]

\* The result codes of readers, and what the library makes of them.
feature_report_result_to_mccr_status ==
  [SUCCESS |-> "OK", FAILURE |-> "FAILED", BAD_PARAMETER |-> "INTERNAL",
   DELAYED |-> "DELAYED", INVALID_OPERATION |-> "INVALID_OPERATION"]

ASSUME CodesTyped == Codes \subseteq DOMAIN feature_report_result_to_mccr_status

FInit ==
  /\ backend \in {"usb", "raw"}
  /\ plugged = Readers
  /\ answer = [r \in Readers |-> None]
  /\ hid = [u \in Users |-> None]
  /\ request = [u \in Users |-> ZeroRequest]
  /\ response = [u \in Users |-> ZeroResponse]
  /\ call = [u \in Users |-> None]
  /\ stage = [u \in Users |-> "idle"]
  /\ n = [u \in Users |-> 0]
  /\ result = [u \in Users |-> None]
  /\ disturbed = [u \in Users |-> FALSE]

-----------------------------------------------------------------------------
(* Readers, and opening them. *)

Unplug(r) ==
  /\ r \in plugged
  /\ plugged' = plugged \ {r}
  /\ hid' = [u \in Users |-> IF hid[u] = r THEN "dead" ELSE hid[u]]
  /\ answer' = [answer EXCEPT ![r] = None]
  /\ UNCHANGED <<backend, buffers, progress, disturbed>>

Plug(r) ==
  /\ r \notin plugged
  /\ plugged' = plugged \cup {r}
  /\ UNCHANGED <<backend, answer, hid, buffers, progress, disturbed>>

\* hid_open_path() of hidapi on libusb claims the interface of the reader.
MayOpen(r) ==
  /\ r \in plugged
  /\ backend = "usb" => \A u \in Users : hid[u] # r

\* mccr_device_open(): a new report is zero.
Open(u, r) ==
  /\ stage[u] = "idle"
  /\ hid[u] = None
  /\ MayOpen(r)
  /\ hid' = [hid EXCEPT ![u] = r]
  /\ request' = [request EXCEPT ![u] = ZeroRequest]
  /\ response' = [response EXCEPT ![u] = ZeroResponse]
  /\ UNCHANGED <<backend, plugged, answer, progress, disturbed>>

Close(u) ==
  /\ stage[u] = "idle"
  /\ hid' = [hid EXCEPT ![u] = None]
  /\ UNCHANGED <<backend, plugged, answer, buffers, progress, disturbed>>

-----------------------------------------------------------------------------
(* A command. *)

\* Slip: one of the buffers is not cleared.
reset_response_only(u) == [request |-> request[u], response |-> ZeroResponse]

mccr_feature_report_reset(u) == [request |-> ZeroRequest, response |-> ZeroResponse]

\* assert (data_size <= ...)
Fits(c) == c.data \notin Long

\* The length of the data is written only when there is data.
mccr_feature_report_set_request(req, c) ==
  [req EXCEPT !.command = c.command, !.data = IF c.data = None THEN @ ELSE c.data]

Return(u, status, of) ==
  /\ stage' = [stage EXCEPT ![u] = "idle"]
  /\ result' = [result EXCEPT ![u] = [status |-> status, of |-> of]]

Called(u, c) ==
  /\ stage[u] = "idle"
  /\ c \in Calls
  /\ call' = [call EXCEPT ![u] = c]
  /\ n' = [n EXCEPT ![u] = @ + 1]
  /\ disturbed' = [disturbed EXCEPT ![u] = FALSE]
  /\ UNCHANGED <<backend, plugged, answer, hid>>

Begin(u, c) ==
  /\ Called(u, c)
  /\ \/ /\ hid[u] = None
        /\ Return(u, "NOT_OPEN", None)
        /\ UNCHANGED buffers
     \/ /\ hid[u] # None
        /\ LET cleared == mccr_feature_report_reset(u) IN
             /\ request' =
                  [request EXCEPT ![u] =
                     IF Fits(c) THEN mccr_feature_report_set_request(cleared.request, c)
                                ELSE cleared.request]
             /\ response' = [response EXCEPT ![u] = cleared.response]
        /\ stage' = [stage EXCEPT ![u] = IF Fits(c) THEN "send" ELSE "aborted"]
        /\ result' = [result EXCEPT ![u] = None]

\* The reader carries out what it was sent.  Its answer replaces the one it
\* kept, which others may not have read yet.
Executes(u) ==
  LET r == hid[u] IN
  /\ r \in plugged
  /\ \E code \in Codes :
       \E size \in {call[u].size} \cup (IF code = "SUCCESS" THEN {3} ELSE {}) : answer' =
         [answer EXCEPT ![r] = [user |-> u, n |-> n[u], code |-> code, size |-> size]]
  /\ disturbed' =
       [v \in Users |-> disturbed[v] \/ (v # u /\ stage[v] = "get" /\ hid[v] = r)]

\* hid_send_feature_report() may also fail after the reader got the request.
Send(u) ==
  /\ stage[u] = "send"
  /\ \/ /\ Executes(u)
        /\ stage' = [stage EXCEPT ![u] = "get"]
        /\ UNCHANGED result
     \/ /\ Executes(u) \/ UNCHANGED <<answer, disturbed>>
        /\ Return(u, "WRITE_FAILED", None)
  /\ UNCHANGED <<backend, plugged, hid, buffers, call, n>>

\* What the command returns for a response that was read.
Outcome(c, resp) ==
  LET status == feature_report_result_to_mccr_status[resp.code]
      value == [user |-> resp.user, n |-> resp.n] IN
  CASE status # "OK" -> [status |-> status, of |-> None]
    [] status = "OK" /\ c.size \in {0, resp.size} -> [status |-> "OK", of |-> value]
    [] status = "OK" /\ c.size \notin {0, resp.size} /\ c.strict ->
         [status |-> "UNEXPECTED_FORMAT", of |-> None]
    [] OTHER -> [status |-> "OK", of |-> None]

\* Slip: the result of hid_get_feature_report() is not looked at.
get_unchecked(c, resp) == Outcome(c, resp)

\* What the buffer holds is of no interest when it could not be read.
get_failed(c, resp) == [status |-> "READ_FAILED", of |-> None]

\* hid_get_feature_report() reads what the reader keeps by now.
Get(u) ==
  /\ stage[u] = "get"
  /\ \/ /\ hid[u] \in plugged
        /\ answer[hid[u]] # None
        /\ response' = [response EXCEPT ![u] = answer[hid[u]]]
        /\ result' = [result EXCEPT ![u] = Outcome(call[u], answer[hid[u]])]
     \/ /\ UNCHANGED response
        /\ result' = [result EXCEPT ![u] = get_failed(call[u], response[u])]
  /\ stage' = [stage EXCEPT ![u] = "idle"]
  /\ UNCHANGED <<backend, plugged, answer, hid, request, call, n, disturbed>>

-----------------------------------------------------------------------------
Environment == \E r \in Readers : Plug(r) \/ Unplug(r)

FNext ==
  \/ Environment
  \/ \E u \in Users :
       \/ \E r \in Readers : Open(u, r)
       \/ Close(u)
       \/ \E c \in Calls : Begin(u, c)
       \/ Send(u)
       \/ Get(u)

FSpec == FInit /\ [][FNext]_report

-----------------------------------------------------------------------------
Answers  == [user : Users, n : Nat, code : Codes, size : Nat]
Statuses == {"OK", "NOT_OPEN", "WRITE_FAILED", "READ_FAILED", "UNEXPECTED_FORMAT", "FAILED",
             "INTERNAL", "DELAYED", "INVALID_OPERATION"}

\* The variables keep their types.
FTypeOK ==
  /\ backend \in {"usb", "raw"}
  /\ plugged \subseteq Readers
  /\ answer \in [Readers -> Answers \cup {None}]
  /\ hid \in [Users -> Readers \cup {None, "dead"}]
  /\ request \in [Users -> [command : Commands \cup {None}, data : Data \cup {None}]]
  /\ response \in [Users -> Answers \cup {ZeroResponse}]
  /\ call \in [Users -> Calls \cup {None}]
  /\ stage \in [Users -> {"idle", "send", "get", "aborted"}]
  /\ n \in [Users -> Nat]
  /\ result \in [Users -> [status : Statuses, of : [user : Users, n : Nat] \cup {None}]
                           \cup {None}]
  /\ disturbed \in [Users -> BOOLEAN]

\* An open device is that of a reader that is plugged in, and with libusb of
\* nobody else.
HandlesValid ==
  /\ \A u \in Users : hid[u] \in Readers => hid[u] \in plugged
  /\ backend = "usb" =>
       \A u, v \in Users : hid[u] = hid[v] /\ hid[u] \in Readers => u = v

\* What a call that is halfway finds at the reader is the answer to it, unless
\* another user that shares the reader got between.
AnswerWaits ==
  \A u \in Users :
    /\ stage[u] = "get" /\ hid[u] \in Readers /\ ~disturbed[u] =>
         answer[hid[u]].user = u /\ answer[hid[u]].n = n[u]
    /\ disturbed[u] => backend = "raw"
    /\ stage[u] \in {"send", "get"} => call[u] \in Calls /\ hid[u] # None

\* What goes to the reader is the command and the data of the call, whole,
\* and nothing of an earlier call: not the data of one before it, which would
\* make the reading of the security level set it.
RequestAsCalled ==
  \A u \in Users :
    stage[u] = "send" =>
      request[u] = [command |-> call[u].command, data |-> call[u].data] /\ Fits(call[u])

\* What a call returns as its value is the reader's answer to this very call,
\* never to an earlier one or an empty buffer, as long as no other user sent
\* to the reader between the two halves of the call; with libusb nobody can.
\* (A byte of the wrong size is no value at all, and yet OK.)
AnswerOfThisCall ==
  \A u \in Users :
    stage[u] = "idle" /\ result[u] # None /\ result[u].status = "OK" =>
      \/ result[u].of = [user |-> u, n |-> n[u]]
      \/ result[u].of = None /\ ~call[u].strict
      \/ disturbed[u] /\ backend = "raw"
=============================================================================
