---------------------------- MODULE MccrCliProofs ----------------------------
(***************************************************************************)
(* Every command of the library, by any number of users of any number of   *)
(* readers, sends what it was called with and returns the reader's answer  *)
(* to it.  A process of mccr-cli next to a mccr-gtk uses the library that  *)
(* way, so what holds of the commands holds of theirs, and its exit status *)
(* tells the truth.                                                        *)
(***************************************************************************)
EXTENDS MccrCli, FiniteSetTheorems, TLAPS

-----------------------------------------------------------------------------
(* The library *)

\* The inductive invariant of the readers and the calls.
FInv ==
  /\ FTypeOK
  /\ HandlesValid
  /\ AnswerWaits
  /\ RequestAsCalled
  /\ AnswerOfThisCall

-----------------------------------------------------------------------------
\* What a command makes of a response: when it returns OK, then with the call
\* the response is for, or without value when the size of a byte is wrong.
LEMMA OutcomeOfResponse ==
  ASSUME NEW c \in Calls, NEW resp \in Answers
  PROVE  /\ Outcome(c, resp) \in
              [status : Statuses, of : [user : Users, n : Nat] \cup {None}]
         /\ Outcome(c, resp).status = "OK" =>
              \/ Outcome(c, resp).of = [user |-> resp.user, n |-> resp.n]
              \/ Outcome(c, resp).of = None /\ ~c.strict
<1> DEFINE status == feature_report_result_to_mccr_status[resp.code]
           value  == [user |-> resp.user, n |-> resp.n]
<1>1. c.strict \in BOOLEAN
  BY CallsTyped DEF LibraryCalls
<1>2. resp.code \in DOMAIN feature_report_result_to_mccr_status
  BY CodesTyped DEF Answers
<1>3. status \in Statuses
  BY <1>2 DEF feature_report_result_to_mccr_status, Statuses
<1>4. value \in [user : Users, n : Nat]
  BY DEF Answers
<1>5. CASE status # "OK"
  BY <1>3, <1>5 DEF Outcome
<1>6. CASE status = "OK" /\ c.size \in {0, resp.size}
  BY <1>3, <1>4, <1>6 DEF Outcome
<1>7. CASE status = "OK" /\ c.size \notin {0, resp.size} /\ c.strict
  BY <1>7 DEF Outcome, Statuses
<1>8. CASE status = "OK" /\ c.size \notin {0, resp.size} /\ ~c.strict
  BY <1>8 DEF Outcome, Statuses
<1> QED BY <1>1, <1>5, <1>6, <1>7, <1>8

LEMMA Initially == FInit => FInv
BY NoneIsNone
DEF FInit, FInv, FTypeOK, HandlesValid, AnswerWaits, RequestAsCalled, AnswerOfThisCall,
    ZeroRequest, ZeroResponse, Answers

-----------------------------------------------------------------------------
LEMMA UnplugStep == ASSUME FInv, NEW r \in Readers, Unplug(r) PROVE FInv'
<1> USE NoneIsNone, DeadIsDead DEF FInv, Unplug, buffers, progress
<1>1. FTypeOK'
  BY DEF FTypeOK
<1>2. HandlesValid'
  BY DEF FTypeOK, HandlesValid
<1>3. AnswerWaits'
  BY DEF FTypeOK, HandlesValid, AnswerWaits
<1>4. RequestAsCalled' /\ AnswerOfThisCall'
  BY DEF RequestAsCalled, AnswerOfThisCall, Fits
<1> QED BY <1>1, <1>2, <1>3, <1>4

LEMMA PlugStep == ASSUME FInv, NEW r \in Readers, Plug(r) PROVE FInv'
BY DEF FInv, Plug, buffers, progress, FTypeOK, HandlesValid, AnswerWaits,
       RequestAsCalled, AnswerOfThisCall, Fits

LEMMA OpenStep == ASSUME FInv, NEW u \in Users, NEW r \in Readers, Open(u, r) PROVE FInv'
<1> USE NoneIsNone, DeadIsDead DEF FInv, Open, MayOpen, progress
<1>1. FTypeOK'
  BY DEF FTypeOK, ZeroRequest, ZeroResponse
<1>2. HandlesValid'
  BY DEF FTypeOK, HandlesValid
<1>3. AnswerWaits'
  BY DEF FTypeOK, AnswerWaits
<1>4. RequestAsCalled' /\ AnswerOfThisCall'
  BY DEF FTypeOK, RequestAsCalled, AnswerOfThisCall, Fits
<1> QED BY <1>1, <1>2, <1>3, <1>4

LEMMA CloseStep == ASSUME FInv, NEW u \in Users, Close(u) PROVE FInv'
<1> USE NoneIsNone, DeadIsDead DEF FInv, Close, buffers, progress
<1>1. FTypeOK'
  BY DEF FTypeOK
<1>2. HandlesValid'
  BY DEF FTypeOK, HandlesValid
<1>3. AnswerWaits'
  BY DEF FTypeOK, AnswerWaits
<1>4. RequestAsCalled' /\ AnswerOfThisCall'
  BY DEF RequestAsCalled, AnswerOfThisCall, Fits
<1> QED BY <1>1, <1>2, <1>3, <1>4

\* The buffers are cleared first: no data of an earlier call is left.
LEMMA BeginStep ==
  ASSUME FInv, NEW u \in Users, NEW c \in Calls, Begin(u, c) PROVE FInv'
<1> USE NoneIsNone, DeadIsDead DEF FInv, Begin, Called
<1> DEFINE req == mccr_feature_report_set_request(ZeroRequest, c)
<1>1. c.command \in Commands /\ c.data \in Data \cup {None}
  BY CallsTyped DEF LibraryCalls
<1>2. req = [command |-> c.command, data |-> c.data]
  <2>1. req = [[ZeroRequest EXCEPT !.command = c.command] EXCEPT !.data = c.data]
    BY DEF mccr_feature_report_set_request, ZeroRequest
  <2> QED BY <2>1 DEF ZeroRequest
<1>3. CASE hid[u] = None
  <2> USE <1>3 DEF Return, buffers
  <2>1. FTypeOK'
    BY SMTT(40) DEF FTypeOK, Statuses
  <2>2. HandlesValid'
    BY DEF HandlesValid
  <2>3. AnswerWaits'
    BY DEF FTypeOK, AnswerWaits
  <2>4. RequestAsCalled' /\ AnswerOfThisCall'
    BY DEF FTypeOK, RequestAsCalled, AnswerOfThisCall, Fits
  <2> QED BY <2>1, <2>2, <2>3, <2>4
<1>4. CASE hid[u] # None
  <2> USE <1>4
  <2>1. /\ request' = [request EXCEPT ![u] = IF Fits(c) THEN req ELSE ZeroRequest]
        /\ response' = [response EXCEPT ![u] = ZeroResponse]
        /\ stage' = [stage EXCEPT ![u] = IF Fits(c) THEN "send" ELSE "aborted"]
        /\ result' = [result EXCEPT ![u] = None]
    BY DEF mccr_feature_report_reset
  <2>2. FTypeOK'
    BY <1>1, <1>2, <2>1 DEF FTypeOK, ZeroRequest, ZeroResponse
  <2>3. HandlesValid'
    BY DEF HandlesValid
  <2>4. AnswerWaits'
    BY <2>1 DEF FTypeOK, AnswerWaits
  <2>5. RequestAsCalled'
    BY <1>2, <2>1 DEF FTypeOK, RequestAsCalled, Fits
  <2>6. AnswerOfThisCall'
    BY <2>1 DEF FTypeOK, AnswerOfThisCall
  <2> QED BY <2>2, <2>3, <2>4, <2>5, <2>6
<1> QED BY <1>3, <1>4

\* The answer of a reader changes hands only when another user of the same
\* reader sends, which libusb excludes.
LEMMA ExecutesStep ==
  ASSUME FInv, NEW u \in Users, stage[u] = "send", Executes(u)
  PROVE  /\ answer' \in [Readers -> Answers \cup {None}]
         /\ disturbed' \in [Users -> BOOLEAN]
         /\ hid[u] \in Readers
         /\ answer'[hid[u]].user = u /\ answer'[hid[u]].n = n[u]
         /\ \A r \in Readers \ {hid[u]} : answer'[r] = answer[r]
         /\ \A v \in Users : disturbed[v] => disturbed'[v]
         /\ disturbed'[u] = disturbed[u]
         /\ \A v \in Users \ {u} :
              stage[v] = "get" /\ hid[v] = hid[u] => disturbed'[v]
         /\ \A v \in Users : disturbed'[v] => backend = "raw"
         /\ \A v \in Users : stage[v] = "idle" => disturbed'[v] = disturbed[v]
<1> USE NoneIsNone DEF FInv, Executes
<1>1. call[u] \in LibraryCalls /\ call[u].size \in Nat
  BY CallsTyped DEF AnswerWaits, LibraryCalls
<1>2. hid[u] \in Readers
  BY DEF FTypeOK
<1>3. PICK code \in Codes, size \in Nat :
        answer' = [answer EXCEPT ![hid[u]] =
                     [user |-> u, n |-> n[u], code |-> code, size |-> size]]
  BY <1>1
<1>4. [user |-> u, n |-> n[u], code |-> code, size |-> size] \in Answers
  BY DEF FTypeOK, Answers
<1>6. disturbed' \in [Users -> BOOLEAN] /\ \A v \in Users : disturbed[v] => disturbed'[v]
  BY DEF FTypeOK
<1>7. \A v \in Users : disturbed'[v] => backend = "raw"
  BY <1>2 DEF FTypeOK, AnswerWaits, HandlesValid
<1> QED BY <1>2, <1>3, <1>4, <1>6, <1>7 DEF FTypeOK

LEMMA SendStep == ASSUME FInv, NEW u \in Users, Send(u) PROVE FInv'
<1> USE NoneIsNone DEF FInv, Send, buffers
<1>1. CASE Executes(u) /\ stage' = [stage EXCEPT ![u] = "get"] /\ UNCHANGED result
  <2> USE <1>1, ExecutesStep
  <2>1. FTypeOK'
    BY DEF FTypeOK
  <2>2. HandlesValid'
    BY DEF HandlesValid
  <2>3. AnswerWaits'
    BY DEF FTypeOK, AnswerWaits
  <2>4. RequestAsCalled'
    BY DEF FTypeOK, RequestAsCalled, Fits
  <2>5. AnswerOfThisCall'
    BY DEF FTypeOK, AnswerOfThisCall
  <2> QED BY <2>1, <2>2, <2>3, <2>4, <2>5
<1>2. CASE Executes(u) /\ Return(u, "WRITE_FAILED", None)
  <2> USE <1>2, ExecutesStep DEF Return
  <2>1. FTypeOK'
    BY DEF FTypeOK, Statuses
  <2>2. HandlesValid'
    BY DEF HandlesValid
  <2>3. AnswerWaits'
    BY DEF FTypeOK, AnswerWaits
  <2>4. RequestAsCalled'
    BY DEF FTypeOK, RequestAsCalled, Fits
  <2>5. AnswerOfThisCall'
    BY DEF FTypeOK, AnswerOfThisCall
  <2> QED BY <2>1, <2>2, <2>3, <2>4, <2>5
<1>3. CASE UNCHANGED <<answer, disturbed>> /\ Return(u, "WRITE_FAILED", None)
  <2> USE <1>3 DEF Return
  <2>1. FTypeOK'
    BY DEF FTypeOK, Statuses
  <2>2. HandlesValid' /\ AnswerWaits'
    BY DEF FTypeOK, HandlesValid, AnswerWaits
  <2>3. RequestAsCalled' /\ AnswerOfThisCall'
    BY DEF FTypeOK, RequestAsCalled, AnswerOfThisCall, Fits
  <2> QED BY <2>1, <2>2, <2>3
<1> QED BY <1>1, <1>2, <1>3

LEMMA GetStep == ASSUME FInv, NEW u \in Users, Get(u) PROVE FInv'
<1> USE NoneIsNone DEF FInv, Get
<1>1. call[u] \in Calls
  BY DEF AnswerWaits
<1>2. HandlesValid' /\ AnswerWaits' /\ RequestAsCalled'
  BY DEF FTypeOK, HandlesValid, AnswerWaits, RequestAsCalled, Fits
<1>3. CASE /\ hid[u] \in plugged
           /\ answer[hid[u]] # None
           /\ response' = [response EXCEPT ![u] = answer[hid[u]]]
           /\ result' = [result EXCEPT ![u] = Outcome(call[u], answer[hid[u]])]
  <2> DEFINE resp == answer[hid[u]]
             out  == Outcome(call[u], resp)
  <2>1. hid[u] \in Readers /\ resp \in Answers
    BY <1>3 DEF FTypeOK
  <2>2. /\ out \in [status : Statuses, of : [user : Users, n : Nat] \cup {None}]
        /\ out.status = "OK" => \/ out.of = [user |-> resp.user, n |-> resp.n]
                                \/ out.of = None /\ ~call[u].strict
    BY <1>1, <2>1, OutcomeOfResponse
  <2>3. FTypeOK'
    BY <1>3, <2>1, <2>2 DEF FTypeOK
  <2>4. disturbed[u] \/ (resp.user = u /\ resp.n = n[u])
    BY <2>1 DEF AnswerWaits
  <2>5. result'[u] = out /\ \A v \in Users \ {u} : result'[v] = result[v]
    BY <1>3 DEF FTypeOK
  <2> HIDE DEF resp, out
  <2>6. AnswerOfThisCall'
    BY <2>2, <2>4, <2>5 DEF FTypeOK, AnswerOfThisCall, AnswerWaits
  <2> QED BY <1>2, <2>3, <2>6
<1>4. CASE /\ UNCHANGED response
           /\ result' = [result EXCEPT ![u] = get_failed(call[u], response[u])]
  <2>1. FTypeOK'
    BY <1>4 DEF FTypeOK, get_failed, Statuses
  <2>2. AnswerOfThisCall'
    BY <1>4 DEF FTypeOK, get_failed, AnswerOfThisCall
  <2> QED BY <1>2, <2>1, <2>2
<1> QED BY <1>3, <1>4

LEMMA FNextStep == FInv /\ [FNext]_report => FInv'
<1> SUFFICES ASSUME FInv, [FNext]_report PROVE FInv'
  OBVIOUS
<1>1. ASSUME NEW r \in Readers, Plug(r) \/ Unplug(r) PROVE FInv'
  BY <1>1, PlugStep, UnplugStep
<1>2. ASSUME NEW u \in Users, NEW r \in Readers, Open(u, r) PROVE FInv'
  BY <1>2, OpenStep
<1>3. ASSUME NEW u \in Users, Close(u) PROVE FInv'
  BY <1>3, CloseStep
<1>4. ASSUME NEW u \in Users, NEW c \in Calls, Begin(u, c) PROVE FInv'
  BY <1>4, BeginStep
<1>5. ASSUME NEW u \in Users, Send(u) PROVE FInv'
  BY <1>5, SendStep
<1>6. ASSUME NEW u \in Users, Get(u) PROVE FInv'
  BY <1>6, GetStep
<1>7. CASE UNCHANGED report
  BY <1>7 DEF report, buffers, progress, FInv, FTypeOK, HandlesValid, AnswerWaits,
              RequestAsCalled, AnswerOfThisCall, Fits
<1> QED BY <1>1, <1>2, <1>3, <1>4, <1>5, <1>6, <1>7 DEF FNext, Environment

-----------------------------------------------------------------------------
\* The inductive invariant of the reports of any number of users.
THEOREM ReportInvariance == FSpec => []FInv
BY Initially, FNextStep, PTL DEF FSpec

\* No command goes out with data of an earlier one, or cut off.
THEOREM SentAsCalled == FSpec => []RequestAsCalled
<1>1. FInv => RequestAsCalled
  BY DEF FInv
<1> QED BY ReportInvariance, <1>1, PTL

\* A value is the answer to its own call, unless hidraw let another user of
\* the reader get between.
THEOREM AnsweredItself == FSpec => []AnswerOfThisCall
<1>1. FInv => AnswerOfThisCall
  BY DEF FInv
<1> QED BY ReportInvariance, <1>1, PTL

-----------------------------------------------------------------------------
(* mccr-cli *)

PluggedReaders == plugged \subseteq Readers

\* A step that is none of the library's leaves the library alone.
LEMMA CliStep ==
  ASSUME PluggedReaders, [Next]_vars
  PROVE  [FNext]_report /\ PluggedReaders'
<1> USE TwoUsers DEF PluggedReaders
<1>1. Cli \in Users /\ Gui \in Users
  OBVIOUS
<1>2. CASE ReaderSteps
  BY <1>2 DEF ReaderSteps, FNext, Environment, Plug, Unplug
<1>3. CASE GuiSteps
  BY <1>1, <1>3, GuiBounds
     DEF GuiSteps, FNext, Open, Close, Begin, Called, Send, Get
<1>4. CASE parse_options \/ mccr_init \/ mccr_device_new \/ run_ends \/ run_wait_swipe
  BY <1>4 DEF parse_options, mccr_init, mccr_device_new, run_ends, run_wait_swipe, report
<1>5. CASE mccr_device_open
  <2>1. CASE Open(Cli, device)
    BY <1>1, <2>1 DEF FNext, Open, MayOpen
  <2>2. CASE UNCHANGED report
    BY <2>2 DEF report
  <2> QED BY <1>5, <2>1, <2>2 DEF mccr_device_open
<1>6. CASE run_next_call
  <2>1. PICK c : Begin(Cli, c)
    BY <1>6 DEF run_next_call
  <2>2. c \in Calls /\ UNCHANGED plugged
    BY <2>1 DEF Begin, Called
  <2> QED BY <1>1, <2>1, <2>2 DEF FNext
<1>7. CASE cli_send \/ cli_get
  BY <1>1, <1>7 DEF cli_send, cli_get, FNext, Send, Get
<1>8. CASE clean_exit
  <2>1. Close(Cli) \/ UNCHANGED report
    BY <1>8 DEF clean_exit
  <2> QED BY <1>1, <2>1 DEF FNext, Close, report
<1>9. CASE UNCHANGED vars
  BY <1>9 DEF vars, report
<1> QED BY <1>2, <1>3, <1>4, <1>5, <1>6, <1>7, <1>8, <1>9 DEF Next, CliSteps

\* Every step of the process, of mccr-gtk and of the readers is one of the
\* library's or touches none of its state.
THEOREM ImplementsFeatureReport == Spec => FSpec
<1>1. Init => FInit /\ PluggedReaders
  BY DEF Init, FInit, PluggedReaders
<1>2. PluggedReaders /\ [Next]_vars => [FNext]_report /\ PluggedReaders'
  BY CliStep
<1> QED BY <1>1, <1>2, PTL DEF Spec, FSpec

\* What mccr-cli and mccr-gtk send is what they called for, and what they get
\* is the answer to it.
THEOREM CliCallsSound == Spec => [](RequestAsCalled /\ AnswerOfThisCall)
BY ImplementsFeatureReport, SentAsCalled, AnsweredItself, PTL

-----------------------------------------------------------------------------
(* What the exit status tells. *)

\* One action at most is asked for.
LEMMA OneAction ==
  ASSUME options \in Options, OptionsFit
  PROVE  \E a \in Actions : options.actions = {a}
<1>1. IsFiniteSet(Actions)
  <2>1. IsFiniteSet({"list"})
    BY FS_Singleton
  <2>2. IsFiniteSet({"list"} \cup {"show"})
    BY <2>1, FS_AddElement
  <2>3. IsFiniteSet({"list"} \cup {"show"} \cup {"reset"})
    BY <2>2, FS_AddElement
  <2>4. IsFiniteSet({"list"} \cup {"show"} \cup {"reset"} \cup {"set_session_id"})
    BY <2>3, FS_AddElement
  <2>5. IsFiniteSet({"list"} \cup {"show"} \cup {"reset"} \cup {"set_session_id"} \cup {"wait_swipe"})
    BY <2>4, FS_AddElement
  <2>6. Actions = {"list"} \cup {"show"} \cup {"reset"} \cup {"set_session_id"} \cup {"wait_swipe"}
    BY DEF Actions
  <2> QED BY <2>5, <2>6
<1>2. options.actions \subseteq Actions
  BY DEF Options
<1>3. IsFiniteSet(options.actions) /\ Cardinality(options.actions) = 1
  BY <1>1, <1>2, FS_Subset DEF OptionsFit
<1>4. \E a : options.actions = {a}
  BY <1>3, FS_Singleton
<1> QED BY <1>2, <1>4

Phases == {"parse", "init", "device", "open", "run", "exited"}

\* main() goes on with options that fit and exits with what the action set.
WayOfMain ==
  /\ options \in Options /\ phase \in Phases
  /\ exit # None <=> phase = "exited"
  /\ phase \in {"init", "device", "open", "run"} => OptionsFit
  /\ exit = "SUCCESS" /\ ~options.help => OptionsFit /\ ret = "SUCCESS"

\* The device is one the options allow, and no other reader is ever open.
ChosenDevice ==
  /\ phase \in {"open", "run"} /\ DeviceActions # {} =>
       device \in Readers /\ (options.path # None => device = options.path)
  /\ phase \in {"parse", "init", "device"} => device = None
  /\ hid[Cli] \in {None, "dead", device}
  /\ \A r \in Readers : answer[r] # None /\ answer[r].user = Cli => r = device

Results == [status : Statuses, of : [user : Users, n : Nat] \cup {None}]

\* The calls of the process are those of its action.
CallsOfAction ==
  /\ step \in Nat
  /\ phase \in {"parse", "init", "device", "open"} => step = 0 /\ ret = None
  /\ step # 0 => step \in DOMAIN LibraryCallsOfAction /\ call[Cli] = LibraryCallsOfAction[step]
  /\ stage[Cli] # "idle" => phase = "run" /\ ret = None /\ step # 0
  /\ stage[Cli] = "idle" /\ step # 0 => result[Cli] \in Results

ChangingActions == {{"reset"}, {"set_session_id"}}

\* A call that returns OK was carried out, or somebody got between.
CarriedOutOrDisturbed ==
  options.actions \in ChangingActions /\ ~disturbed[Cli] =>
    /\ stage[Cli] = "get" /\ hid[Cli] \in Readers /\ answer[hid[Cli]].code = "SUCCESS" => done # {}
    /\ step # 0 /\ stage[Cli] = "idle" /\ result[Cli].status = "OK" => done # {}

\* The status of the action is the truth.
StatusIsTrue ==
  /\ done \subseteq Asked
  /\ ret = "SUCCESS" => Asked = {} \/ done # {} \/ disturbed[Cli]

CInv ==
  WayOfMain /\ ChosenDevice /\ CallsOfAction /\ CarriedOutOrDisturbed /\ StatusIsTrue

LEMMA InitC == Init => CInv
<1> SUFFICES ASSUME Init PROVE CInv
  OBVIOUS
<1> USE TwoUsers, NoneIsNoStatus
<1>1. WayOfMain
  <2>1. options \in Options /\ phase = "parse" /\ exit = None
    BY DEF Init, FewOptions
  <2> QED BY <2>1 DEF WayOfMain, Phases
<1>2. ChosenDevice
  BY NoneIsNone DEF Init, FInit, ChosenDevice
<1>3. CallsOfAction
  BY DEF Init, FInit, CallsOfAction
<1>4. CarriedOutOrDisturbed
  BY DEF Init, FInit, CarriedOutOrDisturbed
<1>5. StatusIsTrue
  BY DEF Init, FInit, StatusIsTrue
<1> QED BY <1>1, <1>2, <1>3, <1>4, <1>5 DEF CInv

\* What the action asks for, and the calls it makes.
LEMMA AskedFor ==
  ASSUME options \in Options, OptionsFit
  PROVE  /\ options.actions = {"reset"} =>
              /\ LibraryCallsOfAction = <<mccr_device_reset>>
              /\ \A r \in Readers : (options.path # None => r = options.path)
                                    => <<r, "RESET_DEVICE", None>> \in Asked
         /\ options.actions = {"set_session_id"} =>
              /\ \A i \in DOMAIN LibraryCallsOfAction :
                   LibraryCallsOfAction[i] = mccr_device_set_session_id(strtoull[options.session_id])
              /\ \A r \in Readers : (options.path # None => r = options.path)
                                    => <<r, "SET_SESSION_ID", strtoull[options.session_id]>> \in Asked
         /\ options.actions = {"wait_swipe"} =>
              /\ LibraryCallsOfAction = <<>>
              /\ \A r \in Readers : (options.path # None => r = options.path)
                                    => <<r, "SWIPE">> \in Asked
         /\ options.actions = {"show"} =>
              /\ Asked = {}
              /\ \A i \in DOMAIN LibraryCallsOfAction : ~Changes(LibraryCallsOfAction[i])
         /\ options.actions = {"list"} => Asked = {} /\ LibraryCallsOfAction = <<>>
<1>1. CASE options.actions = {"reset"}
  BY <1>1 DEF LibraryCallsOfAction, Asked, run_reset, DeviceActions
<1>2. CASE options.actions = {"set_session_id"}
  <2>1. LibraryCallsOfAction = run_set_session_id
    BY <1>2 DEF LibraryCallsOfAction, DeviceActions
  <2>2. \A i \in DOMAIN run_set_session_id :
          run_set_session_id[i] = mccr_device_set_session_id(strtoull[options.session_id])
    BY DEF run_set_session_id
  <2>3. {"set_session_id"} # {"reset"}
    OBVIOUS
  <2>4. Asked = (IF options.path = None THEN Readers ELSE {options.path})
                  \X {"SET_SESSION_ID"} \X {strtoull[options.session_id]}
    BY <1>2, <2>3 DEF Asked
  <2> QED BY <1>2, <2>1, <2>2, <2>4
<1>3. CASE options.actions = {"wait_swipe"}
  BY <1>3 DEF LibraryCallsOfAction, Asked, DeviceActions
<1>4. CASE options.actions = {"show"}
  <2>1. Asked = {}
    BY <1>4 DEF Asked
  <2>2. LibraryCallsOfAction = run_show
    BY <1>4 DEF LibraryCallsOfAction, DeviceActions
  <2>3. \A i \in DOMAIN run_show : ~Changes(run_show[i])
    BY DEF run_show, Changes, common_device_read_property_string, common_device_read_property_byte,
           mccr_device_get_dukpt_ksn_and_counter, mccr_device_get_reader_state,
           mccr_device_get_security_level, mccr_device_get_encryption_counter,
           mccr_device_get_magtek_update_token, Command
  <2> QED BY <1>4, <2>1, <2>2, <2>3
<1>5. CASE options.actions = {"list"}
  <2>1. Asked = {}
    BY <1>5 DEF Asked
  <2>2. LibraryCallsOfAction = <<>>
    <3>1. "list" \in options.actions /\ DeviceActions = {}
      BY <1>5 DEF DeviceActions
    <3> QED BY <3>1 DEF LibraryCallsOfAction
  <2> QED BY <1>5, <2>1, <2>2
<1> QED BY <1>1, <1>2, <1>3, <1>4, <1>5

\* The calls of an action are a sequence.
LEMMA CallsInOrder ==
  ASSUME options \in Options, OptionsFit
  PROVE  DOMAIN LibraryCallsOfAction = 1 .. Len(LibraryCallsOfAction)
<1>1. LibraryCallsOfAction \in {<<>>, run_show, run_reset, run_set_session_id}
  <2>1. PICK a \in Actions : options.actions = {a}
    BY OneAction
  <2>2. CASE a = "list"
    BY <2>1, <2>2, AskedFor
  <2>3. CASE a # "list"
    <3>1. "list" \notin options.actions /\ DeviceActions = {a}
      BY <2>1, <2>3 DEF DeviceActions
    <3>2. CASE a \in {"reset", "wait_swipe"}
      BY <2>1, <3>2, AskedFor DEF run_reset
    <3>3. CASE a = "show"
      BY <3>1, <3>3 DEF LibraryCallsOfAction
    <3>4. CASE a = "set_session_id"
      BY <3>1, <3>4 DEF LibraryCallsOfAction
    <3> QED BY <2>3, <3>2, <3>3, <3>4 DEF Actions
  <2> QED BY <2>2, <2>3
<1>2. DOMAIN <<>> = 1 .. Len(<<>>)
  OBVIOUS
<1>3. DOMAIN run_show = 1 .. Len(run_show)
  BY DEF run_show
<1>4. DOMAIN run_reset = 1 .. Len(run_reset)
  BY DEF run_reset
<1>5. DOMAIN run_set_session_id = 1 .. Len(run_set_session_id)
  <2> DEFINE c == mccr_device_set_session_id(strtoull[options.session_id])
  <2>1. run_set_session_id = (IF ValidSessionId THEN <<c>> ELSE <<>>)
    BY DEF run_set_session_id
  <2> HIDE DEF c
  <2>2. DOMAIN <<c>> = 1 .. Len(<<c>>)
    OBVIOUS
  <2> QED BY <1>2, <2>1, <2>2
<1> QED BY <1>1, <1>2, <1>3, <1>4, <1>5

\* What an action asks for is settled by the options.
LEMMA SameOptions ==
  ASSUME options' = options
  PROVE  /\ Asked' = Asked /\ LibraryCallsOfAction' = LibraryCallsOfAction
         /\ DeviceActions' = DeviceActions /\ OptionsFit' = OptionsFit
<1>1. Asked' = Asked
  BY DEF Asked
<1>2. DeviceActions' = DeviceActions
  BY DEF DeviceActions
<1>3. LibraryCallsOfAction' = LibraryCallsOfAction
  BY <1>2 DEF LibraryCallsOfAction, run_set_session_id, ValidSessionId
<1>4. OptionsFit' = OptionsFit
  BY DEF OptionsFit
<1> QED BY <1>1, <1>2, <1>3, <1>4

\* What others do between two steps of the process, as far as it matters here.
OthersAct ==
  /\ UNCHANGED <<main, done>>
  /\ call'[Cli] = call[Cli] /\ stage'[Cli] = stage[Cli] /\ result'[Cli] = result[Cli]
  /\ hid'[Cli] \in {hid[Cli], "dead"}
  /\ \A r \in Readers : answer'[r] # None /\ answer'[r].user = Cli => answer'[r] = answer[r]
  /\ disturbed[Cli] => disturbed'[Cli]
  /\ stage[Cli] = "get" /\ hid'[Cli] \in Readers /\ ~disturbed'[Cli] =>
       answer'[hid[Cli]] = answer[hid[Cli]]

LEMMA OthersStep ==
  ASSUME FInv, CInv, OthersAct
  PROVE  CInv'
<1> USE DeadIsDead DEF CInv, OthersAct
<1>0. /\ options' = options /\ phase' = phase /\ device' = device /\ step' = step /\ ret' = ret
      /\ exit' = exit /\ done' = done
  BY DEF main
<1>1. WayOfMain'
  BY <1>0, SameOptions DEF WayOfMain
<1>2. ChosenDevice'
  BY <1>0, SameOptions DEF ChosenDevice
<1>3. CallsOfAction'
  BY <1>0, SameOptions DEF CallsOfAction
<1>4. CarriedOutOrDisturbed'
  BY <1>0 DEF CarriedOutOrDisturbed
<1>5. StatusIsTrue'
  BY <1>0, SameOptions DEF StatusIsTrue
<1> QED BY <1>1, <1>2, <1>3, <1>4, <1>5

LEMMA ReaderStepsC == ASSUME FInv, CInv, ReaderSteps PROVE CInv'
<1> USE TwoUsers, NoneIsNone DEF FInv, FTypeOK
<1>1. PICK r \in Readers : Unplug(r) \/ Plug(r)
  BY DEF ReaderSteps
<1>2. UNCHANGED <<main, done>>
  BY DEF ReaderSteps
<1>3. CASE Plug(r)
  BY <1>2, <1>3, OthersStep DEF Plug, OthersAct, buffers, progress
<1>4. CASE Unplug(r)
  <2>1. /\ call' = call /\ stage' = stage /\ result' = result /\ disturbed' = disturbed
    BY <1>4 DEF Unplug, progress
  <2>2. hid'[Cli] = IF hid[Cli] = r THEN "dead" ELSE hid[Cli]
    BY <1>4 DEF Unplug
  <2>3. \A q \in Readers : answer'[q] = IF q = r THEN None ELSE answer[q]
    BY <1>4 DEF Unplug
  <2>4. hid'[Cli] \in Readers => hid[Cli] # r /\ hid'[Cli] = hid[Cli]
    BY <2>2, DeadIsDead
  <2>5. OthersAct
    BY <1>2, <2>1, <2>2, <2>3, <2>4 DEF OthersAct
  <2> QED BY <2>5, OthersStep
<1> QED BY <1>1, <1>3, <1>4

LEMMA GuiStepsC == ASSUME FInv, CInv, GuiSteps PROVE CInv'
<1> USE TwoUsers, NoneIsNone DEF FInv, FTypeOK
<1>1. UNCHANGED <<main, done>>
  BY DEF GuiSteps
<1>2. ASSUME NEW r \in Readers, Open(Gui, r) PROVE CInv'
  <2>1. OthersAct
    BY <1>1, <1>2 DEF OthersAct, Open, progress
  <2> QED BY <2>1, OthersStep
<1>3. CASE Close(Gui)
  <2>1. OthersAct
    BY <1>1, <1>3 DEF OthersAct, Close, progress
  <2> QED BY <2>1, OthersStep
<1>4. ASSUME NEW c \in GuiCalls, Begin(Gui, c) PROVE CInv'
  <2>1. UNCHANGED <<answer, hid>>
    BY <1>4 DEF Begin, Called
  <2>2. call'[Cli] = call[Cli] /\ disturbed'[Cli] = disturbed[Cli]
    BY <1>4 DEF Begin, Called
  <2>3. stage'[Cli] = stage[Cli] /\ result'[Cli] = result[Cli]
    BY <1>4 DEF Begin, Return
  <2>4. OthersAct
    BY <1>1, <2>1, <2>2, <2>3 DEF OthersAct
  <2> QED BY <2>4, OthersStep
<1>5. CASE Get(Gui)
  <2>1. UNCHANGED <<answer, hid, call, disturbed>>
    BY <1>5 DEF Get
  <2>2. stage'[Cli] = stage[Cli] /\ result'[Cli] = result[Cli]
    BY <1>5 DEF Get
  <2>3. OthersAct
    BY <1>1, <2>1, <2>2 DEF OthersAct
  <2> QED BY <2>3, OthersStep
<1>6. CASE Send(Gui)
  <2>1. UNCHANGED <<hid, call>> /\ stage'[Cli] = stage[Cli] /\ result'[Cli] = result[Cli]
    BY <1>6 DEF Send, Return
  <2>2. CASE UNCHANGED <<answer, disturbed>>
    <3>1. OthersAct
      BY <1>1, <2>1, <2>2 DEF OthersAct
    <3> QED BY <3>1, OthersStep
  <2>3. CASE Executes(Gui)
    <3>1. hid[Gui] \in Readers
      BY <2>3 DEF Executes
    <3>2. PICK code, size :
            answer' = [answer EXCEPT ![hid[Gui]] =
                         [user |-> Gui, n |-> n[Gui], code |-> code, size |-> size]]
      BY <2>3 DEF Executes
    <3>3. \A q \in Readers : answer'[q] # None /\ answer'[q].user = Cli => answer'[q] = answer[q]
      BY <3>1, <3>2
    <3>4. disturbed'[Cli] = (disturbed[Cli] \/ (Cli # Gui /\ stage[Cli] = "get" /\ hid[Cli] = hid[Gui]))
      BY <2>3 DEF Executes
    <3>5. disturbed[Cli] \in BOOLEAN /\ disturbed'[Cli] \in BOOLEAN
      BY <3>4
    <3>6. stage[Cli] = "get" /\ hid'[Cli] \in Readers /\ ~disturbed'[Cli] =>
            answer'[hid[Cli]] = answer[hid[Cli]]
      <4> SUFFICES ASSUME stage[Cli] = "get", hid'[Cli] \in Readers, ~disturbed'[Cli]
                   PROVE  answer'[hid[Cli]] = answer[hid[Cli]]
        OBVIOUS
      <4>1. hid[Cli] \in Readers /\ hid[Cli] # hid[Gui]
        BY <2>1, <3>4
      <4> QED BY <3>2, <4>1
    <3>7. disturbed[Cli] => disturbed'[Cli]
      BY <3>4, <3>5
    <3>8. OthersAct
      BY <1>1, <2>1, <3>3, <3>6, <3>7 DEF OthersAct
    <3> QED BY <3>8, OthersStep
  <2> QED BY <1>6, <2>2, <2>3 DEF Send
<1> QED BY <1>2, <1>3, <1>4, <1>5, <1>6 DEF GuiSteps

-----------------------------------------------------------------------------
(* main() up to the action. *)

\* The way to the action leaves its calls alone.
LEMMA WayStep ==
  ASSUME FInv, CInv, UNCHANGED <<options, step, ret, done, stage, call, result, disturbed>>,
         phase \in {"parse", "init", "device", "open"}, UNCHANGED answer,
         hid'[Cli] \in Readers => hid'[Cli] = device'
  PROVE  CallsOfAction' /\ CarriedOutOrDisturbed' /\ StatusIsTrue'
<1> USE DEF CInv
<1>1. step = 0 /\ ret = None /\ stage[Cli] = "idle"
  BY DEF CallsOfAction
<1>2. CallsOfAction'
  BY <1>1, SameOptions DEF CallsOfAction
<1>3. CarriedOutOrDisturbed'
  BY <1>1 DEF CarriedOutOrDisturbed
<1>4. StatusIsTrue'
  BY <1>1, SameOptions DEF StatusIsTrue
<1> QED BY <1>2, <1>3, <1>4

LEMMA ParseC == ASSUME FInv, CInv, parse_options PROVE CInv'
<1> USE NoneIsNoStatus DEF CInv, parse_options, AtPhase, Exits
<1>1. WayOfMain'
  BY SameOptions DEF WayOfMain, Phases
<1>2. ChosenDevice'
  BY SameOptions DEF ChosenDevice, report, WayOfMain
<1>3. CallsOfAction' /\ CarriedOutOrDisturbed' /\ StatusIsTrue'
  BY WayStep, NoneIsNone, DeadIsDead DEF report, progress, ChosenDevice
<1> QED BY <1>1, <1>2, <1>3

LEMMA InitPhaseC == ASSUME FInv, CInv, mccr_init PROVE CInv'
<1> USE NoneIsNoStatus DEF CInv, mccr_init, AtPhase, Exits
<1>1. WayOfMain'
  BY SameOptions DEF WayOfMain, Phases
<1>2. ChosenDevice'
  BY SameOptions DEF ChosenDevice, report
<1>3. CallsOfAction' /\ CarriedOutOrDisturbed' /\ StatusIsTrue'
  BY WayStep, NoneIsNone, DeadIsDead DEF report, progress, ChosenDevice
<1> QED BY <1>1, <1>2, <1>3

LEMMA DeviceC == ASSUME FInv, CInv, mccr_device_new PROVE CInv'
<1> USE NoneIsNoStatus, NoneIsNone DEF CInv, mccr_device_new, AtPhase, Exits
<1>1. WayOfMain'
  BY SameOptions DEF WayOfMain, Phases
<1>2. phase = "device" /\ device = None /\ UNCHANGED report
  BY DEF ChosenDevice
<1>3. hid[Cli] \notin Readers /\ \A r \in Readers : ~(answer[r] # None /\ answer[r].user = Cli)
  BY <1>2, DeadIsDead DEF ChosenDevice
<1>4. ChosenDevice'
  <2>1. UNCHANGED <<answer, hid>>
    BY <1>2 DEF report
  <2>2. hid[Cli] \in {None, "dead"}
    BY <1>2 DEF ChosenDevice
  <2>3. phase' = "open" => device' \in Readers /\ (options.path # None => device' = options.path)
    BY <1>2 DEF Found, FInv, FTypeOK
  <2> QED BY <1>2, <1>3, <2>1, <2>2, <2>3, SameOptions DEF ChosenDevice
<1>5. CallsOfAction' /\ CarriedOutOrDisturbed' /\ StatusIsTrue'
  BY <1>2, <1>3, WayStep DEF report, progress
<1> QED BY <1>1, <1>4, <1>5

LEMMA OpenC == ASSUME FInv, CInv, mccr_device_open PROVE CInv'
<1> USE TwoUsers, NoneIsNoStatus, NoneIsNone, DeadIsDead
    DEF CInv, mccr_device_open, AtPhase, Exits
<1>1. WayOfMain'
  BY SameOptions DEF WayOfMain, Phases
<1>2. UNCHANGED <<answer, stage, call, result, disturbed>>
  BY DEF Open, report, progress
<1>3. hid'[Cli] \in {hid[Cli], device}
  BY DEF Open, report, FInv, FTypeOK
<1>4. ChosenDevice'
  BY <1>2, <1>3, SameOptions DEF ChosenDevice
<1>5. CallsOfAction' /\ CarriedOutOrDisturbed' /\ StatusIsTrue'
  <2>1. hid'[Cli] \in Readers => hid'[Cli] = device'
    BY <1>3 DEF ChosenDevice
  <2> QED BY <1>2, <2>1, WayStep
<1> QED BY <1>1, <1>4, <1>5

-----------------------------------------------------------------------------
(* The action. *)

LEMMA NextCallC == ASSUME FInv, CInv, run_next_call PROVE CInv'
<1> USE TwoUsers, NoneIsNone DEF CInv, run_next_call, FInv, FTypeOK
<1> DEFINE c == LibraryCallsOfAction[step + 1]
<1>1. /\ phase = "run" /\ ret = None /\ stage[Cli] = "idle" /\ step \in Nat
      /\ step < Len(LibraryCallsOfAction) /\ Begin(Cli, c) /\ step' = step + 1
      /\ UNCHANGED <<options, phase, device, ret, exit, done>>
  BY DEF Running, CallsOfAction
<1>2. UNCHANGED <<answer, hid>> /\ call'[Cli] = c
  BY <1>1 DEF Begin, Called
<1>3. \/ stage'[Cli] = "idle" /\ result'[Cli] \in Results /\ result'[Cli].status = "NOT_OPEN"
      \/ stage'[Cli] \in {"send", "aborted"}
  <2>1. CASE Return(Cli, "NOT_OPEN", None)
    BY <2>1 DEF Return, Results, Statuses
  <2>2. CASE stage' = [stage EXCEPT ![Cli] = IF Fits(c) THEN "send" ELSE "aborted"]
    BY <2>2
  <2> QED BY <1>1, <2>1, <2>2 DEF Begin
<1>4. WayOfMain'
  BY <1>1, SameOptions DEF WayOfMain
<1>5. ChosenDevice'
  BY <1>1, <1>2, SameOptions DEF ChosenDevice
<1>6. CallsOfAction'
  <2>1. step + 1 \in DOMAIN LibraryCallsOfAction
    <3>1. DOMAIN LibraryCallsOfAction = 1 .. Len(LibraryCallsOfAction)
      BY <1>1, CallsInOrder DEF WayOfMain
    <3> QED BY <1>1, <3>1
  <2> QED BY <1>1, <1>2, <1>3, <2>1, SameOptions DEF CallsOfAction
<1>7. CarriedOutOrDisturbed'
  BY <1>3 DEF CarriedOutOrDisturbed
<1>8. StatusIsTrue'
  BY <1>1, SameOptions, NoneIsNoStatus DEF StatusIsTrue
<1> QED BY <1>4, <1>5, <1>6, <1>7, <1>8

LEMMA RunEndsC == ASSUME FInv, CInv, run_ends PROVE CInv'
<1> USE NoneIsNoStatus, NoneIsNone DEF CInv, run_ends
<1>1. /\ phase = "run" /\ ret = None /\ stage[Cli] = "idle" /\ step \in Nat
      /\ step = Len(LibraryCallsOfAction) /\ ret' = StatusOfAction
      /\ UNCHANGED <<report, options, phase, device, step, exit, done>>
  BY DEF Running, CallsOfAction
<1>2. UNCHANGED <<answer, hid, call, stage, result, disturbed>>
  BY <1>1 DEF report, progress
<1>3. WayOfMain'
  BY <1>1, SameOptions DEF WayOfMain
<1>4. ChosenDevice'
  BY <1>1, <1>2, SameOptions DEF ChosenDevice
<1>5. CallsOfAction'
  BY <1>1, <1>2, SameOptions DEF CallsOfAction
<1>6. CarriedOutOrDisturbed'
  BY <1>1, <1>2 DEF CarriedOutOrDisturbed
<1>7. StatusIsTrue'
  <2> SUFFICES ASSUME ret' = "SUCCESS" PROVE Asked = {} \/ done # {} \/ disturbed[Cli]
    BY <1>1, <1>2, SameOptions DEF StatusIsTrue
  <2>1. options \in Options /\ OptionsFit
    BY <1>1 DEF WayOfMain
  <2>2. PICK a \in Actions : options.actions = {a}
    BY <2>1, OneAction
  <2>3. a # "wait_swipe"
    BY <2>2
  <2>4. CASE a \in {"list", "show"}
    BY <2>1, <2>2, <2>4, AskedFor
  <2>5. CASE a \in {"reset", "set_session_id"}
    <3>1. step > 0 /\ result[Cli].status = "OK"
      BY <1>1, <2>2, <2>5 DEF StatusOfAction
    <3>2. options.actions \in ChangingActions
      BY <2>2, <2>5 DEF ChangingActions
    <3> QED BY <1>1, <3>1, <3>2 DEF CarriedOutOrDisturbed
  <2> QED BY <2>3, <2>4, <2>5 DEF Actions
<1> QED BY <1>3, <1>4, <1>5, <1>6, <1>7

LEMMA WaitSwipeC == ASSUME FInv, CInv, run_wait_swipe PROVE CInv'
<1> USE NoneIsNoStatus, NoneIsNone, DeadIsDead DEF CInv, run_wait_swipe
<1>1. /\ phase = "run" /\ ret = None /\ stage[Cli] = "idle" /\ options.actions = {"wait_swipe"}
      /\ UNCHANGED <<report, options, phase, device, step, exit>>
      /\ done \subseteq done'
  BY DEF Running
<1>2. UNCHANGED <<answer, hid, call, stage, result, disturbed>>
  BY <1>1 DEF report, progress
<1>3. WayOfMain'
  BY <1>1, SameOptions DEF WayOfMain
<1>4. ChosenDevice'
  BY <1>1, <1>2, SameOptions DEF ChosenDevice
<1>5. CallsOfAction'
  BY <1>1, <1>2, SameOptions DEF CallsOfAction
<1>6. CarriedOutOrDisturbed'
  BY <1>1, <1>2 DEF CarriedOutOrDisturbed, ChangingActions
<1>7. options \in Options /\ OptionsFit
  BY <1>1 DEF WayOfMain
<1>8. DeviceActions # {}
  BY <1>1 DEF DeviceActions
<1>9. device \in Readers /\ (options.path # None => device = options.path)
  BY <1>1, <1>8 DEF ChosenDevice
<1>10. <<device, "SWIPE">> \in Asked
  BY <1>1, <1>7, <1>9, AskedFor
<1>11. StatusIsTrue'
  <2>1. done' \subseteq done \cup {<<device, "SWIPE">>} /\ (ret' = "SUCCESS" => done' # {})
    OBVIOUS
  <2>2. Asked' = Asked
    BY <1>1, SameOptions
  <2>3. done \subseteq Asked
    BY DEF StatusIsTrue
  <2> QED BY <1>10, <2>1, <2>2, <2>3 DEF StatusIsTrue
<1> QED BY <1>3, <1>4, <1>5, <1>6, <1>11

LEMMA CleanExitC == ASSUME FInv, CInv, clean_exit PROVE CInv'
<1> USE TwoUsers, NoneIsNoStatus, NoneIsNone, DeadIsDead DEF CInv, clean_exit, Exits
<1>1. /\ phase = "run" /\ phase' = "exited" /\ exit' = ret /\ ret # None
      /\ UNCHANGED <<options, device, step, ret, done>>
  OBVIOUS
<1>2. UNCHANGED <<answer, call, stage, result, disturbed>>
  BY DEF Close, report, progress
<1>3. hid'[Cli] \in {None, hid[Cli]}
  BY DEF Close, report, FInv, FTypeOK
<1>4. WayOfMain'
  BY <1>1, SameOptions DEF WayOfMain, Phases
<1>5. ChosenDevice'
  BY <1>1, <1>2, <1>3, SameOptions DEF ChosenDevice
<1>6. stage[Cli] = "idle"
  BY <1>1 DEF CallsOfAction
<1>7. CallsOfAction'
  BY <1>1, <1>2, <1>6, SameOptions DEF CallsOfAction
<1>8. CarriedOutOrDisturbed'
  BY <1>1, <1>2, <1>6 DEF CarriedOutOrDisturbed
<1>9. StatusIsTrue'
  BY <1>1, <1>2, SameOptions DEF StatusIsTrue
<1> QED BY <1>4, <1>5, <1>7, <1>8, <1>9

-----------------------------------------------------------------------------
(* The halves of a call. *)

\* A call changes a reader when that is what the action asks for.
LEMMA ChangingCall ==
  ASSUME FInv, CInv, stage[Cli] # "idle"
  PROVE  /\ Changes(call[Cli]) =>
              device \in Readers /\ <<device, call[Cli].command, call[Cli].data>> \in Asked
         /\ options.actions \in ChangingActions => Changes(call[Cli])
<1> USE DEF CInv
<1>1. /\ phase = "run" /\ step \in DOMAIN LibraryCallsOfAction
      /\ call[Cli] = LibraryCallsOfAction[step]
  BY DEF CallsOfAction
<1>2. options \in Options /\ OptionsFit
  BY <1>1 DEF WayOfMain
<1>3. DeviceActions # {} =>
        device \in Readers /\ (options.path # None => device = options.path)
  BY <1>1 DEF ChosenDevice
<1>4. PICK a \in Actions : options.actions = {a}
  BY <1>2, OneAction
<1>5. CASE a = "reset"
  <2>1. call[Cli].command = "RESET_DEVICE" /\ call[Cli].data = None
    BY <1>1, <1>2, <1>4, <1>5, AskedFor DEF mccr_device_reset, Command
  <2>2. DeviceActions # {}
    BY <1>4, <1>5 DEF DeviceActions
  <2>3. <<device, "RESET_DEVICE", None>> \in Asked
    BY <1>2, <1>3, <1>4, <1>5, <2>2, AskedFor
  <2> QED BY <1>3, <2>1, <2>2, <2>3 DEF Changes
<1>6. CASE a = "set_session_id"
  <2>1. call[Cli].command = "SET_SESSION_ID" /\ call[Cli].data = strtoull[options.session_id]
    BY <1>1, <1>2, <1>4, <1>6, AskedFor DEF mccr_device_set_session_id
  <2>2. DeviceActions # {}
    BY <1>4, <1>6 DEF DeviceActions
  <2>3. <<device, "SET_SESSION_ID", strtoull[options.session_id]>> \in Asked
    BY <1>2, <1>3, <1>4, <1>6, <2>2, AskedFor
  <2> QED BY <1>3, <2>1, <2>2, <2>3 DEF Changes
<1>7. CASE a = "show"
  <2>1. ~Changes(call[Cli])
    BY <1>1, <1>2, <1>4, <1>7, AskedFor
  <2> QED BY <1>4, <1>7, <2>1 DEF ChangingActions
<1>8. CASE a \in {"list", "wait_swipe"}
  BY <1>1, <1>2, <1>4, <1>8, AskedFor
<1> QED BY <1>4, <1>5, <1>6, <1>7, <1>8 DEF Actions

LEMMA SendC == ASSUME FInv, CInv, cli_send PROVE CInv'
<1> USE TwoUsers, NoneIsNoStatus, NoneIsNone, DeadIsDead DEF CInv, cli_send
<1>1. /\ stage[Cli] = "send" /\ phase = "run" /\ ret = None /\ step # 0
      /\ UNCHANGED <<options, phase, device, step, ret, exit>>
      /\ UNCHANGED <<hid, request, call, n>>
  BY DEF CallsOfAction, Send, main, buffers
<1>2. FTypeOK /\ hid \in [Users -> Readers \cup {None, "dead"}] /\ Cli \in Users
      /\ stage \in [Users -> {"idle", "send", "get", "aborted"}]
  BY DEF FInv, FTypeOK
<1>3. \/ stage'[Cli] = "get"
      \/ stage'[Cli] = "idle" /\ result'[Cli] = [status |-> "WRITE_FAILED", of |-> None]
  <2>1. CASE stage' = [stage EXCEPT ![Cli] = "get"]
    BY <1>2, <2>1
  <2>2. CASE Return(Cli, "WRITE_FAILED", None)
    BY <1>2, <2>2 DEF Return, FTypeOK
  <2> QED BY <2>1, <2>2 DEF Send
<1>4. WayOfMain'
  BY <1>1, SameOptions DEF WayOfMain
<1>5. hid[Cli] \in Readers => hid[Cli] = device
  BY DEF ChosenDevice
<1>6. ChosenDevice'
  <2>1. CASE Executes(Cli)
    <3>1. hid[Cli] \in Readers
      BY <2>1 DEF Executes, FInv, FTypeOK
    <3>2. PICK code, size :
            answer' = [answer EXCEPT ![hid[Cli]] =
                         [user |-> Cli, n |-> n[Cli], code |-> code, size |-> size]]
      BY <2>1 DEF Executes
    <3>3. \A r \in Readers : answer'[r] # None /\ answer'[r].user = Cli => r = device
      BY <1>5, <3>1, <3>2 DEF ChosenDevice
    <3> QED BY <1>1, <3>3, SameOptions DEF ChosenDevice
  <2>2. CASE UNCHANGED answer
    BY <1>1, <2>2, SameOptions DEF ChosenDevice
  <2> QED BY <2>1, <2>2 DEF Send
<1>7. CallsOfAction'
  BY <1>1, <1>3, SameOptions DEF CallsOfAction, Results, Statuses
<1>8. request[Cli] = [command |-> call[Cli].command, data |-> call[Cli].data]
  BY <1>1, <1>2 DEF FInv, RequestAsCalled
<1>9. CarriedOut \subseteq {<<device, call[Cli].command, call[Cli].data>>}
  BY <1>1, <1>6, <1>8 DEF CarriedOut, ChosenDevice
<1>10. done \subseteq done' /\ done' \subseteq done \cup CarriedOut
       /\ (Changes(call[Cli]) => done' = done \cup CarriedOut)
       /\ (~Changes(call[Cli]) => done' = done)
  OBVIOUS
<1>11. StatusIsTrue'
  <2>1. Asked' = Asked
    BY <1>1, SameOptions
  <2>2. Changes(call[Cli]) => CarriedOut \subseteq Asked
    BY <1>1, <1>9, ChangingCall
  <2>3. done' \subseteq Asked
    BY <1>10, <2>2 DEF StatusIsTrue
  <2> QED BY <1>1, <2>1, <2>3 DEF StatusIsTrue
<1>12. CarriedOutOrDisturbed'
  <2>1. ASSUME options.actions \in ChangingActions, stage'[Cli] = "get", hid[Cli] \in Readers,
               answer'[hid[Cli]].code = "SUCCESS"
        PROVE  done' # {}
    <3>1. Executes(Cli)
      BY <1>3, <2>1 DEF Send, Return, FInv, FTypeOK
    <3>2. PICK code \in Codes, size \in {call[Cli].size, 3} :
            answer' = [answer EXCEPT ![hid[Cli]] =
                         [user |-> Cli, n |-> n[Cli], code |-> code, size |-> size]]
      BY <3>1 DEF Executes
    <3>3. answer'[hid[Cli]] = [user |-> Cli, n |-> n[Cli], code |-> code, size |-> size]
      BY <2>1, <3>2, <1>2 DEF FTypeOK
    <3>4. answer'[hid[Cli]] \in Answers
      <4>1. call[Cli] \in Calls
        BY <1>1, <1>2 DEF FInv, AnswerWaits
      <4>2. call[Cli].size \in Nat /\ n[Cli] \in Nat
        BY <4>1, <1>2, CallsTyped DEF LibraryCalls, FTypeOK
      <4> QED BY <3>3, <4>2, <1>2 DEF Answers
    <3>5. answer'[hid[Cli]] # None
      BY <3>4
    <3>6. <<hid[Cli], request[Cli].command, request[Cli].data>> \in CarriedOut
      BY <2>1, <3>3, <3>5 DEF CarriedOut
    <3>7. Changes(call[Cli])
      BY <1>1, <2>1, ChangingCall
    <3> QED BY <1>10, <3>6, <3>7
  <2> QED BY <1>1, <1>3, <2>1 DEF CarriedOutOrDisturbed
<1> QED BY <1>4, <1>6, <1>7, <1>11, <1>12

LEMMA GetC == ASSUME FInv, CInv, cli_get PROVE CInv'
<1> USE TwoUsers, NoneIsNoStatus, NoneIsNone, DeadIsDead DEF CInv, cli_get
<1>1. /\ stage[Cli] = "get" /\ phase = "run" /\ ret = None /\ step # 0
      /\ UNCHANGED <<options, phase, device, step, ret, exit, done>>
      /\ UNCHANGED <<hid, answer, call, disturbed>> /\ stage'[Cli] = "idle"
  BY DEF CallsOfAction, Get, main, FInv, FTypeOK
<1>2. call[Cli] \in Calls
  BY <1>1 DEF FInv, AnswerWaits
<1>3. /\ result'[Cli] \in Results
      /\ result'[Cli].status = "OK" => hid[Cli] \in Readers /\ answer[hid[Cli]].code = "SUCCESS"
  <2>1. ASSUME hid[Cli] \in plugged, answer[hid[Cli]] # None,
               result' = [result EXCEPT ![Cli] = Outcome(call[Cli], answer[hid[Cli]])]
        PROVE  <1>3!1 /\ <1>3!2
    <3> DEFINE a == answer[hid[Cli]]
    <3>1. hid[Cli] \in Readers /\ a \in Answers
      BY <2>1 DEF FInv, FTypeOK
    <3>2. result'[Cli] = Outcome(call[Cli], a)
      BY <2>1 DEF FInv, FTypeOK
    <3>3. result'[Cli] \in Results
      <4>1. \A c \in Calls, resp \in Answers : Outcome(c, resp) \in Results
        BY OutcomeOfResponse DEF Results
      <4> QED BY <1>2, <3>1, <3>2, <4>1
    <3>4. a.code \in DOMAIN feature_report_result_to_mccr_status
      BY <3>1, CodesTyped DEF Answers
    <3>5. a.code # "SUCCESS" => feature_report_result_to_mccr_status[a.code] # "OK"
      BY <3>4 DEF feature_report_result_to_mccr_status
    <3>6. a.code # "SUCCESS" => result'[Cli].status # "OK"
      BY <3>2, <3>5 DEF Outcome
    <3> QED BY <3>1, <3>3, <3>6
  <2>2. ASSUME result' = [result EXCEPT ![Cli] = get_failed(call[Cli], response[Cli])]
        PROVE  <1>3!1 /\ <1>3!2
    BY <2>2 DEF get_failed, Results, Statuses, FInv, FTypeOK
  <2> QED BY <2>1, <2>2 DEF Get
<1>4. WayOfMain'
  BY <1>1, SameOptions DEF WayOfMain
<1>5. ChosenDevice'
  BY <1>1, SameOptions DEF ChosenDevice
<1>6. CallsOfAction'
  BY <1>1, <1>3, SameOptions DEF CallsOfAction, Results
<1>7. CarriedOutOrDisturbed'
  BY <1>1, <1>3 DEF CarriedOutOrDisturbed
<1>8. StatusIsTrue'
  BY <1>1, SameOptions DEF StatusIsTrue
<1> QED BY <1>4, <1>5, <1>6, <1>7, <1>8

LEMMA CStep == ASSUME FInv, CInv, [Next]_vars PROVE CInv'
<1>1. CASE UNCHANGED vars
  <2>1. UNCHANGED <<main, done, call, stage, result, hid, answer, disturbed>>
    BY <1>1 DEF vars, report, progress
  <2>2. disturbed[Cli] => disturbed'[Cli]
    BY <2>1, Zenon
  <2>3. OthersAct
    BY <2>1, <2>2 DEF OthersAct
  <2> QED BY <2>3, OthersStep
<1> QED BY <1>1, ReaderStepsC, GuiStepsC, ParseC, InitPhaseC, DeviceC, OpenC, NextCallC, SendC,
           GetC, RunEndsC, CleanExitC, WaitSwipeC DEF Next, CliSteps

\* The exit status of the process can be trusted, with any readers and
\* whatever commands mccr-gtk sends: success means that the one action asked
\* for was carried out by the chosen reader, unless mccr-gtk sent to it
\* between the two halves of the call, and readers carried out nothing else.
THEOREM StatusTells == Spec => []DoneAsAsked
<1>1. Init => CInv
  BY InitC
<1>2. FInv /\ CInv /\ [Next]_vars => CInv'
  BY CStep
<1>3. CInv => DoneAsAsked
  BY DEF CInv, WayOfMain, StatusIsTrue, DoneAsAsked, OptionsFit
<1> QED BY <1>1, <1>2, <1>3, ImplementsFeatureReport, ReportInvariance, PTL DEF Spec
=============================================================================
