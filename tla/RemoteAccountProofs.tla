------------------------- MODULE RemoteAccountProofs -------------------------
(***************************************************************************)
(* Proofs about RemoteAccount: whose account requests are made of, what    *)
(* gets into the settings file, and what is taken of the documents that    *)
(* answer the requests.                                                    *)
(***************************************************************************)
EXTENDS RemoteAccount, SequenceTheorems, WellFoundedInduction, FiniteSetTheorems, TLAPS

Texts0 == Texts \cup {Missing}

-----------------------------------------------------------------------------
(* The account of operations. *)

\* While the page of an operation is there its client keeps the account the
\* operation began with; what is asked for is one of the five requests.
AccountInv ==
  /\ client \in [Clients -> Accounts \cup {Unset}]
  /\ DOMAIN op = Clients
  /\ \A p \in Clients : op[p] # None =>
       /\ op[p].account = op[p].shown /\ op[p].action \in Actions
       /\ p \in open => client[p] = op[p].shown

LEMMA AccountInvStep ==
  ASSUME AccountInv, SettingsTypeOK, [Next]_vars
  PROVE  AccountInv'
<1> USE ClientPerPage DEF AccountInv
<1>1. CASE Ends
  BY <1>1 DEF Ends
<1>2. ASSUME NEW p \in Pages, Step(p)
      PROVE  AccountInv'
  <2>1. CASE mui_page_remote_services_new(p)
    BY <2>1 DEF mui_page_remote_services_new, load_settings, service
  <2>2. CASE close_window(p)
    <3>1. CASE Ends
      BY <3>1, <1>1
    <3>2. CASE dispose(p) /\ client' = [client EXCEPT ![p] = Unset] /\ UNCHANGED op
      BY <3>2 DEF dispose, Gone
    <3> QED BY <2>2, <3>1, <3>2 DEF close_window
  <2>3. CASE write_entry(p)
    BY <2>3 DEF write_entry, Edit, service
  <2>4. CASE timeout(p)
    BY <2>4 DEF timeout, settings_store_cb, service
  <2>5. CASE begin_operation(p)
    <3>1. PICK operation \in Operations : Begin(p, operation, entries[p])
      BY <2>5 DEF begin_operation
    <3>2. entries[p] \in Accounts /\ UNCHANGED open
      BY <2>5, AccountsAreEntries DEF SettingsTypeOK, begin_operation, account
    <3>3. client' = [client EXCEPT ![p] = entries[p]] /\ client'[p] = entries[p]
      BY <3>1 DEF Begin, mui_remote_service_set_common_request_fields
    <3>4. op' = [op EXCEPT ![p] = [action |-> operation.action, for |-> operation.for,
                                   shown |-> entries[p], account |-> entries[p]]]
      BY <3>1, <3>3 DEF Begin, remote_service_http_request, common_list_request_build
    <3>5. operation.action \in Actions
      BY DEF Operations, Actions
    <3> QED BY <3>2, <3>3, <3>4, <3>5
  <2>6. CASE answer(p)
    <3>1. p \in open /\ UNCHANGED open
      BY <2>6 DEF answer, account
    <3>2. CASE Over(p)
      BY <3>1, <3>2 DEF Over
    <3>3. CASE op[p] # None /\ get_command_by_ksn(p)
      <4>1. "GetCommandByKSN" \in Actions
        BY DEF Actions
      <4> QED BY <3>1, <3>3, <4>1
              DEF get_command_by_ksn, remote_service_http_request, common_list_request_build
    <3>4. CASE op[p] # None /\ mui_processor_run_command(p)
      BY <3>1, <3>4 DEF mui_processor_run_command
    <3> QED BY <2>6, <3>2, <3>3, <3>4
            DEF answer, Answered, Asked, mui_processor_run_command_finish
  <2>7. CASE answer_too_late(p)
    <3>1. CASE Over(p) /\ UNCHANGED account
      BY <3>1 DEF Over, account
    <3> QED BY <2>7, <3>1, <1>1 DEF answer_too_late
  <2> QED BY <1>2, <2>1, <2>2, <2>3, <2>4, <2>5, <2>6, <2>7 DEF Step
<1>3. CASE UNCHANGED vars
  BY <1>3 DEF vars, account, service
<1> QED BY <1>1, <1>2, <1>3 DEF Next, quit_cb

-----------------------------------------------------------------------------
(* Saves and loads. *)

\* All that is needed of a save: the file as it was, or the whole of the keys.
LEMMA Save ==
  ASSUME NEW p \in Pages, NEW keys \in [Fields -> Texts0], SettingsTypeOK,
         g_key_file_save_to_file(p, keys)
  PROVE  /\ file' \in {file, keys}
         /\ failed' \in BOOLEAN
         /\ reasons' \in [Pages -> SUBSET Fields]
BY DEF g_key_file_save_to_file, SettingsTypeOK

\* What is stored is what the page shows.
LEMMA StoredIsShown ==
  ASSUME NEW p \in Pages, SettingsTypeOK
  PROVE  [f \in Fields |-> IF settings[p][f] # entries[p][f] THEN entries[p][f]
                           ELSE settings[p][f]] = entries[p]
BY DEF SettingsTypeOK

\* The timer's step: the key file becomes what is shown, and is saved or not.
LEMMA StoreStep ==
  ASSUME NEW p \in Pages, SettingsTypeOK, store_settings(p)
  PROVE  /\ settings' = [settings EXCEPT ![p] = entries[p]]
         /\ \/ UNCHANGED <<file, failed, reasons>>
            \/ g_key_file_save_to_file(p, entries[p])
BY StoredIsShown DEF store_settings

\* What a page that loads shows: what the file has, or the default.
LEMMA LoadedKeys ==
  ASSUME SettingsTypeOK,
         NEW found \in [Fields -> Texts0]
  PROVE  /\ with_defaults(found) \in [Fields -> Texts]
         /\ \A f \in Fields : found[f] \in {Missing, with_defaults(found)[f]}
BY TextsTyped DEF with_defaults, Texts0

LEMMA FoundTyped ==
  ASSUME SettingsTypeOK
  PROVE  (IF file = NoFile THEN NoKeys ELSE file) \in [Fields -> Texts0]
BY DEF SettingsTypeOK, NoKeys, Texts0

LEMMA TypeStep ==
  ASSUME SettingsTypeOK, [Next]_vars
  PROVE  SettingsTypeOK'
<1> USE DEF SettingsTypeOK
<1>1. ASSUME NEW pages \in SUBSET Pages, Gone(pages)
      PROVE  SettingsTypeOK'
  BY <1>1, TextsTyped DEF Gone, NoTexts, NoKeys
<1>2. CASE Ends
  BY <1>1, <1>2 DEF Ends, quit
<1>3. ASSUME NEW p \in Pages, Step(p)
      PROVE  SettingsTypeOK'
  <2>1. CASE mui_page_remote_services_new(p)
    <3>1. load_settings(p)
      BY <2>1 DEF mui_page_remote_services_new
    <3>2. CASE load_fails(p)
      <4>1. PICK read \in SUBSET Fields :
              /\ settings' = [settings EXCEPT ![p] = [f \in Fields |-> IF f \in read THEN file[f]
                                                            ELSE Missing]]
              /\ file = NoFile => read = {}
        BY <3>2 DEF load_fails
      <4>2. [f \in Fields |-> IF f \in read THEN file[f] ELSE Missing]
              \in [Fields -> Texts \cup {Missing}]
        BY <4>1
      <4> QED BY <3>1, <3>2, <4>1, <4>2 DEF load_fails, load_settings
    <3>3. CASE load_succeeds(p)
      <4> DEFINE found == IF file = NoFile THEN NoKeys ELSE file
                 keys == with_defaults(found)
      <4>1. keys \in [Fields -> Texts] /\ keys \in [Fields -> Texts0]
        BY FoundTyped, LoadedKeys DEF Texts0
      <4>2. /\ settings' = [settings EXCEPT ![p] = keys]
            /\ entries' = [entries EXCEPT ![p] = keys]
            /\ UNCHANGED <<file, failed, reasons>> \/ g_key_file_save_to_file(p, keys)
        BY <3>3 DEF load_succeeds
      <4>3. /\ file' \in {file, keys} /\ failed' \in BOOLEAN
            /\ reasons' \in [Pages -> SUBSET Fields]
        BY <4>1, <4>2, Save
      <4>4. open' \subseteq Pages /\ settings_store_id' \in [Pages -> BOOLEAN]
        BY <3>1 DEF load_settings
      <4> HIDE DEF found, keys
      <4> QED BY <4>1, <4>2, <4>3, <4>4
    <3> QED BY <3>1, <3>2, <3>3 DEF load_settings
  <2>2. CASE close_window(p)
    BY <1>1, <1>2, <2>2 DEF close_window, dispose
  <2>3. CASE write_entry(p)
    BY <2>3 DEF write_entry, Edit, settings_entry_activated
  <2>4. CASE timeout(p)
    <3>1. settings_store_cb(p)
      BY <2>4 DEF timeout
    <3>2. /\ settings' = [settings EXCEPT ![p] = entries[p]]
          /\ UNCHANGED <<file, failed, reasons>> \/ g_key_file_save_to_file(p, entries[p])
      BY <3>1, StoreStep DEF settings_store_cb
    <3>3. entries[p] \in [Fields -> Texts \cup {Missing}]
      OBVIOUS
    <3>4. /\ file' \in {file, entries[p]} /\ failed' \in BOOLEAN
          /\ reasons' \in [Pages -> SUBSET Fields]
      BY <3>2, <3>3, Save DEF Texts0
    <3>5. file' \in [Fields -> Texts \cup {Missing}] \cup {NoFile}
      BY <3>3, <3>4
    <3>6. settings' \in [Pages -> [Fields -> Texts \cup {Missing}]]
      BY <3>2, <3>3
    <3> QED BY <3>1, <3>4, <3>5, <3>6 DEF settings_store_cb
  <2>5. CASE UNCHANGED account
    BY <2>5 DEF account
  <2>6. CASE answer_too_late(p)
    BY <1>2, <2>5, <2>6 DEF answer_too_late
  <2> QED BY <1>3, <2>1, <2>2, <2>3, <2>4, <2>5, <2>6 DEF Step, begin_operation, answer
<1>4. CASE UNCHANGED vars
  BY <1>4 DEF vars, account
<1> QED BY <1>2, <1>3, <1>4 DEF Next, quit_cb

LEMMA TypeInit == Init => SettingsTypeOK
<1> SUFFICES ASSUME Init PROVE SettingsTypeOK
  OBVIOUS
<1>1. NoTexts \in [Fields -> Texts] /\ NoKeys \in [Fields -> Texts \cup {Missing}]
  BY TextsTyped DEF NoTexts, NoKeys
<1>2. file \in [Fields -> Texts \cup {Missing}] \cup {NoFile}
  BY FilesTyped DEF Init, RInit
<1> HIDE DEF NoTexts, NoKeys
<1> QED BY <1>1, <1>2 DEF Init, RInit, SettingsTypeOK

\* The settings keep their types.
THEOREM SettingsTyped == Spec => []SettingsTypeOK
BY TypeInit, TypeStep, PTL DEF Spec

\* The accounts of operations, and what they ask for, are so at all times.
LEMMA AccountInvariance == Spec => []AccountInv
<1>1. Init => AccountInv
  BY DEF Init, SInit, AccountInv
<1> QED BY <1>1, AccountInvStep, SettingsTyped, PTL DEF Spec

\* Every request of an operation is made of the account shown when it began.
THEOREM OneAccount == Spec => []AccountOfOperation
<1>1. AccountInv => AccountOfOperation
  BY DEF AccountInv, AccountOfOperation
<1> QED BY <1>1, AccountInvariance, PTL DEF Spec

-----------------------------------------------------------------------------
(* The file. *)

\* The steps that touch the file.
LEMMA FileSteps ==
  ASSUME [Next]_vars, SettingsTypeOK, file' # file
  PROVE  \E p \in Pages :
           \/ settings_store_cb(p)
           \/ load_settings(p) /\ load_succeeds(p)
<1>1. ~UNCHANGED account
  BY DEF account
<1>2. ASSUME NEW pages, Gone(pages)
      PROVE  FALSE
  BY <1>2 DEF Gone
<1>3. ~Ends
  BY <1>2 DEF Ends, quit
<1>4. PICK p \in Pages : Step(p)
  BY <1>1, <1>3 DEF Next, quit_cb, vars, account
<1>5. CASE mui_page_remote_services_new(p)
  BY <1>5 DEF mui_page_remote_services_new, load_settings, load_fails
<1>6. CASE timeout(p)
  BY <1>6 DEF timeout
<1>7. ~write_entry(p)
  BY DEF write_entry, Edit
<1>8. ~close_window(p)
  BY <1>2, <1>3 DEF close_window, dispose
<1> QED BY <1>1, <1>3, <1>4, <1>5, <1>6, <1>7, <1>8
        DEF Step, begin_operation, answer, answer_too_late

\* A page that stores has the file become what it shows.
LEMMA Stored ==
  ASSUME NEW p \in Pages, SettingsTypeOK, settings_store_cb(p), file' # file
  PROVE  /\ file' = entries[p] /\ entries' = entries /\ open' = open
         /\ g_key_file_save_to_file(p, entries[p])
<1>1. g_key_file_save_to_file(p, entries[p])
  BY StoreStep DEF settings_store_cb
<1> QED BY <1>1 DEF settings_store_cb, g_key_file_save_to_file

\* So has a page that loads, and nothing that was in the file is changed.
LEMMA Loaded ==
  ASSUME NEW p \in Pages, SettingsTypeOK, load_settings(p), load_succeeds(p), file' # file
  PROVE  /\ file' = entries'[p] /\ p \in open'
         /\ \A f \in Fields : file # NoFile => file[f] \in {Missing, file'[f]}
<1> DEFINE found == IF file = NoFile THEN NoKeys ELSE file
           keys == with_defaults(found)
<1>1. /\ entries' = [entries EXCEPT ![p] = keys]
      /\ g_key_file_save_to_file(p, keys)
  BY DEF load_succeeds
<1>2. file' = keys
  BY <1>1 DEF g_key_file_save_to_file
<1>3. \A f \in Fields : found[f] \in {Missing, keys[f]}
  BY FoundTyped, LoadedKeys
<1>4. p \in open' /\ entries'[p] = keys
  BY <1>1 DEF load_settings, SettingsTypeOK
<1> QED BY <1>2, <1>3, <1>4

\* Timers are of pages that are there, and what such a page has no reason to
\* change in the file is there as it shows it.
FileInv ==
  /\ \A p \in Pages : settings_store_id[p] => p \in open
  /\ \A p \in open, f \in Fields :
       f \notin reasons[p] /\ file # NoFile => file[f] \in {Missing, entries[p][f]}

\* A save by one page leaves the invariant to the others.
LEMMA SaveKeeps ==
  ASSUME SettingsTypeOK, FileInv, NEW p \in Pages, NEW keys \in [Fields -> Texts0],
         g_key_file_save_to_file(p, keys),
         NEW q \in open, q # p, entries'[q] = entries[q],
         NEW f \in Fields, f \notin reasons'[q], file' # NoFile
  PROVE  file'[f] \in {Missing, entries'[q][f]}
<1>1. q \in Pages
  BY DEF SettingsTypeOK
<1>2. CASE file' = file /\ reasons' = reasons
  BY <1>2 DEF FileInv
<1>3. CASE reasons' = [r \in Pages |->
                      IF r = p THEN {}
                      ELSE reasons[r] \cup {g \in Fields : r \in open /\ Changed(g)}]
  <2>1. f \notin reasons[q] /\ ~Changed(f)
    BY <1>1, <1>3
  <2> QED BY <2>1 DEF Changed, FileInv
<1> QED BY <1>2, <1>3 DEF g_key_file_save_to_file

\* The invariant after pages are gone.
LEMMA GoneKeeps ==
  ASSUME SettingsTypeOK, FileInv, NEW pages \in SUBSET Pages, Gone(pages)
  PROVE  FileInv'
BY DEF Gone, FileInv, SettingsTypeOK

LEMMA FileInvStep ==
  ASSUME SettingsTypeOK, FileInv, [Next]_vars
  PROVE  FileInv'
<1>1. CASE UNCHANGED account
  BY <1>1 DEF account, FileInv
<1>2. CASE Ends
  BY <1>2, GoneKeeps DEF Ends, quit, SettingsTypeOK
<1>3. ASSUME NEW p \in Pages, Step(p)
      PROVE  FileInv'
  <2>1. CASE mui_page_remote_services_new(p)
    <3>1. /\ load_settings(p) /\ p \notin open /\ open' = open \cup {p}
          /\ settings_store_id' = settings_store_id
      BY <2>1 DEF mui_page_remote_services_new, load_settings
    <3>2. \A q \in Pages : settings_store_id'[q] => q \in open'
      BY <3>1 DEF FileInv
    <3>3. CASE load_fails(p)
      <4>1. /\ UNCHANGED <<file, entries>> /\ reasons' = [reasons EXCEPT ![p] = Fields]
        BY <3>3 DEF load_fails
      <4> QED BY <3>1, <3>2, <4>1 DEF FileInv, SettingsTypeOK
    <3>4. CASE load_succeeds(p)
      <4> DEFINE found == IF file = NoFile THEN NoKeys ELSE file
                 keys == with_defaults(found)
      <4>1. /\ entries' = [entries EXCEPT ![p] = keys]
            /\ \/ UNCHANGED <<file, failed, reasons>>
               \/ g_key_file_save_to_file(p, keys)
        BY <3>4 DEF load_succeeds
      <4>2. /\ keys \in [Fields -> Texts] /\ keys \in [Fields -> Texts0]
            /\ \A f \in Fields : found[f] \in {Missing, keys[f]}
        BY FoundTyped, LoadedKeys DEF Texts0
      <4>3. /\ entries'[p] = keys
            /\ \A q \in open : q # p /\ entries'[q] = entries[q]
        BY <3>1, <4>1 DEF SettingsTypeOK
      <4>4. file' \in {file, keys}
        BY <4>1 DEF g_key_file_save_to_file
      <4>5. ASSUME NEW f \in Fields, file' # NoFile
            PROVE  file'[f] \in {Missing, keys[f]}
        BY <4>2, <4>4, <4>5
      <4>6. ASSUME NEW q \in open, NEW f \in Fields, f \notin reasons'[q], file' # NoFile
            PROVE  file'[f] \in {Missing, entries'[q][f]}
        <5> HIDE DEF keys
        <5>1. CASE UNCHANGED <<file, reasons>>
          BY <4>3, <4>6, <5>1 DEF FileInv
        <5>2. CASE g_key_file_save_to_file(p, keys)
          BY <4>2, <4>3, <4>6, <5>2, SaveKeeps
        <5> QED BY <4>1, <5>1, <5>2
      <4> HIDE DEF found, keys
      <4> QED BY <3>1, <3>2, <4>3, <4>5, <4>6 DEF FileInv
    <3> QED BY <3>1, <3>3, <3>4 DEF load_settings
  <2>2. CASE close_window(p)
    BY <2>2, <1>2, GoneKeeps DEF close_window, dispose
  <2>3. CASE write_entry(p)
    <3>1. PICK f \in Fields, text \in Texts : Edit(p, f, text)
      BY <2>3 DEF write_entry
    <3>2. /\ p \in open /\ UNCHANGED <<open, file>>
          /\ entries' = [entries EXCEPT ![p][f] = text]
          /\ reasons' = [reasons EXCEPT ![p] = @ \cup {f}]
          /\ settings_store_id' = [settings_store_id EXCEPT ![p] = TRUE]
      BY <3>1 DEF Edit, settings_entry_activated
    <3>3. ASSUME NEW q \in Pages, NEW g \in Fields, g \notin reasons'[q]
          PROVE  g \notin reasons[q] /\ entries'[q][g] = entries[q][g]
      BY <3>2, <3>3 DEF SettingsTypeOK
    <3>4. \A q \in Pages : settings_store_id'[q] => q \in open'
      BY <3>2 DEF FileInv, SettingsTypeOK
    <3> QED BY <3>2, <3>3, <3>4 DEF FileInv, SettingsTypeOK
  <2>4. CASE timeout(p)
    <3>1. settings_store_cb(p) /\ UNCHANGED <<open, entries>>
      BY <2>4 DEF timeout, settings_store_cb
    <3>2. \A q \in Pages : settings_store_id'[q] => q \in open'
      BY <3>1 DEF settings_store_cb, FileInv, SettingsTypeOK
    <3>3. UNCHANGED <<file, failed, reasons>> \/ g_key_file_save_to_file(p, entries[p])
      BY <3>1, StoreStep DEF settings_store_cb
    <3>4. entries[p] \in [Fields -> Texts0]
      BY DEF SettingsTypeOK, Texts0
    <3>5. CASE UNCHANGED <<file, reasons>>
      BY <3>1, <3>2, <3>5 DEF FileInv
    <3>6. CASE g_key_file_save_to_file(p, entries[p])
      <4>1. ASSUME NEW q \in open, q # p, NEW f \in Fields, f \notin reasons'[q], file' # NoFile
            PROVE  file'[f] \in {Missing, entries'[q][f]}
        BY <3>1, <3>4, <3>6, <4>1, SaveKeeps
      <4>2. ASSUME NEW f \in Fields, f \notin reasons'[p], file' # NoFile, p \in open
            PROVE  file'[f] \in {Missing, entries'[p][f]}
        <5>1. CASE UNCHANGED <<file, reasons>>
          BY <3>1, <4>2, <5>1 DEF FileInv
        <5>2. CASE file' = entries[p]
          BY <3>1, <5>2
        <5> QED BY <3>6, <5>1, <5>2 DEF g_key_file_save_to_file
      <4> QED BY <3>1, <3>2, <4>1, <4>2 DEF FileInv
    <3> QED BY <3>3, <3>5, <3>6
  <2> QED BY <1>1, <1>2, <1>3, <2>1, <2>2, <2>3, <2>4
          DEF Step, begin_operation, answer, answer_too_late
<1> QED BY <1>1, <1>2, <1>3 DEF Next, quit_cb, vars, account

LEMMA FileInvariance == Spec => [](SettingsTypeOK /\ FileInv)
<1>1. Init => FileInv
  BY DEF Init, RInit, FileInv
<1> QED BY <1>1, FileInvStep, SettingsTyped, PTL DEF Spec

\* Whatever becomes the file is what a window shows.
THEOREM FileAsShown == Spec => SavedAsShown
<1>1. SettingsTypeOK /\ FileInv /\ [Next]_vars
        => [file' # file => \E p \in open' : file' = entries'[p]]_account
  <2> SUFFICES ASSUME SettingsTypeOK, FileInv, [Next]_vars, file' # file
               PROVE  \E p \in open' : file' = entries'[p]
    OBVIOUS
  <2>1. ASSUME NEW p \in Pages, settings_store_cb(p)
        PROVE  \E q \in open' : file' = entries'[q]
    BY <2>1, Stored DEF settings_store_cb, FileInv
  <2> QED BY <2>1, FileSteps, Loaded
<1> QED BY <1>1, FileInvariance, PTL DEF Spec, SavedAsShown

\* A text in the file changes only with a reason.
THEOREM TextsStay == Spec => StoredTextsStay
<1> DEFINE Stays ==
      \A f \in Fields :
       file # NoFile /\ file' # file /\ file[f] # Missing /\ file'[f] # file[f]
         => \E p \in open : file' = entries[p] /\ f \in reasons[p]
<1>1. SettingsTypeOK /\ FileInv /\ [Next]_vars => [Stays]_account
  <2> SUFFICES ASSUME SettingsTypeOK, FileInv, [Next]_vars,
                      NEW f \in Fields,
                      file # NoFile, file' # file, file[f] # Missing, file'[f] # file[f]
               PROVE  \E p \in open : file' = entries[p] /\ f \in reasons[p]
    OBVIOUS
  <2>1. ASSUME NEW p \in Pages, settings_store_cb(p)
        PROVE  \E q \in open : file' = entries[q] /\ f \in reasons[q]
    <3>1. p \in open /\ file' = entries[p]
      BY <2>1, Stored DEF settings_store_cb, FileInv
    <3> QED BY <3>1 DEF FileInv
  <2> QED BY <2>1, FileSteps, Loaded
<1>2. Spec => [][Stays]_account
  BY <1>1, FileInvariance, PTL DEF Spec
<1> QED BY <1>2 DEF StoredTextsStay

-----------------------------------------------------------------------------
(* Induction over the natural numbers, from their order. *)

\* A set of numbers that is not empty has a least one.
LEMMA NatMin ==
  ASSUME NEW T \in SUBSET Nat, T # {}
  PROVE  \E m \in T : \A k \in T : m <= k
<1>1. \E x \in T : \A y \in T : ~ (<<y, x>> \in OpToRel(<, Nat))
  BY NatLessThanWellFounded, WFMin, Zenon
<1>2. \A x, y \in Nat : y < x => <<y, x>> \in OpToRel(<, Nat)
  BY Zenon DEF OpToRel
<1>3. PICK m \in T : \A y \in T : ~ (<<y, m>> \in OpToRel(<, Nat))
  BY <1>1, Zenon
<1>4. \A y \in T : ~(y < m)
  BY <1>2, <1>3, Zenon
<1> QED BY <1>4

\* What holds of 0 and of each number after one it holds of holds of all.
LEMMA SetInduction ==
  ASSUME NEW S, 0 \in S, \A n \in Nat : n \in S => n + 1 \in S
  PROVE  Nat \subseteq S
<1> SUFFICES ASSUME NEW n0 \in Nat, n0 \notin S PROVE FALSE
  OBVIOUS
<1>1. PICK m \in Nat \ S : \A k \in Nat \ S : m <= k
  <2>1. Nat \ S \in SUBSET Nat /\ Nat \ S # {}
    OBVIOUS
  <2> QED BY <2>1, NatMin, Zenon
<1>2. m # 0 /\ m - 1 \in Nat
  BY <1>1
<1>3. m - 1 \in S
  BY <1>1, <1>2
<1> QED BY <1>1, <1>2, <1>3

\* f begins with z, and g makes each value from the one before and its place.
Unfolds(f, z, g, n) == f[0] = z /\ \A k \in 1 .. n : f[k] = g[<<f[k - 1], k>>]

\* A recursive definition that goes from each place to the next has a value.
LEMMA PrefixRecursion ==
  ASSUME NEW n \in Nat, NEW T, NEW z \in T, NEW g \in [T \X (1 .. n) -> T]
  PROVE  \E f \in [0 .. n -> T] : Unfolds(f, z, g, n)
<1> DEFINE S == {m \in Nat : m <= n => \E f \in [0 .. m -> T] :
                   f[0] = z /\ \A k \in 1 .. m : f[k] = g[<<f[k - 1], k>>]}
<1>1. 0 \in S
  <2> DEFINE f == [k \in 0 .. 0 |-> z]
  <2>1. f \in [0 .. 0 -> T] /\ f[0] = z /\ 1 .. 0 = {}
    OBVIOUS
  <2> QED BY <2>1
<1>2. ASSUME NEW m \in Nat, m \in S PROVE m + 1 \in S
  <2> SUFFICES ASSUME m + 1 <= n
               PROVE  \E f \in [0 .. (m + 1) -> T] :
                        f[0] = z /\ \A k \in 1 .. (m + 1) : f[k] = g[<<f[k - 1], k>>]
    OBVIOUS
  <2>1. PICK f \in [0 .. m -> T] :
          f[0] = z /\ \A k \in 1 .. m : f[k] = g[<<f[k - 1], k>>]
    BY <1>2
  <2> DEFINE h == [k \in 0 .. (m + 1) |-> IF k = m + 1 THEN g[<<f[m], m + 1>>] ELSE f[k]]
  <2>2. g[<<f[m], m + 1>>] \in T
    <3>1. f[m] \in T /\ m + 1 \in 1 .. n
      BY <2>1
    <3> QED BY <3>1
  <2>3. h \in [0 .. (m + 1) -> T] /\ h[0] = z
    BY <2>1, <2>2
  <2>4. ASSUME NEW k \in 1 .. (m + 1) PROVE h[k] = g[<<h[k - 1], k>>]
    <3>1. CASE k = m + 1
      <4>1. h[m + 1] = g[<<f[m], m + 1>>] /\ h[m] = f[m]
        OBVIOUS
      <4>2. k - 1 = m
        BY <3>1
      <4> HIDE DEF h
      <4> QED BY <3>1, <4>1, <4>2
    <3>2. CASE k # m + 1
      <4>1. k \in 1 .. m /\ h[k] = f[k] /\ h[k - 1] = f[k - 1]
        BY <3>2
      <4> QED BY <2>1, <4>1
    <3> QED BY <3>1, <3>2
  <2> HIDE DEF h
  <2> QED BY <2>3, <2>4
<1> HIDE DEF S
<1>3. n \in S
  BY <1>1, <1>2, SetInduction, Zenon
<1> QED BY <1>3 DEF S, Unfolds

-----------------------------------------------------------------------------
(* What is read of an element. *)

\* The first child of that name.
FirstChild(element, n, k) ==
  /\ k \in 1 .. Len(element) /\ element[k].name = n
  /\ \A j \in 1 .. (k - 1) : element[j].name # n

\* The children of an element have places, and texts as contents.
LEMMA ElementTyped ==
  ASSUME NEW element \in Seq(Children)
  PROVE  /\ Len(element) \in Nat /\ DOMAIN element = 1 .. Len(element)
         /\ \A i \in 1 .. Len(element) : element[i].content \in STRING
<1>1. \A c \in Children : c.content \in STRING
  BY DEF Children
<1>2. \A i \in 1 .. Len(element) : element[i] \in Children
  BY ElementOfSeq
<1> QED BY <1>1, <1>2

\* Of the children of a name there is a first one.
LEMMA FirstChildExists ==
  ASSUME NEW element \in Seq(Children), NEW n,
         \E i \in 1 .. Len(element) : element[i].name = n
  PROVE  \E k : FirstChild(element, n, k)
<1> DEFINE S == {i \in 1 .. Len(element) : element[i].name = n}
<1>1. S \in SUBSET Nat /\ S # {}
  OBVIOUS
<1>2. PICK k \in S : \A i \in S : k <= i
  <2> HIDE DEF S
  <2> QED BY <1>1, NatMin
<1>3. ASSUME NEW j \in 1 .. (k - 1) PROVE element[j].name # n
  <2> SUFFICES ASSUME element[j].name = n PROVE FALSE
    OBVIOUS
  <2>1. Len(element) \in Nat
    OBVIOUS
  <2>2. k \in 1 .. Len(element)
    BY <1>2
  <2>3. j \in S
    BY <2>1, <2>2
  <2> QED BY <1>2, <2>2, <2>3
<1>4. FirstChild(element, n, k)
  BY <1>2, <1>3 DEF FirstChild
<1> QED BY <1>4

\* There is one first child of a name only.
LEMMA FirstChildUnique ==
  ASSUME NEW element, NEW n, NEW k, NEW i, FirstChild(element, n, k), FirstChild(element, n, i),
         Len(element) \in Nat
  PROVE  i = k
<1>1. k \in Nat /\ i \in Nat /\ i >= 1 /\ k >= 1
  BY DEF FirstChild
<1>2. ~(i < k)
  <2>1. i < k => i \in 1 .. (k - 1)
    BY <1>1
  <2> QED BY <2>1 DEF FirstChild
<1>3. ~(k < i)
  <2>1. k < i => k \in 1 .. (i - 1)
    BY <1>1
  <2> QED BY <2>1 DEF FirstChild
<1> QED BY <1>1, <1>2, <1>3

\* What an element says of a name is in the first child of that name.
LEMMA SaidIsFirst ==
  ASSUME NEW element \in Seq(Children), NEW n, NEW k, FirstChild(element, n, k)
  PROVE  Said(element, n) = element[k].content
<1>1. DOMAIN element = 1 .. Len(element) /\ Len(element) \in Nat
  OBVIOUS
<1>2. \A i : (i \in DOMAIN element /\ element[i].name = n
              /\ \A j \in 1 .. i - 1 : element[j].name # n) <=> FirstChild(element, n, i)
  BY <1>1 DEF FirstChild
<1> DEFINE F(i) == FirstChild(element, n, i)
<1>3. \A i : F(i) <=> i = k
  BY <1>1, FirstChildUnique
<1>4. (CHOOSE i \in DOMAIN element : /\ element[i].name = n
                                     /\ \A j \in 1 .. i - 1 : element[j].name # n) = k
  <2>1. \A i : (i \in DOMAIN element /\ element[i].name = n
                /\ \A j \in 1 .. i - 1 : element[j].name # n) <=> i = k
    BY <1>2, <1>3
  <2> QED BY <2>1
<1> QED BY <1>4 DEF Said

\* A record of contents, and the one after a child more.
Given(info, names, child) ==
  IF child.name \in names /\ info[child.name] = None
    THEN [info EXCEPT ![child.name] = child.content] ELSE info

\* What the first i children give.
ReadSoFar(info, names, element, i) ==
  \A n \in names :
    /\ (\A j \in 1 .. i : element[j].name # n) => info[n] = None
    /\ \A k : FirstChild(element, n, k) /\ k <= i => info[n] = element[k].content

\* One child more is read as it should be when those before it were.
LEMMA ReadOneMore ==
  ASSUME NEW names, NEW element \in Seq(Children), NEW i \in Nat, i + 1 <= Len(element),
         NEW info \in [names -> STRING \cup {None}], ReadSoFar(info, names, element, i)
  PROVE  /\ Given(info, names, element[i + 1]) \in [names -> STRING \cup {None}]
         /\ ReadSoFar(Given(info, names, element[i + 1]), names, element, i + 1)
<1> DEFINE c == element[i + 1]
           V == STRING \cup {None}
<1>1. PICK N \in Nat : N = Len(element)
  OBVIOUS
<1>2. c.content \in V /\ i + 1 \in 1 .. N
  BY <1>1, ElementTyped
<1> HIDE DEF V
<1>3. \A n \in names : \A k : FirstChild(element, n, k) => k \in 1 .. N /\ element[k].content # None
  BY <1>1, ElementTyped, NoneIsNoText DEF FirstChild
<1>4. CASE c.name \in names /\ info[c.name] = None
  <2> DEFINE new == [info EXCEPT ![c.name] = c.content]
  <2>1. Given(info, names, c) = new
    BY <1>4 DEF Given
  <2>2. new \in [names -> V] /\ new[c.name] = c.content
        /\ \A n \in names : n # c.name => new[n] = info[n]
    BY <1>2, <1>4 DEF V
  <2> HIDE DEF new
  <2>3. ASSUME NEW n \in names
        PROVE  /\ (\A j \in 1 .. (i + 1) : element[j].name # n) => new[n] = None
               /\ \A k : FirstChild(element, n, k) /\ k <= i + 1 => new[n] = element[k].content
    <3>1. CASE n = c.name
      <4>1. ~(\A j \in 1 .. (i + 1) : element[j].name # n)
        BY <1>2, <3>1
      <4>2. ASSUME NEW k, FirstChild(element, n, k), k <= i + 1
            PROVE  new[n] = element[k].content
        <5>1. k \in 1 .. N /\ element[k].content # None
          BY <1>3, <4>2
        <5>2. ~(k <= i)
          BY <1>4, <3>1, <4>2, <5>1 DEF ReadSoFar
        <5>3. k = i + 1
          BY <4>2, <5>1, <5>2
        <5> QED BY <2>2, <3>1, <5>3
      <4> QED BY <4>1, <4>2
    <3>2. CASE n # c.name
      <4>1. (\A j \in 1 .. (i + 1) : element[j].name # n) => info[n] = None
        <5>1. \A j \in 1 .. i : j \in 1 .. (i + 1)
          OBVIOUS
        <5> QED BY <5>1 DEF ReadSoFar
      <4>2. ASSUME NEW k, FirstChild(element, n, k), k <= i + 1
            PROVE  info[n] = element[k].content
        <5>1. k \in 1 .. N /\ k # i + 1
          BY <1>3, <3>2, <4>2 DEF FirstChild
        <5>2. k <= i
          BY <4>2, <5>1
        <5> QED BY <4>2, <5>2 DEF ReadSoFar
      <4> QED BY <2>2, <3>2, <4>1, <4>2
    <3> QED BY <3>1, <3>2
  <2> QED BY <2>1, <2>2, <2>3 DEF ReadSoFar, V
<1>5. CASE ~(c.name \in names /\ info[c.name] = None)
  <2>1. Given(info, names, c) = info
    BY <1>5 DEF Given
  <2>2. ASSUME NEW n \in names
        PROVE  /\ (\A j \in 1 .. (i + 1) : element[j].name # n) => info[n] = None
               /\ \A k : FirstChild(element, n, k) /\ k <= i + 1 => info[n] = element[k].content
    <3>1. \A j \in 1 .. i : j \in 1 .. (i + 1)
      OBVIOUS
    <3>2. (\A j \in 1 .. (i + 1) : element[j].name # n) => info[n] = None
      BY <3>1 DEF ReadSoFar
    <3>3. ASSUME NEW k, FirstChild(element, n, k), k <= i + 1
          PROVE  info[n] = element[k].content
      <4>1. k \in 1 .. N
        BY <1>3, <3>3
      <4>2. k # i + 1
        <5> SUFFICES ASSUME k = i + 1 PROVE FALSE
          OBVIOUS
        <5>1. c.name = n /\ info[n] # None
          BY <1>5, <3>3 DEF FirstChild
        <5>2. \A j \in 1 .. i : element[j].name # n
          <6>1. (i + 1) - 1 = i
            OBVIOUS
          <6> QED BY <3>3, <6>1 DEF FirstChild
        <5> QED BY <5>1, <5>2 DEF ReadSoFar
      <4>3. k <= i
        BY <3>3, <4>1, <4>2
      <4> QED BY <3>3, <4>3 DEF ReadSoFar
    <3> QED BY <3>2, <3>3
  <2> QED BY <2>1, <2>2 DEF ReadSoFar
<1> QED BY <1>4, <1>5

HasChild(element, n) == \E i \in 1 .. Len(element) : element[i].name = n

\* What child_contents() returns: of each name what the first child of that
\* name says.
LEMMA ChildContents ==
  ASSUME NEW names, NEW element \in Seq(Children), NEW n \in names
  PROVE  /\ HasChild(element, n) => child_contents(names, element)[n] = Said(element, n)
         /\ ~ HasChild(element, n) => child_contents(names, element)[n] = None
<1> DEFINE N == Len(element)
           V == STRING \cup {None}
           T == [names -> V]
           z == [m \in names |-> None]
           g == [x \in T \X (1 .. N) |-> Given(x[1], names, element[x[2]])]
           P(f) == f = [i \in 0 .. N |->
                          IF i = 0 THEN z
                          ELSE IF element[i].name \in names /\ f[i - 1][element[i].name] = None
                            THEN [f[i - 1] EXCEPT ![element[i].name] = element[i].content]
                            ELSE f[i - 1]]
<1>1. N \in Nat
  OBVIOUS
<1>2. \A i \in 1 .. N : element[i].content \in V
  BY ElementTyped
<1> HIDE DEF V
<1>3. z \in T
  BY DEF V
<1>4. g \in [T \X (1 .. N) -> T]
  <2>1. ASSUME NEW info \in T, NEW i \in 1 .. N PROVE Given(info, names, element[i]) \in T
    BY <1>2 DEF Given
  <2> HIDE DEF T
  <2>2. \A x \in T \X (1 .. N) : Given(x[1], names, element[x[2]]) \in T
    BY <2>1
  <2> QED BY <2>2
<1>5. PICK f \in [0 .. N -> T] : Unfolds(f, z, g, N)
  <2> HIDE DEF g, N, T, z
  <2> QED BY <1>1, <1>3, <1>4, PrefixRecursion, Zenon
<1>6. f[0] = z /\ \A i \in 1 .. N : f[i] = Given(f[i - 1], names, element[i])
  <2>1. f[0] = z
    BY <1>5 DEF Unfolds
  <2>2. ASSUME NEW i \in 1 .. N PROVE f[i] = Given(f[i - 1], names, element[i])
    <3> HIDE DEF T
    <3>1. f[i - 1] \in T
      <4>1. i - 1 \in 0 .. N
        BY <1>1
      <4> QED BY <4>1
    <3>2. f[i] = g[<<f[i - 1], i>>]
      BY <1>5 DEF Unfolds
    <3> QED BY <3>1, <3>2
  <2> QED BY <2>1, <2>2
<1>7. P(f)
  <2> HIDE DEF g, z
  <2>1. \A i \in 0 .. N : i # 0 => i \in 1 .. N
    BY <1>1
  <2> QED BY <1>6, <2>1 DEF Given
<1>8. PICK B : P(B) /\ child_contents(names, element) = B[N]
  <2>1. child_contents(names, element) = (CHOOSE b : P(b))[N]
    BY DEF child_contents
  <2> HIDE DEF P
  <2>2. P(CHOOSE b : P(b))
    BY <1>7, Zenon
  <2> QED BY <2>1, <2>2
<1>9. B[0] = z /\ \A i \in 1 .. N : B[i] = Given(B[i - 1], names, element[i])
  <2> HIDE DEF z
  <2>1. 0 \in 0 .. N /\ \A i \in 1 .. N : i \in 0 .. N /\ i # 0
    BY <1>1
  <2> QED BY <1>8, <2>1 DEF Given
<1> HIDE DEF P
<1> DEFINE S == {i \in Nat : i <= N => B[i] \in T /\ ReadSoFar(B[i], names, element, i)}
<1>10. 0 \in S
  <2>1. ReadSoFar(z, names, element, 0)
    <3>1. \A k, m : FirstChild(element, m, k) => ~(k <= 0)
      BY <1>1 DEF FirstChild
    <3> QED BY <3>1 DEF ReadSoFar
  <2> QED BY <1>3, <1>9, <2>1
<1>11. ASSUME NEW i \in Nat, i \in S PROVE i + 1 \in S
  <2> SUFFICES ASSUME i + 1 <= N
               PROVE  B[i + 1] \in T /\ ReadSoFar(B[i + 1], names, element, i + 1)
    OBVIOUS
  <2>1. B[i] \in T /\ ReadSoFar(B[i], names, element, i)
    BY <1>1, <1>11
  <2>2. B[i + 1] = Given(B[i], names, element[i + 1])
    <3>1. i + 1 \in 1 .. N /\ (i + 1) - 1 = i
      BY <1>1
    <3> QED BY <1>9, <3>1
  <2>3. B[i] \in [names -> STRING \cup {None}]
    BY <2>1 DEF V
  <2>4. Given(B[i], names, element[i + 1]) \in [names -> STRING \cup {None}]
    BY <2>1, <2>3, ReadOneMore
  <2>5. ReadSoFar(Given(B[i], names, element[i + 1]), names, element, i + 1)
    BY <2>1, <2>3, ReadOneMore
  <2> QED BY <2>2, <2>4, <2>5 DEF V
<1> HIDE DEF S
<1>12. N \in S
  <2>1. Nat \subseteq S
    BY <1>10, <1>11, SetInduction, Zenon
  <2> QED BY <1>1, <2>1
<1>13. ReadSoFar(B[N], names, element, N)
  BY <1>1, <1>12 DEF S
<1>14. ASSUME HasChild(element, n) PROVE child_contents(names, element)[n] = Said(element, n)
  <2>1. PICK k : FirstChild(element, n, k)
    BY <1>14, FirstChildExists DEF HasChild
  <2>2. k <= N
    BY <1>1, <2>1 DEF FirstChild
  <2>3. B[N][n] = element[k].content
    BY <1>13, <2>1, <2>2 DEF ReadSoFar
  <2>4. Said(element, n) = element[k].content
    BY <2>1, SaidIsFirst
  <2> QED BY <1>8, <2>3, <2>4
<1>15. ASSUME ~ HasChild(element, n) PROVE child_contents(names, element)[n] = None
  <2>1. B[N][n] = None
    BY <1>13, <1>15 DEF ReadSoFar, HasChild
  <2> QED BY <1>8, <2>1
<1> QED BY <1>14, <1>15

\* What a child says is a text.
LEMMA SaidIsText ==
  ASSUME NEW element \in Seq(Children), NEW n, HasChild(element, n)
  PROVE  Said(element, n) # None
<1>1. PICK k : FirstChild(element, n, k)
  BY FirstChildExists DEF HasChild
<1>2. Said(element, n) = element[k].content /\ k \in 1 .. Len(element)
  BY <1>1, SaidIsFirst DEF FirstChild
<1> QED BY <1>2, ElementTyped, NoneIsNoText

-----------------------------------------------------------------------------
(* What is kept of a document. *)

\* K lists the elements with a place in C, in order; pos tells their places.
Listed(K, pos, C, infos) ==
  /\ pos \in [1 .. Len(K) -> C]
  /\ \A c \in C : \E k \in 1 .. Len(K) : pos[k] = c
  /\ \A j, k \in 1 .. Len(K) : j < k => pos[j] < pos[k]
  /\ \A k \in 1 .. Len(K) : K[k] = infos[pos[k]]

\* One element more is kept.
LEMMA ListedMore ==
  ASSUME NEW T, NEW K \in Seq(T), NEW pos, NEW C \in SUBSET Nat, NEW infos, Listed(K, pos, C, infos),
         NEW i \in Nat, \A c \in C : c < i, infos[i] \in T
  PROVE  \E new : Listed(Append(K, infos[i]), new, C \cup {i}, infos)
<1>1. PICK m \in Nat : m = Len(K)
  OBVIOUS
<1> DEFINE A == Append(K, infos[i])
           new == [k \in 1 .. (m + 1) |-> IF k = m + 1 THEN i ELSE pos[k]]
<1>2. Len(A) = m + 1 /\ A[m + 1] = infos[i] /\ \A k \in 1 .. m : A[k] = K[k]
  BY <1>1, AppendProperties
<1> HIDE DEF A
<1>3. pos \in [1 .. m -> C]
  BY <1>1 DEF Listed
<1>4. new[m + 1] = i /\ \A k \in 1 .. m : new[k] = pos[k]
  OBVIOUS
<1>5. new \in [1 .. (m + 1) -> C \cup {i}]
  <2>1. \A k \in 1 .. (m + 1) : k # m + 1 => k \in 1 .. m
    OBVIOUS
  <2> QED BY <1>3, <2>1
<1> HIDE DEF new
<1>6. ASSUME NEW c \in C \cup {i} PROVE \E k \in 1 .. (m + 1) : new[k] = c
  <2>1. CASE c = i
    <3>1. m + 1 \in 1 .. (m + 1)
      OBVIOUS
    <3> QED BY <1>4, <2>1, <3>1
  <2>2. CASE c \in C
    <3>1. PICK k \in 1 .. m : pos[k] = c
      BY <1>1, <2>2 DEF Listed
    <3>2. k \in 1 .. (m + 1)
      BY <3>1
    <3> QED BY <1>4, <3>1, <3>2
  <2> QED BY <2>1, <2>2
<1>7. ASSUME NEW j \in 1 .. (m + 1), NEW k \in 1 .. (m + 1), j < k PROVE new[j] < new[k]
  <2>1. j \in 1 .. m
    BY <1>7
  <2>2. new[j] = pos[j] /\ pos[j] \in C
    BY <1>3, <1>4, <2>1
  <2>3. CASE k = m + 1
    BY <1>4, <2>2, <2>3
  <2>4. CASE k # m + 1
    <3>1. k \in 1 .. m
      BY <2>4
    <3>2. pos[j] < pos[k]
      BY <1>1, <1>7, <2>1, <3>1 DEF Listed
    <3> QED BY <1>4, <2>2, <3>1, <3>2
  <2> QED BY <2>3, <2>4
<1>8. ASSUME NEW k \in 1 .. (m + 1) PROVE A[k] = infos[new[k]]
  <2>1. CASE k = m + 1
    BY <1>2, <1>4, <2>1
  <2>2. CASE k # m + 1
    <3>1. k \in 1 .. m
      BY <2>2
    <3>2. K[k] = infos[pos[k]]
      BY <1>1, <3>1 DEF Listed
    <3> QED BY <1>2, <1>4, <3>1, <3>2
  <2> QED BY <2>1, <2>2
<1>9. Listed(A, new, C \cup {i}, infos)
  BY <1>2, <1>5, <1>6, <1>7, <1>8 DEF Listed
<1> QED BY <1>9 DEF A

\* Of the first N elements those with a place in C are kept.
Builds(a, infos, C, N) ==
  /\ a[0] = <<>>
  /\ \A i \in 1 .. N : a[i] = IF i \in C THEN Append(a[i - 1], infos[i]) ELSE a[i - 1]

Upto(C, i) == {c \in C : c <= i}

\* No place comes before the first, none after the last.
LEMMA UptoStarts ==
  ASSUME NEW N \in Nat, NEW C, \A c \in C : c \in 1 .. N
  PROVE  Upto(C, 0) = {} /\ Upto(C, N) = C
BY DEF Upto

\* One place more is added when it is kept.
LEMMA UptoMore ==
  ASSUME NEW N \in Nat, NEW C, \A c \in C : c \in 1 .. N, NEW i \in Nat
  PROVE  /\ Upto(C, i) \in SUBSET Nat /\ \A c \in Upto(C, i) : c < i + 1
         /\ i + 1 \in C => Upto(C, i + 1) = Upto(C, i) \cup {i + 1}
         /\ i + 1 \notin C => Upto(C, i + 1) = Upto(C, i)
BY DEF Upto

\* The array that is built lists the elements that are kept, in order.
LEMMA ListedArray ==
  ASSUME NEW N \in Nat, NEW T, NEW infos, \A i \in 1 .. N : infos[i] \in T,
         NEW C, C \subseteq 1 .. N, NEW a, Builds(a, infos, C, N)
  PROVE  a[N] \in Seq(T) /\ \E pos : Listed(a[N], pos, C, infos)
<1> DEFINE S == {i \in Nat : i <= N =>
                   a[i] \in Seq(T) /\ \E pos : Listed(a[i], pos, Upto(C, i), infos)}
<1>0. \A c \in C : c \in 1 .. N
  OBVIOUS
<1>1. 0 \in S
  <2>1. Upto(C, 0) = {}
    BY <1>0, UptoStarts
  <2>2. <<>> \in Seq(T) /\ Len(<<>>) = 0 /\ 1 .. 0 = {} /\ a[0] = <<>>
    BY DEF Builds
  <2>3. \E pos : pos \in [{} -> {}]
    <3>1. [k \in {} |-> k] \in [{} -> {}]
      OBVIOUS
    <3> QED BY <3>1
  <2>4. \E pos : Listed(<<>>, pos, {}, infos)
    BY <2>2, <2>3 DEF Listed
  <2> QED BY <2>1, <2>2, <2>4
<1>2. ASSUME NEW i \in Nat, i \in S PROVE i + 1 \in S
  <2> SUFFICES ASSUME i + 1 <= N
               PROVE  a[i + 1] \in Seq(T) /\ \E pos : Listed(a[i + 1], pos, Upto(C, i + 1), infos)
    OBVIOUS
  <2>1. a[i] \in Seq(T) /\ \E pos : Listed(a[i], pos, Upto(C, i), infos)
    BY <1>2
  <2>2. i + 1 \in 1 .. N /\ (i + 1) - 1 = i
    OBVIOUS
  <2>3. CASE i + 1 \in C
    <3>1. a[i + 1] = Append(a[i], infos[i + 1])
      BY <2>2, <2>3 DEF Builds
    <3>2. infos[i + 1] \in T
      BY <2>2
    <3>3. Upto(C, i + 1) = Upto(C, i) \cup {i + 1}
      BY <1>0, <2>3, UptoMore
    <3>4. Upto(C, i) \in SUBSET Nat /\ \A c \in Upto(C, i) : c < i + 1
      BY <1>0, UptoMore
    <3>5. PICK pos : Listed(a[i], pos, Upto(C, i), infos)
      BY <2>1
    <3>6. \E new : Listed(Append(a[i], infos[i + 1]), new, Upto(C, i) \cup {i + 1}, infos)
      <4>1. i + 1 \in Nat
        OBVIOUS
      <4> QED BY <2>1, <3>2, <3>4, <3>5, <4>1, ListedMore
    <3>7. Append(a[i], infos[i + 1]) \in Seq(T)
      BY <2>1, <3>2, AppendProperties
    <3> QED BY <3>1, <3>3, <3>6, <3>7
  <2>4. CASE i + 1 \notin C
    <3>1. a[i + 1] = a[i]
      BY <2>2, <2>4 DEF Builds
    <3>2. Upto(C, i + 1) = Upto(C, i)
      BY <1>0, <2>4, UptoMore
    <3> QED BY <2>1, <3>1, <3>2
  <2> QED BY <2>3, <2>4
<1> HIDE DEF S
<1>3. N \in S
  <2>1. Nat \subseteq S
    BY <1>1, <1>2, SetInduction, Zenon
  <2> QED BY <2>1
<1>4. Upto(C, N) = C
  BY <1>0, UptoStarts
<1> QED BY <1>3, <1>4 DEF S

\* The elements that have children of all the needed names, in order.
Kept(elements, needed) ==
  {i \in 1 .. Len(elements) : Complete(elements[i], needed)}

\* complete_elements() keeps those that have all that is needed.
LEMMA CompleteElements ==
  ASSUME NEW names, NEW needed \in SUBSET names, NEW elements \in Seq(Seq(Children)),
         NEW K, K = complete_elements(names, needed, elements),
         NEW infos, infos = [i \in 1 .. Len(elements) |-> child_contents(names, elements[i])]
  PROVE  /\ \E T : K \in Seq(T)
         /\ \E pos : Listed(K, pos, Kept(elements, needed), infos)
<1> DEFINE N == Len(elements)
           C == {i \in 1 .. N : \A n \in needed : infos[i][n] # None}
           T == {infos[i] : i \in 1 .. N}
           g == [x \in Seq(T) \X (1 .. N) |->
                   IF x[2] \in C THEN Append(x[1], infos[x[2]]) ELSE x[1]]
           P(f) == f = [i \in 0 .. N |->
                          IF i = 0 THEN <<>>
                          ELSE IF \A n \in needed : child_contents(names, elements[i])[n] # None
                            THEN Append(f[i - 1], child_contents(names, elements[i]))
                            ELSE f[i - 1]]
<1>1. N \in Nat /\ <<>> \in Seq(T) /\ \A i \in 1 .. N : infos[i] \in T
  OBVIOUS
<1>2. \A i \in 1 .. N : infos[i] = child_contents(names, elements[i])
  OBVIOUS
<1>3. \A i \in 1 .. N : i \in C <=> \A n \in needed : child_contents(names, elements[i])[n] # None
  BY <1>2
<1>4. C \subseteq 1 .. N
  OBVIOUS
<1> HIDE DEF C, T
<1>5. g \in [Seq(T) \X (1 .. N) -> Seq(T)]
  <2>1. \A x \in Seq(T) \X (1 .. N) :
          (IF x[2] \in C THEN Append(x[1], infos[x[2]]) ELSE x[1]) \in Seq(T)
    BY <1>1, AppendProperties
  <2> QED BY <2>1
<1>6. PICK f \in [0 .. N -> Seq(T)] : Unfolds(f, <<>>, g, N)
  <2> HIDE DEF g, N
  <2> QED BY <1>1, <1>5, PrefixRecursion, Zenon
<1>7. f[0] = <<>> /\ \A i \in 1 .. N : f[i] = IF i \in C THEN Append(f[i - 1], infos[i]) ELSE f[i - 1]
  <2>1. f[0] = <<>>
    BY <1>6 DEF Unfolds
  <2>2. ASSUME NEW i \in 1 .. N
        PROVE  f[i] = IF i \in C THEN Append(f[i - 1], infos[i]) ELSE f[i - 1]
    <3>1. f[i - 1] \in Seq(T)
      <4>1. i - 1 \in 0 .. N
        BY <1>1
      <4> QED BY <4>1
    <3>2. f[i] = g[<<f[i - 1], i>>]
      BY <1>6 DEF Unfolds
    <3> QED BY <3>1, <3>2
  <2> QED BY <2>1, <2>2
<1>8. P(f)
  <2> HIDE DEF g
  <2>1. \A i \in 0 .. N : i # 0 => i \in 1 .. N
    BY <1>1
  <2> QED BY <1>2, <1>3, <1>7, <2>1
<1>9. PICK B : P(B) /\ complete_elements(names, needed, elements) = B[N]
  <2>1. complete_elements(names, needed, elements) = (CHOOSE b : P(b))[N]
    BY DEF complete_elements
  <2> HIDE DEF P
  <2>2. P(CHOOSE b : P(b))
    BY <1>8, Zenon
  <2> QED BY <2>1, <2>2
<1>10. B[0] = <<>> /\ \A i \in 1 .. N : B[i] = IF i \in C THEN Append(B[i - 1], infos[i]) ELSE B[i - 1]
  <2>1. 0 \in 0 .. N /\ \A i \in 1 .. N : i \in 0 .. N /\ i # 0
    BY <1>1
  <2> QED BY <1>2, <1>3, <1>9, <2>1
<1> HIDE DEF P
<1>11. B[N] \in Seq(T) /\ \E pos : Listed(B[N], pos, C, infos)
  <2>1. Builds(B, infos, C, N)
    BY <1>10 DEF Builds
  <2> HIDE DEF N
  <2>2. B[N] \in Seq(T)
    BY <1>1, <1>4, <2>1, ListedArray
  <2>3. \E pos : Listed(B[N], pos, C, infos)
    BY <1>1, <1>4, <2>1, ListedArray
  <2> QED BY <2>2, <2>3
<1>12. C = Kept(elements, needed)
  <2>1. ASSUME NEW i \in 1 .. N PROVE i \in C <=> Complete(elements[i], needed)
    <3>1. elements[i] \in Seq(Children) /\ DOMAIN elements[i] = 1 .. Len(elements[i])
      BY ElementOfSeq, ElementTyped
    <3>2. ASSUME NEW n \in needed
          PROVE  child_contents(names, elements[i])[n] # None <=> HasChild(elements[i], n)
      <4>1. n \in names
        OBVIOUS
      <4>2. HasChild(elements[i], n) => Said(elements[i], n) # None
        BY <3>1, SaidIsText
      <4> QED BY <3>1, <4>1, <4>2, ChildContents
    <3> QED BY <1>3, <3>1, <3>2 DEF Complete, HasChild
  <2> QED BY <1>4, <2>1 DEF Kept
<1> QED BY <1>9, <1>11, <1>12

-----------------------------------------------------------------------------
(* Least, greatest, and how many. *)

\* Min() of numbers is one of them, and none is less.
LEMMA MinOf ==
  ASSUME NEW S \in SUBSET Nat, S # {}
  PROVE  Min(S) \in S /\ \A y \in S : Min(S) <= y
<1>1. \E m \in S : \A y \in S : m <= y
  BY NatMin
<1> QED BY <1>1 DEF Min

\* The one that is not more than any of them is Min().
LEMMA MinIs ==
  ASSUME NEW S \in SUBSET Nat, NEW x \in S, \A y \in S : x <= y
  PROVE  Min(S) = x
<1>1. Min(S) \in S /\ Min(S) <= x
  BY MinOf
<1>2. Min(S) \in Nat /\ x \in Nat /\ x <= Min(S)
  BY <1>1
<1> QED BY <1>1, <1>2

\* The one that is not less than any of them is Max().
LEMMA MaxIs ==
  ASSUME NEW S \in SUBSET Nat, NEW x \in S, \A y \in S : y <= x
  PROVE  Max(S) = x
<1>1. \A y \in S : x >= y
  OBVIOUS
<1>2. Max(S) \in S /\ \A y \in S : Max(S) >= y
  BY <1>1 DEF Max
<1>3. Max(S) \in Nat /\ x \in Nat /\ x <= Max(S) /\ Max(S) <= x
  BY <1>1, <1>2
<1> QED BY <1>3

\* The list is as long as the set it lists is large.
LEMMA ListedCount ==
  ASSUME NEW K, NEW m \in Nat, m = Len(K), NEW C \in SUBSET Nat, NEW pos, NEW infos,
         Listed(K, pos, C, infos)
  PROVE  Cardinality(C) = m
<1>1. pos \in [1 .. m -> C] /\ \A c \in C : \E k \in 1 .. m : pos[k] = c
  BY DEF Listed
<1>2. ASSUME NEW j \in 1 .. m, NEW k \in 1 .. m, pos[j] = pos[k] PROVE j = k
  <2>1. pos[j] \in Nat /\ pos[k] \in Nat
    BY <1>1
  <2>2. ~(j < k) /\ ~(k < j)
    BY <1>2, <2>1 DEF Listed
  <2> QED BY <2>2
<1>3. ExistsBijection(1 .. m, C)
  <2>1. pos \in Bijection(1 .. m, C)
    BY <1>1, <1>2 DEF Bijection, Injection, Surjection, IsInjective
  <2> QED BY <2>1 DEF ExistsBijection
<1>4. IsFiniteSet(1 .. m) /\ Cardinality(1 .. m) = m
  <2>1. 1 \in Int /\ m \in Int /\ (IF 1 > m THEN 0 ELSE m - 1 + 1) = m
    OBVIOUS
  <2>2. IsFiniteSet(1 .. m) /\ Cardinality(1 .. m) = IF 1 > m THEN 0 ELSE m - 1 + 1
    BY <2>1, FS_Interval, Zenon
  <2> QED BY <2>1, <2>2
<1> QED BY <1>3, <1>4, FS_Bijection

-----------------------------------------------------------------------------
(* The list that is read of a document. *)

\* K has what the children of the elements with a place in C say, in order.
Reads(K, m, pos, C, names, elements) ==
  /\ m \in Nat /\ Len(K) = m /\ DOMAIN K = 1 .. m /\ Cardinality(C) = m
  /\ pos \in [1 .. m -> C]
  /\ \A c \in C : \E k \in 1 .. m : pos[k] = c
  /\ \A j, k \in 1 .. m : j < k => pos[j] < pos[k]
  /\ \A k \in 1 .. m, n \in names :
       /\ HasChild(elements[pos[k]], n) => K[k][n] = Said(elements[pos[k]], n)
       /\ ~ HasChild(elements[pos[k]], n) => K[k][n] = None

\* complete_elements() reads the elements with a place in Kept().
LEMMA ElementsRead ==
  ASSUME NEW names, NEW needed \in SUBSET names, NEW elements \in Seq(Seq(Children)),
         NEW K, K = complete_elements(names, needed, elements)
  PROVE  \E m, pos : Reads(K, m, pos, Kept(elements, needed), names, elements)
<1> DEFINE infos == [i \in 1 .. Len(elements) |-> child_contents(names, elements[i])]
           C == Kept(elements, needed)
<1>1. \E T : K \in Seq(T)
  BY CompleteElements
<1>2. PICK pos : Listed(K, pos, C, infos)
  BY CompleteElements
<1>3. PICK m \in Nat : m = Len(K) /\ DOMAIN K = 1 .. m
  BY <1>1
<1>4. C \in SUBSET Nat /\ \A c \in C : c \in 1 .. Len(elements)
  BY DEF Kept
<1>5. \A c \in C : infos[c] = child_contents(names, elements[c]) /\ elements[c] \in Seq(Children)
  BY <1>4, ElementOfSeq
<1> HIDE DEF infos, C
<1>6. Cardinality(C) = m
  BY <1>2, <1>3, <1>4, ListedCount
<1>7. ASSUME NEW k \in 1 .. m, NEW n \in names
      PROVE  /\ HasChild(elements[pos[k]], n) => K[k][n] = Said(elements[pos[k]], n)
             /\ ~ HasChild(elements[pos[k]], n) => K[k][n] = None
  <2>1. pos[k] \in C /\ K[k] = infos[pos[k]]
    BY <1>2, <1>3 DEF Listed
  <2>2. K[k] = child_contents(names, elements[pos[k]]) /\ elements[pos[k]] \in Seq(Children)
    BY <1>5, <2>1
  <2> QED BY <2>2, ChildContents
<1>8. Reads(K, m, pos, C, names, elements)
  BY <1>2, <1>3, <1>6, <1>7 DEF Reads, Listed
<1> QED BY <1>8 DEF C

\* Of no elements nothing is read.
LEMMA NothingRead ==
  ASSUME NEW names, NEW needed \in SUBSET names
  PROVE  /\ Len(complete_elements(names, needed, <<>>)) = 0
         /\ DOMAIN complete_elements(names, needed, <<>>) = {}
<1> DEFINE K == complete_elements(names, needed, <<>>)
<1>1. Kept(<<>>, needed) = {} /\ <<>> \in Seq(Seq(Children))
  BY DEF Kept
<1>2. PICK m, pos : Reads(K, m, pos, Kept(<<>>, needed), names, <<>>)
  BY <1>1, ElementsRead
<1> HIDE DEF K
<1>3. m = 0
  BY <1>1, <1>2, FS_EmptySet DEF Reads
<1> QED BY <1>2, <1>3 DEF Reads, K

\* The list begins with the least place and ends with the greatest.
LEMMA ReadsEnds ==
  ASSUME NEW K, NEW m, NEW pos, NEW C \in SUBSET Nat, NEW names, NEW elements,
         Reads(K, m, pos, C, names, elements), m # 0
  PROVE  /\ 1 \in 1 .. m /\ m \in 1 .. m
         /\ pos[1] = Min(C) /\ pos[m] = Max(C)
<1>1. m \in Nat /\ 1 \in 1 .. m /\ m \in 1 .. m /\ pos \in [1 .. m -> C]
  BY DEF Reads
<1>2. ASSUME NEW c \in C PROVE pos[1] <= c /\ c <= pos[m]
  <2>1. PICK k \in 1 .. m : pos[k] = c
    BY DEF Reads
  <2>2. pos[1] \in Nat /\ pos[m] \in Nat /\ c \in Nat
    BY <1>1
  <2>3. k # 1 => pos[1] < c
    BY <1>1, <2>1 DEF Reads
  <2>4. k # m => c < pos[m]
    BY <1>1, <2>1 DEF Reads
  <2> QED BY <2>1, <2>2, <2>3, <2>4
<1>3. pos[1] \in C /\ pos[m] \in C
  BY <1>1
<1>4. pos[1] = Min(C)
  BY <1>2, <1>3, MinIs
<1>5. pos[m] = Max(C)
  BY <1>2, <1>3, MaxIs
<1> QED BY <1>1, <1>4, <1>5

-----------------------------------------------------------------------------
(* What is taken is what the document is worth. *)

\* The complete elements, in the words of Worth().
LEMMA KeptIsComplete ==
  ASSUME NEW elements \in Seq(Seq(Children)), NEW needed
  PROVE  /\ {i \in DOMAIN elements : Complete(elements[i], needed)} = Kept(elements, needed)
         /\ Kept(elements, needed) \in SUBSET Nat
         /\ \A i \in Kept(elements, needed), n \in needed : HasChild(elements[i], n)
         /\ \A i \in Kept(elements, needed) : \A n :
              Complete(elements[i], {n}) <=> HasChild(elements[i], n)
<1>1. DOMAIN elements = 1 .. Len(elements) /\ Len(elements) \in Nat
  OBVIOUS
<1>2. \A i \in Kept(elements, needed) : DOMAIN elements[i] = 1 .. Len(elements[i])
  BY <1>1, ElementOfSeq DEF Kept
<1>3. \A i \in Kept(elements, needed) : Complete(elements[i], needed)
  BY DEF Kept
<1>4. ASSUME NEW i \in Kept(elements, needed)
      PROVE  \A n : Complete(elements[i], {n}) <=> HasChild(elements[i], n)
  BY <1>2 DEF Complete, HasChild
<1>5. ASSUME NEW i \in Kept(elements, needed), NEW n \in needed
      PROVE  HasChild(elements[i], n)
  BY <1>2, <1>3 DEF Complete, HasChild
<1>6. {i \in DOMAIN elements : Complete(elements[i], needed)} = Kept(elements, needed)
  BY <1>1 DEF Kept
<1>7. Kept(elements, needed) \in SUBSET Nat
  BY <1>1 DEF Kept
<1> QED BY <1>4, <1>5, <1>6, <1>7

\* The value of the one command.
LEMMA OneCommand ==
  ASSUME NEW elements \in Seq(Seq(Children)), NEW C, C = Kept(elements, {"Name", "Value"}),
         NEW K, K = common_command_info_build_array(elements)
  PROVE  run_command_received(K) =
           IF Cardinality(C) = 1 THEN Said(elements[Min(C)], "Value") ELSE None
<1>1. {"Name", "Value"} \in SUBSET CommandNames /\ "Value" \in CommandNames
  BY DEF CommandNames
<1>2. PICK m, pos : Reads(K, m, pos, C, CommandNames, elements)
  BY <1>1, ElementsRead DEF common_command_info_build_array
<1>3. C \in SUBSET Nat /\ \A i \in C : HasChild(elements[i], "Value")
  BY KeptIsComplete
<1>4. Len(K) = m /\ Cardinality(C) = m
  BY <1>2 DEF Reads
<1>5. ASSUME m = 1 PROVE K[1]["Value"] = Said(elements[Min(C)], "Value")
  <2>1. 1 \in 1 .. m /\ pos[1] = Min(C)
    BY <1>2, <1>3, <1>5, ReadsEnds
  <2>2. pos[1] \in C
    BY <1>2, <2>1 DEF Reads
  <2> QED BY <1>1, <1>2, <1>3, <2>1, <2>2 DEF Reads
<1> QED BY <1>4, <1>5 DEF run_command_received

\* The command before the check value.
LEMMA LoadCommand ==
  ASSUME NEW elements \in Seq(Seq(Children)), NEW C, C = Kept(elements, {"Name", "Value"}),
         NEW K, K = common_command_info_build_array(elements)
  PROVE  get_key_load_command_ready(K) =
           IF /\ Cardinality(C) = 2
              /\ Said(elements[Min(C)], "Name") = "ChangeKey"
              /\ Said(elements[Max(C)], "Name") = "KCV"
             THEN Said(elements[Min(C)], "Value") ELSE None
<1>1. {"Name", "Value"} \in SUBSET CommandNames /\ "Value" \in CommandNames /\ "Name" \in CommandNames
  BY DEF CommandNames
<1>2. PICK m, pos : Reads(K, m, pos, C, CommandNames, elements)
  BY <1>1, ElementsRead DEF common_command_info_build_array
<1>3. C \in SUBSET Nat /\ \A i \in C : HasChild(elements[i], "Value") /\ HasChild(elements[i], "Name")
  BY KeptIsComplete
<1>4. Len(K) = m /\ Cardinality(C) = m
  BY <1>2 DEF Reads
<1>5. ASSUME m = 2
      PROVE  /\ K[1]["Value"] = Said(elements[Min(C)], "Value")
             /\ K[1]["Name"] = Said(elements[Min(C)], "Name")
             /\ K[2]["Name"] = Said(elements[Max(C)], "Name")
  <2>1. 1 \in 1 .. m /\ 2 \in 1 .. m /\ pos[1] = Min(C) /\ pos[2] = Max(C)
    BY <1>2, <1>3, <1>5, ReadsEnds
  <2>2. pos[1] \in C /\ pos[2] \in C
    BY <1>2, <2>1 DEF Reads
  <2> QED BY <1>1, <1>2, <1>3, <2>1, <2>2 DEF Reads
<1> QED BY <1>4, <1>5 DEF get_key_load_command_ready

\* The first key that is the reader's.
LEMMA FirstKey ==
  ASSUME NEW elements \in Seq(Seq(Children)), NEW C, C = Kept(elements, {"ID"}),
         NEW K, K = parse_get_key_list_response(elements),
         NEW mine, mine = {i \in C : /\ Complete(elements[i], {"KSI"})
                                     /\ Said(elements[i], "KSI") \in CurrentKsis}
  PROVE  command_by_ksn_get_key_list_ready(K) =
           IF mine = {} THEN None ELSE Said(elements[Min(mine)], "ID")
<1> DEFINE current == {i \in DOMAIN K : K[i]["KSI"] \in CurrentKsis}
<1>1. {"ID"} \in SUBSET KeyNames /\ "ID" \in KeyNames /\ "KSI" \in KeyNames
  BY DEF KeyNames
<1>2. PICK m, pos : Reads(K, m, pos, C, KeyNames, elements)
  BY <1>1, ElementsRead DEF parse_get_key_list_response
<1>3. /\ C \in SUBSET Nat
      /\ \A i \in C : HasChild(elements[i], "ID")
      /\ \A i \in C : Complete(elements[i], {"KSI"}) <=> HasChild(elements[i], "KSI")
  BY KeptIsComplete
<1>4. m \in Nat /\ DOMAIN K = 1 .. m /\ pos \in [1 .. m -> C]
  BY <1>2 DEF Reads
<1>5. ASSUME NEW k \in 1 .. m PROVE k \in current <=> pos[k] \in mine
  <2>1. pos[k] \in C
    BY <1>4
  <2>2. /\ HasChild(elements[pos[k]], "KSI") => K[k]["KSI"] = Said(elements[pos[k]], "KSI")
        /\ ~ HasChild(elements[pos[k]], "KSI") => K[k]["KSI"] = None
    BY <1>1, <1>2 DEF Reads
  <2> QED BY <1>3, <1>4, <2>1, <2>2, NoneIsNoKsi
<1>6. current \in SUBSET (1 .. m) /\ current \in SUBSET Nat /\ mine \in SUBSET C
  BY <1>4
<1>7. \A c \in mine : \E k \in 1 .. m : pos[k] = c
  BY <1>2, <1>6 DEF Reads
<1>8. current = {} <=> mine = {}
  <2> HIDE DEF current
  <2> QED BY <1>5, <1>6, <1>7
<1>9. ASSUME mine # {} PROVE K[Min(current)]["ID"] = Said(elements[Min(mine)], "ID")
  <2> HIDE DEF current
  <2>1. PICK k : k = Min(current)
    OBVIOUS
  <2>2. k \in current /\ \A y \in current : k <= y
    BY <1>6, <1>8, <1>9, <2>1, MinOf
  <2>3. k \in 1 .. m /\ pos[k] \in mine /\ pos[k] \in C
    BY <1>5, <1>6, <2>2
  <2>4. ASSUME NEW c \in mine PROVE pos[k] <= c
    <3>1. PICK j \in 1 .. m : pos[j] = c
      BY <1>7
    <3>2. k <= j
      BY <1>5, <2>2, <3>1
    <3>3. k < j => pos[k] < pos[j]
      BY <1>2, <2>3 DEF Reads
    <3>4. pos[k] \in Nat /\ pos[j] \in Nat
      BY <1>3, <1>4, <2>3
    <3> QED BY <2>3, <3>1, <3>2, <3>3, <3>4
  <2>5. mine \in SUBSET Nat
    BY <1>3, <1>6
  <2>6. Min(mine) = pos[k]
    BY <2>3, <2>4, <2>5, MinIs
  <2>7. K[k]["ID"] = Said(elements[pos[k]], "ID")
    BY <1>1, <1>2, <1>3, <2>3 DEF Reads
  <2> QED BY <2>1, <2>6, <2>7
<1> QED BY <1>8, <1>9 DEF command_by_ksn_get_key_list_ready

\* Nothing is taken of an empty list.
LEMMA NothingTaken ==
  /\ run_command_received(common_command_info_build_array(<<>>)) = None
  /\ get_key_load_command_ready(common_command_info_build_array(<<>>)) = None
  /\ command_by_ksn_get_key_list_ready(parse_get_key_list_response(<<>>)) = None
<1>1. Len(common_command_info_build_array(<<>>)) = 0
  <2>1. {"Name", "Value"} \in SUBSET CommandNames
    BY DEF CommandNames
  <2> QED BY <2>1, NothingRead DEF common_command_info_build_array
<1>2. DOMAIN parse_get_key_list_response(<<>>) = {}
  <2>1. {"ID"} \in SUBSET KeyNames
    BY DEF KeyNames
  <2> QED BY <2>1, NothingRead DEF parse_get_key_list_response
<1>3. ASSUME NEW keys, DOMAIN keys = {} PROVE command_by_ksn_get_key_list_ready(keys) = None
  BY <1>3 DEF command_by_ksn_get_key_list_ready
<1> QED BY <1>1, <1>2, <1>3 DEF run_command_received, get_key_load_command_ready

\* For any document, what is taken is what it is worth.
LEMMA TakenIsWorth ==
  ASSUME NEW action \in Actions, NEW document \in Documents
  PROVE  Taken(action, document) = Worth(action, document)
<1> DEFINE elements == document.elements
           names == IF action = "GetKeyList" THEN {"ID"} ELSE {"Name", "Value"}
           C == Kept(elements, names)
           mine == {i \in C : /\ Complete(elements[i], {"KSI"})
                              /\ Said(elements[i], "KSI") \in CurrentKsis}
           K == common_command_info_build_array(elements)
           keys == parse_get_key_list_response(elements)
<1>1. elements \in Seq(Seq(Children))
  BY DocumentsTyped
<1>2. {i \in DOMAIN elements : Complete(elements[i], names)} = C
  BY <1>1, KeptIsComplete
<1>3. CASE document.response # action
  <2>1. Worth(action, document) = None
    BY <1>3 DEF Worth
  <2>2. Taken(action, document) = None
    BY <1>3, NothingTaken DEF Taken, ElementsOf, Actions
  <2> QED BY <2>1, <2>2
<1>4. CASE document.response = action /\ action = "GetKeyList"
  <2>1. Taken(action, document) = command_by_ksn_get_key_list_ready(keys)
    BY <1>4 DEF Taken, ElementsOf
  <2>2. Worth(action, document) = IF mine = {} THEN None ELSE Said(elements[Min(mine)], "ID")
    <3> HIDE DEF C
    <3> QED BY <1>2, <1>4 DEF Worth
  <2>3. C = Kept(elements, {"ID"})
    BY <1>4
  <2> HIDE DEF elements, C, mine, keys
  <2>4. command_by_ksn_get_key_list_ready(keys)
          = IF mine = {} THEN None ELSE Said(elements[Min(mine)], "ID")
    BY <1>1, <2>3, FirstKey DEF mine, keys
  <2> QED BY <2>1, <2>2, <2>4
<1>5. CASE document.response = action /\ action \in {"GetCommandByKSN", "GetCommandByMUT"}
  <2>1. Taken(action, document) = run_command_received(K)
    BY <1>5 DEF Taken, ElementsOf
  <2>2. Worth(action, document) =
          IF Cardinality(C) = 1 THEN Said(elements[Min(C)], "Value") ELSE None
    <3> HIDE DEF C
    <3> QED BY <1>2, <1>5 DEF Worth
  <2>3. C = Kept(elements, {"Name", "Value"})
    BY <1>5
  <2> HIDE DEF elements, C, K
  <2>4. run_command_received(K) = IF Cardinality(C) = 1 THEN Said(elements[Min(C)], "Value") ELSE None
    BY <1>1, <2>3, OneCommand DEF K
  <2> QED BY <2>1, <2>2, <2>4
<1>6. CASE document.response = action /\ action = "GetKeyLoadCommand"
  <2>1. Taken(action, document) = get_key_load_command_ready(K)
    BY <1>6 DEF Taken, ElementsOf
  <2>2. Worth(action, document) =
          IF /\ Cardinality(C) = 2
             /\ Said(elements[Min(C)], "Name") = "ChangeKey"
             /\ Said(elements[Max(C)], "Name") = "KCV"
            THEN Said(elements[Min(C)], "Value") ELSE None
    <3> HIDE DEF C
    <3> QED BY <1>2, <1>6 DEF Worth
  <2>3. C = Kept(elements, {"Name", "Value"})
    BY <1>6
  <2> HIDE DEF elements, C, K
  <2>4. get_key_load_command_ready(K) =
          IF /\ Cardinality(C) = 2
             /\ Said(elements[Min(C)], "Name") = "ChangeKey"
             /\ Said(elements[Max(C)], "Name") = "KCV"
            THEN Said(elements[Min(C)], "Value") ELSE None
    BY <1>1, <2>3, LoadCommand DEF K
  <2> QED BY <2>1, <2>2, <2>4
<1>7. CASE document.response = action /\ action = "GetCommandList"
  BY <1>7 DEF Taken, Worth
<1> QED BY <1>3, <1>4, <1>5, <1>6, <1>7 DEF Actions

\* Whatever document comes for a request that is out, a command is run, or a
\* key taken for the current one, exactly when the document tells it.
THEOREM AnswersWorth == Spec => []RunsWhatItAskedFor
<1>1. AccountInv => RunsWhatItAskedFor
  BY TakenIsWorth DEF AccountInv, RunsWhatItAskedFor, TakenAsWorth, Asked
<1> QED BY <1>1, AccountInvariance, PTL DEF Spec
=============================================================================
