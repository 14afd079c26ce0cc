--------------------------- MODULE MuiWindowProofs ---------------------------
(***************************************************************************)
(* Proofs about MuiWindow: its types, that it never stops listening, and   *)
(* that it never listens more often than it was set up.                    *)
(***************************************************************************)
EXTENDS MuiWindow, SequenceTheorems, FiniteSetTheorems, TLAPS

Results == [processor : Processors, result : {"ok", "timeout", "failed"}]

-----------------------------------------------------------------------------
(* Types. *)

LEMMA NumbersTyped ==
  /\ 0 \in 0 .. MaxTimers /\ Timers \subseteq 0 .. MaxTimers
  /\ \A c \in 0 .. MaxProcessors : 0 \in 0 .. c /\ c \in 0 .. c
  /\ \A c \in 0 .. MaxProcessors :
       c < MaxProcessors => c + 1 \in Processors /\ c + 1 \in 0 .. MaxProcessors
  /\ \A c \in 0 .. MaxProcessors : \A p \in 0 .. c : p # 0 => p \in Processors
  /\ 0 \in 0 .. MaxProcessors /\ 0 \in 0 .. MaxChanges
BY Bounds DEF Timers, Processors

LEMMA RemoveTimerTyped ==
  ASSUME TypeOK, remove_timer
  PROVE  timers' \subseteq Timers /\ scheduled_id' \in 0 .. MaxTimers
BY NumbersTyped DEF remove_timer, TypeOK

LEMMA WaitOperationsTyped ==
  ASSUME NEW reload_info \in BOOLEAN
  PROVE  /\ wait_operations(reload_info) \in Seq(Operations)
         /\ Len(wait_operations(reload_info)) \in Nat
         /\ \E i \in 1 .. Len(wait_operations(reload_info)) :
              wait_operations(reload_info)[i] = "WAIT_SWIPE"
<1>1. CASE reload_info
  <2>1. <<"LOAD_PROPERTIES">> \in Seq(Operations) /\ <<"WAIT_SWIPE">> \in Seq(Operations)
    BY DEF Operations
  <2>2. wait_operations(reload_info) = <<"LOAD_PROPERTIES">> \o <<"WAIT_SWIPE">>
    BY <1>1 DEF wait_operations
  <2>3. /\ Len(<<"LOAD_PROPERTIES">>) = 1 /\ Len(<<"WAIT_SWIPE">>) = 1
        /\ <<"WAIT_SWIPE">>[1] = "WAIT_SWIPE"
    OBVIOUS
  <2> QED BY <2>1, <2>2, <2>3, ConcatProperties
<1>2. CASE ~reload_info
  <2>1. wait_operations(reload_info) = <<"WAIT_SWIPE">>
    BY <1>2, ConcatEmptySeq DEF wait_operations, Operations
  <2> QED BY <2>1 DEF Operations
<1> QED BY <1>1, <1>2

LEMMA NewOperationsTyped ==
  /\ <<"START">> \o wait_operations(TRUE) \in Seq(Operations)
  /\ \E i \in DOMAIN (<<"START">> \o wait_operations(TRUE)) :
       (<<"START">> \o wait_operations(TRUE))[i] = "WAIT_SWIPE"
<1> DEFINE w == wait_operations(TRUE)
           s == <<"START">> \o w
<1>1. w \in Seq(Operations) /\ Len(w) \in Nat /\ <<"START">> \in Seq(Operations)
  <2>1. <<"START">> \in Seq(Operations)
    BY DEF Operations
  <2> QED BY <2>1, WaitOperationsTyped
<1>2. PICK i \in 1 .. Len(w) : w[i] = "WAIT_SWIPE"
  BY WaitOperationsTyped
<1> HIDE DEF w
<1>3. /\ s \in Seq(Operations) /\ Len(s) = 1 + Len(w)
      /\ \A j \in 1 .. 1 + Len(w) : s[j] = IF j <= 1 THEN <<"START">>[j] ELSE w[j - 1]
  BY <1>1, ConcatProperties
<1> HIDE DEF s
<1>4. i + 1 \in 1 .. 1 + Len(w) /\ s[i + 1] = w[i]
  BY <1>1, <1>2, <1>3
<1>5. DOMAIN s = 1 .. 1 + Len(w)
  BY <1>1, <1>3, LenProperties
<1> QED BY <1>2, <1>3, <1>4, <1>5 DEF s, w

LEMMA WaitForSwipeTyped ==
  ASSUME TypeOK, NEW reload_info \in BOOLEAN, wait_for_swipe(reload_info)
  PROVE  ops' \in [Processors -> Seq(Operations)]
<1>1. ASSUME NEW p \in Processors
      PROVE  ops[p] \o wait_operations(reload_info) \in Seq(Operations)
  BY WaitOperationsTyped, ConcatProperties DEF TypeOK
<1> QED BY <1>1 DEF wait_for_swipe, TypeOK

LEMMA DoneTyped ==
  ASSUME TypeOK, NEW p \in Processors, ops[p] # <<>>, Done(p)
  PROVE  ops' \in [Processors -> Seq(Operations)]
<1>1. Tail(ops[p]) \in Seq(Operations)
  BY HeadTailProperties DEF TypeOK
<1> QED BY <1>1 DEF Done, TypeOK

LEMMA TypeInit == Init => TypeOK
<1> SUFFICES ASSUME Init PROVE TypeOK
  OBVIOUS
<1>1. ops \in [Processors -> Seq(Operations)] /\ returned \in Seq(Results)
  BY EmptySeq DEF Init
<1>2. device \in [Processors -> {"null", "closed", "open", "stale"}]
  BY DEF Init
<1> QED BY <1>1, <1>2, NumbersTyped DEF Init, TypeOK, Results

LEMMA ThreadTyped == ASSUME TypeOK, NEW p \in Processors, Thread(p) PROVE TypeOK'
<1>1. CASE run_start(p)
  BY <1>1, DoneTyped
     DEF run_start, Runs, TypeOK, reader, ui, waiting
<1>2. ASSUME NEW result \in {"open", "closed", "stale"}, run_load(p, result) PROVE TypeOK'
  BY <1>2, DoneTyped DEF run_load, Runs, TypeOK, reader, ui, waiting
<1>3. CASE run_load_asserts(p)
  BY <1>3 DEF run_load_asserts, TypeOK, reader, procs, ui, waiting
<1>4. CASE run_wait_swipe(p)
  <2>1. returned' \in Seq(Results)
    BY <1>4, AppendProperties DEF run_wait_swipe, TypeOK, Results
  <2>2. ops' \in [Processors -> Seq(Operations)]
    BY <1>4, DoneTyped DEF run_wait_swipe, Runs
  <2> QED BY <1>4, <2>1, <2>2 DEF run_wait_swipe, TypeOK, Results, reader, ui, waiting
<1> QED BY <1>1, <1>2, <1>3, <1>4 DEF Thread

LEMMA ReadyTyped == ASSUME TypeOK, wait_for_swipe_ready PROVE TypeOK'
<1> USE DEF wait_for_swipe_ready
<1>1. returned' \in Seq(Results)
  BY HeadTailProperties DEF TypeOK, Results
<1>2. /\ ops' \in [Processors -> Seq(Operations)]
      /\ info_bar' \in BOOLEAN /\ warned' \in BOOLEAN
      /\ timers' \subseteq Timers /\ scheduled_id' \in 0 .. MaxTimers
  <2>1. CASE wait_succeeded
    BY <2>1, WaitForSwipeTyped DEF wait_succeeded, TypeOK, waiting
  <2>2. CASE wait_timed_out
    BY <2>2, WaitForSwipeTyped DEF wait_timed_out, TypeOK, waiting
  <2>3. CASE wait_failed
    <3> DEFINE t == CHOOSE id \in Timers : id \notin timers \cup {scheduled_id}
    <3>1. t \in Timers
      BY <2>3 DEF wait_failed
    <3>2. timers' = timers \cup {t} /\ scheduled_id' = t
      BY <2>3 DEF wait_failed
    <3> HIDE DEF t
    <3> QED BY <2>3, <3>1, <3>2, NumbersTyped DEF wait_failed, TypeOK, report_user_error
  <2> QED BY <2>1, <2>2, <2>3
<1> QED BY <1>1, <1>2 DEF TypeOK, Results, reader

LEMMA TimerTyped ==
  ASSUME TypeOK, NEW t \in Timers, wait_for_swipe_reschedule_cb(t)
  PROVE  TypeOK'
BY WaitForSwipeTyped, NumbersTyped DEF wait_for_swipe_reschedule_cb, TypeOK, reader, ui

LEMMA UeventTyped == ASSUME TypeOK, handle_uevent PROVE TypeOK'
<1>1. timers' \subseteq Timers /\ scheduled_id' \in 0 .. MaxTimers
  BY RemoveTimerTyped DEF handle_uevent, reset_window
<1>2. uevents' \in Nat
  BY DEF handle_uevent, TypeOK
<1>3. UNCHANGED <<attached, changes, device, returned, warned, disposed, aborted>>
  BY DEF handle_uevent
<1>4. /\ ops' \in [Processors -> Seq(Operations)]
      /\ created' \in 0 .. MaxProcessors /\ processor' \in 0 .. created'
      /\ device_path' \in BOOLEAN /\ main_stack' \in BOOLEAN /\ info_bar' \in BOOLEAN
  <2>1. CASE reset_without_device
    BY <2>1, NumbersTyped DEF reset_without_device, TypeOK
  <2>2. CASE reset_with_device
    <3>1. /\ created + 1 \in Processors /\ created' \in 0 .. MaxProcessors
          /\ processor' \in 0 .. created'
      BY <2>2, NumbersTyped DEF reset_with_device, TypeOK
    <3>2. ops' \in [Processors -> Seq(Operations)]
      BY <2>2, <3>1, NewOperationsTyped DEF reset_with_device, TypeOK
    <3> QED BY <2>2, <3>1, <3>2 DEF reset_with_device, TypeOK
  <2> QED BY <2>1, <2>2 DEF handle_uevent, reset_window
<1> QED BY <1>1, <1>2, <1>3, <1>4 DEF TypeOK

LEMMA UserTyped == ASSUME TypeOK, User PROVE TypeOK'
<1>1. CASE remote_services_operation_ongoing_updated
  <2>1. "LOAD_PROPERTIES" \in Operations /\ processor \in Processors
    BY <1>1, NumbersTyped
       DEF remote_services_operation_ongoing_updated, Operations, TypeOK
  <2>2. ops' \in [Processors -> Seq(Operations)]
    BY <1>1, <2>1, AppendProperties DEF remote_services_operation_ongoing_updated, TypeOK
  <2> QED BY <1>1, <2>2
          DEF remote_services_operation_ongoing_updated, TypeOK, reader, ui, waiting
<1>2. CASE user_error
  BY <1>2 DEF user_error, report_user_error, TypeOK, reader, procs, waiting
<1>3. CASE clear_user_error
  BY <1>3 DEF clear_user_error, TypeOK, reader, procs, waiting
<1>4. CASE dispose
  BY <1>4, RemoveTimerTyped, NumbersTyped DEF dispose, TypeOK, reader
<1> QED BY <1>1, <1>2, <1>3, <1>4 DEF User

LEMMA TypeStep == TypeOK /\ [Next]_vars => TypeOK'
<1> SUFFICES ASSUME TypeOK, [Next]_vars PROVE TypeOK'
  OBVIOUS
<1>1. CASE plug_or_unplug
  BY <1>1, Bounds DEF plug_or_unplug, TypeOK, ui, waiting
<1>2. CASE UNCHANGED vars
  BY <1>2 DEF vars, TypeOK, reader, procs, ui, waiting
<1> QED BY <1>1, <1>2, ThreadTyped, ReadyTyped, TimerTyped, UeventTyped, UserTyped DEF Next

\* The variables keep their types, for any bounds.
THEOREM WindowTyped == Spec => []TypeOK
BY TypeInit, TypeStep, PTL DEF Spec

-----------------------------------------------------------------------------
(* The chain of waits. *)

WaitQueued == \E i \in DOMAIN ops[processor] : ops[processor][i] = "WAIT_SWIPE"
WaitReturned == \E i \in DOMAIN returned : returned[i].processor = processor

\* What is appended to a queue is in it.
LEMMA QueueGrows ==
  ASSUME NEW S, NEW s \in Seq(S), NEW t \in Seq(S), NEW i \in DOMAIN t
  PROVE  i + Len(s) \in DOMAIN (s \o t) /\ (s \o t)[i + Len(s)] = t[i]
<1>1. /\ Len(s) \in Nat /\ DOMAIN s = 1 .. Len(s) /\ Len(t) \in Nat /\ DOMAIN t = 1 .. Len(t)
      /\ DOMAIN (s \o t) = 1 .. Len(s) + Len(t)
      /\ \A j \in 1 .. Len(s) + Len(t) :
           (s \o t)[j] = IF j <= Len(s) THEN s[j] ELSE t[j - Len(s)]
  BY ConcatProperties, LenProperties
<1>2. i + Len(s) \in 1 .. Len(s) + Len(t) /\ ~(i + Len(s) <= Len(s)) /\ i + Len(s) - Len(s) = i
  BY <1>1
<1> QED BY <1>1, <1>2

\* A wait that is not the head of its queue stays when the head is taken.
LEMMA QueueShrinks ==
  ASSUME NEW S, NEW s \in Seq(S), s # <<>>, NEW i \in DOMAIN s, i # 1
  PROVE  i - 1 \in DOMAIN Tail(s) /\ Tail(s)[i - 1] = s[i]
<1>1. /\ Len(s) \in Nat /\ DOMAIN s = 1 .. Len(s) /\ DOMAIN Tail(s) = 1 .. Len(s) - 1
      /\ \A j \in 1 .. Len(s) - 1 : Tail(s)[j] = s[j + 1]
  BY HeadTailProperties, LenProperties
<1> QED BY <1>1

\* Waiting again puts a wait on the processor there is, and takes none away.
LEMMA WaitsAgain ==
  ASSUME TypeOK, NEW reload_info \in BOOLEAN, wait_for_swipe(reload_info), processor # 0,
         processor' = processor
  PROVE  WaitQueued'
<1>1. processor \in Processors
  BY NumbersTyped DEF TypeOK
<1>2. ops'[processor] = ops[processor] \o wait_operations(reload_info)
  BY <1>1 DEF wait_for_swipe, TypeOK
<1>3. \E i \in DOMAIN wait_operations(reload_info) : wait_operations(reload_info)[i] = "WAIT_SWIPE"
  BY WaitOperationsTyped, LenProperties
<1>4. ops[processor] \in Seq(Operations) /\ wait_operations(reload_info) \in Seq(Operations)
  BY <1>1, WaitOperationsTyped DEF TypeOK
<1>5. \E i \in DOMAIN ops'[processor] : ops'[processor][i] = "WAIT_SWIPE"
  <2> DEFINE s == ops[processor]
             t == wait_operations(reload_info)
  <2>1. s \in Seq(Operations) /\ t \in Seq(Operations) /\ \E i \in DOMAIN t : t[i] = "WAIT_SWIPE"
    BY <1>3, <1>4
  <2> HIDE DEF s, t
  <2>2. PICK i \in DOMAIN t : t[i] = "WAIT_SWIPE"
    BY <2>1
  <2>3. i + Len(s) \in DOMAIN (s \o t) /\ (s \o t)[i + Len(s)] = t[i]
    BY <2>1, QueueGrows
  <2> QED BY <1>2, <2>2, <2>3 DEF s, t
<1> QED BY <1>5 DEF WaitQueued

\* A thread takes a wait out of the queue only by returning its result.
LEMMA ThreadListens ==
  ASSUME TypeOK, AlwaysListening, NEW p \in Processors, Thread(p)
  PROVE  AlwaysListening'
<1>1. processor' = processor /\ timers' = timers
  BY DEF Thread, run_start, run_load, run_load_asserts, run_wait_swipe, waiting, procs
<1>2. CASE processor = 0 \/ timers # {}
  BY <1>1, <1>2 DEF AlwaysListening
<1>3. CASE processor # 0 /\ WaitReturned
  <2>1. CASE run_wait_swipe(p)
    <3>1. PICK r \in Results : returned' = Append(returned, r)
      BY <2>1 DEF run_wait_swipe, Results
    <3>2. PICK i \in DOMAIN returned : returned[i].processor = processor
      BY <1>3 DEF WaitReturned
    <3>3. i \in DOMAIN returned' /\ returned'[i] = returned[i]
      BY <3>1, <3>2, AppendProperties, LenProperties DEF TypeOK, Results
    <3> QED BY <1>1, <3>2, <3>3 DEF AlwaysListening
  <2>2. CASE returned' = returned
    BY <1>1, <1>3, <2>2 DEF AlwaysListening, WaitReturned
  <2> QED BY <2>1, <2>2 DEF Thread, run_start, run_load, run_load_asserts
<1>4. CASE processor # 0 /\ WaitQueued
  <2>1. processor \in Processors /\ ops[processor] \in Seq(Operations)
    BY <1>4, NumbersTyped DEF TypeOK
  <2>2. PICK i \in DOMAIN ops[processor] : ops[processor][i] = "WAIT_SWIPE"
    BY <1>4 DEF WaitQueued
  <2>3. CASE p # processor \/ UNCHANGED ops
    <3>1. ops'[processor] = ops[processor]
      BY <2>1, <2>3
         DEF Thread, run_start, run_load, run_load_asserts, run_wait_swipe, Done, TypeOK, procs
    <3> QED BY <1>1, <2>2, <3>1 DEF AlwaysListening
  <2>4. CASE p = processor /\ ops[p] # <<>> /\ Done(p) /\ i # 1
    <3>1. ops'[processor] = Tail(ops[processor])
      BY <2>1, <2>4 DEF Done, TypeOK
    <3> DEFINE s == ops[processor]
    <3>2. s \in Seq(Operations) /\ s # <<>> /\ i \in DOMAIN s /\ i # 1
      BY <2>1, <2>2, <2>4
    <3> HIDE DEF s
    <3>3. i - 1 \in DOMAIN Tail(s) /\ Tail(s)[i - 1] = s[i]
      BY <3>2, QueueShrinks
    <3> QED BY <1>1, <2>2, <3>1, <3>3 DEF AlwaysListening, s
  <2>5. CASE p = processor /\ run_wait_swipe(p)
    <3>1. PICK r \in Results : returned' = Append(returned, r) /\ r.processor = processor
      BY <2>5 DEF run_wait_swipe, Results
    <3>2. Len(returned) + 1 \in DOMAIN returned' /\ returned'[Len(returned) + 1] = r
      BY <3>1, AppendProperties, LenProperties DEF TypeOK, Results
    <3> QED BY <1>1, <3>1, <3>2 DEF AlwaysListening
  <2>6. i = 1 /\ p = processor => ~Runs(p, "START") /\ ~Runs(p, "LOAD_PROPERTIES")
    BY <2>1, <2>2 DEF Runs
  <2> QED BY <2>3, <2>4, <2>5, <2>6
          DEF Thread, run_start, run_load, run_load_asserts, run_wait_swipe, procs, Runs
<1> QED BY <1>2, <1>3, <1>4 DEF AlwaysListening, WaitQueued, WaitReturned

\* A result, whichever processor it comes from, is followed by a wait on the
\* processor there is or by a timer.
LEMMA ReadyListens ==
  ASSUME TypeOK, AlwaysListening, wait_for_swipe_ready
  PROVE  AlwaysListening'
<1>1. processor' = processor
  BY DEF wait_for_swipe_ready
<1>2. CASE wait_failed
  BY <1>2 DEF wait_failed, AlwaysListening
<1>3. CASE wait_succeeded \/ wait_timed_out
  BY <1>1, <1>3, WaitsAgain DEF wait_succeeded, wait_timed_out, AlwaysListening, WaitQueued
<1> QED BY <1>2, <1>3 DEF wait_for_swipe_ready

LEMMA UeventListens == ASSUME TypeOK, handle_uevent PROVE AlwaysListening'
<1>1. CASE reset_without_device
  BY <1>1 DEF reset_without_device, AlwaysListening
<1>2. CASE reset_with_device
  <2>1. created + 1 \in Processors
    BY <1>2, NumbersTyped DEF reset_with_device, TypeOK
  <2>2. ops'[processor'] = <<"START">> \o wait_operations(TRUE)
    BY <1>2, <2>1 DEF reset_with_device, TypeOK
  <2> QED BY <2>2, NewOperationsTyped DEF AlwaysListening
<1> QED BY <1>1, <1>2 DEF handle_uevent, reset_window

LEMMA UserListens == ASSUME TypeOK, AlwaysListening, User PROVE AlwaysListening'
<1>1. CASE remote_services_operation_ongoing_updated
  <2>1. processor \in Processors /\ UNCHANGED <<processor, returned, timers>>
    BY <1>1, NumbersTyped DEF remote_services_operation_ongoing_updated, TypeOK, waiting
  <2>2. ops'[processor] = Append(ops[processor], "LOAD_PROPERTIES")
    BY <1>1, <2>1 DEF remote_services_operation_ongoing_updated, TypeOK
  <2>3. ops[processor] \in Seq(Operations) /\ "LOAD_PROPERTIES" \in Operations
    BY <2>1 DEF TypeOK, Operations
  <2>4. WaitQueued => WaitQueued'
    BY <2>1, <2>2, <2>3, AppendProperties, LenProperties DEF WaitQueued
  <2> QED BY <2>1, <2>4 DEF AlwaysListening, WaitQueued
<1>2. CASE user_error \/ clear_user_error
  BY <1>2 DEF user_error, clear_user_error, AlwaysListening, procs, waiting
<1>3. CASE dispose
  BY <1>3 DEF dispose, AlwaysListening
<1> QED BY <1>1, <1>2, <1>3 DEF User

LEMMA ListeningStep == TypeOK /\ AlwaysListening /\ [Next]_vars => AlwaysListening'
<1> SUFFICES ASSUME TypeOK, AlwaysListening, [Next]_vars PROVE AlwaysListening'
  OBVIOUS
<1>1. CASE plug_or_unplug \/ UNCHANGED vars
  BY <1>1 DEF plug_or_unplug, vars, AlwaysListening, procs, waiting
<1>2. ASSUME NEW t \in Timers, wait_for_swipe_reschedule_cb(t) PROVE AlwaysListening'
  BY <1>2, WaitsAgain DEF wait_for_swipe_reschedule_cb, AlwaysListening, WaitQueued
<1> QED BY <1>1, <1>2, ThreadListens, ReadyListens, UeventListens, UserListens DEF Next

\* While there is a processor a wait is on its way: no order of results,
\* timers and changes of the reader leaves the window deaf.
THEOREM WindowListens == Spec => []AlwaysListening
<1>1. Init => AlwaysListening
  BY DEF Init, AlwaysListening
<1> QED BY <1>1, ListeningStep, WindowTyped, PTL DEF Spec

-----------------------------------------------------------------------------
(* No chain of waits forks.  The waits queued are counted as the set of     *)
(* their places: taking the head of a queue moves the others up, which maps *)
(* what is left one to one to what was there.                               *)

Queues == [Processors -> Seq(Operations)]

ChainInv ==
  /\ IsFiniteSet(WaitsIn(ops))
  /\ ChainPerSetup

LEMMA InWaits ==
  ASSUME NEW o
  PROVE  \A w : w \in WaitsIn(o) <=>
           \E p \in Processors : \E i \in DOMAIN o[p] : o[p][i] = "WAIT_SWIPE" /\ w = <<p, i>>
<1> DEFINE W(p) == {i \in DOMAIN o[p] : o[p][i] = "WAIT_SWIPE"}
<1>1. \A w : w \in WaitsIn(o) <=> \E p \in Processors : w \in {p} \X W(p)
  BY DEF WaitsIn
<1> HIDE DEF W
<1>2. \A w, p : w \in {p} \X W(p) <=> \E i \in W(p) : w = <<p, i>>
  OBVIOUS
<1>3. \A p, i : i \in W(p) <=> i \in DOMAIN o[p] /\ o[p][i] = "WAIT_SWIPE"
  BY DEF W
<1>4. \A w, p : w \in {p} \X W(p) <=>
                  \E i \in DOMAIN o[p] : o[p][i] = "WAIT_SWIPE" /\ w = <<p, i>>
  <2> TAKE w, p
  <2>1. w \in {p} \X W(p) <=> \E i \in W(p) : w = <<p, i>>
    BY <1>2
  <2> QED BY <2>1, <1>3
<1> QED BY <1>1, <1>4

LEMMA OneMore ==
  ASSUME NEW S, IsFiniteSet(S), NEW x, NEW T \in SUBSET (S \cup {x})
  PROVE  IsFiniteSet(T) /\ Cardinality(T) \in Nat /\ Cardinality(T) <= Cardinality(S) + 1
<1>1. /\ IsFiniteSet(S \cup {x}) /\ Cardinality(S) \in Nat
      /\ Cardinality(S \cup {x}) = IF x \in S THEN Cardinality(S) ELSE Cardinality(S) + 1
  BY FS_AddElement, FS_CardinalityType
<1>2. IsFiniteSet(T) /\ Cardinality(T) <= Cardinality(S \cup {x})
  BY <1>1, FS_Subset
<1>3. Cardinality(T) \in Nat
  BY <1>2, FS_CardinalityType
<1> QED BY <1>1, <1>2, <1>3

\* The operations of one wait_for_swipe() hold one wait, the last of them.
LEMMA OneWaitEach ==
  ASSUME NEW reload_info \in BOOLEAN
  PROVE  LET w == wait_operations(reload_info) IN
           \A i \in 1 .. Len(w) : w[i] = "WAIT_SWIPE" => i = Len(w)
<1>1. CASE reload_info
  <2>1. <<"LOAD_PROPERTIES">> \in Seq(Operations) /\ <<"WAIT_SWIPE">> \in Seq(Operations)
        /\ Len(<<"LOAD_PROPERTIES">>) = 1 /\ Len(<<"WAIT_SWIPE">>) = 1
        /\ <<"LOAD_PROPERTIES">>[1] # "WAIT_SWIPE"
    BY DEF Operations
  <2>2. wait_operations(reload_info) = <<"LOAD_PROPERTIES">> \o <<"WAIT_SWIPE">>
    BY <1>1 DEF wait_operations
  <2> DEFINE w == <<"LOAD_PROPERTIES">> \o <<"WAIT_SWIPE">>
  <2>3. Len(w) = 2 /\ w[1] # "WAIT_SWIPE"
    BY <2>1, ConcatProperties
  <2>4. \A i \in 1 .. 2 : i = 1 \/ i = 2
    OBVIOUS
  <2> HIDE DEF w
  <2>5. \A i \in 1 .. Len(w) : w[i] = "WAIT_SWIPE" => i = Len(w)
    BY <2>3, <2>4
  <2> QED BY <2>2, <2>5 DEF w
<1>2. CASE ~reload_info
  <2>1. wait_operations(reload_info) = <<"WAIT_SWIPE">>
    BY <1>2, ConcatEmptySeq DEF wait_operations, Operations
  <2> QED BY <2>1
<1> QED BY <1>1, <1>2

\* The head of a queue is taken.
LEMMA WaitsTaken ==
  ASSUME NEW o \in Queues, NEW p \in Processors, o[p] # <<>>, IsFiniteSet(WaitsIn(o))
  PROVE  LET o2 == [o EXCEPT ![p] = Tail(@)] IN
           /\ IsFiniteSet(WaitsIn(o2)) /\ Cardinality(WaitsIn(o2)) \in Nat
           /\ Cardinality(WaitsIn(o2)) <= Cardinality(WaitsIn(o))
           /\ Head(o[p]) = "WAIT_SWIPE" => Cardinality(WaitsIn(o2)) + 1 <= Cardinality(WaitsIn(o))
<1> DEFINE o2 == [o EXCEPT ![p] = Tail(@)]
           A == WaitsIn(o2)
           B == WaitsIn(o) \ {<<p, 1>>}
           f == [w \in A |-> IF w[1] = p THEN <<p, w[2] + 1>> ELSE w]
<1>1. /\ o2[p] = Tail(o[p]) /\ \A q \in Processors : q # p => o2[q] = o[q]
      /\ \A q \in Processors : o[q] \in Seq(Operations) /\ o2[q] \in Seq(Operations)
  <2>1. Tail(o[p]) \in Seq(Operations)
    BY HeadTailProperties DEF Queues
  <2> QED BY <2>1 DEF Queues
<1>2. /\ Len(o[p]) \in Nat /\ DOMAIN o[p] = 1 .. Len(o[p])
      /\ DOMAIN o2[p] = 1 .. Len(o[p]) - 1
      /\ \A i \in 1 .. Len(o[p]) - 1 : o2[p][i] = o[p][i + 1]
  BY <1>1, HeadTailProperties, LenProperties DEF Queues
<1> HIDE DEF o2
<1>3. \A w \in A : \E q \in Processors : \E i \in Nat :
        w = <<q, i>> /\ i \in DOMAIN o2[q] /\ o2[q][i] = "WAIT_SWIPE"
  <2>1. \A q \in Processors : DOMAIN o2[q] \subseteq Nat
    BY <1>1, LenProperties
  <2> QED BY <2>1, InWaits
<1>4. ASSUME NEW w \in A PROVE f[w] \in B
  <2>1. PICK q \in Processors, i \in Nat :
          w = <<q, i>> /\ i \in DOMAIN o2[q] /\ o2[q][i] = "WAIT_SWIPE"
    BY <1>3
  <2>2. CASE q = p
    <3>1. f[w] = <<p, i + 1>>
      BY <2>1, <2>2
    <3>2. i + 1 \in DOMAIN o[p] /\ o[p][i + 1] = "WAIT_SWIPE" /\ i + 1 # 1
      BY <1>2, <2>1, <2>2
    <3>3. <<p, i + 1>> \in WaitsIn(o)
      BY <3>2, InWaits
    <3> QED BY <3>1, <3>2, <3>3
  <2>3. CASE q # p
    <3>1. f[w] = w
      BY <2>1, <2>3
    <3>2. i \in DOMAIN o[q] /\ o[q][i] = "WAIT_SWIPE"
      BY <1>1, <2>1, <2>3
    <3>3. w \in WaitsIn(o)
      BY <2>1, <3>2, InWaits
    <3> QED BY <2>1, <2>3, <3>1, <3>3
  <2> QED BY <2>2, <2>3
<1>5. ASSUME NEW w \in A, NEW v \in A, f[w] = f[v] PROVE w = v
  <2>1. PICK q \in Processors, i \in Nat : w = <<q, i>>
    BY <1>3
  <2>2. PICK r \in Processors, j \in Nat : v = <<r, j>>
    BY <1>3
  <2>3. f[w] = (IF q = p THEN <<p, i + 1>> ELSE <<q, i>>)
    BY <2>1
  <2>4. f[v] = (IF r = p THEN <<p, j + 1>> ELSE <<r, j>>)
    BY <2>2
  <2> HIDE DEF f
  <2> QED BY <1>5, <2>1, <2>2, <2>3, <2>4
<1>6. f \in [A -> B]
  BY <1>4
<1>7. f \in Injection(A, B)
  BY <1>5, <1>6 DEF Injection, IsInjective
<1>8. /\ IsFiniteSet(B) /\ Cardinality(WaitsIn(o)) \in Nat
      /\ Cardinality(B) = IF <<p, 1>> \in WaitsIn(o) THEN Cardinality(WaitsIn(o)) - 1
                                                    ELSE Cardinality(WaitsIn(o))
  BY FS_RemoveElement, FS_CardinalityType
<1> HIDE DEF f, A, B
<1>9. IsFiniteSet(A) /\ Cardinality(A) <= Cardinality(B)
  BY <1>7, <1>8, FS_Injection
<1>10. Cardinality(A) \in Nat
  BY <1>9, FS_CardinalityType
<1>11. Head(o[p]) = "WAIT_SWIPE" => <<p, 1>> \in WaitsIn(o)
  <2>1. 1 \in DOMAIN o[p] /\ o[p][1] = Head(o[p])
    BY <1>1
  <2> QED BY <2>1, InWaits
<1> QED BY <1>8, <1>9, <1>10, <1>11 DEF A, o2

\* One wait is queued behind what there is.
LEMMA WaitsAdded ==
  ASSUME NEW o \in Queues, NEW p \in Processors, NEW reload_info \in BOOLEAN,
         IsFiniteSet(WaitsIn(o))
  PROVE  LET o2 == [o EXCEPT ![p] = @ \o wait_operations(reload_info)] IN
           /\ IsFiniteSet(WaitsIn(o2)) /\ Cardinality(WaitsIn(o2)) \in Nat
           /\ Cardinality(WaitsIn(o2)) <= Cardinality(WaitsIn(o)) + 1
<1> DEFINE w == wait_operations(reload_info)
           o2 == [o EXCEPT ![p] = @ \o w]
           s == o[p]
           x == <<p, Len(s) + Len(w)>>
<1>1. /\ w \in Seq(Operations) /\ Len(w) \in Nat
      /\ \A i \in 1 .. Len(w) : w[i] = "WAIT_SWIPE" => i = Len(w)
  BY WaitOperationsTyped, OneWaitEach
<1>2. s \in Seq(Operations) /\ Len(s) \in Nat /\ DOMAIN s = 1 .. Len(s)
  BY LenProperties DEF Queues
<1> HIDE DEF w
<1>3. /\ DOMAIN (s \o w) = 1 .. Len(s) + Len(w)
      /\ \A i \in 1 .. Len(s) + Len(w) :
           (s \o w)[i] = IF i <= Len(s) THEN s[i] ELSE w[i - Len(s)]
  BY <1>1, <1>2, ConcatProperties, LenProperties
<1>4. o2[p] = s \o w /\ \A q \in Processors : q # p => o2[q] = o[q]
  BY DEF Queues
<1> HIDE DEF o2
<1>5. ASSUME NEW v \in WaitsIn(o2)
      PROVE  v \in WaitsIn(o) \cup {x}
  <2>1. PICK q \in Processors : \E i \in DOMAIN o2[q] : o2[q][i] = "WAIT_SWIPE" /\ v = <<q, i>>
    BY InWaits
  <2>2. PICK i \in DOMAIN o2[q] : o2[q][i] = "WAIT_SWIPE" /\ v = <<q, i>>
    BY <2>1
  <2>3. CASE q # p
    <3>1. i \in DOMAIN o[q] /\ o[q][i] = "WAIT_SWIPE"
      BY <1>4, <2>2, <2>3
    <3> QED BY <2>2, <3>1, InWaits
  <2>4. CASE q = p /\ i <= Len(s)
    <3>1. i \in DOMAIN o[p] /\ o[p][i] = "WAIT_SWIPE"
      BY <1>1, <1>2, <1>3, <1>4, <2>2, <2>4
    <3> QED BY <2>2, <2>4, <3>1, InWaits
  <2>5. CASE q = p /\ ~(i <= Len(s))
    <3>1. i \in 1 .. Len(s) + Len(w) /\ i - Len(s) \in 1 .. Len(w) /\ w[i - Len(s)] = "WAIT_SWIPE"
      BY <1>1, <1>2, <1>3, <1>4, <2>2, <2>5, SMTT(40)
    <3>2. i - Len(s) = Len(w)
      BY <1>1, <3>1
    <3>3. i = Len(s) + Len(w)
      BY <1>1, <1>2, <3>1, <3>2
    <3> QED BY <2>2, <2>5, <3>3
  <2> QED BY <2>3, <2>4, <2>5
<1> QED BY <1>5, OneMore DEF o2, w

\* Loading the properties is no wait.
LEMMA LoadAdded ==
  ASSUME NEW o \in Queues, NEW p \in Processors
  PROVE  WaitsIn([o EXCEPT ![p] = Append(@, "LOAD_PROPERTIES")]) = WaitsIn(o)
<1> DEFINE o2 == [o EXCEPT ![p] = Append(@, "LOAD_PROPERTIES")]
<1>1. o2[p] = Append(o[p], "LOAD_PROPERTIES") /\ \A q \in Processors : q # p => o2[q] = o[q]
  BY DEF Queues
<1>2. /\ o[p] \in Seq(Operations) /\ Len(o[p]) \in Nat /\ DOMAIN o[p] = 1 .. Len(o[p])
      /\ "LOAD_PROPERTIES" \in Operations
  BY LenProperties DEF Queues, Operations
<1> HIDE DEF o2
<1>3. /\ DOMAIN o2[p] = 1 .. Len(o[p]) + 1
      /\ \A i \in 1 .. Len(o[p]) : o2[p][i] = o[p][i]
      /\ o2[p][Len(o[p]) + 1] = "LOAD_PROPERTIES"
  BY <1>1, <1>2, AppendProperties, LenProperties
<1>4. \A i : i \in DOMAIN o2[p] /\ o2[p][i] = "WAIT_SWIPE" <=> i \in DOMAIN o[p] /\ o[p][i] = "WAIT_SWIPE"
  BY <1>2, <1>3
<1>5. \A q \in Processors : \A i :
        i \in DOMAIN o2[q] /\ o2[q][i] = "WAIT_SWIPE" <=> i \in DOMAIN o[q] /\ o[q][i] = "WAIT_SWIPE"
  BY <1>1, <1>4
<1>6. \A v : v \in WaitsIn(o2) <=> v \in WaitsIn(o)
  BY <1>5, InWaits
<1> QED BY <1>6 DEF o2

\* A processor is set up with one wait, whatever was in its place.
LEMMA WaitsSetUp ==
  ASSUME NEW o \in Queues, NEW p \in Processors, IsFiniteSet(WaitsIn(o))
  PROVE  LET o2 == [o EXCEPT ![p] = <<"START">> \o wait_operations(TRUE)] IN
           /\ IsFiniteSet(WaitsIn(o2)) /\ Cardinality(WaitsIn(o2)) \in Nat
           /\ Cardinality(WaitsIn(o2)) <= Cardinality(WaitsIn(o)) + 1
<1> DEFINE w == wait_operations(TRUE)
           t == <<"START">> \o w
           o2 == [o EXCEPT ![p] = t]
           x == <<p, 1 + Len(w)>>
<1>1. /\ w \in Seq(Operations) /\ Len(w) \in Nat
      /\ \A i \in 1 .. Len(w) : w[i] = "WAIT_SWIPE" => i = Len(w)
  BY WaitOperationsTyped, OneWaitEach
<1> HIDE DEF w
<1>2. /\ DOMAIN t = 1 .. 1 + Len(w) /\ t[1] # "WAIT_SWIPE"
      /\ \A i \in 1 .. 1 + Len(w) : i > 1 => t[i] = w[i - 1]
  <2>1. <<"START">> \in Seq(Operations) /\ Len(<<"START">>) = 1 /\ <<"START">>[1] = "START"
    BY DEF Operations
  <2>2. /\ t \in Seq(Operations) /\ Len(t) = 1 + Len(w)
        /\ \A i \in 1 .. 1 + Len(w) : t[i] = IF i <= 1 THEN <<"START">>[i] ELSE w[i - 1]
    BY <1>1, <2>1, ConcatProperties
  <2>3. DOMAIN t = 1 .. 1 + Len(w)
    BY <2>2, LenProperties
  <2> QED BY <1>1, <2>1, <2>2, <2>3
<1>3. o2[p] = t /\ \A q \in Processors : q # p => o2[q] = o[q]
  BY DEF Queues
<1> HIDE DEF t, o2
<1>4. ASSUME NEW v \in WaitsIn(o2)
      PROVE  v \in WaitsIn(o) \cup {x}
  <2>1. PICK q \in Processors : \E i \in DOMAIN o2[q] : o2[q][i] = "WAIT_SWIPE" /\ v = <<q, i>>
    BY InWaits
  <2>2. PICK i \in DOMAIN o2[q] : o2[q][i] = "WAIT_SWIPE" /\ v = <<q, i>>
    BY <2>1
  <2>3. CASE q # p
    <3>1. i \in DOMAIN o[q] /\ o[q][i] = "WAIT_SWIPE"
      BY <1>3, <2>2, <2>3
    <3> QED BY <2>2, <3>1, InWaits
  <2>4. CASE q = p
    <3>1. i \in 1 .. 1 + Len(w) /\ t[i] = "WAIT_SWIPE"
      BY <1>2, <1>3, <2>2, <2>4
    <3>2. i > 1 /\ i - 1 \in 1 .. Len(w) /\ w[i - 1] = "WAIT_SWIPE"
      BY <1>1, <1>2, <3>1
    <3>3. i = 1 + Len(w)
      BY <1>1, <3>1, <3>2
    <3> QED BY <2>2, <2>4, <3>3
  <2> QED BY <2>3, <2>4
<1> QED BY <1>4, OneMore DEF o2, t, w

LEMMA TimersFinite ==
  ASSUME NEW T \in SUBSET Timers
  PROVE  IsFiniteSet(T) /\ Cardinality(T) \in Nat
<1>1. IsFiniteSet(Timers)
  BY FS_Interval, Bounds DEF Timers
<1> QED BY <1>1, FS_Subset, FS_CardinalityType

LEMMA TimersCounted ==
  ASSUME NEW T \in SUBSET Timers, NEW t
  PROVE  /\ Cardinality(T \ {t}) \in Nat /\ Cardinality(T \ {t}) <= Cardinality(T)
         /\ t \in T => Cardinality(T \ {t}) = Cardinality(T) - 1
         /\ Cardinality(T \cup {t}) \in Nat /\ Cardinality(T \cup {t}) <= Cardinality(T) + 1
<1>1. IsFiniteSet(T) /\ Cardinality(T) \in Nat
  BY TimersFinite
<1>2. /\ IsFiniteSet(T \ {t})
      /\ Cardinality(T \ {t}) = IF t \in T THEN Cardinality(T) - 1 ELSE Cardinality(T)
  BY <1>1, FS_RemoveElement
<1>3. /\ IsFiniteSet(T \cup {t})
      /\ Cardinality(T \cup {t}) = IF t \in T THEN Cardinality(T) ELSE Cardinality(T) + 1
  BY <1>1, FS_AddElement
<1>4. Cardinality(T \ {t}) \in Nat /\ Cardinality(T \cup {t}) \in Nat
  BY <1>2, <1>3, FS_CardinalityType
<1> QED BY <1>1, <1>2, <1>3, <1>4

\* What waiting again, done for the sake of a result or a timer that is gone,
\* does to the sum.
LEMMA WaitCounted ==
  ASSUME TypeOK, ChainInv, NEW reload_info \in BOOLEAN, wait_for_swipe(reload_info)
  PROVE  /\ IsFiniteSet(WaitsIn(ops')) /\ Cardinality(WaitsIn(ops')) \in Nat
         /\ Cardinality(WaitsIn(ops')) <= Cardinality(WaitsIn(ops)) + 1
<1>1. ops \in Queues /\ IsFiniteSet(WaitsIn(ops)) /\ Cardinality(WaitsIn(ops)) \in Nat
  BY FS_CardinalityType DEF TypeOK, Queues, ChainInv
<1>2. CASE processor = 0
  BY <1>1, <1>2 DEF wait_for_swipe
<1>3. CASE processor # 0
  <2>1. processor \in Processors
    BY <1>3, NumbersTyped DEF TypeOK
  <2>2. ops' = [ops EXCEPT ![processor] = @ \o wait_operations(reload_info)]
    BY <1>3 DEF wait_for_swipe
  <2> QED BY <1>1, <2>1, <2>2, WaitsAdded
<1> QED BY <1>2, <1>3

-----------------------------------------------------------------------------
LEMMA ChainStep ==
  ASSUME TypeOK, ChainInv, [Next]_vars
  PROVE  ChainInv'
<1> DEFINE q == Cardinality(WaitsIn(ops))
           r == Len(returned)
           m == Cardinality(timers)
<1>1. /\ ops \in Queues /\ IsFiniteSet(WaitsIn(ops))
      /\ q \in Nat /\ r \in Nat /\ m \in Nat /\ IsFiniteSet(timers)
      /\ created \in Nat /\ q + r + m <= created
  <2>1. returned \in Seq(Results) /\ created \in Nat
    BY Bounds DEF TypeOK, Results
  <2> QED BY <2>1, FS_CardinalityType, TimersFinite, LenProperties
          DEF TypeOK, ChainInv, ChainPerSetup, Queues
<1>2. ASSUME NEW Q, IsFiniteSet(Q), Q = WaitsIn(ops'),
             Cardinality(Q) + Len(returned') + Cardinality(timers') <= created'
      PROVE  ChainInv'
  BY <1>2 DEF ChainInv, ChainPerSetup
<1> HIDE DEF q, r, m
<1>3. remove_timer => Cardinality(timers') \in Nat /\ Cardinality(timers') <= m
  BY TimersCounted DEF remove_timer, TypeOK, m
<1>4. CASE plug_or_unplug \/ UNCHANGED vars \/ user_error \/ clear_user_error
  <2>1. UNCHANGED <<ops, returned, timers, created>>
    BY <1>4 DEF plug_or_unplug, vars, user_error, clear_user_error, procs, waiting
  <2> QED BY <2>1 DEF ChainInv, ChainPerSetup
<1>5. ASSUME NEW p \in Processors, Thread(p) PROVE ChainInv'
  <2>1. CASE run_load_asserts(p)
    BY <2>1 DEF run_load_asserts, procs, waiting, ChainInv, ChainPerSetup
  <2>2. CASE run_start(p) \/ \E result \in {"open", "closed", "stale"} : run_load(p, result)
    <3>1. ops[p] # <<>> /\ ops' = [ops EXCEPT ![p] = Tail(@)] /\ UNCHANGED <<returned, timers, created>>
      BY <2>2 DEF run_start, run_load, Runs, Done, waiting
    <3>2. IsFiniteSet(WaitsIn(ops')) /\ Cardinality(WaitsIn(ops')) \in Nat
          /\ Cardinality(WaitsIn(ops')) <= q
      BY <1>1, <3>1, WaitsTaken DEF q
    <3> QED BY <1>1, <1>2, <3>1, <3>2 DEF r, m
  <2>3. CASE run_wait_swipe(p)
    <3>1. /\ ops[p] # <<>> /\ Head(ops[p]) = "WAIT_SWIPE"
          /\ ops' = [ops EXCEPT ![p] = Tail(@)] /\ UNCHANGED <<timers, created>>
      BY <2>3 DEF run_wait_swipe, Runs, Done, waiting
    <3>2. IsFiniteSet(WaitsIn(ops')) /\ Cardinality(WaitsIn(ops')) \in Nat
          /\ Cardinality(WaitsIn(ops')) + 1 <= q
      BY <1>1, <3>1, WaitsTaken DEF q
    <3>3. Len(returned') = r + 1
      <4>1. PICK e \in Results : returned' = Append(returned, e)
        BY <2>3 DEF run_wait_swipe, Results
      <4> QED BY <4>1, AppendProperties DEF TypeOK, Results, r
    <3> QED BY <1>1, <1>2, <3>1, <3>2, <3>3 DEF m
  <2> QED BY <1>5, <2>1, <2>2, <2>3 DEF Thread
<1>6. CASE wait_for_swipe_ready
  <2>1. Len(returned') = r - 1 /\ r > 0 /\ created' = created
    BY <1>6, HeadTailProperties, EmptySeq DEF wait_for_swipe_ready, TypeOK, Results, r
  <2>2. CASE wait_succeeded \/ wait_timed_out
    <3>1. /\ IsFiniteSet(WaitsIn(ops')) /\ Cardinality(WaitsIn(ops')) \in Nat
          /\ Cardinality(WaitsIn(ops')) <= q + 1
      BY <2>2, WaitCounted DEF wait_succeeded, wait_timed_out, q
    <3>2. UNCHANGED timers
      BY <2>2 DEF wait_succeeded, wait_timed_out, waiting
    <3> QED BY <1>1, <1>2, <2>1, <3>1, <3>2 DEF m
  <2>3. CASE wait_failed
    <3> DEFINE t == CHOOSE id \in Timers : id \notin timers \cup {scheduled_id}
    <3>1. timers' = timers \cup {t} /\ UNCHANGED ops
      BY <2>3 DEF wait_failed
    <3> HIDE DEF t
    <3>2. Cardinality(timers') \in Nat /\ Cardinality(timers') <= m + 1
      BY <3>1, TimersCounted DEF TypeOK, m
    <3> QED BY <1>1, <1>2, <2>1, <3>1, <3>2 DEF q
  <2> QED BY <1>6, <2>2, <2>3 DEF wait_for_swipe_ready
<1>7. ASSUME NEW t \in Timers, wait_for_swipe_reschedule_cb(t) PROVE ChainInv'
  <2>1. /\ t \in timers /\ timers' = timers \ {t} /\ wait_for_swipe(TRUE)
        /\ UNCHANGED <<returned, created>>
    BY <1>7 DEF wait_for_swipe_reschedule_cb
  <2>2. /\ IsFiniteSet(WaitsIn(ops')) /\ Cardinality(WaitsIn(ops')) \in Nat
        /\ Cardinality(WaitsIn(ops')) <= q + 1
    BY <2>1, WaitCounted DEF q
  <2>3. Cardinality(timers') = m - 1 /\ m - 1 \in Nat
    BY <2>1, TimersCounted DEF TypeOK, m
  <2> QED BY <1>1, <1>2, <2>1, <2>2, <2>3 DEF r
<1>8. CASE handle_uevent
  <2>1. remove_timer /\ UNCHANGED returned
    BY <1>8 DEF handle_uevent, reset_window
  <2>2. CASE reset_without_device
    <3>1. UNCHANGED <<ops, created>>
      BY <2>2 DEF reset_without_device
    <3> QED BY <1>1, <1>2, <1>3, <2>1, <3>1 DEF q, r
  <2>3. CASE reset_with_device
    <3>1. /\ created + 1 \in Processors /\ created' = created + 1
          /\ ops' = [ops EXCEPT ![created + 1] = <<"START">> \o wait_operations(TRUE)]
      BY <2>3, NumbersTyped DEF reset_with_device, TypeOK
    <3>2. /\ IsFiniteSet(WaitsIn(ops')) /\ Cardinality(WaitsIn(ops')) \in Nat
          /\ Cardinality(WaitsIn(ops')) <= q + 1
      BY <1>1, <3>1, WaitsSetUp DEF q
    <3> QED BY <1>1, <1>2, <1>3, <2>1, <3>1, <3>2 DEF r
  <2> QED BY <1>8, <2>2, <2>3 DEF handle_uevent, reset_window
<1>9. CASE remote_services_operation_ongoing_updated
  <2>1. /\ processor \in Processors /\ UNCHANGED <<returned, timers, created>>
        /\ ops' = [ops EXCEPT ![processor] = Append(@, "LOAD_PROPERTIES")]
    BY <1>9, NumbersTyped DEF remote_services_operation_ongoing_updated, TypeOK, waiting
  <2>2. WaitsIn(ops') = WaitsIn(ops)
    BY <1>1, <2>1, LoadAdded
  <2> QED BY <2>1, <2>2 DEF ChainInv, ChainPerSetup
<1>10. CASE dispose
  <2>1. remove_timer /\ UNCHANGED <<ops, returned, created>>
    BY <1>10 DEF dispose
  <2> QED BY <1>1, <1>2, <1>3, <2>1 DEF q, r
<1> QED BY <1>4, <1>5, <1>6, <1>7, <1>8, <1>9, <1>10 DEF Next, User

\* Every wait queued, answered or put off by a timer belongs to the chain of
\* some setup of a processor: results, timers and resets fork none, in any
\* order, for any number of processors and timers.
THEOREM WindowNeverForks == Spec => []ChainPerSetup
<1>1. Init => ChainInv
  <2> SUFFICES ASSUME Init PROVE ChainInv
    OBVIOUS
  <2>1. WaitsIn(ops) = {}
    <3>1. \A p \in Processors : DOMAIN ops[p] = {}
      BY DEF Init
    <3> QED BY <3>1, InWaits
  <2> QED BY <2>1, FS_EmptySet DEF Init, ChainInv, ChainPerSetup
<1>2. ChainInv => ChainPerSetup
  BY DEF ChainInv
<1>3. TypeOK /\ ChainInv /\ [Next]_vars => ChainInv'
  BY ChainStep
<1> QED BY <1>1, <1>2, <1>3, WindowTyped, PTL DEF Spec
=============================================================================
