----------------------- MODULE MuiRemoteServicesProofs -----------------------
(***************************************************************************)
(* The remote services page runs one operation at a time and never waits   *)
(* for a callback that is not to come, whatever the readers do, for any    *)
(* keys and bounds; and as long as readers stay where they are during      *)
(* operations, what was downloaded for a reader is run on it.              *)
(***************************************************************************)
EXTENDS MuiRemoteServices, TLAPS

Operations == {"LOAD", "COMMAND", "RESET"}

\* Each operation begun executes one command at most.
Counted == n_commands_executed <= begun /\ (cancellable => n_commands_executed + 1 <= begun)

\* The dialog is modal: no operation is going on behind it.
Modal == dialog # None => op = None

\* What a key update, or the dialog before it, is about is a key.
UpdatesKey ==
  /\ op # None /\ op.kind = "KEY_UPDATE" => op.id \in Keys
  /\ dialog # None /\ dialog.type = "keys" => dialog.id \in Keys

ListKinds == {"KEY_LIST", "COMMAND_LIST"}

\* A list that is waited for has not been filled.
ListUnfilled == op # None /\ op.kind \in ListKinds => ~size_groups /\ op.stage = "remote"

Commanded(p, i) == i \in DOMAIN queue[p] /\ queue[p][i] = "COMMAND"

\* The only command queued anywhere is that of the operation.
OneCommand ==
  /\ op # None => op.proc <= created
  /\ \A p \in Readers, i \in Nat : Commanded(p, i) => op # None /\ op.stage = "run" /\ op.proc = p
  /\ \A p \in Readers, i, j \in Nat : Commanded(p, i) /\ Commanded(p, j) => i = j

\* A command that was scheduled is still to be run.
CommandWaits ==
  op # None /\ op.stage = "run" /\ Alive
    => op.proc \in Readers /\ \E i \in Nat : Commanded(op.proc, i)

\* A KSN that is valid is one that was read.
KsnKnown == ksn_set => ksn # None

RInv ==
  /\ TypeOK /\ Counted /\ Modal /\ UpdatesKey /\ ListUnfilled /\ OneCommand /\ CommandWaits
  /\ KsnKnown /\ AssertionsHold /\ (cancellable <=> op # None)

-----------------------------------------------------------------------------
LEMMA Most == TypeOK => MostOperations \in Nat
BY Bounds DEF TypeOK, MostOperations

LEMMA InitR == Init => RInv
<1> SUFFICES ASSUME Init PROVE RInv
  OBVIOUS
<1> USE Bounds
<1>1. queue \in [Readers -> Seq(Operations)] /\ \A p \in Readers : queue[p] = <<>>
  BY DEF Init, Operations
<1>2. \A p \in Readers, i \in Nat : ~Commanded(p, i)
  BY <1>1 DEF Commanded
<1>3. items \in Seq([kind : {"KSN", "MUT"}, value : Identity \cup {None}])
  BY DEF Init
<1>4. TypeOK
  <2>1. steady \in BOOLEAN /\ MostOperations \in Nat
    BY DEF Init, MostOperations
  <2>2. processor \in 0 .. created /\ created \in 0 .. MaxReaders
    BY DEF Init
  <2>3. key \in [Readers -> AnyKey]
    BY DEF Init
  <2>4. n_commands_executed \in 0 .. MostOperations /\ begun \in 0 .. MostOperations
    BY <2>1 DEF Init
  <2> HIDE Bounds
  <2> QED BY <1>1, <1>3, <2>1, <2>2, <2>3, <2>4, Zenon DEF Init, TypeOK, Operations
<1> QED BY <1>2, <1>4 DEF Init, RInv, Counted, Modal, UpdatesKey, ListUnfilled, OneCommand, CommandWaits, KsnKnown, AssertionsHold

\* An operation is scheduled on a processor.
LEMMA Pushed ==
  ASSUME queue \in [Readers -> Seq(Operations)], NEW p \in Readers, NEW t \in Operations,
         queue' = [queue EXCEPT ![p] = Append(@, t)]
  PROVE  /\ queue' \in [Readers -> Seq(Operations)]
         /\ \A q \in Readers, i \in Nat :
              Commanded(q, i)' <=> Commanded(q, i)
                                   \/ (q = p /\ i = Len(queue[p]) + 1 /\ t = "COMMAND")
<1>1. queue' \in [Readers -> Seq(Operations)]
  OBVIOUS
<1>2. \A q \in Readers \ {p} : queue'[q] = queue[q]
  OBVIOUS
<1>3. queue'[p] = Append(queue[p], t) /\ queue[p] \in Seq(Operations)
  OBVIOUS
<1>4. \A i \in Nat : Commanded(p, i)' <=> Commanded(p, i) \/ (i = Len(queue[p]) + 1 /\ t = "COMMAND")
  BY <1>3 DEF Commanded
<1>5. \A q \in Readers \ {p}, i \in Nat : Commanded(q, i)' <=> Commanded(q, i)
  BY <1>2 DEF Commanded
<1> QED BY <1>1, <1>4, <1>5

\* A thread takes an operation from its queue.
LEMMA Popped ==
  ASSUME queue \in [Readers -> Seq(Operations)], NEW p \in Readers, queue[p] # <<>>,
         queue' = [queue EXCEPT ![p] = Tail(@)]
  PROVE  /\ queue' \in [Readers -> Seq(Operations)]
         /\ \A i \in Nat : Commanded(p, i)' <=> i # 0 /\ Commanded(p, i + 1)
         /\ \A q \in Readers \ {p}, i \in Nat : Commanded(q, i)' <=> Commanded(q, i)
<1>1. queue' \in [Readers -> Seq(Operations)]
  OBVIOUS
<1>2. \A q \in Readers \ {p} : queue'[q] = queue[q]
  OBVIOUS
<1>3. queue'[p] = Tail(queue[p]) /\ queue[p] \in Seq(Operations)
  OBVIOUS
<1>4. \A i \in Nat : Commanded(p, i)' <=> i # 0 /\ Commanded(p, i + 1)
  BY <1>3 DEF Commanded
<1>5. \A q \in Readers \ {p}, i \in Nat : Commanded(q, i)' <=> Commanded(q, i)
  BY <1>2 DEF Commanded
<1> QED BY <1>1, <1>4, <1>5

LEMMA NotPushed ==
  ASSUME UNCHANGED queue
  PROVE  \A q, i : Commanded(q, i)' <=> Commanded(q, i)
BY DEF Commanded

\* A context that lost its row is the same otherwise.
LEMMA Orphaned ==
  /\ \A ctx \in Contexts :
       /\ Orphan(ctx) \in Contexts /\ Orphan(ctx) # None
       /\ Orphan(ctx).kind = ctx.kind /\ Orphan(ctx).stage = ctx.stage
       /\ Orphan(ctx).proc = ctx.proc /\ Orphan(ctx).id = ctx.id
  /\ \A ctx \in Dialogs :
       /\ Orphan(ctx) \in Dialogs /\ Orphan(ctx) # None
       /\ Orphan(ctx).type = ctx.type /\ Orphan(ctx).id = ctx.id
  /\ Orphan(None) = None
<1>1. ASSUME NEW ctx \in Contexts
      PROVE  /\ Orphan(ctx) \in Contexts
             /\ Orphan(ctx).kind = ctx.kind /\ Orphan(ctx).stage = ctx.stage
             /\ Orphan(ctx).proc = ctx.proc /\ Orphan(ctx).id = ctx.id
  BY NoneIsNoContext DEF Orphan, Contexts
<1>2. \A ctx \in Dialogs :
        Orphan(ctx) \in Dialogs /\ Orphan(ctx).type = ctx.type /\ Orphan(ctx).id = ctx.id
  BY NoneIsNoContext DEF Orphan, Dialogs
<1> QED BY <1>1, <1>2, NoneIsNoContext DEF Orphan

\* Plug and Unplug.
LEMMA ResetStep ==
  ASSUME RInv, Plug \/ Unplug
  PROVE  RInv'
<1>1. UNCHANGED <<steady, key, items, ksn, mut, cancellable, begun, aborted, crashed>>
      /\ listbox' = "empty" /\ size_groups' = FALSE
      /\ dialog' = Orphan(dialog) /\ op' = Orphan(op)
      /\ n_commands_executed' = 0 /\ key_id' = None /\ ksn_set' = FALSE /\ mut_set' = FALSE
  BY DEF Plug, Unplug, reset_window, common_results_listbox_clear
<1>2. TypeOK /\ Alive
  BY DEF RInv, Plug, Unplug, MayChangeReader
<1>3. /\ op' \in Contexts \cup {None} /\ (op' = None <=> op = None)
      /\ op # None => op'.kind = op.kind /\ op'.stage = op.stage /\ op'.proc = op.proc /\ op'.id = op.id
  BY <1>1, <1>2, Orphaned DEF TypeOK
<1>4. /\ dialog' \in Dialogs \cup {None} /\ (dialog' = None <=> dialog = None)
      /\ dialog # None => dialog'.type = dialog.type /\ dialog'.id = dialog.id
  BY <1>1, <1>2, Orphaned DEF TypeOK
<1>5. /\ queue' \in [Readers -> Seq(Operations)]
      /\ created \in Nat /\ created' \in created .. MaxReaders /\ processor' \in 0 .. created'
      /\ \A q \in Readers, i \in Nat : Commanded(q, i)' => Commanded(q, i)
      /\ \A q \in Readers, i \in Nat : q <= created => (Commanded(q, i)' <=> Commanded(q, i))
  <2>1. queue \in [Readers -> Seq(Operations)] /\ created \in 0 .. MaxReaders
    BY <1>2 DEF TypeOK, Operations
  <2>2. CASE Plug
    <3>1. PICK r \in Readers :
            /\ r = created + 1 /\ created' = r /\ processor' = r
            /\ queue' = [queue EXCEPT ![r] = <<"LOAD">>]
      <4>1. created + 1 \in Readers
        BY <2>1, <2>2, Bounds DEF Plug, Readers
      <4>2. created' = created + 1 /\ queue' = [queue EXCEPT ![created'] = <<"LOAD">>] /\ processor' = created'
        BY <2>2 DEF Plug, reset_window
      <4> QED BY <4>1, <4>2
    <3>2. queue' \in [Readers -> Seq(Operations)]
      <4>1. <<"LOAD">> \in Seq(Operations)
        BY DEF Operations
      <4> QED BY <2>1, <3>1, <4>1
    <3>3. \A q \in Readers \ {r} : queue'[q] = queue[q]
      BY <2>1, <3>1
    <3>4. queue'[r] = <<"LOAD">>
      BY <2>1, <3>1
    <3>5. \A i \in Nat : ~Commanded(r, i)'
      BY <3>4 DEF Commanded
    <3>6. \A q \in Readers \ {r}, i \in Nat : Commanded(q, i)' <=> Commanded(q, i)
      BY <3>3 DEF Commanded
    <3>7. \A q \in Readers, i \in Nat : Commanded(q, i)' => Commanded(q, i)
      BY <3>5, <3>6
    <3>8. \A q \in Readers, i \in Nat : q <= created => (Commanded(q, i)' <=> Commanded(q, i))
      BY <2>1, <3>1, <3>6, Bounds
    <3>9. created \in Nat /\ created' \in created .. MaxReaders /\ processor' \in 0 .. created'
      BY <2>1, <3>1, Bounds DEF Readers
    <3> QED BY <3>2, <3>7, <3>8, <3>9
  <2>3. CASE Unplug
    <3>1. UNCHANGED <<created, queue>> /\ processor' = 0
      BY <2>3 DEF Unplug, reset_window
    <3> QED BY <2>1, <3>1, NotPushed
  <2> QED BY <2>2, <2>3
<1>6. TypeOK'
  <2>1. MostOperations \in Nat /\ MostOperations' = MostOperations
    BY <1>1, <1>2, Most DEF MostOperations
  <2>2. created' \in 0 .. MaxReaders /\ processor' \in 0 .. created'
    BY <1>5, Bounds
  <2>3. n_commands_executed' \in 0 .. MostOperations' /\ begun' \in 0 .. MostOperations'
    BY <1>1, <1>2, <2>1 DEF TypeOK
  <2> QED BY <1>1, <1>2, <1>3, <1>4, <1>5, <2>2, <2>3, Zenon DEF TypeOK, Operations
<1>7. Counted'
  <2>1. begun \in Nat /\ n_commands_executed \in Nat
    BY <1>2, Most DEF TypeOK
  <2> QED BY <1>1, <2>1 DEF RInv, Counted
<1>8. Modal' /\ UpdatesKey' /\ ListUnfilled' /\ KsnKnown' /\ AssertionsHold' /\ (cancellable <=> op # None)'
  BY <1>1, <1>3, <1>4 DEF RInv, Modal, UpdatesKey, ListUnfilled, KsnKnown, AssertionsHold
<1>9. OneCommand'
  <2>1. op' # None => op'.proc <= created'
    <3>1. op # None => op.proc \in Readers \cup {0}
      BY <1>2 DEF TypeOK, Contexts
    <3>2. op # None => op.proc <= created
      BY DEF RInv, OneCommand
    <3> QED BY <1>3, <1>5, <3>1, <3>2, Bounds DEF Readers
  <2> QED BY <1>3, <1>5, <2>1 DEF RInv, OneCommand
<1>10. CommandWaits'
  <2> SUFFICES ASSUME op # None, op.stage = "run"
               PROVE  \E q \in Readers, i \in Nat : q = op.proc /\ Commanded(q, i)'
    BY <1>3 DEF CommandWaits
  <2>1. PICK q \in Readers, i \in Nat : q = op.proc /\ Commanded(q, i)
    BY <1>2 DEF RInv, CommandWaits
  <2>2. q <= created
    BY <2>1 DEF RInv, OneCommand
  <2> QED BY <1>5, <2>1, <2>2
<1> QED BY <1>6, <1>7, <1>8, <1>9, <1>10 DEF RInv

\* run_load, run_reset
LEMMA LoadStep ==
  ASSUME RInv, NEW p \in Readers, run_load(p) \/ run_reset(p)
  PROVE  RInv'
<1>1. /\ queue[p] # <<>> /\ Head(queue[p]) # "COMMAND"
      /\ queue' = [queue EXCEPT ![p] = Tail(@)]
      /\ UNCHANGED <<reader, info, cancellable, rows, n_commands_executed, dialog, op,
                     begun, aborted, crashed>>
  BY DEF run_load, run_reset, Runs
<1>2. TypeOK /\ queue \in [Readers -> Seq(Operations)]
  BY DEF RInv, TypeOK, Operations
<1>3. /\ queue' \in [Readers -> Seq(Operations)]
      /\ \A i \in Nat : Commanded(p, i)' <=> i # 0 /\ Commanded(p, i + 1)
      /\ \A q \in Readers \ {p}, i \in Nat : Commanded(q, i)' <=> Commanded(q, i)
  BY <1>1, <1>2, Popped
<1>4. items' \in Seq([kind : {"KSN", "MUT"}, value : Identity \cup {None}])
  <2>1. CASE run_reset(p)
    BY <1>2, <2>1 DEF run_reset, TypeOK
  <2>2. CASE run_load(p)
    <3>1. PICK value \in {[reader |-> p, key |-> key[p]]} \cup (IF steady THEN {} ELSE {None}) :
            items' = IF p = processor
                       THEN items \o <<[kind |-> "KSN", value |-> value],
                                       [kind |-> "MUT", value |-> value]>>
                       ELSE items
      BY <2>2 DEF run_load
    <3>2. value \in Identity \cup {None}
      BY <1>2 DEF TypeOK, Identity
    <3> DEFINE I == [kind : {"KSN", "MUT"}, value : Identity \cup {None}]
    <3>3. <<[kind |-> "KSN", value |-> value], [kind |-> "MUT", value |-> value]>> \in Seq(I)
      <4>1. [kind |-> "KSN", value |-> value] \in I /\ [kind |-> "MUT", value |-> value] \in I
        BY <3>2
      <4> HIDE DEF I
      <4> QED BY <4>1
    <3>4. items \in Seq(I)
      BY <1>2 DEF TypeOK
    <3> HIDE DEF I
    <3>5. items' \in Seq(I)
      BY <3>1, <3>3, <3>4
    <3> QED BY <3>5 DEF I
  <2> QED BY <2>1, <2>2
<1>5. TypeOK'
  BY <1>1, <1>2, <1>3, <1>4 DEF TypeOK, Operations, reader, info, rows, MostOperations
<1>6. /\ Counted' /\ Modal' /\ UpdatesKey' /\ ListUnfilled' /\ KsnKnown' /\ AssertionsHold'
      /\ (cancellable <=> op # None)'
  BY <1>1 DEF RInv, Counted, Modal, UpdatesKey, ListUnfilled, KsnKnown, AssertionsHold, info, rows, reader
<1>7. OneCommand'
  <2>1. \A q \in Readers, i \in Nat :
          Commanded(q, i)' => op # None /\ op.stage = "run" /\ op.proc = q
    BY <1>3 DEF RInv, OneCommand
  <2>2. \A q \in Readers, i, j \in Nat : Commanded(q, i)' /\ Commanded(q, j)' => i = j
    <3>1. \A q \in Readers, i, j \in Nat : Commanded(q, i) /\ Commanded(q, j) => i = j
      BY DEF RInv, OneCommand
    <3>2. ASSUME NEW i \in Nat, NEW j \in Nat, Commanded(p, i)', Commanded(p, j)'
          PROVE  i = j
      <4>1. Commanded(p, i + 1) /\ Commanded(p, j + 1)
        BY <1>3, <3>2
      <4> QED BY <3>1, <4>1
    <3> QED BY <1>3, <3>1, <3>2
  <2> QED BY <1>1, <2>1, <2>2 DEF RInv, OneCommand, reader
<1>8. CommandWaits'
  <2> SUFFICES ASSUME op # None, op.stage = "run", Alive
               PROVE  \E q \in Readers, i \in Nat : q = op.proc /\ Commanded(q, i)'
    BY <1>1 DEF CommandWaits, Alive
  <2>1. PICK q \in Readers, i \in Nat : q = op.proc /\ Commanded(q, i)
    BY DEF RInv, CommandWaits
  <2>2. CASE q # p
    BY <1>3, <2>1, <2>2
  <2>3. CASE q = p
    <3>1. i \in 1 .. Len(queue[p]) /\ queue[p][i] = "COMMAND"
      BY <1>2, <2>1, <2>3 DEF Commanded
    <3>2. i # 1
      BY <1>1, <1>2, <3>1
    <3>3. PICK j \in Nat : j # 0 /\ j + 1 = i
      BY <3>1, <3>2
    <3>4. Commanded(p, j)'
      BY <1>3, <2>1, <2>3, <3>3
    <3> QED BY <2>1, <2>3, <3>4
  <2> QED BY <2>2, <2>3
<1> QED BY <1>5, <1>6, <1>7, <1>8 DEF RInv

LEMMA CommandStep ==
  ASSUME RInv, NEW p \in Readers, run_command(p)
  PROVE  RInv'
<1>1. /\ queue[p] # <<>> /\ Head(queue[p]) = "COMMAND"
      /\ queue' = [queue EXCEPT ![p] = Tail(@)]
      /\ UNCHANGED <<steady, processor, created, items, info, cancellable, rows,
                     n_commands_executed, dialog, begun, aborted, crashed>>
  BY DEF run_command, Runs
<1>2. TypeOK /\ queue \in [Readers -> Seq(Operations)]
  BY DEF RInv, TypeOK, Operations
<1>3. /\ queue' \in [Readers -> Seq(Operations)]
      /\ \A i \in Nat : Commanded(p, i)' <=> i # 0 /\ Commanded(p, i + 1)
      /\ \A q \in Readers \ {p}, i \in Nat : Commanded(q, i)' <=> Commanded(q, i)
  BY <1>1, <1>2, Popped
<1>4. Commanded(p, 1)
  BY <1>1, <1>2 DEF Commanded
<1>5. op \in Contexts /\ op # None /\ op.stage = "run" /\ op.proc = p
  BY <1>2, <1>4 DEF RInv, OneCommand, TypeOK
<1>6. PICK result \in {"ok", "failed"}, applied \in BOOLEAN :
        /\ key' = IF applied /\ op.kind = "KEY_UPDATE" THEN [key EXCEPT ![p] = op.id] ELSE key
        /\ op' = [op EXCEPT !.stage = result]
  BY DEF run_command
<1>7. /\ op' \in Contexts /\ op' # None /\ op'.stage # "run"
      /\ op'.kind = op.kind /\ op'.proc = op.proc
  BY <1>5, <1>6, NoneIsNoContext DEF Contexts
<1>8. \A q \in Readers, i \in Nat : ~Commanded(q, i)'
  <2>1. \A i \in Nat : Commanded(p, i) => i = 1
    BY <1>4 DEF RInv, OneCommand
  <2>2. \A i \in Nat : i # 0 => ~Commanded(p, i + 1)
    BY <2>1
  <2>3. \A q \in Readers \ {p}, i \in Nat : ~Commanded(q, i)
    BY <1>5 DEF RInv, OneCommand
  <2> QED BY <1>3, <2>2, <2>3
<1>9. key' \in [Readers -> AnyKey]
  <2>1. op.kind = "KEY_UPDATE" => op.id \in AnyKey
    BY <1>5 DEF RInv, UpdatesKey, AnyKey
  <2> QED BY <1>2, <1>6, <2>1 DEF TypeOK
<1>10. TypeOK'
  BY <1>1, <1>2, <1>3, <1>7, <1>9 DEF TypeOK, Operations, info, rows, MostOperations
<1>11. Counted' /\ Modal' /\ KsnKnown' /\ AssertionsHold' /\ (cancellable <=> op # None)' /\ UpdatesKey'
  BY <1>1, <1>5, <1>6, <1>7 DEF RInv, Counted, Modal, KsnKnown, AssertionsHold, info, rows, UpdatesKey, Contexts
<1>12. ListUnfilled'
  BY <1>5, <1>7 DEF RInv, ListUnfilled
<1>13. OneCommand' /\ CommandWaits'
  BY <1>1, <1>5, <1>7, <1>8 DEF RInv, OneCommand, CommandWaits
<1> QED BY <1>10, <1>11, <1>12, <1>13 DEF RInv

LEMMA ItemStep ==
  ASSUME RInv, report_item
  PROVE  RInv'
<1>1. UNCHANGED <<reader, queue, key_id, cancellable, rows, n_commands_executed, dialog,
                  op, begun, aborted, crashed>>
  BY DEF report_item
<1> DEFINE I == [kind : {"KSN", "MUT"}, value : Identity \cup {None}]
<1>2. items \in Seq(I) /\ items # <<>> /\ items' = Tail(items)
  BY DEF RInv, TypeOK, report_item
<1>3. items' \in Seq(I) /\ Head(items) \in I
  <2> HIDE DEF I
  <2> QED BY <1>2
<1>4. Head(items).value \in Identity \cup {None}
  BY <1>3
<1>5. ksn' \in Identity \cup {None} /\ mut' \in Identity \cup {None}
      /\ ksn_set' \in BOOLEAN /\ mut_set' \in BOOLEAN
  BY <1>4 DEF report_item, RInv, TypeOK
<1>6. TypeOK'
  <2>1. UNCHANGED <<steady, processor, created, key, listbox, size_groups, MostOperations>>
    BY <1>1 DEF reader, rows, MostOperations
  <2>2. TypeOK
    BY DEF RInv
  <2> QED BY <1>1, <1>3, <1>5, <2>1, <2>2, Zenon DEF TypeOK
<1>7. /\ Counted' /\ Modal' /\ UpdatesKey' /\ ListUnfilled' /\ AssertionsHold'
      /\ (cancellable <=> op # None)'
  BY <1>1 DEF RInv, Counted, Modal, UpdatesKey, ListUnfilled, AssertionsHold, rows
<1>9. KsnKnown'
  BY <1>4 DEF RInv, KsnKnown, report_item
<1>8. OneCommand' /\ CommandWaits'
  BY <1>1, NotPushed DEF RInv, OneCommand, CommandWaits, Alive, reader
<1> QED BY <1>6, <1>7, <1>8, <1>9 DEF RInv

\* What operations of the page leave alone.
Kept == <<reader, items, ksn, ksn_set, mut, mut_set>>

\* An operation begins, goes on or ends: what is left to show is about its
\* context and the queues.
LEMMA OperationStep ==
  ASSUME RInv, UNCHANGED Kept,
         queue' \in [Readers -> Seq(Operations)], key_id' \in Keys \cup {None},
         cancellable' \in BOOLEAN, cancellable' <=> op' # None, op' \in Contexts \cup {None},
         size_groups' \in BOOLEAN, listbox' \in {"empty", "keys", "commands"},
         dialog' \in Dialogs \cup {None}, n_commands_executed' \in Nat,
         begun' \in Nat, begun' <= MostOperations, Counted',
         aborted' = FALSE, crashed' \in BOOLEAN,
         Modal', UpdatesKey', ListUnfilled', OneCommand', CommandWaits'
  PROVE  RInv'
<1>1. TypeOK /\ MostOperations \in Nat /\ MostOperations' = MostOperations
  BY Most DEF RInv, MostOperations, Kept, reader
<1>2. n_commands_executed' \in 0 .. MostOperations' /\ begun' \in 0 .. MostOperations'
  <2>1. n_commands_executed' <= begun'
    BY DEF Counted
  <2>2. n_commands_executed' \in 0 .. MostOperations /\ begun' \in 0 .. MostOperations
    BY <1>1, <2>1
  <2> QED BY <1>1, <2>2
<1>3. TypeOK'
  BY <1>1, <1>2, Zenon DEF TypeOK, Kept, reader, Operations
<1> QED BY <1>3 DEF RInv, AssertionsHold, KsnKnown, Kept

\* What the invariant says of a state in which no command is queued.
LEMMA NoCommand ==
  ASSUME RInv, op # None => op.stage # "run"
  PROVE  \A q \in Readers, i \in Nat : ~Commanded(q, i)
BY DEF RInv, OneCommand

\* Begin, in a state without an operation.
LEMMA Begun ==
  ASSUME RInv, Begin, op = None
  PROVE  /\ aborted' = FALSE /\ begun' = begun + 1 /\ begun' \in Nat /\ begun' <= MostOperations
         /\ begun \in Nat /\ n_commands_executed \in Nat
         /\ n_commands_executed <= begun
<1>1. TypeOK /\ MostOperations \in Nat /\ Counted /\ cancellable = FALSE
  BY Most DEF RInv, TypeOK
<1> QED BY <1>1 DEF Begin, TypeOK, Counted

LEMMA ListBegins ==
  ASSUME RInv, NEW kind \in ListKinds, start_main_operation(kind)
  PROVE  RInv'
<1>1. TypeOK /\ op = None /\ dialog = None
  BY DEF RInv, start_main_operation, ButtonsSensitive, UserCan
<1>2. Context(kind, "remote", None, TRUE) \in Contexts /\ op' = Context(kind, "remote", None, TRUE)
      /\ op' # None /\ op'.kind = kind /\ op'.stage = "remote" /\ op'.proc = 0 /\ cancellable' = TRUE
  <2>1. op' = Context(kind, "remote", None, TRUE) /\ cancellable' = TRUE
    BY DEF start_main_operation, Ongoing
  <2>2. kind \in {"KEY_LIST", "COMMAND_LIST", "KEY_UPDATE", "COMMAND"}
        /\ None \in Keys \cup Commands \cup {None} /\ TRUE \in BOOLEAN
    BY DEF ListKinds
  <2> DEFINE c == Context(kind, "remote", None, TRUE)
  <2>3. /\ c \in Contexts /\ c # None
        /\ c.kind = kind /\ c.stage = "remote" /\ c.id = None /\ c.proc = 0
    <3>1. c \in Contexts
      BY <1>1, <2>2 DEF TypeOK, Contexts, Context
    <3> QED BY <3>1, NoneIsNoContext DEF Context
  <2> HIDE DEF c
  <2> QED BY <2>1, <2>3 DEF c
<1>3. Begin /\ UNCHANGED <<reader, queue, items, info, n_commands_executed, dialog, crashed>>
      /\ listbox' = "empty" /\ size_groups' = FALSE
  BY DEF start_main_operation, common_results_listbox_clear
<1>4. /\ aborted' = FALSE /\ begun' = begun + 1 /\ begun' \in Nat /\ begun' <= MostOperations
      /\ begun \in Nat /\ n_commands_executed \in Nat /\ n_commands_executed <= begun
  BY <1>1, <1>3, Begun
<1>5. Counted'
  BY <1>2, <1>3, <1>4 DEF Counted
<1>6. Modal' /\ UpdatesKey' /\ ListUnfilled'
  BY <1>1, <1>2, <1>3 DEF Modal, UpdatesKey, ListUnfilled, ListKinds
<1>7. OneCommand' /\ CommandWaits'
  <2>1. \A q \in Readers, i \in Nat : ~Commanded(q, i)'
    BY <1>1, <1>3, NoCommand, NotPushed
  <2>2. created' \in Nat
    BY <1>1, <1>3, Bounds DEF TypeOK, reader
  <2>3. op'.proc <= created'
    <3>1. op'.proc = 0
      BY <1>2
    <3>2. 0 <= created'
      BY <2>2
    <3> QED BY <3>1, <3>2
  <2> QED BY <1>2, <2>1, <2>3 DEF OneCommand, CommandWaits
<1>8. UNCHANGED Kept /\ UNCHANGED <<queue, key_id, dialog, n_commands_executed, crashed>>
  BY <1>3 DEF Kept, info
<1> QED
  BY <1>1, <1>2, <1>3, <1>4, <1>5, <1>6, <1>7, <1>8, OperationStep DEF TypeOK, Operations

\* A dialog opens or is declined, or a reset is scheduled.
LEMMA DialogStep ==
  ASSUME RInv,
         \/ \E id \in Keys : result_row_confirmation_dialog_run("keys", id)
         \/ \E id \in Commands : result_row_confirmation_dialog_run("commands", id)
         \/ result_row_declined
  PROVE  RInv'
<1>1. UNCHANGED <<reader, queue, items, info, cancellable, rows, n_commands_executed, op,
                  begun, aborted, crashed>>
  BY DEF result_row_confirmation_dialog_run, result_row_declined
<1>2. /\ dialog' \in Dialogs \cup {None}
      /\ dialog' # None => op = None
      /\ dialog' # None /\ dialog'.type = "keys" => dialog'.id \in Keys
  <2>1. CASE result_row_declined
    BY <2>1 DEF result_row_declined
  <2>2. ASSUME NEW id \in Keys, result_row_confirmation_dialog_run("keys", id)
        PROVE  /\ dialog' \in Dialogs /\ op = None /\ dialog'.id \in Keys
    BY <2>2 DEF result_row_confirmation_dialog_run, Dialogs, RowActivated, RInv
  <2>3. ASSUME NEW id \in Commands, result_row_confirmation_dialog_run("commands", id)
        PROVE  /\ dialog' \in Dialogs /\ op = None /\ dialog'.type = "commands"
    BY <2>3 DEF result_row_confirmation_dialog_run, Dialogs, RowActivated, RInv
  <2> QED BY <2>1, <2>2, <2>3
<1>3. TypeOK'
  <2>1. /\ steady' = steady /\ processor' = processor /\ created' = created /\ key' = key
        /\ items' = items /\ ksn' = ksn /\ ksn_set' = ksn_set /\ mut' = mut
        /\ mut_set' = mut_set /\ key_id' = key_id /\ cancellable' = cancellable
        /\ listbox' = listbox /\ size_groups' = size_groups
        /\ n_commands_executed' = n_commands_executed /\ op' = op /\ begun' = begun
        /\ aborted' = aborted /\ crashed' = crashed /\ MostOperations' = MostOperations
    BY <1>1 DEF reader, info, rows, MostOperations
  <2>2. TypeOK
    BY DEF RInv
  <2>3. UNCHANGED queue
    BY <1>1
  <2> QED BY <1>2, <2>1, <2>2, <2>3 DEF TypeOK
<1>4. /\ Counted' /\ Modal' /\ UpdatesKey' /\ ListUnfilled' /\ KsnKnown' /\ AssertionsHold'
      /\ (cancellable <=> op # None)'
  BY <1>1, <1>2 DEF RInv, Counted, Modal, UpdatesKey, ListUnfilled, KsnKnown, AssertionsHold, info, rows
<1>5. OneCommand' /\ CommandWaits'
  BY <1>1, NotPushed DEF RInv, OneCommand, CommandWaits, Alive, reader
<1> QED BY <1>3, <1>4, <1>5 DEF RInv

-----------------------------------------------------------------------------
(* The three ways a callback goes on. *)

\* The operation ends; LOAD is all that may be queued.
LEMMA Ends ==
  ASSUME RInv, End, op # None => op.stage # "run", UNCHANGED <<processor, created>>
  PROVE  /\ queue' \in [Readers -> Seq(Operations)]
         /\ op' = None /\ cancellable' = FALSE
         /\ OneCommand' /\ CommandWaits' /\ ListUnfilled' /\ Modal'
<1>1. /\ queue \in [Readers -> Seq(Operations)]
      /\ created \in 0 .. MaxReaders /\ processor \in 0 .. created
  BY DEF RInv, TypeOK, Operations
<1>2. op' = None /\ cancellable' = FALSE
  BY DEF End
<1>3. /\ queue' \in [Readers -> Seq(Operations)]
      /\ \A q \in Readers, i \in Nat : ~Commanded(q, i)'
  <2>1. CASE processor = 0
    BY <1>1, <2>1, NoCommand, NotPushed DEF End, operation_ongoing_updated
  <2>2. CASE processor # 0
    <3>1. PICK p \in Readers : p = processor
      BY <1>1, <2>2, Bounds DEF Readers
    <3>2. "LOAD" \in Operations /\ queue' = [queue EXCEPT ![p] = Append(@, "LOAD")]
      BY <2>2, <3>1 DEF End, operation_ongoing_updated, Operations
    <3> QED BY <1>1, <3>2, NoCommand, Pushed
  <2> QED BY <2>1, <2>2
<1> QED BY <1>2, <1>3 DEF OneCommand, CommandWaits, ListUnfilled, Modal

\* It waits for the service.
LEMMA Waits ==
  ASSUME RInv, UNCHANGED <<queue, created>>, op' \in Contexts, op # None => op.stage # "run",
         op'.stage # "run", op'.proc <= created
  PROVE  queue' \in [Readers -> Seq(Operations)] /\ OneCommand' /\ CommandWaits'
<1>1. \A q \in Readers, i \in Nat : ~Commanded(q, i)'
  BY NoCommand, NotPushed
<1>2. queue \in [Readers -> Seq(Operations)]
  BY DEF RInv, TypeOK, Operations
<1> QED BY <1>1, <1>2 DEF OneCommand, CommandWaits

\* Its command is scheduled, on the processor of now; without one the program
\* crashes.
LEMMA Schedules ==
  ASSUME RInv, op # None => op.stage # "run",
         NEW context \in Contexts, mui_processor_run_command(context),
         UNCHANGED <<processor, created>>,
         processor = 0 => crashed' = TRUE
  PROVE  /\ queue' \in [Readers -> Seq(Operations)]
         /\ cancellable' = TRUE
         /\ op' \in Contexts /\ op' # None
         /\ op'.kind = context.kind /\ op'.id = context.id /\ op'.stage = "run"
         /\ op'.ksn = context.ksn /\ op'.mut = context.mut /\ op'.row = context.row
         /\ op'.proc = processor
         /\ OneCommand' /\ CommandWaits'
<1>1. /\ queue \in [Readers -> Seq(Operations)]
      /\ created \in 0 .. MaxReaders /\ processor \in 0 .. created
  BY DEF RInv, TypeOK, Operations
<1>2. processor \in Readers \cup {0}
  BY <1>1, Bounds DEF Readers
<1>3. /\ cancellable' = TRUE
      /\ op' = [context EXCEPT !.stage = "run", !.proc = processor]
  BY DEF mui_processor_run_command, Ongoing
<1>4. /\ op' \in Contexts
      /\ op'.kind = context.kind /\ op'.id = context.id /\ op'.stage = "run"
      /\ op'.ksn = context.ksn /\ op'.mut = context.mut /\ op'.row = context.row
      /\ op'.proc = processor
  BY <1>2, <1>3 DEF Contexts
<1>5. op' # None
  BY <1>4, NoneIsNoContext
<1>6. \A q \in Readers, i \in Nat : ~Commanded(q, i)
  BY NoCommand
<1>7. CASE processor = 0
  <2>1. UNCHANGED queue
    BY <1>7 DEF mui_processor_run_command
  <2>2. \A q \in Readers, i \in Nat : ~Commanded(q, i)'
    BY <1>6, <2>1, NotPushed
  <2>3. OneCommand'
    BY <1>1, <1>4, <2>2, Bounds DEF OneCommand
  <2>4. CommandWaits'
    BY <1>7 DEF CommandWaits, Alive
  <2> QED BY <1>1, <1>3, <1>4, <1>5, <2>1, <2>3, <2>4
<1>8. CASE processor # 0
  <2>1. PICK p \in Readers : p = processor
    BY <1>2, <1>8
  <2>2. queue' = [queue EXCEPT ![p] = Append(@, "COMMAND")]
    BY <1>8, <2>1 DEF mui_processor_run_command
  <2>3. /\ queue' \in [Readers -> Seq(Operations)]
        /\ \A q \in Readers, i \in Nat : Commanded(q, i)' <=> q = p /\ i = Len(queue[p]) + 1
    <3>1. "COMMAND" \in Operations
      BY DEF Operations
    <3> QED BY <1>1, <1>6, <2>2, <3>1, Pushed
  <2>4. OneCommand'
    <3>1. op'.proc <= created'
      BY <1>1, <1>4, Bounds
    <3> QED BY <1>4, <1>5, <2>1, <2>3, <3>1 DEF OneCommand
  <2>5. Len(queue[p]) + 1 \in Nat
    BY <1>1
  <2>6. CommandWaits'
    BY <1>4, <2>1, <2>3, <2>5 DEF CommandWaits
  <2> QED BY <1>3, <1>4, <1>5, <2>3, <2>4, <2>6
<1> QED BY <1>7, <1>8

LEMMA ResetButtonStep ==
  ASSUME RInv, remote_service_reset_button_clicked
  PROVE  RInv'
<1>1. /\ UNCHANGED <<reader, items, info, cancellable, rows, n_commands_executed, dialog, op,
                     begun, aborted, crashed>>
      /\ queue' = [queue EXCEPT ![processor] = Append(@, "RESET")]
  BY DEF remote_service_reset_button_clicked
<1>2. TypeOK /\ queue \in [Readers -> Seq(Operations)] /\ "RESET" \in Operations
  BY DEF RInv, TypeOK, Operations
<1>3. PICK p \in Readers : p = processor
  BY <1>2, Bounds DEF remote_service_reset_button_clicked, UserCan, TypeOK, Readers
<1>4. /\ queue' \in [Readers -> Seq(Operations)]
      /\ \A q \in Readers, i \in Nat : Commanded(q, i)' <=> Commanded(q, i)
  BY <1>1, <1>2, <1>3, Pushed
<1>5. TypeOK'
  <2>1. /\ steady' = steady /\ processor' = processor /\ created' = created /\ key' = key
        /\ items' = items /\ ksn' = ksn /\ ksn_set' = ksn_set /\ mut' = mut
        /\ mut_set' = mut_set /\ key_id' = key_id /\ cancellable' = cancellable
        /\ listbox' = listbox /\ size_groups' = size_groups
        /\ n_commands_executed' = n_commands_executed /\ op' = op /\ begun' = begun
        /\ aborted' = aborted /\ crashed' = crashed /\ MostOperations' = MostOperations
    BY <1>1 DEF reader, info, rows, MostOperations
  <2>2. UNCHANGED dialog
    BY <1>1
  <2> QED BY <1>2, <1>4, <2>1, <2>2 DEF TypeOK, Operations
<1>6. /\ Counted' /\ Modal' /\ UpdatesKey' /\ ListUnfilled' /\ KsnKnown' /\ AssertionsHold'
      /\ (cancellable <=> op # None)'
  BY <1>1 DEF RInv, Counted, Modal, UpdatesKey, ListUnfilled, KsnKnown, AssertionsHold, info, rows
<1>7. OneCommand'
  BY <1>1, <1>4 DEF RInv, OneCommand, reader
<1>8. CommandWaits'
  BY <1>1, <1>4 DEF RInv, CommandWaits, Alive
<1> QED BY <1>5, <1>6, <1>7, <1>8 DEF RInv

\* A callback of an operation that is pending, without a command queued.
LEMMA PendingOperation ==
  ASSUME RInv, op # None, op.stage # "run"
  PROVE  /\ TypeOK /\ op \in Contexts /\ cancellable = TRUE /\ aborted = FALSE
         /\ Modal /\ UpdatesKey /\ ListUnfilled /\ dialog = None
         /\ op.proc <= created /\ created \in Nat
         /\ n_commands_executed \in Nat /\ begun \in Nat /\ begun <= MostOperations
         /\ n_commands_executed + 1 <= begun /\ n_commands_executed <= begun
<1>1. TypeOK /\ MostOperations \in Nat
  BY Most DEF RInv
<1> QED BY <1>1, Bounds DEF RInv, TypeOK, Modal, OneCommand, Counted, AssertionsHold

LEMMA ListReadyStep ==
  ASSUME RInv, get_key_list_ready \/ get_command_list_ready
  PROVE  RInv'
<1>1. PICK kind \in ListKinds, shown \in {"keys", "commands"} : get_list_ready(kind, shown)
  BY DEF get_key_list_ready, get_command_list_ready, ListKinds
<1>2. op # None /\ op.kind \in ListKinds /\ op.stage = "remote" /\ End
      /\ UNCHANGED <<reader, items, info, n_commands_executed, dialog, begun, crashed>>
  BY <1>1 DEF get_list_ready, Pending
<1>3. /\ TypeOK /\ dialog = None /\ ~size_groups /\ aborted = FALSE
      /\ begun \in Nat /\ begun <= MostOperations
      /\ n_commands_executed \in Nat /\ n_commands_executed <= begun
  BY <1>2, PendingOperation DEF ListUnfilled
<1>4. aborted' = FALSE /\ size_groups' \in BOOLEAN /\ listbox' \in {"empty", "keys", "commands"}
  BY <1>1, <1>3
     DEF get_list_ready, common_results_listbox_init, common_results_listbox_append_row, rows, TypeOK
<1>5. /\ queue' \in [Readers -> Seq(Operations)]
      /\ op' = None /\ cancellable' = FALSE
      /\ OneCommand' /\ CommandWaits' /\ ListUnfilled' /\ Modal'
  BY <1>2, Ends DEF reader
<1>6. Counted' /\ UpdatesKey'
  BY <1>2, <1>3, <1>5 DEF Counted, UpdatesKey
<1>7. UNCHANGED Kept /\ UNCHANGED <<key_id, dialog, n_commands_executed, crashed, begun>>
  BY <1>2 DEF Kept, info
<1>8. key_id' \in Keys \cup {None} /\ crashed' \in BOOLEAN /\ dialog' \in Dialogs \cup {None}
  BY <1>3, <1>7 DEF TypeOK
<1> QED BY <1>3, <1>4, <1>5, <1>6, <1>7, <1>8, OperationStep

\* A callback that ends the operation.
LEMMA FinishedStep ==
  ASSUME RInv, op # None, op.stage # "run", Finished,
         UNCHANGED <<reader, items, ksn, ksn_set, mut, mut_set, rows, dialog, begun, aborted>>,
         key_id' \in Keys \cup {None},
         n_commands_executed' \in {n_commands_executed, n_commands_executed + 1}
  PROVE  RInv'
<1>1. /\ TypeOK /\ aborted = FALSE /\ begun \in Nat /\ begun <= MostOperations
      /\ n_commands_executed \in Nat
      /\ n_commands_executed + 1 <= begun /\ n_commands_executed <= begun /\ dialog = None
  BY PendingOperation
<1>2. /\ queue' \in [Readers -> Seq(Operations)]
      /\ op' = None /\ cancellable' = FALSE
      /\ OneCommand' /\ CommandWaits' /\ ListUnfilled' /\ Modal'
  BY Ends DEF reader, Finished
<1>3. crashed' \in BOOLEAN
  BY DEF Finished, Touch
<1>4. Counted' /\ UpdatesKey'
  BY <1>1, <1>2 DEF Counted, UpdatesKey
<1>5. UNCHANGED Kept /\ UNCHANGED <<size_groups, listbox, dialog, begun>> /\ aborted' = FALSE
  BY <1>1 DEF Kept, rows
<1>6. /\ size_groups' \in BOOLEAN /\ listbox' \in {"empty", "keys", "commands"}
      /\ dialog' \in Dialogs \cup {None} /\ n_commands_executed' \in Nat
  BY <1>1, <1>5 DEF TypeOK
<1> QED BY <1>1, <1>2, <1>3, <1>4, <1>5, <1>6, OperationStep

\* One that has the command run.
LEMMA RunCommandStep ==
  ASSUME RInv, op # None, op.stage # "run", op.kind \notin ListKinds, RunCommand,
         UNCHANGED <<reader, items, info, rows, n_commands_executed, dialog, begun, aborted>>
  PROVE  RInv'
<1>1. /\ TypeOK /\ op \in Contexts /\ aborted = FALSE /\ begun \in Nat /\ begun <= MostOperations
      /\ n_commands_executed \in Nat /\ UpdatesKey
      /\ n_commands_executed + 1 <= begun /\ n_commands_executed <= begun /\ dialog = None
  BY PendingOperation
<1>2. crashed' \in BOOLEAN /\ (processor = 0 => crashed' = TRUE)
  BY DEF RunCommand, Touch
<1>3. /\ queue' \in [Readers -> Seq(Operations)]
      /\ cancellable' = TRUE
      /\ op' \in Contexts /\ op' # None
      /\ op'.kind = op.kind /\ op'.id = op.id
      /\ OneCommand' /\ CommandWaits'
  <2>1. mui_processor_run_command(op) /\ UNCHANGED <<processor, created>>
    BY DEF RunCommand, reader
  <2> QED BY <1>1, <1>2, <2>1, Schedules
<1>4. Counted' /\ UpdatesKey' /\ Modal' /\ ListUnfilled'
  BY <1>1, <1>3 DEF Counted, UpdatesKey, Modal, ListUnfilled
<1>5. UNCHANGED Kept /\ UNCHANGED <<size_groups, listbox, dialog, begun, key_id, n_commands_executed>>
      /\ aborted' = FALSE
  BY <1>1 DEF Kept, rows, info
<1>6. /\ size_groups' \in BOOLEAN /\ listbox' \in {"empty", "keys", "commands"}
      /\ dialog' \in Dialogs \cup {None} /\ key_id' \in Keys \cup {None}
  BY <1>1, <1>5 DEF TypeOK
<1> QED BY <1>1, <1>2, <1>3, <1>4, <1>5, <1>6, OperationStep

LEMMA CallbackStep ==
  ASSUME RInv, Callbacks
  PROVE  RInv'
<1>1. CASE get_key_list_ready \/ get_command_list_ready
  BY <1>1, ListReadyStep
<1>2. CASE get_key_load_command_ready
  <2>1. op # None /\ op.stage # "run" /\ op.kind \notin ListKinds
    BY <1>2 DEF get_key_load_command_ready, Pending, ListKinds
  <2>2. CASE RunCommand
    BY <1>2, <2>1, <2>2, RunCommandStep DEF get_key_load_command_ready
  <2>3. CASE Finished
    BY <1>2, <2>1, <2>3, FinishedStep DEF get_key_load_command_ready, info, RInv, TypeOK
  <2> QED BY <1>2, <2>2, <2>3 DEF get_key_load_command_ready
<1>3. CASE run_key_update_command_ready
  <2>1. op # None /\ op.stage # "run" /\ op.kind = "KEY_UPDATE"
    BY <1>3 DEF run_key_update_command_ready, Pending
  <2>2. key_id' \in Keys \cup {None}
    BY <1>3, <2>1 DEF run_key_update_command_ready, RInv, TypeOK, UpdatesKey
  <2> QED BY <1>3, <2>1, <2>2, FinishedStep DEF run_key_update_command_ready
<1>4. CASE run_command_received
  <2>1. op # None /\ op.stage # "run" /\ op.kind \notin ListKinds
    BY <1>4 DEF run_command_received, Pending, ListKinds
  <2>2. CASE RunCommand
    BY <1>4, <2>1, <2>2, RunCommandStep DEF run_command_received
  <2>3. CASE Finished
    BY <1>4, <2>1, <2>3, FinishedStep DEF run_command_received, info, RInv, TypeOK
  <2> QED BY <1>4, <2>2, <2>3 DEF run_command_received
<1>5. CASE command_by_ksn_get_key_list_ready
  <2>1. op # None /\ op.stage = "find_key" /\ op.kind = "COMMAND"
        /\ UNCHANGED <<reader, items, ksn, ksn_set, mut, mut_set, rows, n_commands_executed,
                       dialog, begun, aborted>>
    BY <1>5 DEF command_by_ksn_get_key_list_ready, Pending
  <2>2. CASE Finished /\ UNCHANGED key_id
    BY <2>1, <2>2, FinishedStep DEF RInv, TypeOK
  <2>3. CASE /\ ksn_set /\ ksn.key # TestKey
             /\ key_id' = ksn.key
             /\ op' = [op EXCEPT !.stage = "by_ksn"]
             /\ UNCHANGED <<queue, cancellable, crashed>>
    <3>1. /\ TypeOK /\ op \in Contexts /\ aborted = FALSE /\ begun \in Nat
          /\ begun <= MostOperations /\ n_commands_executed \in Nat /\ UpdatesKey
          /\ cancellable = TRUE /\ op.proc <= created
          /\ n_commands_executed + 1 <= begun /\ n_commands_executed <= begun /\ dialog = None
      BY <2>1, PendingOperation
    <3>2. /\ op' \in Contexts /\ op'.stage = "by_ksn" /\ op'.kind = "COMMAND"
          /\ op'.proc = op.proc
      BY <2>1, <2>3, <3>1 DEF Contexts
    <3>3. op' # None
      BY <3>2, NoneIsNoContext
    <3>4. queue' \in [Readers -> Seq(Operations)] /\ OneCommand' /\ CommandWaits'
      BY <2>1, <2>3, <3>1, <3>2, Waits DEF reader
    <3>5. key_id' \in Keys \cup {None}
      BY <2>3, <3>1 DEF KsnKnown, RInv, Identity, AnyKey, TypeOK
    <3>6. Counted' /\ UpdatesKey' /\ Modal' /\ ListUnfilled'
      BY <2>1, <2>3, <3>1, <3>2, <3>3 DEF Counted, UpdatesKey, Modal, ListUnfilled, ListKinds
    <3>7. UNCHANGED Kept /\ UNCHANGED <<size_groups, listbox, dialog, begun, n_commands_executed>>
          /\ aborted' = FALSE
      BY <2>1, <3>1 DEF Kept, rows
    <3>8. /\ size_groups' \in BOOLEAN /\ listbox' \in {"empty", "keys", "commands"}
          /\ dialog' \in Dialogs \cup {None} /\ crashed' \in BOOLEAN
      BY <2>3, <3>1, <3>7 DEF TypeOK
    <3> QED BY <2>3, <3>1, <3>2, <3>3, <3>4, <3>5, <3>6, <3>7, <3>8, OperationStep
  <2> QED BY <1>5, <2>2, <2>3 DEF command_by_ksn_get_key_list_ready
<1>6. CASE processor_generic_command_ready
  <2>1. op # None /\ op.stage # "run" /\ Finished
        /\ n_commands_executed' \in {n_commands_executed, n_commands_executed + 1}
    BY <1>6 DEF processor_generic_command_ready, Pending
  <2> QED BY <1>6, <2>1, FinishedStep DEF processor_generic_command_ready, info, RInv, TypeOK
<1> QED BY <1>1, <1>2, <1>3, <1>4, <1>5, <1>6 DEF Callbacks

\* Nothing is going on when an operation begins.
LEMMA AtRest ==
  ASSUME RInv, Begin, op = None
  PROVE  /\ TypeOK /\ created \in Nat /\ KsnKnown
         /\ aborted' = FALSE /\ begun' = begun + 1 /\ begun' \in Nat /\ begun' <= MostOperations
         /\ n_commands_executed \in Nat
         /\ n_commands_executed <= begun' /\ n_commands_executed + 1 <= begun'
<1>1. TypeOK /\ created \in Nat /\ KsnKnown
  BY Bounds DEF RInv, TypeOK
<1>2. /\ aborted' = FALSE /\ begun' = begun + 1 /\ begun' \in Nat /\ begun' <= MostOperations
      /\ begun \in Nat /\ n_commands_executed \in Nat /\ n_commands_executed <= begun
  BY Begun
<1> QED BY <1>1, <1>2

LEMMA KeyUpdateStep ==
  ASSUME RInv, run_key_update
  PROVE  RInv'
<1>1. /\ dialog # None /\ dialog.type = "keys" /\ dialog' = None /\ op = None
      /\ dialog \in Dialogs /\ TypeOK
      /\ UNCHANGED <<reader, queue, items, info, rows, n_commands_executed, crashed>>
  BY DEF run_key_update, Accepted, RInv, Modal, TypeOK
<1>2. dialog.id \in Keys /\ dialog.row \in BOOLEAN
  BY <1>1 DEF RInv, UpdatesKey, Dialogs
<1>3. CASE ksn_set
  <2>1. Begin /\ op' = Context("KEY_UPDATE", "remote", dialog.id, dialog.row) /\ cancellable' = TRUE
    BY <1>3 DEF run_key_update, Ongoing
  <2>2. op' \in Contexts
    BY <1>1, <1>2, <2>1 DEF TypeOK, Contexts, Context
  <2>3. /\ op' # None /\ op'.kind = "KEY_UPDATE" /\ op'.stage = "remote"
        /\ op'.id = dialog.id /\ op'.proc = 0
    BY <2>1, <2>2, NoneIsNoContext DEF Context
  <2>4. /\ created \in Nat
        /\ aborted' = FALSE /\ begun' = begun + 1 /\ begun' \in Nat /\ begun' <= MostOperations
        /\ n_commands_executed \in Nat
        /\ n_commands_executed <= begun' /\ n_commands_executed + 1 <= begun'
    BY <1>1, <2>1, AtRest
  <2>5. UNCHANGED Kept
        /\ UNCHANGED <<queue, created, key_id, size_groups, listbox, n_commands_executed, crashed>>
    BY <1>1 DEF Kept, info, rows, reader
  <2>6. op'.proc <= created
    BY <2>3, <2>4
  <2>7. queue' \in [Readers -> Seq(Operations)] /\ OneCommand' /\ CommandWaits'
    BY <1>1, <2>2, <2>3, <2>5, <2>6, Waits
  <2>8. Counted' /\ Modal' /\ UpdatesKey' /\ ListUnfilled'
    BY <1>1, <1>2, <2>3, <2>4, <2>5 DEF Counted, Modal, UpdatesKey, ListUnfilled, ListKinds
  <2>9. /\ size_groups' \in BOOLEAN /\ listbox' \in {"empty", "keys", "commands"}
        /\ key_id' \in Keys \cup {None} /\ crashed' \in BOOLEAN
    BY <1>1, <2>5 DEF TypeOK
  <2> QED BY <1>1, <2>1, <2>2, <2>3, <2>4, <2>5, <2>7, <2>8, <2>9, OperationStep
<1>4. CASE ~ksn_set
  <2>1. UNCHANGED <<cancellable, op, begun, aborted>>
    BY <1>4 DEF run_key_update
  <2>2. TypeOK'
    BY <1>1, <2>1 DEF TypeOK, reader, info, rows, MostOperations
  <2>3. /\ Counted' /\ Modal' /\ UpdatesKey' /\ ListUnfilled' /\ KsnKnown' /\ AssertionsHold'
        /\ (cancellable <=> op # None)'
    BY <1>1, <2>1
       DEF RInv, Counted, Modal, UpdatesKey, ListUnfilled, KsnKnown, AssertionsHold, info, rows
  <2>4. OneCommand' /\ CommandWaits'
    BY <1>1, <2>1, NotPushed DEF RInv, OneCommand, CommandWaits, Alive, reader
  <2> QED BY <2>2, <2>3, <2>4 DEF RInv
<1> QED BY <1>3, <1>4

\* A command is begun from a row, with or without a dialog.
LEMMA GenericCommandStep ==
  ASSUME RInv, NEW id \in Keys \cup Commands, NEW row, row \in BOOLEAN,
         run_generic_command(id, row), op = None, dialog' = None
  PROVE  RInv'
<1> DEFINE context == Context("COMMAND", "remote", id, row)
<1>1. Begin /\ UNCHANGED <<reader, items, info, rows, n_commands_executed>>
  BY DEF run_generic_command
<1>2. /\ TypeOK /\ created \in Nat
      /\ aborted' = FALSE /\ begun' = begun + 1 /\ begun' \in Nat /\ begun' <= MostOperations
      /\ n_commands_executed \in Nat
      /\ n_commands_executed <= begun' /\ n_commands_executed + 1 <= begun'
  BY <1>1, AtRest
<1>3. /\ context \in Contexts
      /\ context.kind = "COMMAND" /\ context.proc = 0
  <2>1. context \in Contexts
    BY <1>2 DEF TypeOK, Contexts, Context
  <2> QED BY <2>1 DEF Context
<1>4. UNCHANGED Kept
  BY <1>1 DEF Kept, info
<1>5. UNCHANGED <<processor, created, key_id, size_groups, listbox, n_commands_executed>>
  BY <1>1 DEF reader, info, rows
<1>6. /\ size_groups' \in BOOLEAN /\ listbox' \in {"empty", "keys", "commands"}
      /\ key_id' \in Keys \cup {None}
  BY <1>2, <1>5 DEF TypeOK
<1> HIDE DEF context
\* What the ways to begin have in common.
<1>7. ASSUME queue' \in [Readers -> Seq(Operations)], op' \in Contexts \cup {None},
             cancellable' \in BOOLEAN, cancellable' <=> op' # None,
             op' # None => op'.kind = "COMMAND",
             OneCommand', CommandWaits', crashed' \in BOOLEAN
      PROVE  RInv'
  <2>1. Counted' /\ Modal' /\ UpdatesKey' /\ ListUnfilled'
    BY <1>2, <1>5, <1>7 DEF Counted, Modal, UpdatesKey, ListUnfilled, ListKinds
  <2> QED BY <1>2, <1>4, <1>5, <1>6, <1>7, <2>1, OperationStep
<1>8. ASSUME NEW stage \in {"remote", "by_ksn", "by_mut", "find_key", "ok", "failed"},
             Ongoing([context EXCEPT !.stage = stage]), UNCHANGED <<queue, crashed>>
      PROVE  RInv'
  <2>1. cancellable' = TRUE /\ op' = [context EXCEPT !.stage = stage]
    BY <1>8 DEF Ongoing
  <2>2. /\ op' \in Contexts
        /\ op'.kind = "COMMAND" /\ op'.stage = stage /\ op'.proc = 0
    BY <1>3, <2>1 DEF Contexts
  <2>3. op' # None
    BY <2>2, NoneIsNoContext
  <2>4. op'.proc <= created /\ op'.stage # "run"
    BY <1>2, <2>2
  <2>5. queue' \in [Readers -> Seq(Operations)] /\ OneCommand' /\ CommandWaits'
    BY <1>5, <1>8, <2>2, <2>4, Waits
  <2>6. crashed' \in BOOLEAN
    BY <1>2, <1>8 DEF TypeOK
  <2> QED BY <1>7, <2>1, <2>2, <2>3, <2>5, <2>6
<1>9. CASE End /\ UNCHANGED crashed
  <2>1. /\ queue' \in [Readers -> Seq(Operations)] /\ op' = None /\ cancellable' = FALSE
        /\ OneCommand' /\ CommandWaits'
    BY <1>5, <1>9, Ends
  <2>2. crashed' \in BOOLEAN
    BY <1>2, <1>9 DEF TypeOK
  <2> QED BY <1>7, <2>1, <2>2
<1>10. CASE mui_processor_run_command(context) /\ crashed' = (processor = 0)
  <2>1. processor = 0 => crashed' = TRUE
    BY <1>10
  <2>2. /\ queue' \in [Readers -> Seq(Operations)] /\ op' \in Contexts /\ op' # None
        /\ cancellable' = TRUE /\ op'.kind = context.kind /\ OneCommand' /\ CommandWaits'
    BY <1>3, <1>5, <1>10, <2>1, Schedules
  <2>3. crashed' \in BOOLEAN
    BY <1>10
  <2> QED BY <1>3, <1>7, <2>2, <2>3
<1>11. \/ End /\ UNCHANGED crashed
       \/ mui_processor_run_command(context) /\ crashed' = (processor = 0)
       \/ \E stage \in {"by_ksn", "by_mut", "find_key"} :
            Ongoing([context EXCEPT !.stage = stage]) /\ UNCHANGED <<queue, crashed>>
  BY DEF run_generic_command, get_command_by_ksn, get_command_by_mut, context
<1> QED BY <1>8, <1>9, <1>10, <1>11

LEMMA NextR ==
  ASSUME RInv, [Next]_vars
  PROVE  RInv'
<1>1. CASE Plug \/ Unplug
  BY <1>1, ResetStep
<1>2. ASSUME NEW p \in Readers, Thread(p)
      PROVE  RInv'
  BY <1>2, LoadStep, CommandStep DEF Thread
<1>3. CASE report_item
  BY <1>3, ItemStep
<1>4. CASE User
  <2>1. CASE \/ \E id \in Keys : result_row_confirmation_dialog_run("keys", id)
             \/ \E id \in Commands : result_row_confirmation_dialog_run("commands", id)
    BY <2>1, DialogStep
  <2>2. ASSUME NEW id \in Commands, result_row_activated_command(id)
        PROVE  RInv'
    <3>1. op = None /\ dialog' = None /\ run_generic_command(id, TRUE)
      BY <2>2 DEF result_row_activated_command, RowActivated, UserCan, RInv
    <3> QED BY <3>1, GenericCommandStep
  <2>3. CASE remote_service_get_key_list_button_clicked \/ remote_service_get_command_list_button_clicked
    BY <2>3, ListBegins
       DEF remote_service_get_key_list_button_clicked, remote_service_get_command_list_button_clicked,
           ListKinds
  <2> QED BY <1>4, <2>1, <2>2, <2>3, ResetButtonStep DEF User
<1>5. CASE Dialog
  <2>1. CASE result_row_accepted_command
    <3>1. dialog # None /\ dialog' = None /\ run_generic_command(dialog.id, dialog.row)
      BY <2>1 DEF result_row_accepted_command, Accepted
    <3>2. op = None /\ dialog.id \in Keys \cup Commands /\ dialog.row \in BOOLEAN
      BY <3>1 DEF RInv, Modal, TypeOK, Dialogs
    <3> QED BY <3>1, <3>2, GenericCommandStep
  <2> QED BY <1>5, <2>1, DialogStep, KeyUpdateStep DEF Dialog
<1>6. CASE Callbacks
  BY <1>6, CallbackStep
<1>7. CASE UNCHANGED vars
  <2>1. TypeOK'
    BY <1>7 DEF RInv, TypeOK, vars, reader, info, rows, MostOperations
  <2> QED
    BY <1>7, <2>1, NotPushed
       DEF RInv, vars, reader, info, rows, Counted, Modal, UpdatesKey, ListUnfilled, OneCommand,
           CommandWaits, KsnKnown, Alive, AssertionsHold
<1> QED BY <1>1, <1>2, <1>3, <1>4, <1>5, <1>6, <1>7 DEF Next

-----------------------------------------------------------------------------
(* Sessions in which readers stay where they are during operations.         *)

OfProcessor(identity) == identity.reader = processor

\* The page shows, knows and updates the key of the reader that is there.
SteadyInv ==
  steady =>
    /\ ~crashed
    /\ dialog # None => dialog.row /\ processor # 0
    /\ op # None => op.row /\ processor # 0
    /\ ksn_set => OfProcessor(ksn)
    /\ mut_set => OfProcessor(mut)
    /\ \A i \in DOMAIN items : items[i].value # None => OfProcessor(items[i].value)
    /\ op # None /\ op.kind = "KEY_UPDATE" => OfProcessor(op.ksn) /\ OfProcessor(ksn)
    /\ key_id # None => OfProcessor(ksn)
    /\ op # None /\ op.stage = "run" => op.proc = processor

\* The page and what it knows, which few actions change.
Known == <<steady, processor, ksn, ksn_set, mut, mut_set, items>>

\* An operation that goes on, begins or ends.
LEMMA SteadyOperation ==
  ASSUME RInv, SteadyInv, steady, UNCHANGED Known,
         crashed' = FALSE,
         dialog' # None => dialog'.row /\ processor # 0,
         op' # None => op'.row /\ processor # 0,
         op' # None /\ op'.kind = "KEY_UPDATE" => OfProcessor(op'.ksn) /\ OfProcessor(ksn),
         key_id' # None => OfProcessor(ksn),
         op' # None /\ op'.stage = "run" => op'.proc = processor
  PROVE  SteadyInv'
<1>1. /\ ksn_set => OfProcessor(ksn)
      /\ mut_set => OfProcessor(mut)
      /\ \A i \in DOMAIN items : items[i].value # None => OfProcessor(items[i].value)
  BY DEF SteadyInv
<1> QED BY <1>1 DEF SteadyInv, Known, OfProcessor

LEMMA TwoMore ==
  ASSUME NEW S, NEW s \in Seq(S), NEW x \in S, NEW y \in S,
         NEW i \in DOMAIN (s \o <<x, y>>)
  PROVE  \/ i \in DOMAIN s /\ (s \o <<x, y>>)[i] = s[i]
         \/ (s \o <<x, y>>)[i] \in {x, y}
<1>1. Len(<<x, y>>) = 2 /\ <<x, y>> \in Seq(S) /\ <<x, y>>[1] = x /\ <<x, y>>[2] = y
  OBVIOUS
<1>2. PICK t \in Seq(S) : t = <<x, y>>
  BY <1>1
<1>3. Len(t) = 2 /\ t[1] = x /\ t[2] = y
  BY <1>1, <1>2
<1>4. s \o t \in Seq(S) /\ Len(s \o t) = Len(s) + 2
  <2>1. s \o t \in Seq(S)
    BY <1>2
  <2>2. Len(s \o t) = Len(s) + Len(t)
    OBVIOUS
  <2> QED BY <1>3, <2>1, <2>2
<1>5. i \in 1 .. Len(s) + 2 /\ Len(s) \in Nat
  BY <1>2, <1>4
<1>6. CASE i <= Len(s)
  BY <1>2, <1>5, <1>6
<1>7. CASE i = Len(s) + 1
  BY <1>2, <1>3, <1>5, <1>7
<1>8. CASE i = Len(s) + 2
  BY <1>2, <1>3, <1>5, <1>8
<1> QED BY <1>5, <1>6, <1>7, <1>8

LEMMA SteadyReset ==
  ASSUME RInv, SteadyInv, steady, Plug \/ Unplug
  PROVE  SteadyInv'
<1>1. op = None /\ dialog = None /\ items = <<>> /\ crashed = FALSE
  BY DEF Plug, Unplug, MayChangeReader, Alive, SteadyInv
<1>2. /\ op' = None /\ dialog' = None /\ UNCHANGED <<items, crashed>>
      /\ ksn_set' = FALSE /\ mut_set' = FALSE /\ key_id' = None
  BY <1>1, Orphaned DEF Plug, Unplug, reset_window
<1> QED BY <1>1, <1>2 DEF SteadyInv

LEMMA SteadyThread ==
  ASSUME RInv, SteadyInv, steady, NEW p \in Readers, Thread(p)
  PROVE  SteadyInv'
<1>1. CASE run_reset(p)
  <2>1. UNCHANGED <<Known, key_id, crashed, dialog, op>>
    BY <1>1 DEF run_reset, Known, reader, info
  <2> QED BY <2>1 DEF SteadyInv, Known, OfProcessor
<1>2. CASE run_load(p)
  <2>1. UNCHANGED <<steady, processor, ksn, ksn_set, mut, mut_set, key_id, crashed, dialog, op>>
    BY <1>2 DEF run_load, reader, info
  <2>2. \A i \in DOMAIN items' : items'[i].value # None => OfProcessor(items'[i].value)
    <3> DEFINE I == [kind : {"KSN", "MUT"}, value : Identity \cup {None}]
               x == [kind |-> "KSN", value |-> [reader |-> p, key |-> key[p]]]
               y == [kind |-> "MUT", value |-> [reader |-> p, key |-> key[p]]]
    <3>1. items' = IF p = processor THEN items \o <<x, y>> ELSE items
      BY <1>2 DEF run_load
    <3>2. \A i \in DOMAIN items : items[i].value # None => OfProcessor(items[i].value)
      BY DEF SteadyInv
    <3>3. CASE p # processor
      BY <3>1, <3>2, <3>3
    <3>4. CASE p = processor
      <4>1. items \in Seq(I)
        BY DEF RInv, TypeOK
      <4>2. x \in I /\ y \in I /\ x.value.reader = p /\ y.value.reader = p
        BY DEF RInv, TypeOK, Identity
      <4>3. items' = items \o <<x, y>>
        BY <3>1, <3>4
      <4> HIDE DEF I, x, y
      <4>4. ASSUME NEW i \in DOMAIN items'
            PROVE  (i \in DOMAIN items /\ items'[i] = items[i]) \/ items'[i] \in {x, y}
        BY <4>1, <4>2, <4>3, <4>4, TwoMore
      <4> QED BY <3>2, <3>4, <4>2, <4>4 DEF OfProcessor
    <3> QED BY <3>3, <3>4
  <2> QED BY <2>1, <2>2 DEF SteadyInv, OfProcessor
<1>3. CASE run_command(p)
  <2>1. UNCHANGED <<Known, key_id, crashed, dialog>>
    BY <1>3 DEF run_command, Known, info
  <2>2. op \in Contexts /\ op # None
    <3>1. Commanded(p, 1)
      BY <1>3 DEF run_command, Runs, Commanded, RInv, TypeOK
    <3> QED BY <3>1 DEF RInv, OneCommand, TypeOK
  <2>3. PICK result \in {"ok", "failed"} : op' = [op EXCEPT !.stage = result]
    BY <1>3 DEF run_command
  <2>4. op'.row = op.row /\ op'.kind = op.kind /\ op'.ksn = op.ksn
        /\ op'.stage # "run"
    BY <2>2, <2>3 DEF Contexts
  <2>5. op' # None => op'.row /\ processor # 0
    BY <2>2, <2>4 DEF SteadyInv
  <2>6. /\ op'.kind = "KEY_UPDATE" => OfProcessor(op'.ksn) /\ OfProcessor(ksn)
        /\ key_id' # None => OfProcessor(ksn)
    BY <2>1, <2>2, <2>4 DEF SteadyInv, OfProcessor
  <2>7. crashed' = FALSE /\ (dialog' # None => dialog'.row /\ processor # 0)
    BY <2>1 DEF SteadyInv, RInv, TypeOK
  <2> QED BY <2>1, <2>4, <2>5, <2>6, <2>7, SteadyOperation
<1> QED BY <1>1, <1>2, <1>3 DEF Thread

LEMMA SteadyItem ==
  ASSUME RInv, SteadyInv, steady, report_item
  PROVE  SteadyInv'
<1> DEFINE I == [kind : {"KSN", "MUT"}, value : Identity \cup {None}]
<1>1. items \in Seq(I) /\ items # <<>> /\ items' = Tail(items)
  BY DEF RInv, TypeOK, report_item
<1>2. \A i \in DOMAIN items : items[i].value # None => OfProcessor(items[i].value)
  BY DEF SteadyInv
<1>3. UNCHANGED <<steady, processor, key_id, crashed, dialog, op>>
  BY DEF report_item, reader
<1> HIDE DEF I
<1>4. Head(items).value # None => OfProcessor(Head(items).value)
  BY <1>1, <1>2
<1>5. \A i \in DOMAIN items' : items'[i].value # None => OfProcessor(items'[i].value)
  <2>1. ASSUME NEW i \in DOMAIN items' PROVE i + 1 \in DOMAIN items /\ items'[i] = items[i + 1]
    BY <1>1, <2>1
  <2> QED BY <1>2, <2>1
<1>6. /\ ksn_set' => OfProcessor(ksn')
      /\ mut_set' => OfProcessor(mut')
      /\ OfProcessor(ksn) => OfProcessor(ksn')
  BY <1>4 DEF report_item, SteadyInv
<1> QED BY <1>3, <1>5, <1>6 DEF SteadyInv, OfProcessor

LEMMA SteadyUser ==
  ASSUME RInv, SteadyInv, steady, User \/ Dialog
  PROVE  SteadyInv'
<1>1. /\ op # None /\ op.kind = "KEY_UPDATE" => OfProcessor(op.ksn) /\ OfProcessor(ksn)
      /\ key_id # None => OfProcessor(ksn)
      /\ op # None => op.row /\ processor # 0
      /\ op # None /\ op.stage = "run" => op.proc = processor
      /\ dialog # None => dialog.row /\ processor # 0
      /\ crashed = FALSE /\ TypeOK
  BY DEF SteadyInv, RInv, TypeOK
\* A list is asked for.
<1>2. ASSUME NEW kind \in ListKinds, start_main_operation(kind)
      PROVE  SteadyInv'
  <2>1. /\ processor # 0 /\ op' = Context(kind, "remote", None, TRUE)
        /\ UNCHANGED <<Known, key_id, dialog, crashed>>
    BY <1>2 DEF start_main_operation, UserCan, Ongoing, Known, reader, info
  <2>2. op'.kind # "KEY_UPDATE" /\ op'.row /\ op'.stage = "remote"
    BY <1>2, <2>1 DEF Context, ListKinds
  <2> QED BY <1>1, <2>1, <2>2, SteadyOperation
\* A dialog opens or closes, or a reset is queued.
<1>3. ASSUME UNCHANGED <<Known, key_id, op, crashed>>,
             dialog' # None => dialog'.row /\ processor # 0
      PROVE  SteadyInv'
  BY <1>1, <1>3, SteadyOperation
\* A command begins.
<1>4. ASSUME NEW id, NEW row, row \in BOOLEAN, row, processor # 0, dialog' = None,
             run_generic_command(id, row)
      PROVE  SteadyInv'
  <2> DEFINE context == Context("COMMAND", "remote", id, row)
  <2>1. context.row /\ context.kind = "COMMAND"
        /\ context = [kind |-> context.kind, stage |-> context.stage, id |-> context.id,
                      ksn |-> context.ksn, mut |-> context.mut,
                      row |-> context.row, proc |-> context.proc]
    BY <1>4 DEF Context
  <2>2. UNCHANGED <<Known, key_id>>
    BY <1>4 DEF run_generic_command, Known, reader, info
  <2> HIDE DEF context
  <2>3. \/ End /\ UNCHANGED crashed
        \/ mui_processor_run_command(context) /\ crashed' = (processor = 0)
        \/ \E stage \in {"remote", "by_ksn", "by_mut", "find_key"} :
             Ongoing([context EXCEPT !.stage = stage]) /\ UNCHANGED crashed
    BY <1>4 DEF run_generic_command, get_command_by_ksn, get_command_by_mut, context
  <2>4. /\ crashed' = FALSE
        /\ op' # None => op'.row
        /\ op' # None => op'.kind # "KEY_UPDATE"
        /\ op' # None /\ op'.stage = "run" => op'.proc = processor
    <3>1. CASE End /\ UNCHANGED crashed
      BY <1>1, <3>1 DEF End
    <3>2. CASE mui_processor_run_command(context) /\ crashed' = (processor = 0)
      BY <1>4, <2>1, <3>2 DEF mui_processor_run_command, Ongoing
    <3>3. ASSUME NEW stage \in {"remote", "by_ksn", "by_mut", "find_key"},
                 Ongoing([context EXCEPT !.stage = stage]), UNCHANGED crashed
          PROVE  /\ crashed' = FALSE /\ op'.row /\ op'.stage # "run"
                 /\ op'.kind # "KEY_UPDATE"
      BY <1>1, <2>1, <3>3 DEF Ongoing
    <3> QED BY <2>3, <3>1, <3>2, <3>3
  <2> QED BY <1>1, <1>4, <2>2, <2>4, SteadyOperation
<1>5. CASE User
  <2>1. CASE remote_service_get_key_list_button_clicked \/ remote_service_get_command_list_button_clicked
    BY <1>2, <2>1
       DEF remote_service_get_key_list_button_clicked, remote_service_get_command_list_button_clicked,
           ListKinds
  <2>2. CASE \/ \E id \in Keys : result_row_confirmation_dialog_run("keys", id)
             \/ \E id \in Commands : result_row_confirmation_dialog_run("commands", id)
    <3>1. ASSUME NEW type, NEW id, result_row_confirmation_dialog_run(type, id)
          PROVE  dialog'.row /\ processor # 0 /\ UNCHANGED <<Known, key_id, op, crashed>>
      BY <3>1 DEF result_row_confirmation_dialog_run, RowActivated, UserCan, Known, reader, info
    <3> QED BY <1>3, <2>2, <3>1
  <2>3. ASSUME NEW id \in Commands, result_row_activated_command(id)
        PROVE  SteadyInv'
    <3>1. run_generic_command(id, TRUE) /\ processor # 0 /\ dialog' = None
      BY <2>3 DEF result_row_activated_command, RowActivated, UserCan
    <3> QED BY <1>4, <3>1
  <2>4. CASE remote_service_reset_button_clicked
    BY <1>1, <1>3, <2>4 DEF remote_service_reset_button_clicked, Known, reader, info
  <2> QED BY <1>5, <2>1, <2>2, <2>3, <2>4 DEF User
<1>6. CASE Dialog
  <2>1. CASE result_row_declined
    BY <1>3, <2>1 DEF result_row_declined, Known, reader, info
  <2>2. CASE result_row_accepted_command
    <3>1. /\ run_generic_command(dialog.id, dialog.row) /\ dialog' = None
          /\ dialog.row /\ dialog.row \in BOOLEAN /\ processor # 0
      BY <1>1, <2>2 DEF result_row_accepted_command, Accepted, TypeOK, Dialogs
    <3> QED BY <1>4, <3>1
  <2>3. CASE run_key_update
    <3>1. dialog # None /\ dialog' = None /\ UNCHANGED <<Known, key_id, crashed>>
      BY <2>3 DEF run_key_update, Accepted, Known, reader, info
    <3>2. CASE ksn_set
      <4>1. op' = Context("KEY_UPDATE", "remote", dialog.id, dialog.row)
        BY <2>3, <3>2 DEF run_key_update, Ongoing
      <4>2. /\ OfProcessor(op'.ksn) /\ OfProcessor(ksn)
            /\ op'.row /\ op'.stage = "remote"
        BY <1>1, <3>1, <3>2, <4>1 DEF SteadyInv, Context, OfProcessor
      <4> QED BY <1>1, <3>1, <4>2, SteadyOperation
    <3>3. CASE ~ksn_set
      BY <1>3, <2>3, <3>1, <3>3 DEF run_key_update
    <3> QED BY <3>2, <3>3
  <2> QED BY <1>6, <2>1, <2>2, <2>3 DEF Dialog
<1> QED BY <1>5, <1>6

LEMMA SteadyCallback ==
  ASSUME RInv, SteadyInv, steady, Callbacks
  PROVE  SteadyInv'
<1>1. /\ crashed = FALSE /\ (dialog # None => dialog.row /\ processor # 0)
  BY DEF SteadyInv, RInv, TypeOK
<1>2. UNCHANGED <<Known, dialog>>
  BY DEF Callbacks, get_key_list_ready, get_command_list_ready, get_list_ready,
         get_key_load_command_ready, run_key_update_command_ready, run_command_received,
         command_by_ksn_get_key_list_ready, processor_generic_command_ready, Known, reader, info
<1>3. /\ op # None /\ op \in Contexts /\ op.row /\ processor # 0
      /\ op.kind = "KEY_UPDATE" => OfProcessor(op.ksn) /\ OfProcessor(ksn)
  BY DEF Callbacks, get_key_list_ready, get_command_list_ready, get_list_ready,
         get_key_load_command_ready, run_key_update_command_ready, run_command_received,
         command_by_ksn_get_key_list_ready, processor_generic_command_ready, Pending,
         SteadyInv, RInv, TypeOK
\* The key id becomes known with a KSN of the reader that is there.
<1>k. key_id' # None => OfProcessor(ksn)
  <2>1. CASE UNCHANGED key_id
    BY <2>1 DEF SteadyInv
  <2>2. CASE run_key_update_command_ready
    BY <1>3, <2>2 DEF run_key_update_command_ready, Pending, SteadyInv
  <2>3. CASE command_by_ksn_get_key_list_ready
    BY <2>3 DEF command_by_ksn_get_key_list_ready, SteadyInv
  <2> QED
    BY <2>1, <2>2, <2>3
       DEF Callbacks, get_key_list_ready, get_command_list_ready, get_list_ready,
           get_key_load_command_ready, run_command_received, processor_generic_command_ready, info
<1>4. CASE op' = None /\ crashed' = FALSE
  BY <1>1, <1>2, <1>4, <1>k, SteadyOperation
<1>5. CASE Finished
  <2>1. op' = None /\ crashed' = FALSE
    BY <1>3, <1>5 DEF Finished, End, Touch
  <2> QED BY <1>4, <2>1
<1>6. CASE RunCommand
  <2>1. /\ op' = [op EXCEPT !.stage = "run", !.proc = processor] /\ crashed' = FALSE
    BY <1>3, <1>6 DEF RunCommand, mui_processor_run_command, Ongoing, Touch
  <2>2. /\ op'.row /\ op'.proc = processor
        /\ op'.kind = "KEY_UPDATE" => OfProcessor(op'.ksn) /\ OfProcessor(ksn)
    BY <1>3, <2>1 DEF Contexts, RInv, TypeOK
  <2> QED BY <1>1, <1>2, <1>3, <1>k, <2>1, <2>2, SteadyOperation
<1>7. CASE op' = [op EXCEPT !.stage = "by_ksn"] /\ crashed' = FALSE
  <2>1. /\ op'.row /\ op'.stage # "run"
        /\ op'.kind = "KEY_UPDATE" => OfProcessor(op'.ksn) /\ OfProcessor(ksn)
    BY <1>3, <1>7 DEF Contexts
  <2> QED BY <1>1, <1>2, <1>3, <1>7, <1>k, <2>1, SteadyOperation
<1>8. \/ op' = None /\ crashed' = FALSE
      \/ Finished
      \/ RunCommand
      \/ op' = [op EXCEPT !.stage = "by_ksn"] /\ crashed' = FALSE
  BY <1>1 DEF Callbacks, get_key_list_ready, get_command_list_ready, get_list_ready, End,
         get_key_load_command_ready, run_key_update_command_ready, run_command_received,
         command_by_ksn_get_key_list_ready, processor_generic_command_ready
<1> QED BY <1>4, <1>5, <1>6, <1>7, <1>8

LEMMA NextSteady ==
  ASSUME RInv, SteadyInv, [Next]_vars
  PROVE  SteadyInv'
<1>1. steady' = steady
  BY DEF Next, Plug, Unplug, reset_window, Thread, run_load, run_reset, run_command, report_item,
         User, Dialog, Callbacks, vars, reader, start_main_operation, get_list_ready,
         remote_service_get_key_list_button_clicked, remote_service_get_command_list_button_clicked,
         result_row_confirmation_dialog_run, result_row_activated_command, run_generic_command,
         remote_service_reset_button_clicked, result_row_declined, run_key_update,
         result_row_accepted_command, get_key_list_ready, get_command_list_ready,
         get_key_load_command_ready, run_key_update_command_ready, run_command_received,
         command_by_ksn_get_key_list_ready, processor_generic_command_ready
<1>2. CASE ~steady
  BY <1>1, <1>2 DEF SteadyInv
<1>3. CASE steady /\ Next
  BY <1>3, SteadyReset, SteadyThread, SteadyItem, SteadyUser, SteadyCallback DEF Next
<1>4. CASE UNCHANGED vars
  BY <1>4 DEF SteadyInv, OfProcessor, vars, reader, info
<1> QED BY <1>2, <1>3, <1>4

-----------------------------------------------------------------------------
\* One operation at a time, and what it waits for, in every session.
THEOREM RemoteInvariance == Spec => [](RInv /\ SteadyInv)
<1>1. Init => RInv
  BY InitR
<1>2. Init => SteadyInv
  BY DEF Init, SteadyInv
<1>3. RInv /\ SteadyInv /\ [Next]_vars => RInv' /\ SteadyInv'
  BY NextR, NextSteady
<1> QED BY <1>1, <1>2, <1>3, PTL DEF Spec

\* The variables keep their types.
THEOREM RemoteTyped == Spec => []TypeOK
<1>1. RInv => TypeOK
  BY DEF RInv
<1> QED BY <1>1, RemoteInvariance, PTL

\* No assertion of the page fails: no operation begins during another, and no
\* list is filled twice.
THEOREM NoAssertionFails == Spec => []AssertionsHold
<1>1. RInv => AssertionsHold
  BY DEF RInv
<1> QED BY <1>1, RemoteInvariance, PTL

\* The page is insensitive exactly while a callback is to come that ends it.
THEOREM NeverStuckInsensitive == Spec => []OngoingHasCallback
<1>1. RInv => OngoingHasCallback
  BY DEF RInv, OngoingHasCallback, CommandWaits, Commanded
<1> QED BY <1>1, RemoteInvariance, PTL

\* While readers stay where they are, nothing that is gone is used.
THEOREM RowsStay == Spec => []NothingDangles
<1>1. SteadyInv => NothingDangles
  BY DEF SteadyInv, NothingDangles
<1> QED BY <1>1, RemoteInvariance, PTL

\* While readers stay where they are during operations, a key update runs on
\* the reader whose KSN it was downloaded for, whatever readers were there
\* before, and a key id is kept only beside a KSN of the reader that is there.
THEOREM RightReader == Spec => []KeysForTheirReader
<1>1. SteadyInv => KeysForTheirReader
  BY DEF SteadyInv, KeysForTheirReader, OfProcessor
<1> QED BY <1>1, RemoteInvariance, PTL
=============================================================================
