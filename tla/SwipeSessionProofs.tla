-------------------------- MODULE SwipeSessionProofs --------------------------
(***************************************************************************)
(* The keys the basic page keeps are the current ones, and what it shows   *)
(* as decrypted was decrypted with them, and in a leisurely session with   *)
(* the KSN of its swipe, for any BDKs, key types, security levels and      *)
(* numbers of swipes and edits.                                            *)
(***************************************************************************)
EXTENDS SwipeSession, SequenceTheorems, TLAPS

KeysOf(p) ==
  /\ p.ipek # None => p.ipek = Ipek(p.bdk, p.ksn)
  /\ p.decryption_key # None =>
       /\ p.bdk # None /\ p.ksn # None
       /\ p.decryption_key = Key(Ipek(p.bdk, p.ksn), p.ksn, p.key_type)

\* What is decrypted is what is shown encrypted beside it.
ShownOf(p) ==
  /\ p.decrypted # None => p.encrypted # None
  /\ p.decrypted # None /\ p.decrypted.key # None => p.decrypted.key = p.decryption_key

\* The options are in reach only at a level at which changes show.
PageOK(p) ==
  p \in Pages /\ (p.footer <=> p.security_level > 2) /\ KeysOf(p) /\ ShownOf(p)

-----------------------------------------------------------------------------
LEMMA LevelNumbers == \A p \in Pages : p.security_level \in Nat
<1> TAKE p \in Pages
<1>1. p.security_level \in Levels \cup {0}
  BY DEF Pages
<1>2. 0 \in Nat
  OBVIOUS
<1> QED BY <1>1, <1>2, LevelsAreNumbers, Zenon

LEMMA InitialPage ==
  ASSUME NEW bdk \in Bdks, NEW type \in KeyTypes
  PROVE  PageOK(initial_page(bdk, type))
<1>1. initial_page(bdk, type) \in Pages
  BY DEF initial_page, Pages
<1>2. KeysOf(initial_page(bdk, type)) /\ ShownOf(initial_page(bdk, type))
  BY DEF initial_page, KeysOf, ShownOf
<1>3. initial_page(bdk, type).footer <=> initial_page(bdk, type).security_level > 2
  BY DEF initial_page
<1> QED BY <1>1, <1>2, <1>3 DEF PageOK

LEMMA TracksReset ==
  ASSUME NEW p, PageOK(p)
  PROVE  PageOK(reset_all_track_decryption(p)) /\ PageOK(reset(p))
BY ZenonT(60) DEF PageOK, reset_all_track_decryption, reset, Pages, KeysOf, ShownOf

\* Fields that computing the key leaves alone, and the key it leaves.
LEMMA KeyReloaded ==
  ASSUME NEW p \in Pages, KeysOf(p)
  PROVE  LET q == reload_decryption_key(p) IN
           /\ q \in Pages /\ KeysOf(q)
           /\ q.footer = p.footer /\ q.security_level = p.security_level
           /\ q.encrypted = p.encrypted /\ q.decrypted = p.decrypted
           /\ q.decryption_switch = p.decryption_switch
           /\ p.decryption_key # None => q = p
           /\ p.bdk # None /\ p.ksn # None => q.decryption_key # None
<1>1. CASE p.decryption_key # None \/ p.ksn = None \/ p.bdk = None
  BY <1>1 DEF reload_decryption_key
<1>2. CASE ~(p.decryption_key # None \/ p.ksn = None \/ p.bdk = None)
  <2> DEFINE i == Ipek(p.bdk, p.ksn)
             k == Key(i, p.ksn, p.key_type)
  <2>1. (IF p.ipek = None THEN Ipek(p.bdk, p.ksn) ELSE p.ipek) = i
    BY DEF KeysOf
  <2>2. reload_decryption_key(p) = [p EXCEPT !.ipek = i, !.decryption_key = k]
    BY <1>2, <2>1 DEF reload_decryption_key
  <2>3. i \in Ipeks /\ k \in Keys
    BY <1>2 DEF Ipeks, Keys, Ipek, Key, Pages
  <2>4. i # None /\ k # None
    BY <2>3, NoneIsNoKey
  <2> HIDE DEF i, k
  <2>5. LET q == [p EXCEPT !.ipek = i, !.decryption_key = k] IN
          /\ q \in Pages /\ q.ipek = i /\ q.decryption_key = k
          /\ q.bdk = p.bdk /\ q.ksn = p.ksn /\ q.key_type = p.key_type
          /\ q.footer = p.footer /\ q.security_level = p.security_level
          /\ q.encrypted = p.encrypted /\ q.decrypted = p.decrypted
          /\ q.decryption_switch = p.decryption_switch
    BY <2>3 DEF Pages
  <2> QED BY <1>2, <2>2, <2>4, <2>5 DEF KeysOf, i, k
<1> QED BY <1>1, <1>2

\* Tracks are decrypted anew, so that what is shown comes from the key there
\* is, unless nothing was shown or the level and the switch are in the way.
LEMMA TracksReloaded ==
  ASSUME NEW p \in Pages, p.footer <=> p.security_level > 2, KeysOf(p),
         p.decrypted # None => p.encrypted # None,
         \/ p.decrypted # None /\ p.decrypted.key # None => p.decrypted.key = p.decryption_key
         \/ p.footer /\ p.decryption_switch /\ p.decryption_key # None
  PROVE  PageOK(reload_track_decryption(p))
<1> DEFINE plain == Plain(p.encrypted)
           shown == Decrypted(p.encrypted, p.decryption_key)
<1>1. p.security_level \in Nat
  BY LevelNumbers
<1>2. CASE p.security_level < 2 \/ p.encrypted = None
  BY <1>1, <1>2 DEF reload_track_decryption, PageOK, ShownOf
<1>3. CASE ~(p.security_level < 2 \/ p.encrypted = None)
  <2>1. p.encrypted \in Data /\ p.decryption_key \in Keys \cup {None}
    BY <1>3 DEF Pages
  <2>2. plain \in Shown /\ shown \in Shown /\ plain.key = None /\ shown.key = p.decryption_key
    BY <2>1 DEF Plain, Decrypted, Shown
  <2> HIDE DEF plain, shown
  <2>3. ASSUME NEW d \in Shown, d.key = None \/ d.key = p.decryption_key
        PROVE  PageOK([p EXCEPT !.decrypted = d])
    <3> DEFINE q == [p EXCEPT !.decrypted = d]
    <3>1. /\ q \in Pages /\ q.decrypted = d /\ q.encrypted = p.encrypted
          /\ q.bdk = p.bdk /\ q.ksn = p.ksn /\ q.key_type = p.key_type /\ q.ipek = p.ipek
          /\ q.decryption_key = p.decryption_key
          /\ q.footer = p.footer /\ q.security_level = p.security_level
      BY <2>3 DEF Pages
    <3> HIDE DEF q
    <3> QED BY <1>3, <2>3, <3>1 DEF PageOK, KeysOf, ShownOf, q
  <2>4. CASE p.security_level = 2 \/ ~p.decryption_switch
    <3>1. reload_track_decryption(p) = [p EXCEPT !.decrypted = plain]
      BY <1>3, <2>4 DEF reload_track_decryption, plain
    <3> QED BY <2>2, <2>3, <3>1
  <2>5. CASE ~(p.security_level = 2 \/ ~p.decryption_switch) /\ p.decryption_key = None
    BY <1>3, <2>5 DEF reload_track_decryption, PageOK, ShownOf
  <2>6. CASE ~(p.security_level = 2 \/ ~p.decryption_switch) /\ p.decryption_key # None
    <3>1. reload_track_decryption(p) = [p EXCEPT !.decrypted = shown]
      BY <1>3, <2>6 DEF reload_track_decryption, shown
    <3> QED BY <2>2, <2>3, <3>1
  <2> QED BY <2>4, <2>5, <2>6
<1> QED BY <1>2, <1>3

LEMMA DecryptionReloaded ==
  ASSUME NEW p, PageOK(p)
  PROVE  PageOK(reload_decryption_key(p)) /\ PageOK(reload_decryption(p))
<1> DEFINE q == reload_decryption_key(p)
<1>1. /\ q \in Pages /\ KeysOf(q)
      /\ q.footer = p.footer /\ q.security_level = p.security_level
      /\ q.encrypted = p.encrypted /\ q.decrypted = p.decrypted
      /\ p.decryption_key # None => q = p
  BY KeyReloaded DEF PageOK
<1>2. p.decrypted # None /\ p.decrypted.key # None => p.decrypted.key = q.decryption_key
  BY <1>1 DEF PageOK, ShownOf
<1>3. PageOK(q)
  BY <1>1, <1>2 DEF PageOK, ShownOf
<1>4. PageOK(reload_track_decryption(q))
  <2> HIDE DEF q
  <2> QED BY <1>3, TracksReloaded DEF PageOK, ShownOf
<1> QED BY <1>3, <1>4 DEF reload_decryption

-----------------------------------------------------------------------------
(* The handlers. *)

LEMMA BdkActivated ==
  ASSUME NEW p, PageOK(p), NEW bdk \in Bdks \cup {None}
  PROVE  PageOK(bdk_entry_activated(p, bdk))
<1> DEFINE r == reset_all_track_decryption([p EXCEPT !.bdk = bdk, !.ipek = None, !.decryption_key = None])
<1>1. PageOK(r)
  BY DEF PageOK, reset_all_track_decryption, Pages, KeysOf, ShownOf
<1> HIDE DEF r
<1> QED BY <1>1, DecryptionReloaded DEF bdk_entry_activated, r

\* The key changes under what is shown, but the switch is on at a level at
\* which it is decrypted again.
LEMMA KeyTypeUpdated ==
  ASSUME NEW p, PageOK(p), CanEdit(p), NEW type \in KeyTypes
  PROVE  PageOK(key_type_updated(p, type))
<1> DEFINE r == [p EXCEPT !.key_type = type, !.decryption_key = None]
           q == reload_decryption_key(r)
<1>1. /\ r \in Pages /\ r.key_type = type /\ r.decryption_key = None
      /\ r.bdk = p.bdk /\ r.ksn = p.ksn /\ r.ipek = p.ipek
      /\ r.footer = p.footer /\ r.security_level = p.security_level
      /\ r.encrypted = p.encrypted /\ r.decrypted = p.decrypted
      /\ r.decryption_switch = p.decryption_switch
  BY DEF PageOK, Pages
<1> HIDE DEF r
<1>2. KeysOf(r)
  BY <1>1 DEF PageOK, KeysOf
<1>3. /\ q \in Pages /\ KeysOf(q)
      /\ q.footer = r.footer /\ q.security_level = r.security_level
      /\ q.encrypted = r.encrypted /\ q.decrypted = r.decrypted
      /\ q.decryption_switch = r.decryption_switch
      /\ r.bdk # None /\ r.ksn # None => q.decryption_key # None
  BY <1>1, <1>2, KeyReloaded
<1>4. p.decrypted # None /\ p.decrypted.key # None => p.bdk # None /\ p.ksn # None
  BY DEF PageOK, KeysOf, ShownOf
<1> HIDE DEF q
<1>5. /\ q.footer <=> q.security_level > 2
      /\ q.decrypted # None => q.encrypted # None
      /\ \/ q.decrypted # None /\ q.decrypted.key # None => q.decrypted.key = q.decryption_key
         \/ q.footer /\ q.decryption_switch /\ q.decryption_key # None
  <2>1. p.footer /\ p.decryption_switch /\ (p.footer <=> p.security_level > 2)
        /\ (p.decrypted # None => p.encrypted # None)
    BY DEF PageOK, ShownOf, CanEdit
  <2> QED BY <1>1, <1>3, <1>4, <2>1
<1>6. PageOK(reload_track_decryption(q))
  BY <1>3, <1>5, TracksReloaded
<1> QED BY <1>6 DEF key_type_updated, reload_decryption, r, q

LEMMA Switched ==
  ASSUME NEW p, PageOK(p)
  PROVE  PageOK(decryption_switched(p))
<1> DEFINE r == [p EXCEPT !.decryption_switch = ~@]
<1>1. PageOK(r)
  <2>1. /\ r \in Pages /\ r.bdk = p.bdk /\ r.ksn = p.ksn /\ r.ipek = p.ipek
        /\ r.key_type = p.key_type /\ r.decryption_key = p.decryption_key
        /\ r.footer = p.footer /\ r.security_level = p.security_level
        /\ r.encrypted = p.encrypted /\ r.decrypted = p.decrypted
    BY ZenonT(60) DEF PageOK, Pages
  <2> HIDE DEF r
  <2> QED BY <2>1 DEF PageOK, KeysOf, ShownOf
<1> HIDE DEF r
<1> QED BY <1>1, DecryptionReloaded DEF decryption_switched, r

LEMMA LevelUpdated ==
  ASSUME NEW p, PageOK(p), NEW level \in Levels \cup {0}
  PROVE  PageOK(security_level_updated(p, level))
<1> DEFINE r == security_level_updated(p, level)
<1>1. /\ r \in Pages /\ r.bdk = p.bdk /\ r.ksn = p.ksn /\ r.ipek = p.ipek
      /\ r.key_type = p.key_type /\ r.decryption_key = p.decryption_key
      /\ r.footer <=> level > 2
      /\ r.security_level = level
      /\ r.encrypted = p.encrypted /\ r.decrypted = p.decrypted
  <2>1. PICK f : f = (level > 2)
    OBVIOUS
  <2>2. f \in BOOLEAN
    BY <2>1
  <2>3. r = [p EXCEPT !.security_level = level, !.footer = f]
    BY <2>1, Zenon DEF security_level_updated
  <2> HIDE DEF r
  <2>4. /\ r \in Pages /\ r.bdk = p.bdk /\ r.ksn = p.ksn /\ r.ipek = p.ipek
        /\ r.key_type = p.key_type /\ r.decryption_key = p.decryption_key
        /\ r.footer = f /\ r.security_level = level
        /\ r.encrypted = p.encrypted /\ r.decrypted = p.decrypted
    BY <2>2, <2>3 DEF PageOK, Pages
  <2>5. r.footer <=> level > 2
    BY <2>1, <2>4, Zenon
  <2> QED BY <2>4, <2>5
<1> HIDE DEF r
<1> QED BY <1>1 DEF PageOK, KeysOf, ShownOf, r

LEMMA KsnUpdated ==
  ASSUME NEW p, PageOK(p), NEW ksn \in Ksns \cup {None}
  PROVE  PageOK(dukpt_ksn_and_counter_updated(p, ksn))
BY DEF PageOK, Pages, dukpt_ksn_and_counter_updated, KeysOf, ShownOf

LEMMA EncryptedShown ==
  ASSUME NEW p, PageOK(p), NEW data \in Data
  PROVE  PageOK([p EXCEPT !.encrypted = data])
BY NoneIsNoValue DEF PageOK, Pages, KeysOf, ShownOf

LEMMA KsnAssigned ==
  ASSUME NEW p, PageOK(p)
  PROVE  PageOK(dukpt_ksn_and_counter_assigned_to_swipe(p))
<1> DEFINE r == reset_all_track_decryption([p EXCEPT !.ksn = p.next_ksn, !.next_ksn = None,
                                                     !.ipek = None, !.decryption_key = None])
<1>1. PageOK(r)
  BY DEF PageOK, reset_all_track_decryption, Pages, KeysOf, ShownOf
<1> HIDE DEF r
<1>2. PageOK(reload_decryption_key(r))
  BY <1>1, DecryptionReloaded
<1> QED BY <1>2 DEF dukpt_ksn_and_counter_assigned_to_swipe, r

\* An item carries what its kind says.
Items ==
  [kind : {"DUKPT_KSN_AND_COUNTER"}, value : Ksns \cup {None}]
    \cup [kind : {"SECURITY_LEVEL"}, value : Levels \cup {0}]
    \cup [kind : {"SWIPE_STARTED", "SWIPE_FINISHED"}, value : {None}]
    \cup [kind : {"TRACK_ENCRYPTED_DATA"}, value : Data]

LEMMA ItemReported ==
  ASSUME NEW p, PageOK(p), NEW item \in Items
  PROVE  PageOK(report_item(p, item))
<1>1. CASE item.kind = "SECURITY_LEVEL"
  <2>1. item.value \in Levels \cup {0}
    BY <1>1 DEF Items
  <2> QED BY <1>1, <2>1, LevelUpdated DEF report_item
<1>2. CASE item.kind = "DUKPT_KSN_AND_COUNTER"
  <2>1. item.value \in Ksns \cup {None}
    BY <1>2 DEF Items
  <2> QED BY <1>2, <2>1, KsnUpdated DEF report_item
<1>3. CASE item.kind = "SWIPE_STARTED"
  BY <1>3, TracksReset DEF report_item
<1>4. CASE item.kind = "TRACK_ENCRYPTED_DATA"
  <2>1. item.value \in Data
    BY <1>4 DEF Items
  <2> QED BY <1>4, <2>1, EncryptedShown DEF report_item
<1>5. CASE item.kind = "SWIPE_FINISHED"
  <2>1. PageOK(reload_decryption(dukpt_ksn_and_counter_assigned_to_swipe(p)))
    BY KsnAssigned, DecryptionReloaded
  <2> QED BY <1>5, <2>1 DEF report_item
<1> QED BY <1>1, <1>2, <1>3, <1>4, <1>5 DEF Items

-----------------------------------------------------------------------------
(* The session. *)

SInv ==
  /\ PageOK(page)
  /\ counter \in 1 .. (MaxSwipes + 1)
  /\ buffer \in Seq(Data)
  /\ outbox \in Seq(Items)
  /\ items \in Seq(Items)
  /\ ops \in Seq({"LOAD_PROPERTIES", "WAIT_SWIPE"})
  /\ running # None => ops # <<>>

\* A wait that follows leaves the operation in front where it is.
LEMMA HeadKept ==
  ASSUME ops \in Seq({"LOAD_PROPERTIES", "WAIT_SWIPE"}), NEW reload_info, wait_for_swipe(reload_info)
  PROVE  /\ ops' \in Seq({"LOAD_PROPERTIES", "WAIT_SWIPE"})
         /\ ops # <<>> => ops' # <<>> /\ Head(ops') = Head(ops)
<1> DEFINE K == {"LOAD_PROPERTIES", "WAIT_SWIPE"}
<1>1. ASSUME NEW s \in Seq(K), NEW t \in Seq(K)
      PROVE  /\ s \o t \in Seq(K)
             /\ s # <<>> => s \o t # <<>> /\ Head(s \o t) = Head(s)
  <2>1. s \o t \in Seq(K) /\ Len(s \o t) = Len(s) + Len(t)
    BY ConcatProperties
  <2>2. ASSUME s # <<>>
        PROVE  s \o t # <<>> /\ Head(s \o t) = Head(s)
    <3>1. Len(s) \in Nat \ {0} /\ Len(t) \in Nat /\ (s \o t)[1] = s[1]
      BY <2>2, ConcatProperties
    <3> QED BY <2>1, <2>2, <3>1
  <2> QED BY <2>1, <2>2
<1>2. <<"LOAD_PROPERTIES">> \in Seq(K) /\ <<"WAIT_SWIPE">> \in Seq(K) /\ <<>> \in Seq(K)
  OBVIOUS
<1>3. PICK t \in Seq(K) : ops' = ops \/ ops' = (ops \o t) \o <<"WAIT_SWIPE">>
  BY <1>2, Zenon DEF wait_for_swipe
<1>4. ops \o t \in Seq(K) /\ (ops # <<>> => ops \o t # <<>> /\ Head(ops \o t) = Head(ops))
  BY <1>1
<1> HIDE DEF K
<1>5. (ops \o t) \o <<"WAIT_SWIPE">> \in Seq(K)
      /\ (ops # <<>> => (ops \o t) \o <<"WAIT_SWIPE">> # <<>>
                        /\ Head((ops \o t) \o <<"WAIT_SWIPE">>) = Head(ops))
  BY <1>1, <1>2, <1>4
<1> QED BY <1>3, <1>5 DEF K

LEMMA InitS == Init => SInv
<1> SUFFICES ASSUME Init PROVE SInv
  OBVIOUS
<1>1. PageOK(page)
  BY InitialPage, FirstIsKeyType DEF Init
<1>2. counter \in 1 .. (MaxSwipes + 1)
  BY SwipeNumbers DEF Init
<1> QED BY <1>1, <1>2 DEF Init, SInv

LEMMA NextS ==
  ASSUME SInv, [Next]_vars
  PROVE  SInv'
<1> USE DEF SInv
<1>1. CASE Swipe
  <2>1. counter \in Data /\ counter' = counter + 1 /\ counter' \in 1 .. (MaxSwipes + 1)
    BY <1>1, SwipeNumbers, KsnsAreCounters DEF Swipe, MaySwipe
  <2>2. buffer' \in Seq(Data) /\ UNCHANGED <<page, outbox, items, ops, running>>
    BY <1>1, <2>1 DEF Swipe, thread
  <2> QED BY <2>1, <2>2
<1>2. CASE Replace \/ Unplug
  <2>1. counter' \in 1 .. (MaxSwipes + 1)
    <3>1. CASE UNCHANGED counter
      BY <3>1
    <3>2. CASE MaySwipe /\ counter' = counter + 1
      BY <3>2, SwipeNumbers DEF MaySwipe
    <3> QED BY <1>2, <3>1, <3>2 DEF Replace, Unplug
  <2>2. PICK found \in BOOLEAN : reset_window(found)
    BY <1>2 DEF Replace, Unplug
  <2>3. buffer' = <<>> /\ outbox' = <<>> /\ UNCHANGED items /\ page' = reset(page)
        /\ running' = None /\ ops' = IF found THEN <<"LOAD_PROPERTIES", "WAIT_SWIPE">> ELSE <<>>
    BY <2>2 DEF reset_window, cleanup_processor, set_property
  <2>4. ops' \in Seq({"LOAD_PROPERTIES", "WAIT_SWIPE"})
    <3>1. /\ <<"LOAD_PROPERTIES", "WAIT_SWIPE">> \in Seq({"LOAD_PROPERTIES", "WAIT_SWIPE"})
          /\ <<>> \in Seq({"LOAD_PROPERTIES", "WAIT_SWIPE"})
      OBVIOUS
    <3> QED BY <2>3, <3>1, Zenon
  <2> QED BY <2>1, <2>3, <2>4, TracksReset
<1>3. CASE load_device_properties
  <2>1. PICK ksn \in {counter, None}, level \in Levels \cup {0} :
          outbox' = <<Item("DUKPT_KSN_AND_COUNTER", ksn), Item("SECURITY_LEVEL", level)>>
    BY <1>3 DEF load_device_properties
  <2>2. Item("DUKPT_KSN_AND_COUNTER", ksn) \in Items /\ Item("SECURITY_LEVEL", level) \in Items
    BY KsnsAreCounters DEF Item, Items
  <2>3. outbox' \in Seq(Items)
    BY <2>1, <2>2
  <2> QED BY <1>3, <2>3 DEF load_device_properties, Begin
<1>4. CASE run_wait_swipe
  <2>1. ops # <<>> /\ UNCHANGED <<page, counter, items, ops>>
    BY <1>4 DEF run_wait_swipe, Begin
  <2>2. CASE swipe_timed_out
    BY <2>1, <2>2 DEF swipe_timed_out
  <2>3. CASE swipe_failed
    <3>1. buffer' \in Seq(Data)
      <4>1. buffer' = buffer \/ (buffer # <<>> /\ buffer' = Tail(buffer))
        BY <2>3 DEF swipe_failed
      <4>2. buffer # <<>> => Tail(buffer) \in Seq(Data)
        OBVIOUS
      <4>3. buffer \in Seq(Data)
        OBVIOUS
      <4> QED BY <4>1, <4>2, <4>3, Zenon
    <3> QED BY <2>1, <2>3, <3>1 DEF swipe_failed
  <2>4. CASE swipe_read
    <3>1. /\ buffer # <<>> /\ buffer' = Tail(buffer)
          /\ outbox' = <<Item("SWIPE_STARTED", None),
                         Item("TRACK_ENCRYPTED_DATA", Head(buffer)),
                         Item("SWIPE_FINISHED", None)>>
      BY <2>4 DEF swipe_read
    <3>2. Head(buffer) \in Data /\ buffer' \in Seq(Data)
      BY <3>1
    <3>3. /\ Item("SWIPE_STARTED", None) \in Items
          /\ Item("TRACK_ENCRYPTED_DATA", Head(buffer)) \in Items
          /\ Item("SWIPE_FINISHED", None) \in Items
      BY <3>2 DEF Item, Items
    <3>4. outbox' \in Seq(Items)
      BY <3>1, <3>3
    <3> QED BY <2>1, <3>2, <3>4
  <2> QED BY <1>4, <2>2, <2>3, <2>4 DEF run_wait_swipe
<1>5. CASE inthread_report_item
  <2>1. outbox # <<>> /\ items' = Append(items, Head(outbox)) /\ outbox' = Tail(outbox)
        /\ UNCHANGED <<page, counter, buffer, ops, running>>
    BY <1>5 DEF inthread_report_item, device
  <2> QED BY <2>1
<1>6. CASE operation_returns \/ wait_for_swipe_ready \/ wait_for_swipe_reschedule_cb
           \/ dropped_wait_returns
  <2>1. UNCHANGED <<page, counter, buffer, outbox, items>>
    BY <1>6 DEF operation_returns, wait_for_swipe_ready, wait_for_swipe_reschedule_cb,
                dropped_wait_returns, device, thread
  <2>2. ops' \in Seq({"LOAD_PROPERTIES", "WAIT_SWIPE"})
    <3>1. CASE operation_returns
      <4>1. running # None /\ ops' = Tail(ops)
        BY <3>1 DEF operation_returns
      <4> QED BY <4>1
    <3>2. CASE ops' = ops
      BY <3>2
    <3>3. CASE wait_for_swipe_ready \/ wait_for_swipe_reschedule_cb
      <4>1. ops' = ops \/ wait_for_swipe(TRUE) \/ wait_for_swipe(FALSE)
        BY <3>3 DEF wait_for_swipe_ready, wait_for_swipe_reschedule_cb
      <4> QED BY <3>2, <4>1, HeadKept
    <3> QED BY <1>6, <3>1, <3>2, <3>3 DEF dropped_wait_returns, thread
  <2>3. running' # None => ops' # <<>>
    <3>1. CASE wait_for_swipe_ready \/ wait_for_swipe_reschedule_cb
      <4>1. running' = running /\ (ops' = ops \/ wait_for_swipe(TRUE) \/ wait_for_swipe(FALSE))
        BY <3>1 DEF wait_for_swipe_ready, wait_for_swipe_reschedule_cb
      <4> QED BY <4>1, HeadKept
    <3> QED BY <1>6, <3>1 DEF operation_returns, dropped_wait_returns, thread
  <2> QED BY <2>1, <2>2, <2>3
<1>7. CASE report_item_cb
  <2>1. items # <<>> /\ page' = report_item(page, Head(items)) /\ items' = Tail(items)
        /\ UNCHANGED <<counter, buffer, outbox, ops, running>>
    BY <1>7 DEF report_item_cb, device, thread
  <2>2. Head(items) \in Items /\ items' \in Seq(Items)
    BY <2>1
  <2> QED BY <2>1, <2>2, ItemReported
<1>8. CASE Edit
  <2>1. PageOK(page')
    BY <1>8, BdkActivated, KeyTypeUpdated, Switched DEF Edit
  <2> QED BY <1>8, <2>1 DEF Edit, device, thread
<1>9. CASE UNCHANGED vars
  BY <1>9 DEF vars, device, thread
<1> QED
  BY <1>1, <1>2, <1>3, <1>4, <1>5, <1>6, <1>7, <1>8, <1>9 DEF Next, Worker, MainLoop

\* The page is consistent after every handler, in every session.
THEOREM SessionInvariance == Spec => []SInv
BY InitS, NextS, PTL DEF Spec

\* The keys the page keeps are those of its BDK, KSN and key type.
THEOREM KeysStayCurrent == Spec => []KeysCurrent
<1>1. SInv => KeysCurrent
  BY DEF SInv, PageOK, KeysOf, KeysCurrent
<1> QED BY <1>1, SessionInvariance, PTL

\* What is shown as decrypted was decrypted with the key the page has now,
\* also when the level or the switch keep it from being decrypted again.
THEOREM ShownStaysCurrent == Spec => []ShownWithCurrentKey
<1>1. SInv => ShownWithCurrentKey
  BY DEF SInv, PageOK, ShownOf, ShownWithCurrentKey
<1> QED BY <1>1, SessionInvariance, PTL

-----------------------------------------------------------------------------
(* A leisurely session.  What the page will get is one line of items: those *)
(* queued for the main loop and those the thread has still to report.  The  *)
(* data of a swipe is in line three places after the KSN it was encrypted   *)
(* with, or is to be reported there, and the page takes over the one with   *)
(* the other.                                                               *)

Line == items \o outbox

\* At most one swipe is kept for the wait that runs, and the KSN was not
\* read again since; other waits and loads may be queued behind it.
WaitOK ==
  /\ buffer # <<>> => /\ ops # <<>> /\ Head(ops) = "WAIT_SWIPE" /\ running = None
                      /\ Len(buffer) = 1
                      /\ ~loaded
  /\ running = None => outbox = <<>>

\* The KSN of the next swipe was reported, and the swipe was not.
Ready == loaded \/ buffer # <<>>

\* The KSN the next swipe reported was encrypted with.
Due == IF buffer = <<>> THEN counter ELSE Head(buffer)

PlaceOK(s, next, i) ==
  /\ s[i].kind = "TRACK_ENCRYPTED_DATA" =>
       /\ i < Len(s) /\ s[i + 1].kind = "SWIPE_FINISHED"
       /\ i > 1 => s[i - 1].kind = "SWIPE_STARTED"
       /\ i > 2 => s[i - 2].kind = "SECURITY_LEVEL"
       /\ i > 3 => s[i - 3] = Item("DUKPT_KSN_AND_COUNTER", s[i].value)
       /\ i <= 3 => next = s[i].value
  /\ s[i].kind = "SWIPE_FINISHED" => (i > 1 => s[i - 1].kind = "TRACK_ENCRYPTED_DATA")

LineOK(s, next) == \A i \in 1 .. Len(s) : PlaceOK(s, next, i)

ReadyOK(s, next, ksn) ==
  /\ Len(s) >= 1 => s[Len(s)].kind = "SECURITY_LEVEL"
  /\ Len(s) >= 2 => s[Len(s) - 1] = Item("DUKPT_KSN_AND_COUNTER", ksn)
  /\ Len(s) <= 1 => next = ksn

\* Between swipes the page has the KSN of the data it shows, and nothing
\* decrypted but that data.
Settled(p) ==
  /\ p.encrypted # None => p.ksn = p.encrypted
  /\ p.decrypted # None => p.decrypted.data = p.encrypted

PageSettled(s, p) ==
  /\ s = <<>> \/ s[1].kind \notin {"TRACK_ENCRYPTED_DATA", "SWIPE_FINISHED"} => Settled(p)
  /\ s # <<>> /\ s[1].kind = "SWIPE_FINISHED" /\ p.encrypted # None
       => p.next_ksn = p.encrypted

LInv ==
  leisurely =>
    /\ WaitOK
    /\ LineOK(Line, page.next_ksn)
    /\ Ready => ReadyOK(Line, page.next_ksn, Due)
    /\ PageSettled(Line, page)

-----------------------------------------------------------------------------
(* What the handlers do to the data shown. *)

LEMMA ReloadShows ==
  ASSUME NEW p \in Pages, KeysOf(p)
  PROVE  LET q == reload_decryption(p) IN
           /\ q.encrypted = p.encrypted /\ q.ksn = p.ksn /\ q.next_ksn = p.next_ksn
           /\ q.decrypted = p.decrypted \/ (p.encrypted # None /\ q.decrypted.data = p.encrypted)
<1> DEFINE r == reload_decryption_key(p)
<1>1. /\ r \in Pages /\ r.encrypted = p.encrypted /\ r.ksn = p.ksn
      /\ r.next_ksn = p.next_ksn /\ r.decrypted = p.decrypted
  <2>1. PICK i, k : r = p \/ r = [p EXCEPT !.ipek = i, !.decryption_key = k]
    BY DEF reload_decryption_key
  <2>2. r \in Pages
    BY KeyReloaded
  <2> HIDE DEF r
  <2> QED BY <2>1, <2>2 DEF Pages
<1> HIDE DEF r
<1>2. PICK d :
        /\ \/ reload_track_decryption(r) = r
           \/ reload_track_decryption(r) = [r EXCEPT !.decrypted = d] /\ r.encrypted # None
        /\ d.data = r.encrypted
  <2>1. Plain(r.encrypted).data = r.encrypted
        /\ Decrypted(r.encrypted, r.decryption_key).data = r.encrypted
    BY DEF Plain, Decrypted
  <2> QED BY <2>1, Zenon DEF reload_track_decryption
<1>3. reload_decryption(p) = reload_track_decryption(r)
  BY DEF reload_decryption, r
<1> QED BY <1>1, <1>2, <1>3 DEF Pages

LEMMA ItemShows ==
  ASSUME NEW p, PageOK(p), NEW item \in Items
  PROVE  LET q == report_item(p, item)
             same == q.encrypted = p.encrypted /\ q.ksn = p.ksn
         IN
           /\ item.kind = "SECURITY_LEVEL" =>
                same /\ q.next_ksn = p.next_ksn /\ q.decrypted = p.decrypted
           /\ item.kind = "DUKPT_KSN_AND_COUNTER" =>
                same /\ q.next_ksn = item.value /\ q.decrypted = p.decrypted
           /\ item.kind = "SWIPE_STARTED" =>
                same /\ q.next_ksn = p.next_ksn /\ q.decrypted = None
           /\ item.kind = "TRACK_ENCRYPTED_DATA" =>
                q.encrypted = item.value /\ q.next_ksn = p.next_ksn
           /\ item.kind = "SWIPE_FINISHED" /\ (p.encrypted # None => p.next_ksn = p.encrypted) =>
                Settled(q)
<1> USE DEF PageOK
<1>1. CASE item.kind = "SECURITY_LEVEL"
  BY <1>1 DEF report_item, security_level_updated, Pages
<1>2. CASE item.kind = "DUKPT_KSN_AND_COUNTER"
  BY <1>2 DEF report_item, dukpt_ksn_and_counter_updated, Pages
<1>3. CASE item.kind = "SWIPE_STARTED"
  BY <1>3 DEF report_item, reset_all_track_decryption, Pages
<1>4. CASE item.kind = "TRACK_ENCRYPTED_DATA"
  BY <1>4 DEF report_item, Pages
<1>5. CASE item.kind = "SWIPE_FINISHED"
  <2> DEFINE a == dukpt_ksn_and_counter_assigned_to_swipe(p)
             q == reload_decryption(a)
  <2>1. report_item(p, item) = q
    BY <1>5 DEF report_item
  <2>2. a \in Pages /\ KeysOf(a)
    BY KsnAssigned DEF PageOK
  <2>3. /\ q.encrypted = a.encrypted /\ q.ksn = a.ksn
        /\ q.decrypted = a.decrypted \/ (a.encrypted # None /\ q.decrypted.data = a.encrypted)
    <3> HIDE DEF a
    <3> QED BY <2>2, ReloadShows
  <2>4. CASE p.next_ksn = None
    <3>1. a = p
      BY <2>4 DEF dukpt_ksn_and_counter_assigned_to_swipe
    <3>2. p.encrypted = None => p.decrypted = None
      BY DEF ShownOf
    <3> HIDE DEF a, q
    <3> QED BY <1>5, <2>1, <2>3, <2>4, <3>1, <3>2 DEF Settled
  <2>5. CASE p.next_ksn # None
    <3> DEFINE r == reset_all_track_decryption([p EXCEPT !.ksn = p.next_ksn, !.next_ksn = None,
                                                         !.ipek = None, !.decryption_key = None])
    <3>1. a = reload_decryption_key(r)
      BY <2>5 DEF dukpt_ksn_and_counter_assigned_to_swipe
    <3>2. r \in Pages /\ r.ksn = p.next_ksn /\ r.encrypted = p.encrypted /\ r.decrypted = None
      BY DEF reset_all_track_decryption, Pages
    <3> HIDE DEF a, r
    <3>3. PICK i, k : a = r \/ a = [r EXCEPT !.ipek = i, !.decryption_key = k]
      BY <3>1 DEF reload_decryption_key
    <3>4. a.ksn = p.next_ksn /\ a.encrypted = p.encrypted /\ a.decrypted = None
      <4> HIDE DEF a
      <4> QED BY <3>2, <3>3 DEF Pages
    <3> HIDE DEF a, q
    <3> QED BY <1>5, <2>1, <2>3, <3>4 DEF Settled
  <2> QED BY <2>4, <2>5
<1> QED BY <1>1, <1>2, <1>3, <1>4, <1>5 DEF Items

\* The user changes only how the data is shown.
LEMMA EditShows ==
  ASSUME PageOK(page), Edit
  PROVE  /\ page'.encrypted = page.encrypted /\ page'.ksn = page.ksn
         /\ page'.next_ksn = page.next_ksn
         /\ \/ page'.decrypted = page.decrypted \/ page'.decrypted = None
            \/ page'.decrypted.data = page.encrypted
<1> USE DEF PageOK
<1>1. ASSUME NEW r \in Pages, KeysOf(r), page' = reload_decryption(r),
             r.encrypted = page.encrypted, r.ksn = page.ksn, r.next_ksn = page.next_ksn,
             r.decrypted = page.decrypted \/ r.decrypted = None
      PROVE  /\ page'.encrypted = page.encrypted /\ page'.ksn = page.ksn
             /\ page'.next_ksn = page.next_ksn
             /\ \/ page'.decrypted = page.decrypted \/ page'.decrypted = None
                \/ page'.decrypted.data = page.encrypted
  BY <1>1, ReloadShows
<1>2. ASSUME NEW bdk \in Bdks \cup {None}, page' = bdk_entry_activated(page, bdk)
      PROVE  \E r \in Pages :
               /\ KeysOf(r) /\ page' = reload_decryption(r)
               /\ r.encrypted = page.encrypted /\ r.ksn = page.ksn
               /\ r.next_ksn = page.next_ksn /\ r.decrypted = None
  <2> DEFINE r == [page EXCEPT !.bdk = bdk, !.ipek = None, !.decryption_key = None, !.decrypted = None]
  <2>1. reset_all_track_decryption([page EXCEPT !.bdk = bdk, !.ipek = None, !.decryption_key = None]) = r
    BY DEF reset_all_track_decryption, Pages
  <2>2. page' = reload_decryption(r)
    BY <1>2, <2>1 DEF bdk_entry_activated
  <2>3. /\ r \in Pages /\ KeysOf(r) /\ r.encrypted = page.encrypted
        /\ r.ksn = page.ksn /\ r.next_ksn = page.next_ksn /\ r.decrypted = None
    BY DEF Pages, KeysOf
  <2> QED BY <2>2, <2>3
<1>3. ASSUME NEW type \in KeyTypes, page' = key_type_updated(page, type)
      PROVE  \E r \in Pages :
               /\ KeysOf(r) /\ page' = reload_decryption(r)
               /\ r.encrypted = page.encrypted /\ r.ksn = page.ksn
               /\ r.next_ksn = page.next_ksn /\ r.decrypted = page.decrypted
  <2> DEFINE r == [page EXCEPT !.key_type = type, !.decryption_key = None]
  <2>1. page' = reload_decryption(r)
    BY <1>3 DEF key_type_updated
  <2>2. /\ r \in Pages /\ KeysOf(r) /\ r.encrypted = page.encrypted
        /\ r.ksn = page.ksn /\ r.next_ksn = page.next_ksn /\ r.decrypted = page.decrypted
    BY DEF Pages, KeysOf
  <2> QED BY <2>1, <2>2
<1>4. ASSUME page' = decryption_switched(page)
      PROVE  \E r \in Pages :
               /\ KeysOf(r) /\ page' = reload_decryption(r)
               /\ r.encrypted = page.encrypted /\ r.ksn = page.ksn
               /\ r.next_ksn = page.next_ksn /\ r.decrypted = page.decrypted
  <2> DEFINE r == [page EXCEPT !.decryption_switch = ~@]
  <2>1. page' = reload_decryption(r)
    BY <1>4 DEF decryption_switched
  <2>2. /\ r \in Pages /\ KeysOf(r) /\ r.encrypted = page.encrypted
        /\ r.ksn = page.ksn /\ r.next_ksn = page.next_ksn /\ r.decrypted = page.decrypted
    BY ZenonT(60) DEF Pages, KeysOf
  <2> QED BY <2>1, <2>2
<1> QED BY <1>1, <1>2, <1>3, <1>4, Zenon DEF Edit

-----------------------------------------------------------------------------
(* The line. *)

\* The first item leaves the line and reaches the page.
LEMMA LinePopped ==
  ASSUME NEW s \in Seq(Items), s # <<>>, NEW next, NEW next2, NEW ksn, LineOK(s, next),
         s[1].kind = "DUKPT_KSN_AND_COUNTER" => next2 = s[1].value,
         s[1].kind \notin {"DUKPT_KSN_AND_COUNTER", "SWIPE_FINISHED"} => next2 = next
  PROVE  /\ LineOK(Tail(s), next2)
         /\ ReadyOK(s, next, ksn) => ReadyOK(Tail(s), next2, ksn)
<1> DEFINE t == Tail(s)
<1>1. /\ t \in Seq(Items) /\ Len(t) = Len(s) - 1 /\ Len(s) \in Nat \ {0}
      /\ \A i \in 1 .. Len(t) : t[i] = s[i + 1]
  OBVIOUS
<1> HIDE DEF t
<1>2. Item("DUKPT_KSN_AND_COUNTER", ksn).kind = "DUKPT_KSN_AND_COUNTER"
      /\ Item("DUKPT_KSN_AND_COUNTER", ksn).value = ksn
  BY DEF Item
<1>3. ReadyOK(s, next, ksn) => ReadyOK(t, next2, ksn)
  BY <1>1, <1>2 DEF ReadyOK
<1>4. ASSUME NEW i \in 1 .. Len(t)
      PROVE  PlaceOK(t, next2, i)
  <2> DEFINE j == i + 1
  <2>1. j \in 1 .. Len(s) /\ t[i] = s[j] /\ j - 1 = i /\ j > 1
    BY <1>1
  <2>2. /\ i > 1 => t[i - 1] = s[j - 1]
        /\ i > 2 => t[i - 2] = s[j - 2]
        /\ i > 3 => t[i - 3] = s[j - 3]
        /\ i < Len(t) => t[i + 1] = s[j + 1]
    <3>1. ASSUME NEW k \in 1 .. Len(t) PROVE t[k] = s[k + 1]
      BY <1>1
    <3>2. i - 1 + 1 = j - 1 /\ i - 2 + 1 = j - 2 /\ i - 3 + 1 = j - 3
      OBVIOUS
    <3>3. /\ i > 1 => i - 1 \in 1 .. Len(t)
          /\ i > 2 => i - 2 \in 1 .. Len(t)
          /\ i > 3 => i - 3 \in 1 .. Len(t)
          /\ i < Len(t) => i + 1 \in 1 .. Len(t)
      BY <1>1
    <3> QED BY <3>1, <3>2, <3>3
  <2>3. PlaceOK(s, next, j)
    BY <2>1 DEF LineOK
  <2>4. s[j].kind = "TRACK_ENCRYPTED_DATA" /\ i <= 3 => next2 = s[j].value
    <3>1. Item("DUKPT_KSN_AND_COUNTER", s[j].value).kind = "DUKPT_KSN_AND_COUNTER"
          /\ Item("DUKPT_KSN_AND_COUNTER", s[j].value).value = s[j].value
      BY DEF Item
    <3> USE <2>1, <2>3 DEF PlaceOK
    <3>2. CASE i = 1
      BY <3>2
    <3>3. CASE i = 2
      BY <3>3
    <3>4. CASE i = 3
      BY <3>1, <3>4
    <3> QED BY <3>2, <3>3, <3>4
  <2> QED BY <1>1, <2>1, <2>2, <2>3, <2>4 DEF PlaceOK
<1>5. LineOK(t, next2)
  BY <1>4, Zenon DEF LineOK
<1> QED BY <1>3, <1>5 DEF t

\* What is in line stays right when more is added behind it.
LEMMA LineGrown ==
  ASSUME NEW s \in Seq(Items), NEW next, LineOK(s, next), NEW t \in Seq(Items),
         Len(t) >= Len(s), \A i \in 1 .. Len(s) : t[i] = s[i]
  PROVE  \A i \in 1 .. Len(s) : PlaceOK(t, next, i)
<1> TAKE i \in 1 .. Len(s)
<1>1. PlaceOK(s, next, i) /\ t[i] = s[i] /\ Len(s) \in Nat /\ Len(t) \in Nat
  BY DEF LineOK
<1>2. /\ i > 1 => t[i - 1] = s[i - 1]
      /\ i > 2 => t[i - 2] = s[i - 2]
      /\ i > 3 => t[i - 3] = s[i - 3]
      /\ i < Len(s) => t[i + 1] = s[i + 1]
  BY <1>1, SMTT(40)
<1> QED BY <1>1, <1>2 DEF PlaceOK

\* A load adds the KSN and the level, which announce the next swipe.
LEMMA LineLoaded ==
  ASSUME NEW s \in Seq(Items), NEW next, LineOK(s, next),
         NEW a \in Items, NEW b \in Items, NEW ksn,
         a = Item("DUKPT_KSN_AND_COUNTER", ksn), b.kind = "SECURITY_LEVEL"
  PROVE  LineOK(s \o <<a, b>>, next) /\ ReadyOK(s \o <<a, b>>, next, ksn)
<1> DEFINE t == s \o <<a, b>>
<1>1. /\ t \in Seq(Items) /\ Len(t) = Len(s) + 2 /\ Len(s) \in Nat /\ DOMAIN t = 1 .. Len(t)
      /\ \A i \in 1 .. Len(s) : t[i] = s[i]
      /\ t[Len(s) + 1] = a /\ t[Len(s) + 2] = b
  OBVIOUS
<1> HIDE DEF t
<1>2. a.kind = "DUKPT_KSN_AND_COUNTER"
  BY DEF Item
<1>3. ReadyOK(t, next, ksn)
  BY <1>1 DEF ReadyOK
<1>4. \A i \in 1 .. Len(s) : PlaceOK(t, next, i)
  BY <1>1, LineGrown
<1>5. PlaceOK(t, next, Len(s) + 1) /\ PlaceOK(t, next, Len(s) + 2)
  BY <1>1, <1>2 DEF PlaceOK
<1>6. \A i \in 1 .. Len(t) : i \in 1 .. Len(s) \/ i = Len(s) + 1 \/ i = Len(s) + 2
  BY <1>1
<1>7. LineOK(t, next)
  BY <1>4, <1>5, <1>6, Zenon DEF LineOK
<1> QED BY <1>3, <1>7 DEF t

\* A swipe comes with the KSN announced for it.
LEMMA LineSwiped ==
  ASSUME NEW s \in Seq(Items), NEW next, NEW ksn, LineOK(s, next), ReadyOK(s, next, ksn),
         NEW a \in Items, NEW b \in Items, NEW c \in Items,
         a.kind = "SWIPE_STARTED", b.kind = "TRACK_ENCRYPTED_DATA", b.value = ksn,
         c.kind = "SWIPE_FINISHED"
  PROVE  LineOK(s \o <<a, b, c>>, next)
<1> DEFINE t == s \o <<a, b, c>>
           n == Len(s)
<1>1. /\ t \in Seq(Items) /\ Len(t) = n + 3 /\ n \in Nat /\ DOMAIN t = 1 .. Len(t)
      /\ \A i \in 1 .. n : t[i] = s[i]
      /\ t[n + 1] = a /\ t[n + 2] = b /\ t[n + 3] = c
  OBVIOUS
<1> HIDE DEF t
<1>2. \A i \in 1 .. n : PlaceOK(t, next, i)
  <2>1. t \in Seq(Items) /\ Len(t) >= Len(s) /\ \A i \in 1 .. Len(s) : t[i] = s[i]
    BY <1>1
  <2> QED BY <2>1, LineGrown
<1> HIDE DEF n
<1>3. /\ n >= 1 => s[n].kind = "SECURITY_LEVEL"
      /\ n >= 2 => s[n - 1] = Item("DUKPT_KSN_AND_COUNTER", ksn)
      /\ n <= 1 => next = ksn
  BY DEF ReadyOK, n
<1>4. PlaceOK(t, next, n + 1) /\ PlaceOK(t, next, n + 3)
  BY <1>1 DEF PlaceOK
<1>5. PlaceOK(t, next, n + 2)
  <2>1. n > 0 => t[n] = s[n]
    BY <1>1
  <2>2. n > 1 => t[n - 1] = s[n - 1]
    BY <1>1
  <2> QED BY <1>1, <1>3, <2>1, <2>2, SMTT(40) DEF PlaceOK
<1>6. \A i \in 1 .. Len(t) : i \in 1 .. n \/ i = n + 1 \/ i = n + 2 \/ i = n + 3
  BY <1>1
<1>7. LineOK(t, next)
  BY <1>2, <1>4, <1>5, <1>6, Zenon DEF LineOK
<1> QED BY <1>7 DEF t

-----------------------------------------------------------------------------
(* A leisurely session step by step. *)

LEMMA InitL == Init => LInv
<1> SUFFICES ASSUME Init PROVE LInv
  OBVIOUS
<1>1. Line = <<>> /\ Len(Line) = 0
  BY DEF Init, Line
<1>2. page.encrypted = None /\ page.decrypted = None
  BY DEF Init, initial_page
<1>3. WaitOK /\ ~Ready
  BY DEF Init, WaitOK, Ready
<1>4. LineOK(Line, page.next_ksn)
  BY <1>1 DEF LineOK
<1>5. PageSettled(Line, page)
  BY <1>1, <1>2 DEF PageSettled, Settled
<1> QED BY <1>3, <1>4, <1>5 DEF LInv

\* The order of the queue in front of the page.
LEMMA LineMoves ==
  ASSUME SInv
  PROVE  /\ Line \in Seq(Items)
         /\ inthread_report_item => UNCHANGED Line
         /\ report_item_cb => Line # <<>> /\ Line[1] = Head(items) /\ Line' = Tail(Line)
         /\ \A t \in Seq(Items) :
              outbox = <<>> /\ outbox' = t /\ items' = items => Line' = Line \o t
<1>1. items \in Seq(Items) /\ outbox \in Seq(Items)
  BY DEF SInv
<1>2. ASSUME NEW s \in Seq(Items), NEW t \in Seq(Items)
      PROVE  /\ s \o t \in Seq(Items) /\ s \o <<>> = s
             /\ t # <<>> => Append(s, Head(t)) \o Tail(t) = s \o t
             /\ s # <<>> => s \o t # <<>> /\ (s \o t)[1] = Head(s) /\ Tail(s \o t) = Tail(s) \o t
  <2>1. s \o t \in Seq(Items) /\ s \o <<>> = s
    BY ConcatProperties, ConcatEmptySeq
  <2>2. ASSUME t # <<>>
        PROVE  Append(s, Head(t)) \o Tail(t) = s \o t
    <3>1. Head(t) \in Items /\ Tail(t) \in Seq(Items) /\ <<Head(t)>> \in Seq(Items)
      BY <2>2
    <3>2. Append(s, Head(t)) = s \o <<Head(t)>>
      BY <3>1, AppendIsConcat
    <3>3. (s \o <<Head(t)>>) \o Tail(t) = s \o (<<Head(t)>> \o Tail(t))
      BY <3>1, ConcatAssociative
    <3>4. <<Head(t)>> \o Tail(t) = t
      <4> DEFINE u == <<Head(t)>> \o Tail(t)
      <4>1. u \in Seq(Items) /\ Len(u) = Len(t) /\ \A i \in 1 .. Len(u) : u[i] = t[i]
        BY <2>2, <3>1, HeadTailProperties
      <4> QED BY <4>1, SeqEqual
    <3> QED BY <3>2, <3>3, <3>4
  <2>3. ASSUME s # <<>>
        PROVE  s \o t # <<>> /\ (s \o t)[1] = Head(s) /\ Tail(s \o t) = Tail(s) \o t
    <3>1. /\ Len(s) \in Nat \ {0} /\ Len(t) \in Nat /\ Tail(s) \in Seq(Items)
          /\ Len(s \o t) = Len(s) + Len(t) /\ (s \o t)[1] = s[1] /\ s[1] = Head(s)
      BY <2>3, ConcatProperties
    <3>2. s \o t # <<>>
      BY <3>1
    <3> DEFINE u == Tail(s \o t)
               v == Tail(s) \o t
    <3>3. /\ u \in Seq(Items) /\ Len(u) = Len(s) + Len(t) - 1
          /\ \A i \in 1 .. Len(u) : u[i] = (s \o t)[i + 1]
      BY <2>1, <3>1, <3>2, HeadTailProperties
    <3>4. /\ v \in Seq(Items) /\ Len(v) = Len(s) + Len(t) - 1 /\ Len(Tail(s)) = Len(s) - 1
          /\ \A i \in 1 .. Len(v) :
               v[i] = IF i <= Len(s) - 1 THEN Tail(s)[i] ELSE t[i - (Len(s) - 1)]
      BY <2>3, <3>1, HeadTailProperties, ConcatProperties
    <3>5. \A i \in 1 .. Len(s) - 1 : Tail(s)[i] = s[i + 1]
      BY <2>3, HeadTailProperties
    <3>6. \A i \in 1 .. Len(s) + Len(t) :
            (s \o t)[i] = IF i <= Len(s) THEN s[i] ELSE t[i - Len(s)]
      BY ConcatProperties
    <3> HIDE DEF u, v
    <3>7. ASSUME NEW i \in 1 .. Len(u)
          PROVE  u[i] = v[i]
      BY <3>1, <3>3, <3>4, <3>5, <3>6
    <3>8. u = v
      BY <3>3, <3>4, <3>7, SeqEqual
    <3> QED BY <3>1, <3>2, <3>8 DEF u, v
  <2> QED BY <2>1, <2>2, <2>3
<1>3. inthread_report_item => UNCHANGED Line
  BY <1>1, <1>2 DEF inthread_report_item, Line
<1>4. report_item_cb => Line # <<>> /\ Line[1] = Head(items) /\ Line' = Tail(Line)
  BY <1>1, <1>2 DEF report_item_cb, Line, thread
<1>5. \A t \in Seq(Items) :
        outbox = <<>> /\ outbox' = t /\ items' = items => Line' = Line \o t
  BY <1>1, <1>2 DEF Line
<1> QED BY <1>1, <1>2, <1>3, <1>4, <1>5 DEF Line

LEMMA NextL ==
  ASSUME SInv, LInv, [Next]_vars
  PROVE  LInv'
<1> SUFFICES ASSUME leisurely'
             PROVE  /\ WaitOK'
                    /\ LineOK(Line', page'.next_ksn)
                    /\ Ready' => ReadyOK(Line', page'.next_ksn, Due')
                    /\ PageSettled(Line', page')
  BY Zenon DEF LInv
<1>l. leisurely
  BY DEF Next, Worker, MainLoop, Swipe, Replace, Unplug, reset_window, load_device_properties,
         run_wait_swipe, inthread_report_item, operation_returns, dropped_wait_returns,
         wait_for_swipe_ready, wait_for_swipe_reschedule_cb, report_item_cb, Edit, vars
<1>i. /\ WaitOK
      /\ LineOK(Line, page.next_ksn)
      /\ Ready => ReadyOK(Line, page.next_ksn, Due)
      /\ PageSettled(Line, page)
  BY <1>l DEF LInv
<1>t. /\ PageOK(page) /\ buffer \in Seq(Data) /\ counter \in Data
      /\ Line \in Seq(Items) /\ items \in Seq(Items) /\ outbox \in Seq(Items)
  BY LineMoves, KsnsAreCounters DEF SInv
<1>1. CASE Swipe
  <2>1. /\ ops # <<>> /\ Head(ops) = "WAIT_SWIPE" /\ running = None
        /\ loaded /\ buffer = <<>>
        /\ buffer' = Append(buffer, counter) /\ loaded' = FALSE
        /\ UNCHANGED <<page, ops, outbox, running, items>>
    BY <1>1, <1>l DEF Swipe, Waiting, thread
  <2>2. UNCHANGED Line
    BY <2>1 DEF Line
  <2>3. buffer' = <<counter>>
    BY <2>1
  <2>4. WaitOK'
    BY <1>i, <2>1, <2>3 DEF WaitOK
  <2>5. Due = counter /\ Due' = counter
    BY <2>1, <2>3 DEF Due
  <2>6. Ready
    BY <2>1 DEF Ready
  <2> QED BY <1>i, <2>1, <2>2, <2>4, <2>5, <2>6
<1>2. CASE Replace \/ Unplug
  <2>1. /\ running' = None /\ buffer' = <<>> /\ outbox' = <<>> /\ UNCHANGED items
        /\ loaded' = FALSE
        /\ page' = reset(page)
        /\ \A i \in DOMAIN outbox : outbox[i].kind \notin SwipeKinds
    BY <1>2, <1>l DEF Replace, Unplug, reset_window, cleanup_processor, set_property
  <2>2. WaitOK' /\ ~Ready'
    BY <2>1 DEF WaitOK, Ready
  <2>3. page'.next_ksn = page.next_ksn /\ page'.encrypted = None /\ page'.decrypted = None
    BY <1>t, <2>1 DEF reset, PageOK, Pages
  <2>4. PageSettled(Line', page')
    BY <2>3 DEF PageSettled, Settled
  <2>5. Line' = items
    BY <1>t, <2>1 DEF Line
  <2>6. LineOK(items, page.next_ksn)
    <3>1. ASSUME NEW i \in 1 .. Len(items)
          PROVE  PlaceOK(items, page.next_ksn, i)
      <4>1. /\ Len(items) \in Nat /\ Len(Line) = Len(items) + Len(outbox) /\ Len(outbox) \in Nat
            /\ \A j \in 1 .. Len(items) : Line[j] = items[j]
            /\ Len(outbox) > 0 => Line[Len(items) + 1] = outbox[1] /\ 1 \in DOMAIN outbox
        BY <1>t DEF Line
      <4>2. PlaceOK(Line, page.next_ksn, i)
        BY <1>i, <4>1 DEF LineOK
      <4>3. Len(outbox) > 0 => Line[Len(items) + 1].kind # "SWIPE_FINISHED"
        BY <2>1, <4>1 DEF SwipeKinds
      <4>4. items[i].kind = "TRACK_ENCRYPTED_DATA" =>
              i < Len(items) /\ items[i + 1].kind = "SWIPE_FINISHED"
        <5>1. items[i].kind = "TRACK_ENCRYPTED_DATA" =>
                i < Len(Line) /\ Line[i + 1].kind = "SWIPE_FINISHED"
          BY <4>1, <4>2 DEF PlaceOK
        <5> QED BY <4>1, <4>3, <5>1
      <4>5. /\ i > 1 => items[i - 1] = Line[i - 1]
            /\ i > 2 => items[i - 2] = Line[i - 2]
            /\ i > 3 => items[i - 3] = Line[i - 3]
        BY <4>1
      <4> QED BY <4>1, <4>2, <4>4, <4>5 DEF PlaceOK
    <3> QED BY <3>1 DEF LineOK
  <2> QED BY <2>2, <2>3, <2>4, <2>5, <2>6
<1>3. CASE load_device_properties
  <2>1. PICK level \in Levels \cup {0} :
          outbox' = <<Item("DUKPT_KSN_AND_COUNTER", counter), Item("SECURITY_LEVEL", level)>>
    BY <1>3, <1>l DEF load_device_properties
  <2> DEFINE a == Item("DUKPT_KSN_AND_COUNTER", counter)
             b == Item("SECURITY_LEVEL", level)
  <2>2. a \in Items /\ b \in Items /\ a.kind = "DUKPT_KSN_AND_COUNTER" /\ b.kind = "SECURITY_LEVEL"
    BY <1>t, KsnsAreCounters DEF Item, Items
  <2>3. /\ running = None /\ Head(ops) = "LOAD_PROPERTIES" /\ running' = "ok"
        /\ UNCHANGED <<page, counter, ops, buffer, items>>
    BY <1>3 DEF load_device_properties, Begin
  <2>4. buffer = <<>> /\ outbox = <<>>
    BY <1>i, <2>3 DEF WaitOK
  <2>5. WaitOK'
    BY <2>3, <2>4, NoneIsNoResult DEF WaitOK
  <2>6. Due' = counter
    BY <2>3, <2>4 DEF Due
  <2>7. outbox' = <<a, b>>
    BY <2>1
  <2>8. a = Item("DUKPT_KSN_AND_COUNTER", counter)
    OBVIOUS
  <2> HIDE DEF a, b
  <2>9. <<a, b>> \in Seq(Items)
    BY <2>2
  <2>10. Line' = Line \o <<a, b>>
    BY <2>3, <2>4, <2>7, <2>9, LineMoves
  <2>11. LineOK(Line', page'.next_ksn) /\ ReadyOK(Line', page'.next_ksn, Due')
    BY <1>t, <1>i, <2>2, <2>3, <2>6, <2>8, <2>10, LineLoaded
  <2>12. PageSettled(Line', page')
    <3>1. /\ Line \o <<a, b>> # <<>>
          /\ Line = <<>> => (Line \o <<a, b>>)[1] = a
          /\ Line # <<>> => (Line \o <<a, b>>)[1] = Line[1]
      BY <1>t
    <3> QED BY <1>i, <2>2, <2>3, <2>10, <3>1 DEF PageSettled
  <2> QED BY <2>5, <2>11, <2>12
<1>4. CASE run_wait_swipe
  <2>1. /\ running = None /\ ops # <<>> /\ Head(ops) = "WAIT_SWIPE"
        /\ UNCHANGED <<page, counter, loaded, ops, items>>
    BY <1>4 DEF run_wait_swipe, Begin
  <2>2. outbox = <<>>
    BY <1>i, <2>1 DEF WaitOK
  <2>3. CASE swipe_timed_out
    <3>1. running' = "timeout" /\ buffer = <<>> /\ UNCHANGED <<buffer, outbox>>
      BY <2>3 DEF swipe_timed_out
    <3>2. WaitOK'
      BY <3>1, NoneIsNoResult DEF WaitOK
    <3>3. UNCHANGED <<Line, Due>> /\ (Ready' <=> Ready)
      BY <2>1, <3>1 DEF Line, Due, Ready
    <3> QED BY <1>i, <2>1, <3>2, <3>3
  <2>4. CASE swipe_failed
    <3>1. running' = "failed" /\ buffer' = <<>> /\ UNCHANGED outbox
      BY <2>4, <1>l DEF swipe_failed
    <3>2. WaitOK'
      BY <3>1, NoneIsNoResult DEF WaitOK
    <3>3. UNCHANGED Line
      BY <2>1, <3>1 DEF Line
    <3>4. Ready' => Ready /\ UNCHANGED Due
      BY <1>i, <2>1, <3>1 DEF WaitOK, Ready, Due
    <3> QED BY <1>i, <2>1, <3>2, <3>3, <3>4
  <2>5. CASE swipe_read
    <3> DEFINE a == Item("SWIPE_STARTED", None)
               b == Item("TRACK_ENCRYPTED_DATA", Head(buffer))
               c == Item("SWIPE_FINISHED", None)
    <3>1. buffer # <<>> /\ running' = "ok" /\ buffer' = Tail(buffer) /\ outbox' = <<a, b, c>>
      BY <2>5 DEF swipe_read
    <3>2. Head(buffer) \in Data /\ Tail(buffer) = <<>>
      <4>1. Len(buffer) = 1
        BY <1>i, <3>1 DEF WaitOK
      <4>2. buffer # <<>> /\ Head(buffer) \in Data /\ Tail(buffer) \in Seq(Data)
            /\ Len(Tail(buffer)) = 0
        BY <1>t, <3>1, <4>1, HeadTailProperties
      <4>3. Tail(buffer) = <<>>
        BY <4>2, EmptySeq
      <4> QED BY <4>2, <4>3
    <3>3. /\ a \in Items /\ b \in Items /\ c \in Items
          /\ a.kind = "SWIPE_STARTED" /\ b.kind = "TRACK_ENCRYPTED_DATA"
          /\ c.kind = "SWIPE_FINISHED" /\ b.value = Head(buffer)
      BY <3>2 DEF Item, Items
    <3> HIDE DEF a, b, c
    <3>4. <<a, b, c>> \in Seq(Items)
      BY <3>3
    <3>5. Line' = Line \o <<a, b, c>>
      BY <2>1, <2>2, <3>1, <3>4, LineMoves
    <3>6. Ready /\ Due = Head(buffer)
      BY <3>1 DEF Ready, Due
    <3>7. LineOK(Line', page'.next_ksn)
      BY <1>t, <1>i, <2>1, <3>3, <3>5, <3>6, LineSwiped
    <3>8. WaitOK' /\ ~Ready'
      BY <1>i, <2>1, <3>1, <3>2, NoneIsNoResult DEF WaitOK, Ready
    <3>9. PageSettled(Line', page')
      <4>1. /\ Line \o <<a, b, c>> # <<>>
            /\ Line = <<>> => (Line \o <<a, b, c>>)[1] = a
            /\ Line # <<>> => (Line \o <<a, b, c>>)[1] = Line[1]
        BY <1>t
      <4> QED BY <1>i, <2>1, <3>3, <3>5, <4>1 DEF PageSettled
    <3> QED BY <3>7, <3>8, <3>9
  <2> QED BY <1>4, <2>3, <2>4, <2>5 DEF run_wait_swipe
<1>5. CASE inthread_report_item
  <2>1. outbox # <<>> /\ UNCHANGED <<page, counter, loaded, buffer, ops, running>>
    BY <1>5 DEF inthread_report_item, device
  <2>2. UNCHANGED <<Line, Due>> /\ (Ready' <=> Ready)
    BY <1>5, <2>1, LineMoves DEF Due, Ready
  <2>3. WaitOK'
    BY <1>i, <2>1 DEF WaitOK
  <2> QED BY <1>i, <2>1, <2>2, <2>3
<1>6. CASE operation_returns
  <2>1. /\ running # None /\ outbox = <<>>
        /\ UNCHANGED <<page, counter, loaded, buffer, outbox, items>>
    BY <1>6 DEF operation_returns, device
  <2>2. UNCHANGED <<Line, Due>> /\ (Ready' <=> Ready)
    BY <2>1 DEF Line, Due, Ready
  <2>3. WaitOK'
    BY <1>i, <2>1 DEF WaitOK
  <2> QED BY <1>i, <2>1, <2>2, <2>3
<1>7. CASE wait_for_swipe_ready \/ wait_for_swipe_reschedule_cb
  <2>1. /\ ops' = ops \/ wait_for_swipe(TRUE) \/ wait_for_swipe(FALSE)
        /\ UNCHANGED <<page, counter, loaded, buffer, outbox, running, items>>
    BY <1>7 DEF wait_for_swipe_ready, wait_for_swipe_reschedule_cb, device
  <2>2. UNCHANGED <<Line, Due>> /\ (Ready' <=> Ready)
    BY <2>1 DEF Line, Due, Ready
  <2>3. ops # <<>> => ops' # <<>> /\ Head(ops') = Head(ops)
    BY <2>1, HeadKept DEF SInv
  <2>4. WaitOK'
    BY <1>i, <2>1, <2>3 DEF WaitOK
  <2> QED BY <1>i, <2>1, <2>2, <2>4
<1>8. CASE report_item_cb
  <2>1. /\ page' = report_item(page, Head(items)) /\ items # <<>>
        /\ UNCHANGED <<counter, loaded, buffer, ops, outbox, running>>
    BY <1>8 DEF report_item_cb, device, thread
  <2> DEFINE item == Line[1]
  <2>2. /\ Line # <<>> /\ Line' = Tail(Line) /\ page' = report_item(page, item)
        /\ item \in Items /\ 1 \in 1 .. Len(Line)
        /\ Tail(Line) # <<>> => Len(Line) > 1 /\ Tail(Line)[1] = Line[2]
    BY <1>8, <1>t, <2>1, LineMoves
  <2>3. WaitOK' /\ UNCHANGED Due /\ (Ready' <=> Ready)
    BY <1>i, <2>1 DEF WaitOK, Due, Ready
  <2> HIDE DEF item
  <2>4. /\ item.kind = "DUKPT_KSN_AND_COUNTER" => page'.next_ksn = item.value
        /\ item.kind \notin {"DUKPT_KSN_AND_COUNTER", "SWIPE_FINISHED"} =>
             page'.next_ksn = page.next_ksn
    BY <1>t, <2>2, ItemShows DEF Items
  <2>5. LineOK(Line', page'.next_ksn) /\ (Ready' => ReadyOK(Line', page'.next_ksn, Due'))
    BY <1>t, <1>i, <2>2, <2>3, <2>4, LinePopped DEF item
  <2>6. PlaceOK(Line, page.next_ksn, 1)
    BY <1>i, <2>2 DEF LineOK
  <2>7. Line' # <<>> /\ Line'[1].kind = "SWIPE_FINISHED" => item.kind = "TRACK_ENCRYPTED_DATA"
    <3>1. Len(Line) > 1 => PlaceOK(Line, page.next_ksn, 2)
      BY <1>i, <1>t DEF LineOK
    <3> QED BY <2>2, <3>1 DEF PlaceOK, item
  <2>8. PageSettled(Line', page')
    <3>1. CASE item.kind \in {"SECURITY_LEVEL", "DUKPT_KSN_AND_COUNTER"}
      BY <1>t, <1>i, <2>2, <2>7, <3>1, ItemShows DEF PageSettled, Settled, item
    <3>2. CASE item.kind = "SWIPE_STARTED"
      BY <1>t, <1>i, <2>2, <2>7, <3>2, ItemShows DEF PageSettled, Settled, item
    <3>3. CASE item.kind = "TRACK_ENCRYPTED_DATA"
      <4>1. /\ Len(Line) > 1 /\ Line[2].kind = "SWIPE_FINISHED"
            /\ page.next_ksn = item.value
        BY <2>6, <3>3 DEF PlaceOK, item
      <4>3. Tail(Line) # <<>> /\ Tail(Line)[1] = Line[2]
        <5>1. Len(Tail(Line)) = Len(Line) - 1 /\ Tail(Line) \in Seq(Items) /\ Len(Line) \in Nat
          BY <1>t, <2>2, HeadTailProperties
        <5>2. 1 \in 1 .. Len(Tail(Line))
          BY <4>1, <5>1
        <5>3. Tail(Line)[1] = Line[1 + 1]
          BY <1>t, <2>2, <5>2, HeadTailProperties
        <5>4. Tail(Line) # <<>>
          <6>1. Len(Tail(Line)) # 0
            BY <5>1, <5>2
          <6>2. Len(<<>>) = 0
            OBVIOUS
          <6> QED BY <6>1, <6>2, Zenon
        <5>5. 1 + 1 = 2
          OBVIOUS
        <5> QED BY <5>3, <5>4, <5>5, Zenon
      <4>2. page'.encrypted = item.value /\ page'.next_ksn = page.next_ksn
        BY <1>t, <2>2, <3>3, ItemShows
      <4> QED BY <2>2, <4>1, <4>2, <4>3 DEF PageSettled
    <3>4. CASE item.kind = "SWIPE_FINISHED"
      <4>1. page.encrypted # None => page.next_ksn = page.encrypted
        BY <1>i, <2>2, <3>4 DEF PageSettled, item
      <4>2. Settled(page')
        BY <1>t, <2>2, <3>4, <4>1, ItemShows
      <4> QED BY <2>7, <3>4, <4>2 DEF PageSettled
    <3> QED BY <2>2, <3>1, <3>2, <3>3, <3>4 DEF Items
  <2> QED BY <2>3, <2>5, <2>8
<1>9. CASE Edit
  <2>1. UNCHANGED <<counter, loaded, buffer, ops, outbox, running, items>>
    BY <1>9 DEF Edit, device, thread
  <2>2. UNCHANGED <<Line, Due>> /\ (Ready' <=> Ready)
    BY <2>1 DEF Line, Due, Ready
  <2>3. WaitOK'
    BY <1>i, <2>1 DEF WaitOK
  <2>4. /\ page'.encrypted = page.encrypted /\ page'.ksn = page.ksn
        /\ page'.next_ksn = page.next_ksn
        /\ \/ page'.decrypted = page.decrypted \/ page'.decrypted = None
           \/ page'.decrypted.data = page.encrypted
    BY <1>9, <1>t, EditShows
  <2>5. PageSettled(Line', page')
    BY <1>i, <2>2, <2>4 DEF PageSettled, Settled
  <2> QED BY <1>i, <2>2, <2>3, <2>4, <2>5
<1>10. CASE dropped_wait_returns \/ UNCHANGED vars
  <2>1. UNCHANGED <<page, counter, loaded, buffer, ops, outbox, running, items>>
    BY <1>10 DEF dropped_wait_returns, vars, device, thread
  <2> QED BY <1>i, <2>1 DEF Line, Due, Ready, WaitOK
<1> QED
  BY <1>1, <1>2, <1>3, <1>4, <1>5, <1>6, <1>7, <1>8, <1>9, <1>10 DEF Next, Worker, MainLoop

\* A leisurely session keeps every swipe's data and KSN together on their way
\* to the page, however many waits and loads of other chains are queued.
THEOREM LeisurelyInvariance == Spec => []LInv
BY InitL, NextL, SessionInvariance, PTL DEF Spec

\* As long as a card is swiped only after the reader was asked for its KSN,
\* data shown as decrypted was decrypted with the KSN of its swipe, however
\* many chains of waits the resets of the window have left, however late the
\* items reach the page and whatever the user changes meanwhile.
THEOREM LeisurelyDecryption == Spec => []DecryptedIfLeisurely
<1>1. SInv /\ LInv => DecryptedIfLeisurely
  <2> SUFFICES ASSUME SInv, LInv, leisurely, ~Reporting,
                      page.decrypted # None, page.decrypted.key # None
               PROVE  page.decrypted.key.ksn = page.decrypted.data
    BY Zenon DEF DecryptedIfLeisurely, DecryptedWithItsKsn
  <2>1. PageSettled(Line, page) /\ PageOK(page) /\ Line \in Seq(Items)
    BY LineMoves DEF LInv, SInv
  <2>2. Line # <<>> => 1 \in 1 .. Len(Line)
    BY <2>1
  <2>3. Line # <<>> => Line[1].kind \notin SwipeKinds
    BY <2>2, Zenon DEF Reporting, Line
  <2>4. Settled(page)
    BY <2>1, <2>3 DEF PageSettled, SwipeKinds
  <2>5. /\ page.decrypted.key = page.decryption_key
        /\ page.decryption_key = Key(Ipek(page.bdk, page.ksn), page.ksn, page.key_type)
        /\ page.encrypted # None
    BY <2>1 DEF PageOK, ShownOf, KeysOf
  <2> QED BY <2>4, <2>5 DEF Settled, Key
<1> QED BY <1>1, SessionInvariance, LeisurelyInvariance, PTL
=============================================================================
