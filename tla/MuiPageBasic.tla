---------------------------- MODULE MuiPageBasic ----------------------------
(***************************************************************************)
(* The basic page of mccr-gtk: it decrypts the tracks of the last swipe    *)
(* with a DUKPT key computed from the BDK the user enters and the KSN the  *)
(* reader reported before the swipe.  Keys are kept until one of their     *)
(* inputs changes.                                                         *)
(*                                                                         *)
(* The state of the page is a record, and its handlers are functions from  *)
(* page to page.  The three tracks are handled alike: one is kept.  A      *)
(* label showing "n/a", a key or a KSN whose _set flag is off are None.    *)
(* A key is the record of what it was computed from.                       *)
(***************************************************************************)
EXTENDS Naturals

CONSTANTS
  Bdks,      \* valid base derivation keys
  Ksns,      \* key serial numbers, counter included
  KeyTypes,  \* variants of the decryption key
  Data,      \* encrypted data of a track
  Levels,    \* security levels the reader reports; 0 stands for "n/a"
  None

ASSUME NoneIsNoValue == None \notin Bdks \cup Ksns \cup Data
ASSUME LevelsAreNumbers == Levels \subseteq Nat

VARIABLE page

Ipek(bdk, ksn) == [bdk |-> bdk, ksn |-> ksn]
Key(ipek, ksn, type) == [ipek |-> ipek, ksn |-> ksn, type |-> type]

\* What the label of the track may show: data as it came, or decrypted.
Plain(data) == [data |-> data, key |-> None]
Decrypted(data, key) == [data |-> data, key |-> key]

\* The BDK and the key type are the ones of the interface file.
initial_page(bdk, type) ==
  [security_level     |-> 0,
   footer             |-> FALSE,   \* the decryption options are visible
   bdk                |-> bdk,
   ksn                |-> None,
   next_ksn           |-> None,
   ipek               |-> None,
   key_type           |-> type,
   decryption_key     |-> None,
   decryption_switch  |-> TRUE,
   encrypted          |-> None,    \* label of the encrypted data
   decrypted          |-> None]    \* labels of the decrypted data

-----------------------------------------------------------------------------
(* Decryption. *)

\* The IPEK is computed once for a BDK and KSN, then the key.
reload_decryption_key(p) ==
  IF p.decryption_key # None \/ p.ksn = None \/ p.bdk = None
    THEN p
    ELSE LET ipek == IF p.ipek = None THEN Ipek(p.bdk, p.ksn) ELSE p.ipek
         IN  [p EXCEPT !.ipek = ipek,
                       !.decryption_key = Key(ipek, p.ksn, p.key_type)]

reset_all_track_decryption(p) == [p EXCEPT !.decrypted = None]

\* Levels below 2 and missing data or keys leave the label as it is.
reload_track_decryption(p) ==
  IF p.security_level < 2 \/ p.encrypted = None
    THEN p
  ELSE IF p.security_level = 2 \/ ~p.decryption_switch
    THEN [p EXCEPT !.decrypted = Plain(p.encrypted)]
  ELSE IF p.decryption_key = None
    THEN p
    ELSE [p EXCEPT !.decrypted = Decrypted(p.encrypted, p.decryption_key)]

reload_decryption(p) == reload_track_decryption(reload_decryption_key(p))

-----------------------------------------------------------------------------
(* The user's input.  The options are hidden from a reader that does not    *)
(* encrypt, and all but the switch are insensitive while it is off.        *)

CanSwitch(p) == p.footer
CanEdit(p) == p.footer /\ p.decryption_switch

\* Slip: the IPEK of the previous BDK is kept.
bdk_keeps_ipek(p, bdk) ==
  reload_decryption(
    reset_all_track_decryption([p EXCEPT !.bdk = bdk, !.decryption_key = None]))

\* A text that is no valid BDK leaves it unset.
bdk_entry_activated(p, bdk) ==
  reload_decryption(
    reset_all_track_decryption(
      [p EXCEPT !.bdk = bdk, !.ipek = None, !.decryption_key = None]))

key_type_updated(p, type) ==
  reload_decryption([p EXCEPT !.key_type = type, !.decryption_key = None])

decryption_switched(p) ==
  reload_decryption([p EXCEPT !.decryption_switch = ~@])

-----------------------------------------------------------------------------
(* The items reported by the processor. *)

\* Slip: the options are hidden for level 2 only.
security_level_hides_two(p, level) ==
  [p EXCEPT !.security_level = level, !.footer = level # 2]

security_level_updated(p, level) ==
  [p EXCEPT !.security_level = level, !.footer = level > 2]

\* Slip: the KSN of the next swipe replaces that of the one shown.
ksn_updated_at_once(p, ksn) ==
  [p EXCEPT !.ksn = ksn, !.ipek = None, !.decryption_key = None]

\* "The new KSN will be always stored in the next KSN field."
dukpt_ksn_and_counter_updated(p, ksn) == [p EXCEPT !.next_ksn = ksn]

\* "Only when a swipe happens we move the next KSN to the KSN field."
dukpt_ksn_and_counter_assigned_to_swipe(p) ==
  IF p.next_ksn = None
    THEN p
    ELSE reload_decryption_key(
           reset_all_track_decryption(
             [p EXCEPT !.ksn = p.next_ksn, !.next_ksn = None,
                       !.ipek = None, !.decryption_key = None]))

report_item(p, item) ==
  CASE item.kind = "SECURITY_LEVEL" -> security_level_updated(p, item.value)
    [] item.kind = "DUKPT_KSN_AND_COUNTER" ->
         dukpt_ksn_and_counter_updated(p, item.value)
    [] item.kind = "SWIPE_STARTED" -> reset_all_track_decryption(p)
    [] item.kind = "TRACK_ENCRYPTED_DATA" -> [p EXCEPT !.encrypted = item.value]
    [] item.kind = "SWIPE_FINISHED" ->
         reload_decryption(dukpt_ksn_and_counter_assigned_to_swipe(p))

\* The window is reset: the labels go, what was computed stays.
reset(p) == [p EXCEPT !.encrypted = None, !.decrypted = None]

-----------------------------------------------------------------------------
Ipeks == [bdk : Bdks, ksn : Ksns]
Keys  == [ipek : Ipeks, ksn : Ksns, type : KeyTypes]
Shown == [data : Data, key : Keys \cup {None}]

Pages ==
  [security_level    : Levels \cup {0},
   footer            : BOOLEAN,
   bdk               : Bdks \cup {None},
   ksn               : Ksns \cup {None},
   next_ksn          : Ksns \cup {None},
   ipek              : Ipeks \cup {None},
   key_type          : KeyTypes,
   decryption_key    : Keys \cup {None},
   decryption_switch : BOOLEAN,
   encrypted         : Data \cup {None},
   decrypted         : Shown \cup {None}]

ASSUME NoneIsNoKey == None \notin Ipeks \cup Keys \cup Shown

\* The keys kept are the ones of the current BDK, KSN and key type: every
\* handler that changes an input drops what was computed from it.
KeysCurrent ==
  /\ page.ipek # None => page.ipek = Ipek(page.bdk, page.ksn)
  /\ page.decryption_key # None =>
       page.decryption_key = Key(Ipek(page.bdk, page.ksn), page.ksn, page.key_type)

\* Decrypted data shown comes from the key the page has now, also while the
\* security level forbids to decrypt: then the options that change the key
\* are out of reach, and only a new swipe changes what is shown.
ShownWithCurrentKey ==
  page.decrypted # None /\ page.decrypted.key # None
    => page.decrypted.key = page.decryption_key
=============================================================================
