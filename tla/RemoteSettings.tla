--------------------------- MODULE RemoteSettings ---------------------------
(***************************************************************************)
(* The account of the remote service as remote services pages show it in   *)
(* their entries and keep it in a settings file.  Every window of mccr-gtk *)
(* has a page with a copy of the file of its own; an edit is stored by a   *)
(* timer that edits restart.  Windows come and go, the program ends, and   *)
(* the file system fails now and then.                                     *)
(*                                                                         *)
(* The file holds a text for each field or nothing, as one written by hand *)
(* may; a save replaces it as a whole or not at all.                       *)
(***************************************************************************)
CONSTANTS
  Pages,    \* pages there may be at a time
  Fields,   \* of an account: the URL, who uses it, ...
  Texts,
  Blank,    \* the text of an entry nobody has set
  Default,  \* settings_fields[].default_value
  Missing,  \* a field the file has no text for
  NoFile,
  Files     \* bound: files there may be to begin with

ASSUME TextsTyped == Blank \in Texts /\ Default \in [Fields -> Texts]
ASSUME MissingIsNoText == Missing \notin Texts
ASSUME NoFileIsNoFile == NoFile \notin [Fields -> Texts \cup {Missing}]
ASSUME FilesTyped == Files \subseteq [Fields -> Texts \cup {Missing}] \cup {NoFile}

VARIABLES
  file,              \* mccr-gtk.conf
  open,              \* pages there are
  entries,           \* the text each entry of a page shows
  settings,          \* the key file of a page
  settings_store_id, \* the timer of a page runs
  failed,            \* a save failed (history)
  reasons            \* fields a page has a reason to change in the file:
                     \* edited in it since it loaded or saved, saved by
                     \* another page since, or all when it could not load
                     \* the file (history)

account == <<file, open, entries, settings, settings_store_id, failed, reasons>>

NoTexts == [f \in Fields |-> Blank]
NoKeys  == [f \in Fields |-> Missing]

RInit ==
  /\ file \in Files
  /\ open = {}
  /\ entries = [p \in Pages |-> NoTexts]
  /\ settings = [p \in Pages |-> NoKeys]
  /\ settings_store_id = [p \in Pages |-> FALSE]
  /\ failed = FALSE
  /\ reasons = [p \in Pages |-> {}]

-----------------------------------------------------------------------------
(* Saving. *)

\* Other pages find the field changed behind their backs.
Changed(f) == file = NoFile \/ file[f] # file'[f]

g_key_file_save_to_file(p, keys) ==
  \/ /\ file' = keys
     /\ reasons' = [q \in Pages |->
                      IF q = p THEN {}
                      ELSE reasons[q] \cup {f \in Fields : q \in open /\ Changed(f)}]
     /\ UNCHANGED failed
  \/ /\ failed' = TRUE
     /\ UNCHANGED <<file, reasons>>

\* Slip: a field the key file lacks counts as a blank one.
store_missing_as_blank(p) ==
  LET stored == [f \in Fields |->
        IF entries[p][f] = Blank /\ settings[p][f] = Missing THEN Missing ELSE entries[p][f]]
  IN /\ settings' = [settings EXCEPT ![p] = stored]
     /\ IF stored = settings[p] THEN UNCHANGED <<file, failed, reasons>>
        ELSE g_key_file_save_to_file(p, stored)

\* The fields that differ from the key file are set in it; without one there
\* is nothing to save.  A save that fails is not tried again.
store_settings(p) ==
  LET stored == [f \in Fields |->
        IF settings[p][f] # entries[p][f] THEN entries[p][f] ELSE settings[p][f]]
  IN /\ settings' = [settings EXCEPT ![p] = stored]
     /\ IF stored = settings[p] THEN UNCHANGED <<file, failed, reasons>>
        ELSE g_key_file_save_to_file(p, stored)

\* The timer goes off.
settings_store_cb(p) ==
  /\ settings_store_id[p]
  /\ settings_store_id' = [settings_store_id EXCEPT ![p] = FALSE]
  /\ store_settings(p)
  /\ UNCHANGED <<open, entries>>

\* Slip: a second edit only stops the timer of the first.
edit_stops_timer(p) == settings_store_id' = [settings_store_id EXCEPT ![p] = ~@]

\* notify::text of an entry: the timer starts again.
settings_entry_activated(p) == settings_store_id' = [settings_store_id EXCEPT ![p] = TRUE]

\* The user writes in an entry, during operations too.
Edit(p, f, text) ==
  /\ p \in open
  /\ entries[p][f] # text
  /\ entries' = [entries EXCEPT ![p][f] = text]
  /\ settings_entry_activated(p)
  /\ reasons' = [reasons EXCEPT ![p] = @ \cup {f}]
  /\ UNCHANGED <<file, open, settings, failed>>

-----------------------------------------------------------------------------
(* Loading. *)

\* Slip: a field that is missing resets all fields to their defaults.
defaults_for_all(keys) ==
  IF \E f \in Fields : keys[f] = Missing THEN Default ELSE keys

\* A field that is missing gets its default.
with_defaults(keys) == [f \in Fields |-> IF keys[f] = Missing THEN Default[f] ELSE keys[f]]

\* A file that cannot be read leaves the entries blank and in the key file
\* what had been read of it.
load_fails(p) ==
  /\ \E read \in IF file = NoFile THEN {{}} ELSE SUBSET Fields :
       settings' = [settings EXCEPT ![p] = [f \in Fields |-> IF f \in read THEN file[f]
                                                            ELSE Missing]]
  /\ reasons' = [reasons EXCEPT ![p] = Fields]
  /\ UNCHANGED <<file, entries, failed>>

\* A file that is not there is the same as one without fields; what is missing
\* is saved at once.
load_succeeds(p) ==
  LET found == IF file = NoFile THEN NoKeys ELSE file
      keys == with_defaults(found)
  IN /\ settings' = [settings EXCEPT ![p] = keys]
     /\ entries' = [entries EXCEPT ![p] = keys]
     /\ IF keys = found THEN UNCHANGED <<file, failed, reasons>>
        ELSE g_key_file_save_to_file(p, keys)

\* A window opens with a page, which loads its settings before its entries
\* are listened to.
load_settings(p) ==
  /\ p \notin open
  /\ open' = open \cup {p}
  /\ load_fails(p) \/ load_succeeds(p)
  /\ UNCHANGED settings_store_id

-----------------------------------------------------------------------------
(* Pages go. *)

Gone(pages) ==
  /\ open' = open \ pages
  /\ entries' = [p \in Pages |-> IF p \in pages THEN NoTexts ELSE entries[p]]
  /\ settings' = [p \in Pages |-> IF p \in pages THEN NoKeys ELSE settings[p]]
  /\ settings_store_id' = [p \in Pages |-> p \notin pages /\ settings_store_id[p]]
  /\ reasons' = [p \in Pages |-> IF p \in pages THEN {} ELSE reasons[p]]
  /\ UNCHANGED <<file, failed>>

\* The window is closed: the timer is removed, and its edits with it.
dispose(p) == p \in open /\ Gone({p})

\* The user quits, or the program ends otherwise: no page is disposed of.
quit == open # {} /\ Gone(open)

-----------------------------------------------------------------------------
(* Properties. *)

SettingsTypeOK ==
  /\ file \in [Fields -> Texts \cup {Missing}] \cup {NoFile}
  /\ open \subseteq Pages
  /\ entries \in [Pages -> [Fields -> Texts]]
  /\ settings \in [Pages -> [Fields -> Texts \cup {Missing}]]
  /\ settings_store_id \in [Pages -> BOOLEAN]
  /\ failed \in BOOLEAN
  /\ reasons \in [Pages -> SUBSET Fields]

\* Whatever becomes the file is what some window shows in all of its entries,
\* with no field left from the file, from another window or out
\* (store_settings and load_settings set only some fields of the key file).
SavedAsShown ==
  [][file' # file => \E p \in open' : file' = entries'[p]]_account

\* A text in the file changes only when the page that stores it was edited in
\* that field, could not read the file, or read it before another page changed
\* it (load_settings, store_settings).
StoredTextsStay ==
  [][\A f \in Fields :
       file # NoFile /\ file' # file /\ file[f] # Missing /\ file'[f] # file[f]
         => \E p \in open : file' = entries[p] /\ f \in reasons[p]]_account

\* An edit in a page that has the file as it is, and no other beside it, gets
\* into the file, unless it is edited again, the window goes or a save fails
\* (settings_entry_activated, settings_store_cb).
EditIsStored ==
  \A p \in Pages, f \in Fields, text \in Texts :
    open = {p} /\ settings[p] = file /\ settings_store_id[p] /\ entries[p][f] = text
      ~> \/ file # NoFile /\ file[f] = text
         \/ open # {p} \/ entries[p][f] # text \/ failed
=============================================================================
