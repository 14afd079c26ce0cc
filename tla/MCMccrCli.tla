------------------------------ MODULE MCMccrCli ------------------------------
(* MccrCli with one command of mccr-gtk, that fits into the report or does not. *)
EXTENDS MccrCli

MCData ==
  {"SOFTWARE_ID", "USB_SERIAL_NUMBER", "POLLING_INTERVAL", "DEVICE_SERIAL_NUMBER",
   "MAGNESAFE_VERSION_NUMBER", "TRACK_ID_ENABLE", "ISO_TRACK_MASK", "AAMVA_TRACK_MASK",
   "MAX_PACKET_SIZE", "h64", "ffffffffffffffff", "blob", "long blob"}

MCLong == {"long blob"}

MCGuiCalls ==
  {mccr_device_run_generic("blob"), mccr_device_run_generic("long blob")}

MCCalls ==
  MCGuiCalls \cup {run_show[i] : i \in DOMAIN run_show} \cup {mccr_device_reset}
    \cup {mccr_device_set_session_id(id) : id \in {"h64", "ffffffffffffffff"}}
=============================================================================
