---------------------------- MODULE SwipeReport ----------------------------
(***************************************************************************)
(* Swipe reports of libmccr.  With the layout parsed from the descriptor   *)
(* of the reader, mccr_device_wait_swipe_report() puts together an input   *)
(* report from what single reads return, and the getters of the swipe      *)
(* report pick the fields out of it.                                       *)
(*                                                                         *)
(* The reader sends the bytes of a report one after another and may be     *)
(* slow, or be unplugged, anywhere between two of them; the transport      *)
(* hands them over in order, some at a time.  A byte is named by its swipe *)
(* and its place in the report.                                            *)
(***************************************************************************)
EXTENDS HidDescriptor

CONSTANT MaxSwipes \* bound: swipes

ASSUME SwipesNat == MaxSwipes \in Nat

VARIABLES
  swipes,  \* cards swiped (environment)
  unsent,  \* bytes the reader has still to send (environment)
  wire,    \* bytes sent and not read (hidapi)
  gone,    \* the reader was unplugged (environment)
  late,    \* the reader was late with the rest of a report (environment)
  data,    \* report->report_data, up to total_read
  status,  \* of the receive: "none", "reading", or the mccr_status_t it returned
  timeout  \* timeout_ms >= 0

reader == <<swipes, unsent, wire, gone, late>>
vars == <<descriptor, reader, data, status, timeout>>

SInit ==
  /\ Init
  /\ swipes = 0 /\ unsent = <<>> /\ wire = <<>> /\ gone = FALSE /\ late = FALSE
  /\ data = <<>> /\ status = "none" /\ timeout = TRUE

Open == phase = "parsed"

\* The descriptor is of the usual kind, and its size fits a word.
Regular == hid.canonical /\ Length(hid.INPUT) < Word

-----------------------------------------------------------------------------
(* The reader *)

\* A report as long as the descriptor says.
Swipe ==
  /\ Open /\ Regular
  /\ ~gone /\ unsent = <<>> /\ swipes < MaxSwipes
  /\ swipes' = swipes + 1
  /\ unsent' = [k \in 1 .. (Length(hid.INPUT) \div 8) |-> <<swipes', k>>]
  /\ UNCHANGED <<descriptor, wire, gone, late, data, status, timeout>>

Send ==
  /\ ~gone /\ unsent # <<>>
  /\ wire' = Append(wire, Head(unsent))
  /\ unsent' = Tail(unsent)
  /\ UNCHANGED <<descriptor, swipes, gone, late, data, status, timeout>>

Unplug ==
  /\ Open /\ ~gone
  /\ gone' = TRUE
  /\ unsent' = <<>>
  /\ UNCHANGED <<descriptor, swipes, wire, late, data, status, timeout>>

-----------------------------------------------------------------------------
(* mccr_device_wait_swipe_report() and mccr_input_report_receive() *)

\* The report is allocated anew for each call.
mccr_device_wait_swipe_report ==
  /\ Open /\ status # "reading"
  /\ status' = "reading"
  /\ data' = <<>>
  /\ timeout' \in BOOLEAN
  /\ UNCHANGED <<descriptor, reader>>

Missing == input.size - Len(data)

\* Slip: the bytes are read to the start of the report.
read_some_at_start ==
  /\ status = "reading"
  /\ \E n \in 1 .. Len(wire) :
       /\ n <= Missing
       /\ data' = SubSeq(wire, 1, n) \o data
       /\ wire' = SubSeq(wire, n + 1, Len(wire))
  /\ status' = IF Len(data') = input.size THEN "OK" ELSE "reading"
  /\ UNCHANGED <<descriptor, swipes, unsent, gone, late, timeout>>

\* hid_read_timeout() returns some bytes.
read_some ==
  /\ status = "reading"
  /\ \E n \in 1 .. Len(wire) :
       /\ n <= Missing
       /\ data' = data \o SubSeq(wire, 1, n)
       /\ wire' = SubSeq(wire, n + 1, Len(wire))
  /\ status' = IF Len(data') = input.size THEN "OK" ELSE "reading"
  /\ UNCHANGED <<descriptor, swipes, unsent, gone, late, timeout>>

\* Slip: nothing read in time is no reason to stop reading.
read_nothing_goes_on ==
  /\ status = "reading"
  /\ wire = <<>> /\ timeout /\ data = <<>>
  /\ status' = "TIMED_OUT"
  /\ UNCHANGED <<descriptor, reader, data, timeout>>

\* It returns none in time.  The first byte may be waited for without end,
\* those after it for DEFAULT_IN_PROGRESS_TIMEOUT_MS.
read_nothing ==
  /\ status = "reading"
  /\ Missing = 0 \/ (wire = <<>> /\ ~gone /\ (timeout \/ data # <<>>))
  /\ status' = CASE timeout /\ data = <<>> -> "TIMED_OUT"
                 [] ~(timeout /\ data = <<>>) /\ Missing # 0 -> "UNEXPECTED_FORMAT"
                 [] OTHER -> "OK"
  /\ late' = (late \/ unsent # <<>>)
  /\ UNCHANGED <<descriptor, swipes, unsent, wire, gone, data, timeout>>

\* It returns -1.
read_fails ==
  /\ status = "reading"
  /\ gone /\ wire = <<>> /\ Missing # 0
  /\ status' = "REPORT_FAILED"
  /\ UNCHANGED <<descriptor, reader, data, timeout>>

mccr_input_report_receive == read_some \/ read_nothing \/ read_fails

-----------------------------------------------------------------------------
(* The getters: the status, and the bytes of the usage. *)

lookup_usage_array(usages, id) ==
  {i \in DOMAIN usages : usages[i].id = id /\ \A j \in 1 .. (i - 1) : usages[j].id # id}

Place(usage) == [offset |-> usage.offset \div 8, size |-> usage.size \div 8]

\* Where the usage is, or nothing when an error is returned.
swipe_report_get_usage(id, expected_size) ==
  {Place(input.usages[i]) : i \in
    {j \in lookup_usage_array(input.usages, id) :
       /\ input.usages[j].offset % 8 = 0 /\ input.usages[j].size % 8 = 0
       /\ expected_size \in {0, Place(input.usages[j]).size}
       /\ Place(input.usages[j]).offset + Place(input.usages[j]).size <= input.size}}

Bytes(place) == SubSeq(data, place.offset + 1, place.offset + place.size)

\* Lengths and statuses are one byte; data is taken as long as it is.
TRACK_API(id, is_data) ==
  {Bytes(place) : place \in swipe_report_get_usage(id, IF is_data THEN 0 ELSE 1)}

-----------------------------------------------------------------------------
Next ==
  \/ Parse /\ UNCHANGED <<reader, data, status, timeout>>
  \/ Swipe \/ Send \/ Unplug
  \/ mccr_device_wait_swipe_report
  \/ mccr_input_report_receive

\* Reads return; nothing obliges the reader to send.
Spec == SInit /\ [][Next]_vars /\ WF_vars(mccr_input_report_receive)

-----------------------------------------------------------------------------
\* The variables keep their types, and no more is read than fits.
TypeOK ==
  /\ DescriptorTypeOK
  /\ swipes \in 0 .. MaxSwipes
  /\ \A bytes \in {unsent, wire, data} : bytes \in Seq((1 .. MaxSwipes) \X (1 .. Word))
  /\ gone \in BOOLEAN /\ late \in BOOLEAN /\ timeout \in BOOLEAN
  /\ status \in {"none", "reading", "OK", "TIMED_OUT", "UNEXPECTED_FORMAT", "REPORT_FAILED"}
  /\ Len(data) <= input.size

\* The first field with an id, as the items mean it.
Meant(id) ==
  {i \in DOMAIN hid.INPUT :
     hid.INPUT[i].id = id /\ \A j \in 1 .. (i - 1) : hid.INPUT[j].id # id}

\* What the getters return of a report that was received is what the reader
\* put into that field of one swipe, however the report was cut into reads,
\* unless the reader was late once: mccr_input_report_receive() gives up on
\* the report and the next one begins with the rest of it.
FieldsDelivered ==
  status = "OK" /\ Regular /\ ~late =>
    \E n \in 1 .. swipes :
      \A id \in UsageIds \cup {MCCR_USAGE} : \A i \in Meant(id) :
        LET first == Before(hid.INPUT, i) \div 8
            size  == hid.INPUT[i].size \div 8
        IN  Before(hid.INPUT, i) % 8 = 0 /\ hid.INPUT[i].size % 8 = 0
              => TRACK_API(id, TRUE) = {[k \in 1 .. size |-> <<n, first + k>>]}

\* A receive with a timeout returns, and one without returns once the first
\* byte has come, even if the reader falls silent in the middle of a report.
ReceiveEnds ==
  status = "reading" /\ (timeout \/ data # <<>>) ~> status # "reading"
=============================================================================
