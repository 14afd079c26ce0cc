--------------------------- MODULE HidDescriptor ---------------------------
(***************************************************************************)
(* mccr_parse_report_descriptor() of libmccr: the items of the HID report  *)
(* descriptor of a reader are turned into the layout of its input report   *)
(* and of its feature report.                                              *)
(*                                                                         *)
(* The descriptor is taken item by item, whatever the reader chose to put  *)
(* in it.  Long items, which the parser does not understand, and a last    *)
(* item that is cut off do not occur; memory does not run out.  Next to    *)
(* the parser, "hid" reads the same items the way the HID specification    *)
(* means them, as long as the descriptor stays within what the parser was  *)
(* written for.                                                            *)
(***************************************************************************)
EXTENDS Naturals, Sequences

CONSTANTS
  Word,       \* 2^32: sizes and offsets in bits are uint32_t
  MCCR_USAGE, \* the usage of the collection
  UsageIds,   \* usages of fields
  Sizes,      \* values of Report Size items, in bits
  Counts,     \* values of Report Count items
  MaxUsages   \* bound: usages kept at a time

ASSUME WordBytes == Word \in Nat \ {0} /\ Word % 8 = 0
ASSUME FieldUsages == MCCR_USAGE \notin UsageIds
ASSUME ItemValues == Sizes \subseteq 0 .. (Word - 1) /\ Counts \subseteq 0 .. (Word - 1)
ASSUME UsageBound == MaxUsages \in Nat

VARIABLES
  ctx,    \* the parse_context_t, with the usages of both reports
  input, feature, \* the reports of the descriptor context, once parsed
  phase,  \* "parsing", "parsed" or "failed"
  hid     \* what the items mean

descriptor == <<ctx, input, feature, phase, hid>>

Report == {"INPUT", "FEATURE"}
Item(tags, values) == [tag : tags, value : values]
Items ==
  Item({"USAGE"}, {MCCR_USAGE} \cup UsageIds) \cup Item({"REPORT_SIZE"}, Sizes)
    \cup Item({"REPORT_COUNT"}, Counts) \cup Item({"USAGE_PAGE"}, {"MCCR", "OTHER"})
    \cup Item({"COLLECTION"}, {"APPLICATION", "OTHER"})
    \cup Item(Report \cup {"OUTPUT", "RESERVED", "END_COLLECTION"}, {0})

Init ==
  /\ ctx = [report_size |-> 0, wip |-> <<>>, INPUT |-> <<>>, FEATURE |-> <<>>,
            fatal_error |-> FALSE]
  /\ input = [usages |-> <<>>, size |-> 0] /\ feature = input
  /\ phase = "parsing"
  /\ hid = [size |-> 0, count |-> 0, usages |-> <<>>, sized |-> FALSE, INPUT |-> <<>>,
            FEATURE |-> <<>>, canonical |-> TRUE]

-----------------------------------------------------------------------------
(* One operator per kind of item: the parse context it leaves.             *)

Fatal(c) == [c EXCEPT !.fatal_error = TRUE]
cleanup_usage_array(c) == [c EXCEPT !.wip = <<>>]

process_usage(c, id) == [c EXCEPT !.wip = Append(@, [id |-> id, size |-> 0])]

process_usage_page(c, page) == IF page # "MCCR" THEN Fatal(c) ELSE c

process_report_size(c, value) == [c EXCEPT !.report_size = value]

\* Slip: the size is not shared among the usages.
count_sizes_each(c, value) ==
  LET size_bits == (value * c.report_size) % Word
      sized == [c EXCEPT !.wip = [i \in DOMAIN @ |-> [@[i] EXCEPT !.size = size_bits]]]
  IN  IF c.wip # <<>> /\ size_bits % Len(c.wip) # 0 THEN Fatal(c) ELSE sized

\* The size counted is that of all usages since the last main item, evenly
\* distributed; alone, a usage must not be empty.
process_report_count(c, value) ==
  LET size_bits == (value * c.report_size) % Word
      n == Len(c.wip)
      sized == [c EXCEPT !.wip = [i \in DOMAIN @ |-> [@[i] EXCEPT !.size = size_bits \div n]]]
  IN  CASE n = 0 -> c
        [] n = 1 -> IF size_bits = 0 THEN Fatal(sized) ELSE sized
        [] n > 1 -> IF size_bits % n # 0 THEN Fatal(c) ELSE sized

process_input_output_feature(c, tag) ==
  cleanup_usage_array(IF tag \in Report THEN [c EXCEPT ![tag] = @ \o c.wip] ELSE c)

process_collection(c, value) ==
  IF Len(c.wip) = 1 /\ c.wip[1].id = MCCR_USAGE /\ value = "APPLICATION"
    THEN cleanup_usage_array(c)
    ELSE Fatal(c)

process_collection_end(c) == IF c.wip # <<>> THEN Fatal(c) ELSE c

parse_item(c, item) ==
  CASE item.tag = "USAGE" -> process_usage(c, item.value)
    [] item.tag = "USAGE_PAGE" -> process_usage_page(c, item.value)
    [] item.tag = "REPORT_SIZE" -> process_report_size(c, item.value)
    [] item.tag = "REPORT_COUNT" -> process_report_count(c, item.value)
    [] item.tag = "COLLECTION" -> process_collection(c, item.value)
    [] item.tag = "END_COLLECTION" -> process_collection_end(c)
    [] item.tag = "RESERVED" -> cleanup_usage_array(c)
    [] OTHER -> process_input_output_feature(c, item.tag)

-----------------------------------------------------------------------------
(* What the items mean.  A main item gives its usages Report Count fields  *)
(* of Report Size bits, in order.  Within what the parser was written for, *)
(* each input or feature item has its own usages, followed by a count for  *)
(* them, with the size given before; one usage takes all fields, several   *)
(* take one field each.                                                    *)

Meaning(h, item) ==
  LET n == Len(h.usages)
      fields == [i \in 1 .. n |->
                   [id |-> h.usages[i], size |-> IF n = 1 THEN h.size * h.count ELSE h.size]]
      usual == h.sized /\ h.size > 0 /\ n > 0 /\ (n = 1 \/ h.count = n)
      new_locals == [h EXCEPT !.usages = <<>>, !.sized = FALSE]
  IN  CASE item.tag = "USAGE" ->
             [h EXCEPT !.usages = Append(@, item.value), !.sized = FALSE]
        [] item.tag = "REPORT_SIZE" -> [h EXCEPT !.size = item.value, !.sized = FALSE]
        [] item.tag = "REPORT_COUNT" -> [h EXCEPT !.count = item.value, !.sized = TRUE]
        [] item.tag = "USAGE_PAGE" -> h
        [] item.tag \in Report ->
             IF usual
               THEN [new_locals EXCEPT ![item.tag] = @ \o fields]
               ELSE [new_locals EXCEPT !.INPUT = <<>>, !.FEATURE = <<>>, !.canonical = FALSE]
        [] OTHER -> new_locals

-----------------------------------------------------------------------------
Kept == Len(ctx.wip) + Len(ctx.INPUT) + Len(ctx.FEATURE)

parse_report_descriptor ==
  /\ phase = "parsing" /\ ~ctx.fatal_error
  /\ \E item \in Items :
       /\ item.tag = "USAGE" => Kept < MaxUsages
       /\ ctx' = parse_item(ctx, item)
       /\ hid' = IF hid.canonical THEN Meaning(hid, item) ELSE hid
  /\ UNCHANGED <<input, feature, phase>>

\* The offset after each usage is the sum of the sizes so far.
Offsets(usages) ==
  LET offset[k \in 0 .. Len(usages)] ==
        IF k = 0 THEN 0 ELSE (offset[k - 1] + usages[k].size) % Word
  IN  offset

Total(usages) == Offsets(usages)[Len(usages)]

process_report(usages) ==
  [usages |-> [i \in DOMAIN usages |->
                 [id |-> usages[i].id, size |-> usages[i].size,
                  offset |-> Offsets(usages)[i - 1]]],
   size |-> Total(usages) \div 8]

Fails(usages) == usages = <<>> \/ Total(usages) % 8 # 0

\* The end of the descriptor, or of the parsing after a fatal error.
mccr_parse_report_descriptor ==
  /\ phase = "parsing"
  /\ ctx' = [ctx EXCEPT !.report_size = 0, !.wip = <<>>, !.INPUT = <<>>, !.FEATURE = <<>>]
  /\ IF ctx.fatal_error \/ Fails(ctx.INPUT) \/ Fails(ctx.FEATURE)
       THEN phase' = "failed" /\ UNCHANGED <<input, feature, hid>>
       ELSE /\ phase' = "parsed"
            /\ input' = process_report(ctx.INPUT)
            /\ feature' = process_report(ctx.FEATURE)
            /\ hid' = [hid EXCEPT !.size = 0, !.count = 0, !.usages = <<>>, !.sized = FALSE]

Parse == parse_report_descriptor \/ mccr_parse_report_descriptor

-----------------------------------------------------------------------------
Fields == [id : {MCCR_USAGE} \cup UsageIds, size : 0 .. (Word - 1)]
Usages == [id : {MCCR_USAGE} \cup UsageIds, size : 0 .. (Word - 1), offset : 0 .. (Word - 1)]
Reports == [usages : Seq(Usages), size : 0 .. (Word - 1)]

DescriptorTypeOK ==
  /\ ctx.report_size \in 0 .. (Word - 1) /\ ctx.fatal_error \in BOOLEAN
  /\ \A usages \in {ctx.wip, ctx.INPUT, ctx.FEATURE} : usages \in Seq(Fields)
  /\ input \in Reports /\ feature \in Reports
  /\ phase \in {"parsing", "parsed", "failed"}
  /\ hid.canonical \in BOOLEAN /\ hid.sized \in BOOLEAN

\* Bits of the first k fields as the items mean them, with no wrapping around;
\* bits before the i-th field, and of all.
Bits(fields) ==
  LET bits[k \in 0 .. Len(fields)] == IF k = 0 THEN 0 ELSE bits[k - 1] + fields[k].size
  IN  bits

Before(fields, i) == Bits(fields)[i - 1]
Length(fields) == Bits(fields)[Len(fields)]

\* Report of the parser and fields the items mean: the same fields, at the
\* same places, and the same size.
SameLayout(report, fields) ==
  Length(fields) < Word =>
    /\ Len(report.usages) = Len(fields)
    /\ \A i \in DOMAIN fields :
         report.usages[i] = [id |-> fields[i].id, size |-> fields[i].size,
                             offset |-> Before(fields, i)]
    /\ report.size * 8 = Length(fields)

\* The layout that process_report() arrives at is the one the descriptor
\* means, whatever the order and the number of its collections, ignored items,
\* usages and reports.
AgreesWithHid ==
  phase = "parsed" /\ hid.canonical
    => SameLayout(input, hid.INPUT) /\ SameLayout(feature, hid.FEATURE)
=============================================================================
