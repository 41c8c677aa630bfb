------------------------------- MODULE UsbHid -------------------------------
(***************************************************************************)
(* The HID driver (drivers/usb/hid.rs): a report descriptor is parsed into  *)
(* fields of a report, and reports become input events.                     *)
(*                                                                         *)
(* A descriptor is a sequence of items [item, value]; the byte encoding of   *)
(* items is left out, an item cut short is "short".  A report is the set of *)
(* the positions of its bits that are set.  Usages keep their numbers.       *)
(***************************************************************************)
EXTENDS Integers, Sequences, SequencesExt, FiniteSetsExt

CONSTANTS
    MaxFields,        \* MAX_FIELDS (24)
    MaxKeys,          \* MAX_KEYS (6)
    MaxUsages,        \* MAX_USAGES (8)
    MaxReportBytes,   \* MAX_REPORT_BYTES (64)
    MaxDescriptor     \* MAX_DESCRIPTOR_BYTES, HID_REPORT_DESCRIPTOR_MAX (256), in items

ASSUME HidAssumption == {MaxFields, MaxKeys, MaxUsages, MaxReportBytes, MaxDescriptor} \subseteq Nat

Absent == <<>>          \* an Option: <<>> or <<value>>
NoUsage == -1           \* NO_SELECTED_USAGE
GenericDesktop == 1
Keyboard == 7
Button == 9
UsageX == 48
UsageY == 49
UsageWheel == 56

-----------------------------------------------------------------------------
(* Field::contains and offset: usages are a list or, without one, a range.   *)
FieldContains(f, usage) ==
    IF f.usages # <<>> THEN usage \in Range(f.usages) ELSE usage \in f.min .. f.max

FieldOffset(f, usage) ==
    LET u == IF f.selected = NoUsage THEN usage ELSE f.selected
    IN  IF ~FieldContains(f, u) THEN -1
        ELSE f.offset + f.size * (IF f.usages # <<>>
                                  THEN (CHOOSE i \in DOMAIN f.usages :
                                           /\ f.usages[i] = u
                                           /\ \A j \in 1 .. i - 1 : f.usages[j] # u) - 1
                                  ELSE u - f.min)

(* classify_field: what the field is read as; later fields win.             *)
Classified(layout, f) ==
    CASE f.page = Keyboard /\ f.size = 1 /\ f.count >= 8 -> [layout EXCEPT !.modifiers = <<f>>]
      [] f.page = Keyboard /\ f.size >= 8 /\ f.count >= 3 -> [layout EXCEPT !.keys = <<f>>]
      [] f.page = Button /\ f.size = 1 -> [layout EXCEPT !.buttons = <<f>>]
      [] f.page = GenericDesktop ->
            [layout EXCEPT
               !.x = IF FieldContains(f, UsageX) THEN <<[f EXCEPT !.selected = UsageX]>> ELSE @,
               !.y = IF FieldContains(f, UsageY) THEN <<[f EXCEPT !.selected = UsageY]>> ELSE @,
               !.wheel = IF FieldContains(f, UsageWheel) THEN <<[f EXCEPT !.selected = UsageWheel]>> ELSE @]
      [] OTHER -> layout

-----------------------------------------------------------------------------
(* parse_layout: the state of the parser, one item, all of them.            *)
NewLayout ==
    [fields |-> <<>>, modifiers |-> Absent, keys |-> Absent, buttons |-> Absent,
     x |-> Absent, y |-> Absent, wheel |-> Absent]
NewParser ==
    [error |-> FALSE, layout |-> NewLayout, offset |-> 0, page |-> 0, size |-> 0,
     count |-> 0, logicalMin |-> 0, min |-> 0, max |-> 0, usages |-> <<>>, set |-> FALSE]

InputField(p) ==
    [page |-> p.page, min |-> IF p.set THEN p.min ELSE 0,
     max |-> IF ~p.set THEN 0 ELSE IF p.max > p.min THEN p.max ELSE p.min,
     usages |-> p.usages, selected |-> NoUsage, logicalMin |-> p.logicalMin,
     offset |-> p.offset, size |-> p.size, count |-> p.count]

Input(p) ==
    IF ~(p.size \in 1 .. 32 /\ p.count \in 1 .. 32) \/ Len(p.layout.fields) = MaxFields
    THEN [p EXCEPT !.error = TRUE]
    ELSE [p EXCEPT !.layout = Classified([@ EXCEPT !.fields = Append(@, InputField(p))], InputField(p)),
                   !.offset = @ + p.size * p.count, !.set = FALSE, !.usages = <<>>]

Usage(p, value) ==
    IF Len(p.usages) = MaxUsages THEN [p EXCEPT !.error = TRUE]
    ELSE [p EXCEPT !.usages = Append(@, value), !.min = IF p.usages = <<>> THEN value ELSE @,
                   !.max = value, !.set = TRUE]

Item(p, i) ==
    IF p.error THEN p
    ELSE CASE i.item = "page" -> [p EXCEPT !.page = i.value]
           [] i.item = "logicalMin" -> [p EXCEPT !.logicalMin = i.value]
           [] i.item = "size" -> [p EXCEPT !.size = i.value]
           [] i.item = "count" -> [p EXCEPT !.count = i.value]
           [] i.item = "id" -> [p EXCEPT !.error = i.value # 0]
           [] i.item = "min" -> [p EXCEPT !.min = i.value, !.max = i.value, !.usages = <<>>, !.set = TRUE]
           [] i.item = "max" -> [p EXCEPT !.max = i.value, !.set = TRUE]
           [] i.item = "usage" -> Usage(p, i.value)
           [] i.item = "input" -> Input(p)
           [] i.item = "short" -> [p EXCEPT !.error = TRUE]
           [] OTHER -> p        \* collections, features, long items

Parsed(descriptor) == FoldLeft(Item, NewParser, descriptor)
ReportBytes(p) == (p.offset + 7) \div 8
KindOf(layout) ==
    IF layout.modifiers # Absent /\ layout.keys # Absent THEN "keyboard"
    ELSE IF Absent \notin {layout.buttons, layout.x, layout.y} THEN "mouse"
    ELSE "other"

(* Device::from_descriptor, absent where the code returns an error.         *)
FromDescriptor(descriptor) ==
    LET p == Parsed(descriptor)
    IN  IF \/ Len(descriptor) \notin 1 .. MaxDescriptor
           \/ p.error \/ ReportBytes(p) \notin 1 .. MaxReportBytes
        THEN Absent
        ELSE <<[layout |-> p.layout, kind |-> KindOf(p.layout), bytes |-> ReportBytes(p),
                keys |-> [i \in 1 .. MaxKeys |-> 0], buttons |-> 0]>>

-----------------------------------------------------------------------------
(* read_bits, read_field, read_signed_field.                                 *)
BitValue(report, offset, bit) == IF offset + bit \in report THEN 2 ^ bit ELSE 0
ReadBits(report, offset, count) ==
    LET value(bit) == BitValue(report, offset, bit)
    IN  MapThenSumSet(value, 0 .. (IF count > 32 THEN 32 ELSE count) - 1)
ReadField(report, f, usage) ==
    IF FieldOffset(f, usage) = -1 THEN 0 ELSE ReadBits(report, FieldOffset(f, usage), f.size)
SignedBits(value, bits) ==
    IF bits = 0 \/ bits >= 32 \/ value < 2 ^ (bits - 1) THEN value ELSE value - 2 ^ bits
ReadSignedField(report, f) ==
    LET value == ReadField(report, f, f.min)
    IN  IF f.logicalMin < 0 THEN SignedBits(value, f.size) ELSE value

(* hid_modifiers, key_code, key_text: a character is a key with or without   *)
(* shift.                                                                    *)
HidModifiers(value) ==
    LET bits(from) == (value \div from) % 4 # 0
    IN  {m \in {"shift", "ctrl", "alt", "gui"} :
            bits([shift |-> 1, ctrl |-> 4, alt |-> 16, gui |-> 64][m])}
KeyCode == (4 .. 49) \cup (51 .. 69) \cup (71 .. 83) \cup (224 .. 231)
KeyText(usage, modifiers) ==
    IF usage \in (4 .. 39) \cup (44 .. 49) \cup (51 .. 56) THEN <<usage, "shift" \in modifiers>>
    ELSE <<>>

(* feed_keyboard and feed_mouse: the device afterwards and its events.       *)
KeyEvent(usage, pressed, modifiers) ==
    [key |-> usage, pressed |-> pressed, modifiers |-> modifiers,
     text |-> IF pressed THEN KeyText(usage, modifiers) ELSE <<>>]
CurrentKeys(f, report) ==
    [i \in 1 .. MaxKeys |-> IF i <= f.count THEN ReadField(report, f, f.min + i - 1) % 256 ELSE 0]

(* Mutation of NewKeys: a key is looked for only in its own place.           *)
NewKeysInPlace(current, previous) ==
    LET changed == {i \in 1 .. MaxKeys : current[i] # previous[i] /\ current[i] \in KeyCode}
    IN  [n \in 1 .. Cardinality(changed) |-> current[SetToSortSeq(changed, <)[n]]]

(* The keys of one report that are not in the other, in order.               *)
NewKeys(current, previous) ==
    SelectSeq(current, LAMBDA u : u \in KeyCode /\ u \notin Range(previous))

FedKeyboard(device, report) ==
    LET m == Head(device.layout.modifiers)
        modifiers == HidModifiers(ReadBits(report, m.offset, m.size * m.count) % 256)
        current == CurrentKeys(Head(device.layout.keys), report)
        down == NewKeys(current, device.keys)
        up == NewKeys(device.keys, current)
    IN  [device |-> [device EXCEPT !.keys = current],
         events |-> [i \in DOMAIN down |-> KeyEvent(down[i], TRUE, modifiers)]
                    \o [i \in DOMAIN up |-> KeyEvent(up[i], FALSE, modifiers)]]
FedMouse(device, report) ==
    LET l == device.layout
        b == Head(l.buttons)
        buttons == ReadBits(report, b.offset, b.size * b.count) % 256
    IN  [device |-> [device EXCEPT !.buttons = buttons],
         events |-> <<[dx |-> ReadSignedField(report, Head(l.x)),
                       dy |-> ReadSignedField(report, Head(l.y)),
                       wheel |-> IF l.wheel = Absent THEN 0 ELSE ReadSignedField(report, Head(l.wheel)),
                       buttons |-> buttons % 32, before |-> device.buttons % 32]>>]

(* Device::feed of a report of so many bytes.                                *)
Feed(device, report, bytes) ==
    IF bytes < device.bytes \/ device.kind = "other" THEN [device |-> device, events |-> <<>>]
    ELSE IF device.kind = "keyboard" THEN FedKeyboard(device, report)
    ELSE FedMouse(device, report)

=============================================================================
