----------------------------- MODULE HidClient -----------------------------
(***************************************************************************)
(* What the firmware makes of a peripheral's reports: discovery and        *)
(* subscription (src/src/ble/hid_client.rs), the report-map parser         *)
(* (src/src/hid/report_protocol.rs) and the classification of              *)
(* notifications (src/src/hid/mod.rs and the report types).                *)
(*                                                                         *)
(* A report map is a sequence of items, of which the parser looks at five  *)
(* kinds; the fields of a report are not decoded by the firmware.  A       *)
(* report is known by the bytes that go on the USB wire, which both        *)
(* from_ble_bytes and serialize copy.  None here is longer than the 32     *)
(* bytes on_hvx takes over.                                                *)
(***************************************************************************)
EXTENDS Integers, Sequences, FiniteSets, SequencesExt

CONSTANTS
    Peripheral,     \* what discovery can meet: [reports, map], with for each
                    \* report characteristic its kind, the ID and type of its
                    \* reference, and whether it has a CCCD
    Payload,        \* Payload[kind]: the notifications of such a report
    MAX_REPORTS     \* characteristics kept in discovery (8)

VARIABLES
    peripheral,     \* the device on the link
    stage,          \* where discover_and_subscribe is
    mapRead,        \* history: items of the report map that were read
    descriptor,     \* the parsed report map, or NoDescriptor
    refRead,        \* history: characteristics whose reference was read
    todo,           \* the next characteristic to subscribe to
    subscriptions,  \* characteristics subscribed to, each with its kind or "none"
    keyboard_led_handle,    \* the LED output characteristic, 0 for none
    sent,           \* history: the last notification, and where it is from
    forwarded       \* what was pushed for it, or NoReport

clientVars == <<refRead, todo, subscriptions, keyboard_led_handle>>
reportVars == <<sent, forwarded>>

vars == <<peripheral, stage, mapRead, descriptor, clientVars, reportVars>>

----------------------------------------------------------------------------
(* The report-map parser.                                                  *)

ReportKind == {"keyboard", "mouse", "consumer"}

UsagePage(page) == [item |-> "UsagePage", page |-> page]
Usage(usage)    == [item |-> "Usage", usage |-> usage]
ReportId(id)    == [item |-> "ReportId", id |-> id]
Input           == [item |-> "Input"]
OtherMain       == [item |-> "OtherMain"]      \* Output, Feature, Collection, End
Ignored         == [item |-> "Ignored"]

NoDescriptor == [has |-> {}, id |-> [k \in ReportKind |-> 0]]

ParserStart ==
    [page |-> "Unknown", usage |-> "none", report_id |-> 0, desc |-> NoDescriptor]

\* The kinds of report that an Input item is taken for: at most one.
InputKinds(p) ==
    CASE p.page = "Keyboard" -> {"keyboard"}
      [] p.page = "Consumer" -> {"consumer"}
      [] p.page = "GenericDesktop" /\ p.usage \in {"Mouse", "Pointer"} -> {"mouse"}
      [] OTHER -> {}

\* A kind keeps the first report ID it is seen with; 0 is none.
WithInput(p) ==
    [has |-> p.desc.has \cup InputKinds(p),
     id |-> [k \in ReportKind |-> IF k \in InputKinds(p) /\ p.desc.id[k] = 0
                                    THEN p.report_id ELSE p.desc.id[k]]]

\* Mutant: a report ID holds for the rest of the map.
KeepsFirstId(p, item) ==
    CASE item.item = "UsagePage" -> [p EXCEPT !.page = item.page]
      [] item.item = "Usage"     -> [p EXCEPT !.usage = item.usage]
      [] item.item = "ReportId"  -> [p EXCEPT !.report_id = IF @ = 0 THEN item.id ELSE @]
      [] item.item = "Input"     -> [p EXCEPT !.desc = WithInput(p), !.usage = "none"]
      [] item.item = "OtherMain" -> [p EXCEPT !.usage = "none"]
      [] OTHER -> p

\* Usages are local: a Main item ends them.
TakeItem(p, item) ==
    CASE item.item = "UsagePage" -> [p EXCEPT !.page = item.page]
      [] item.item = "Usage"     -> [p EXCEPT !.usage = item.usage]
      [] item.item = "ReportId"  -> [p EXCEPT !.report_id = item.id]
      [] item.item = "Input"     -> [p EXCEPT !.desc = WithInput(p), !.usage = "none"]
      [] item.item = "OtherMain" -> [p EXCEPT !.usage = "none"]
      [] OTHER -> p

\* None when no kind was recognised, which is the empty descriptor.
parse(items) ==
    LET parser[n \in 0 .. Len(items)] ==
            IF n = 0 THEN ParserStart ELSE TakeItem(parser[n - 1], items[n])
    IN  parser[Len(items)].desc

has_report_ids(desc) == \E k \in ReportKind : desc.id[k] # 0

\* Keyboard before mouse before consumer, "none" for an ID no kind has.
report_kind_for_id(desc, id) ==
    LET is(k) == id # 0 /\ desc.id[k] = id
    IN  CASE is("keyboard") -> "keyboard"
          [] is("mouse") /\ ~is("keyboard") -> "mouse"
          [] is("consumer") /\ ~is("keyboard") /\ ~is("mouse") -> "consumer"
          [] OTHER -> "none"

----------------------------------------------------------------------------
(* Classification.  Bytes are numbered from 1.                             *)

NoReport == [kind |-> "none", bytes |-> <<>>]

OrElse(r, other) == IF r # NoReport THEN r ELSE other

\* from_ble_bytes, then serialize.
keyboard(data) ==
    IF Len(data) < 8 \/ data[2] # 0 THEN NoReport
    ELSE [kind |-> "keyboard", bytes |-> SubSeq(data, 1, 8)]

mouse(data) ==
    IF Len(data) < 3 THEN NoReport
    ELSE [kind |-> "mouse",
          bytes |-> [i \in 1 .. 5 |-> IF i <= Len(data) THEN data[i] ELSE 0]]

consumer(data) ==
    IF Len(data) < 2 THEN NoReport
    ELSE [kind |-> "consumer", bytes |-> SubSeq(data, 1, 2)]

parse_by_kind(kind, data) ==
    CASE kind = "keyboard" -> keyboard(data)
      [] kind = "mouse"    -> mouse(data)
      [] kind = "consumer" -> consumer(data)
      [] OTHER             -> NoReport

infer_from_length(data) ==
    CASE Len(data) = 8 -> keyboard(data)
      [] Len(data) \in 3 .. 5 -> mouse(data)
      [] Len(data) = 2 /\ data[2] < 16 -> consumer(data)
      [] OTHER -> NoReport

IdKind(id) == CASE id = 1 -> "keyboard" [] id = 2 -> "mouse" [] id = 3 -> "consumer"
                [] OTHER -> "none"

classify_report(id, data) ==
    IF IdKind(id) = "none" THEN infer_from_length(data) ELSE parse_by_kind(IdKind(id), data)

\* A first byte that looks like the ID of a report of a fitting length.
classify_report_id_prefix(data) ==
    IF Len(data) > 1 /\ \/ data[1] = 1 /\ Len(data) - 1 >= 8
                        \/ data[1] = 2 /\ Len(data) - 1 \in 3 .. 5
                        \/ data[1] = 3 /\ Len(data) - 1 = 2
      THEN parse_by_kind(IdKind(data[1]), Tail(data)) ELSE NoReport

classify_notification(data) ==
    OrElse(classify_report_id_prefix(data), classify_report(0, data))

classify_notification_with_hint(data, desc) ==
    IF has_report_ids(desc) /\ Len(data) > 1
      THEN OrElse(parse_by_kind(report_kind_for_id(desc, data[1]), Tail(data)),
                  classify_report(data[1], Tail(data)))
    ELSE IF desc # NoDescriptor
      THEN OrElse(classify_report(0, data), classify_notification(data))
    ELSE classify_notification(data)

\* Mutant: every notification is taken to begin with a report ID.
IgnoresKind(kind, data, desc) == classify_notification_with_hint(data, desc)

\* The notification callback: by the characteristic's kind where that is known.
classify(kind, data, desc) ==
    IF kind # "none" THEN parse_by_kind(kind, data)
    ELSE classify_notification_with_hint(data, desc)

----------------------------------------------------------------------------
(* What the peripherals are taken to be: their maps and reports agree.     *)

Page == {"GenericDesktop", "Keyboard", "Led", "Button", "Consumer", "Unknown"}

UsageName ==
    {"Pointer", "Mouse", "Keyboard", "X", "Y", "Wheel", "Consumer Control", "AC Pan", "none"}

Item ==
    [item : {"UsagePage"}, page : Page] \cup [item : {"Usage"}, usage : UsageName]
      \cup [item : {"ReportId"}, id : 1 .. 255] \cup {Input, OtherMain, Ignored}

Characteristic ==
    [kind : ReportKind, id : 0 .. 255, type : {"Input", "Output"}, cccd : BOOLEAN]

\* The i-th item of the map is an Input on this page; it belongs to this report.
InputOn(items, i, page) ==
    /\ items[i] = Input
    /\ \E j \in 1 .. i : /\ items[j] = UsagePage(page)
                         /\ \A k \in j + 1 .. i : items[k].item # "UsagePage"

InReport(items, i, id) ==
    \E j \in 1 .. i : /\ items[j] = ReportId(id)
                      /\ \A k \in j + 1 .. i : items[k].item # "ReportId"

\* All that a map has on this page belongs to this report.
HasPage(items, id, page) ==
    /\ \E i \in DOMAIN items : InputOn(items, i, page)
    /\ \A i \in DOMAIN items : InputOn(items, i, page) => InReport(items, i, id)

LacksPage(items, id, page) ==
    \A i \in DOMAIN items : InputOn(items, i, page) => ~InReport(items, i, id)

\* A report without an ID stands in a map without IDs.  Keys are on a page of
\* their own in the report with their ID; media keys, too, unless horizontal
\* scroll is on their page, and nothing else is in the report.
Describes(items, report) ==
    IF report.id = 0 THEN \A i \in DOMAIN items : items[i].item # "ReportId"
    ELSE /\ report.kind = "keyboard" => HasPage(items, report.id, "Keyboard")
         /\ report.kind = "consumer" /\ Usage("AC Pan") \notin ToSet(items) =>
               /\ HasPage(items, report.id, "Consumer")
               /\ LacksPage(items, report.id, "Keyboard")
               /\ LacksPage(items, report.id, "GenericDesktop")

ASSUME MaxReportsAssumption == MAX_REPORTS \in Nat \ {0}

\* What is notified is an input report that the map describes.
ASSUME PeripheralAssumption ==
    \A p \in Peripheral :
        /\ p.reports \in Seq(Characteristic) /\ p.map \in Seq(Item)
        /\ \A n \in DOMAIN p.reports :
              p.reports[n].cccd =>
                 p.reports[n].type = "Input" /\ Describes(p.map, p.reports[n])

\* Keys come in reports like those of the boot protocol, and media keys as
\* one usage below 0x1000.
ASSUME PayloadAssumption ==
    /\ \A data \in Payload["keyboard"] :
          data \in Seq(0 .. 255) /\ Len(data) = 8 /\ data[2] = 0
    /\ \A data \in Payload["consumer"] :
          data \in Seq(0 .. 255) /\ Len(data) = 2 /\ data[2] < 16

----------------------------------------------------------------------------
(* Discovery and subscription.                                             *)

\* The characteristics that discovery keeps: a push to a full list is void.
Reports(p) ==
    SubSeq(p.reports, 1, IF Len(p.reports) < MAX_REPORTS THEN Len(p.reports) ELSE MAX_REPORTS)

NothingSent == [from |-> 0, data |-> <<>>]

Init ==
    /\ peripheral \in Peripheral
    /\ stage = "discovering"
    /\ mapRead = 0
    /\ descriptor = NoDescriptor
    /\ refRead = {}
    /\ todo = Reports(peripheral)
    /\ subscriptions = <<>>
    /\ keyboard_led_handle = 0
    /\ sent = NothingSent
    /\ forwarded = NoReport

Fails ==
    /\ stage' = "failed"
    /\ UNCHANGED <<peripheral, mapRead, descriptor, clientVars, reportVars>>

\* Discovery ends, or fails; a service without reports is incomplete.
Discovers ==
    /\ stage = "discovering"
    /\ \/ /\ todo # <<>>
          /\ stage' = "mapping"
          /\ UNCHANGED <<peripheral, mapRead, descriptor, clientVars, reportVars>>
       \/ Fails

\* read_report_map: fails, or returns as much as one read does.
ReadsMap(n) ==
    /\ stage = "mapping"
    /\ n <= Len(peripheral.map)
    /\ mapRead' = n
    /\ descriptor' = parse(SubSeq(peripheral.map, 1, n))
    /\ stage' = "subscribing"
    /\ UNCHANGED <<peripheral, clientVars, reportVars>>

\* One characteristic: its reference is read or not, and notifications are
\* enabled or not.  The first output report without a CCCD is taken for the
\* keyboard's LEDs.
Subscribes(refOk, cccdOk) ==
    /\ stage = "subscribing" /\ todo # <<>>
    /\ LET report == Head(todo)
           n == Len(Reports(peripheral)) - Len(todo) + 1
           kind == IF refOk /\ report.type = "Input"
                     THEN report_kind_for_id(descriptor, report.id) ELSE "none"
       IN  /\ refRead' = IF refOk THEN refRead \cup {n} ELSE refRead
           /\ subscriptions' =
                 IF report.cccd /\ cccdOk
                   THEN Append(subscriptions, [report |-> n, kind |-> kind])
                   ELSE subscriptions
           /\ keyboard_led_handle' =
                 IF ~report.cccd /\ refOk /\ report.type = "Output" /\ keyboard_led_handle = 0
                   THEN n ELSE keyboard_led_handle
    /\ todo' = Tail(todo)
    /\ UNCHANGED <<peripheral, stage, mapRead, descriptor, reportVars>>

SubscribesAll ==
    /\ stage = "subscribing" /\ todo = <<>>
    /\ IF subscriptions = <<>> THEN Fails
       ELSE /\ stage' = "running"
            /\ UNCHANGED <<peripheral, mapRead, descriptor, clientVars, reportVars>>

\* on_hvx and the callback: a notification of a subscribed characteristic.
Notified(s, data) ==
    /\ stage = "running"
    /\ sent' = [from |-> subscriptions[s].report, data |-> data]
    /\ forwarded' = classify(subscriptions[s].kind, data, descriptor)
    /\ UNCHANGED <<peripheral, stage, mapRead, descriptor, clientVars>>

\* The link ends, or one is closed that could not be used; the next one, with
\* any peripheral, starts from nothing.
LinkEnds ==
    /\ stage \in {"running", "failed"}
    /\ peripheral' \in Peripheral
    /\ stage' = "discovering"
    /\ mapRead' = 0
    /\ descriptor' = NoDescriptor
    /\ refRead' = {}
    /\ todo' = Reports(peripheral')
    /\ subscriptions' = <<>>
    /\ keyboard_led_handle' = 0
    /\ sent' = NothingSent
    /\ forwarded' = NoReport

KindOf(n) == peripheral.reports[n].kind

Next ==
    \/ Discovers
    \/ \E n \in 0 .. Len(peripheral.map) : ReadsMap(n)
    \/ \E refOk, cccdOk \in BOOLEAN : Subscribes(refOk, cccdOk)
    \/ SubscribesAll
    \/ \E s \in DOMAIN subscriptions :
          \E data \in Payload[KindOf(subscriptions[s].report)] : Notified(s, data)
    \/ LinkEnds

Spec == Init /\ [][Next]_vars

----------------------------------------------------------------------------
(* Properties.                                                             *)

TypeOK ==
    /\ peripheral \in Peripheral
    /\ stage \in {"discovering", "mapping", "subscribing", "running", "failed"}
    /\ mapRead \in 0 .. Len(peripheral.map)
    /\ descriptor.has \subseteq ReportKind
    /\ refRead \subseteq 1 .. MAX_REPORTS
    /\ Len(todo) <= MAX_REPORTS
    /\ subscriptions \in Seq([report : 1 .. MAX_REPORTS, kind : ReportKind \cup {"none"}])
    /\ keyboard_led_handle \in 0 .. MAX_REPORTS
    /\ sent.from \in 0 .. MAX_REPORTS
    /\ forwarded.kind \in ReportKind \cup {"none"}

\* The report map and the reference of the report last notified were read in
\* full.
FullyRead == mapRead = Len(peripheral.map) /\ sent.from \in refRead

SentBy(kind) == sent.from # 0 /\ KindOf(sent.from) = kind

\* A keyboard's reports reach the host as they are, presses and releases
\* alike, when map and reference were read or the map names no report ID,
\* whatever else the peripheral has and in whatever order (README.md:408).
KeyboardReportsGetThrough ==
    SentBy("keyboard") /\ (FullyRead \/ ~has_report_ids(descriptor)) =>
        forwarded = keyboard(sent.data)

\* The same of media keys (README.md:415), unless the map also has a mouse
\* with horizontal scroll, whose report is then taken for the media keys.
MediaKeysGetThrough ==
    SentBy("consumer") /\ FullyRead /\ Usage("AC Pan") \notin ToSet(peripheral.map) =>
        forwarded = consumer(sent.data)

\* The same of a mouse (README.md:408).
MouseReportsGetThrough ==
    SentBy("mouse") /\ FullyRead => forwarded = mouse(sent.data)
=============================================================================
