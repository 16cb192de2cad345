------------------------------ MODULE Scanner ------------------------------
(***************************************************************************)
(* One BLE scan after another (src/src/ble/scanner.rs), in an air full of  *)
(* peripherals.  Each advertises one packet and answers a scan request     *)
(* with another; the SoftDevice hands every packet to the callback by      *)
(* itself.  The callback alone looks at the deadline, so a scan in which   *)
(* nobody advertises is ended by the timeout around it.                    *)
(***************************************************************************)
EXTENDS AdvParser, SequencesExt

CONSTANTS
    Address,                  \* the peripherals in reach
    Profiles,                 \* what a peripheral may send: [adv, rsp], both Sendable
    BLE_MAX_DISCOVERED,       \* capacity of the list of devices (8)
    BLE_SCAN_DURATION_SECS,   \* the scan window (8)
    BACKSTOP_SECS,            \* how far the timeout lies beyond it (2)
    BLE_EVENT_CAP             \* BLE_EVENT_CHANNEL (8)

ASSUME ScannerAssumption ==
    /\ BLE_MAX_DISCOVERED \in Nat \ {0}
    /\ BLE_SCAN_DURATION_SECS \in Nat /\ BACKSTOP_SECS \in Nat \ {0}
    /\ BLE_EVENT_CAP \in Nat \ {0}

VARIABLES
    air,        \* air[p]: the profile of peripheral p
    phase,      \* "idle", "scanning" or "telling"
    clock,      \* seconds since the scan was started
    found,      \* the devices in the buffer: address and name
    todo,       \* events still to be sent to the UI
    queued,     \* number of events in the channel to the UI
    last_scan,  \* what the coordinator keeps
    heard       \* history: the packets of the scan's window, <<peripheral, which>>

vars == <<air, phase, clock, found, todo, queued, last_scan, heard>>

----------------------------------------------------------------------------
(* Packets.  A structure lists services, all of them or some, or holds a   *)
(* name, complete or shortened and in ASCII, or something else; behind the *)
(* structures may come padding or one that is cut off.                     *)

UuidBytes(uuid) == <<uuid % 256, uuid \div 256>>

Payload(s) ==
    CASE s.kind = "services" ->
            [j \in 1 .. 2 * Len(s.uuids) |->
                UuidBytes(s.uuids[(j + 1) \div 2])[IF j % 2 = 1 THEN 1 ELSE 2]]
      [] s.kind = "name" -> s.chars
      [] s.kind = "other" -> s.bytes

Encoded(s) == <<Len(Payload(s)) + 1, s.type>> \o Payload(s)

Bytes(packet) ==
    LET N == Len(packet.structures)
        bytes[n \in 0 .. N] ==
            IF n = 0 THEN <<>> ELSE bytes[n - 1] \o Encoded(packet.structures[n])
    IN  bytes[N] \o packet.tail

AdStructure ==
    [kind : {"services"}, type : {2, 3}, uuids : Seq(Word)]
        \cup [kind : {"name"}, type : {8, 9}, chars : Seq(0 .. 127)]
        \cup [kind : {"other"}, type : Byte \ {2, 3, 8, 9}, bytes : Seq(Byte)]

\* A byte is enough for the length of a structure, and what comes behind them
\* is no structure.
Sendable ==
    {packet \in [structures : Seq(AdStructure), tail : Seq(Byte)] :
        /\ \A k \in DOMAIN packet.structures : Len(Payload(packet.structures[k])) < 255
        /\ packet.tail = <<>> \/ IsBroken(packet.tail, 0)}

ASSUME ProfilesAssumption == Profiles \subseteq [adv : Sendable, rsp : Sendable]

----------------------------------------------------------------------------
DeviceFound(d) == [kind |-> "DeviceFound", device |-> d.address]

Addresses(devices) == {devices[k].address : k \in DOMAIN devices}

Init ==
    /\ air \in [Address -> Profiles]
    /\ phase = "idle"
    /\ clock = 0
    /\ found = <<>> /\ last_scan = <<>>
    /\ todo = <<>>
    /\ queued = 0
    /\ heard = {}

Starts ==
    /\ phase = "idle"
    /\ phase' = "scanning"
    /\ todo' = <<[kind |-> "ScanStarted"]>>
    /\ UNCHANGED <<air, clock, found, queued, last_scan, heard>>

\* The radio is on once ScanStarted was sent.
Listening == phase = "scanning" /\ todo = <<>>

\* The list goes to the UI, then the news that it is complete.
Proceeds(devices) ==
    /\ phase' = "telling"
    /\ todo' = Append([k \in DOMAIN devices |-> DeviceFound(devices[k])],
                      [kind |-> "ScanComplete"])

\* Mutant: whether the device is new is not looked at.
NoticedAgain(devices, p, data) ==
    IF contains_hid_service_uuid(data) /\ Len(devices) < BLE_MAX_DISCOVERED
      THEN Append(devices, [address |-> p, name |-> extract_device_name(data)])
      ELSE devices

\* The buffer after a packet: a HID peripheral that is new is added.
Noticed(devices, p, data) ==
    IF /\ contains_hid_service_uuid(data)
       /\ p \notin Addresses(devices) /\ Len(devices) < BLE_MAX_DISCOVERED
      THEN Append(devices, [address |-> p, name |-> extract_device_name(data)])
      ELSE devices

\* Mutant: a device is enough.
AnyDevice(devices) == devices # <<>>

is_full(devices) == Len(devices) = BLE_MAX_DISCOVERED

\* Does the packet, as it was sent, name the HID service?
OffersHid(packet) ==
    \E k \in DOMAIN packet.structures :
        LET s == packet.structures[k]
        IN  s.kind = "services" /\ HID_SERVICE \in Range(s.uuids)

\* The scan callback.  p advertises ("adv"), or answers the scan request that
\* an active scan sends ("rsp").
Hears(p, which) ==
    /\ Listening
    /\ IF clock > BLE_SCAN_DURATION_SECS
         THEN Proceeds(found) /\ UNCHANGED <<found, heard>>
         ELSE /\ found' = Noticed(found, p, Bytes(air[p][which]))
              /\ heard' = heard \cup {<<p, which>>}
              /\ IF is_full(found') THEN Proceeds(found') ELSE UNCHANGED <<phase, todo>>
    /\ UNCHANGED <<air, clock, queued, last_scan>>

\* The SoftDevice ends the scan with an error: nothing is kept.
RadioFails ==
    /\ Listening
    /\ phase' = "telling"
    /\ todo' = <<[kind |-> "Error"]>>
    /\ found' = <<>>
    /\ UNCHANGED <<air, clock, queued, last_scan, heard>>

\* Mutant: there is no timeout around the scan.
NoBackstop == FALSE /\ UNCHANGED vars

HardTimeout ==
    /\ Listening
    /\ clock >= BLE_SCAN_DURATION_SECS + BACKSTOP_SECS
    /\ Proceeds(found)
    /\ UNCHANGED <<air, clock, found, queued, last_scan, heard>>

\* The last event was sent: the scan returns its list.
Returns ==
    /\ phase' = "idle"
    /\ last_scan' = found
    /\ clock' = 0 /\ found' = <<>> /\ heard' = {}

Sends ==
    /\ todo # <<>>
    /\ queued < BLE_EVENT_CAP
    /\ queued' = queued + 1
    /\ todo' = Tail(todo)
    /\ IF phase = "telling" /\ Len(todo) = 1
         THEN Returns ELSE UNCHANGED <<phase, clock, found, last_scan, heard>>
    /\ UNCHANGED air

----------------------------------------------------------------------------
(* The UI and the clock.                                                   *)

UiReceives ==
    /\ queued > 0
    /\ queued' = queued - 1
    /\ UNCHANGED <<air, phase, clock, found, todo, last_scan, heard>>

TimePasses ==
    /\ Listening
    /\ clock < BLE_SCAN_DURATION_SECS + BACKSTOP_SECS
    /\ clock' = clock + 1
    /\ UNCHANGED <<air, phase, found, todo, queued, last_scan, heard>>

Next ==
    \/ Starts
    \/ \E p \in Address, which \in {"adv", "rsp"} : Hears(p, which)
    \/ RadioFails
    \/ HardTimeout
    \/ Sends
    \/ UiReceives
    \/ TimePasses

Spec == Init /\ [][Next]_vars

\* Time goes on, a timer that is due fires, and the UI takes its events.
\* Nothing is assumed of the peripherals.
Fairness ==
    WF_vars(TimePasses) /\ WF_vars(HardTimeout) /\ WF_vars(Sends) /\ WF_vars(UiReceives)

FairSpec == Spec /\ Fairness

----------------------------------------------------------------------------
(* Properties.                                                             *)

TypeOK ==
    /\ air \in [Address -> Profiles]
    /\ phase \in {"idle", "scanning", "telling"}
    /\ clock \in 0 .. BLE_SCAN_DURATION_SECS + BACKSTOP_SECS
    /\ \A d \in {found, last_scan} :
          Len(d) <= BLE_MAX_DISCOVERED /\ Addresses(d) \subseteq Address
    /\ queued \in 0 .. BLE_EVENT_CAP
    /\ heard \subseteq Address \X {"adv", "rsp"}

\* The name in a packet as far as it fits, if it has one.
NameIn(packet) ==
    LET names == {k \in DOMAIN packet.structures : packet.structures[k].kind = "name"}
    IN  IF names = {} THEN Unknown
        ELSE LET chars == packet.structures[CHOOSE k \in names : \A j \in names : k <= j].chars
             IN  SubSeq(chars, 1, IF Len(chars) < NAME_CAP THEN Len(chars) ELSE NAME_CAP)

\* The parser finds in the bytes of a packet what was put into it.
Packets == {profile.adv : profile \in Profiles} \cup {profile.rsp : profile \in Profiles}

ParserReads ==
    \A packet \in Packets :
        /\ contains_hid_service_uuid(Bytes(packet)) <=> OffersHid(packet)
        /\ OffersHid(packet) => extract_device_name(Bytes(packet)) = NameIn(packet)

\* Of the bytes of the packets, whatever else they hold and however they are
\* laid out or cut off, the scan makes exactly the peripherals that offered
\* the HID service in the window (scanner.rs:3-5), each once, and under the
\* name that came with the service.
FoundIsHeard ==
    /\ phase = "scanning" =>
          Addresses(found) = {h[1] : h \in {h \in heard : OffersHid(air[h[1]][h[2]])}}
    /\ \A j, k \in DOMAIN found : j # k => found[j].address # found[k].address
    /\ \A d \in Range(found) :
          \E packet \in {air[d.address].adv, air[d.address].rsp} :
              OffersHid(packet) /\ d.name = NameIn(packet)

\* A scan stops early only when the list is full or the radio fails.
ListensForTheWindow ==
    [][Listening /\ phase' = "telling" =>
          \/ Len(found') = BLE_MAX_DISCOVERED
          \/ todo' = <<[kind |-> "Error"]>>
          \/ clock >= BLE_SCAN_DURATION_SECS]_vars

\* What the connection manager relies on; also that every scan ends, even
\* where nobody advertises (scanner.rs:91-94).
List == IF phase = "telling" THEN found ELSE last_scan

D == INSTANCE Discovery WITH
        MaxFound <- BLE_MAX_DISCOVERED, stage <- phase, telling <- todo,
        list <- [k \in DOMAIN List |-> List[k].address]

DiscoverySpec == D!Spec

\* A device whose answer with its name was heard is listed under a name
\* (scanner.rs:41: "Active scan to retrieve scan-response data (device
\* names)."; scanner.rs:64: "Extract device name from advertisement or scan
\* response.").
ScanResponsesName ==
    phase = "scanning" =>
        \A d \in Range(found) :
            <<d.address, "rsp">> \in heard /\ NameIn(air[d.address].rsp) # Unknown
                => d.name # Unknown
=============================================================================
