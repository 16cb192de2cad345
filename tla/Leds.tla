-------------------------------- MODULE Leds --------------------------------
(***************************************************************************)
(* The host's keyboard LEDs on their way to the BLE keyboards: the control *)
(* handler publishes the LED report in a Watch (src/src/usb/hid_device.rs) *)
(* and the notification loop of every link waits for changes and writes    *)
(* them to its peripheral (src/src/ble/hid_client.rs).  The receiver of a  *)
(* slot is taken once and outlives its links (src/src/ble/multi_conn.rs).  *)
(***************************************************************************)
EXTENDS Naturals

CONSTANTS
    Workers,     \* the connection slots
    Bits,        \* the bits of the host's LED report
    DEFINED,     \* those that stand for an LED
    NotSet       \* no LED report has come yet; also: nothing being written

ASSUME LedsAssumption ==
    /\ DEFINED \subseteq Bits
    /\ \A byte \in SUBSET Bits : byte # NotSet

VARIABLES
    leds,        \* the newest value in KEYBOARD_LEDS
    unseen,      \* unseen[w]: w's receiver has not returned the newest value
    link,        \* link[w]: "down", or the kind of peripheral on it
    written,     \* written[w]: the value write_leds is writing
    lamp,        \* lamp[w]: what w's keyboard shows
    told         \* history: the last write on this link succeeded

ledsVars == <<leds, unseen, link, written, lamp, told>>

Link == {"down", "keyboard", "other"}

\* The LEDs that are on.
KeyboardLeds == SUBSET DEFINED

from_byte(byte) == byte \cap DEFINED

\* No LED is on when a link comes up.
Dark == {}

LedsInit ==
    /\ leds = NotSet
    /\ unseen = [w \in Workers |-> FALSE]
    /\ link = [w \in Workers |-> "down"]
    /\ written = [w \in Workers |-> NotSet]
    /\ lamp = [w \in Workers |-> Dark]
    /\ told = [w \in Workers |-> FALSE]

\* Mutant: a change wakes only the loops that are waiting for one.
WakesWaiting(byte) ==
    /\ leds' = from_byte(byte)
    /\ unseen' = [w \in Workers |-> unseen[w] \/ written[w] = NotSet]
    /\ UNCHANGED <<link, written, lamp, told>>

\* set_report: a Watch keeps the newest value and marks it for every receiver.
HostSets(byte) ==
    /\ leds' = from_byte(byte)
    /\ unseen' = [w \in Workers |-> TRUE]
    /\ UNCHANGED <<link, written, lamp, told>>

LinkStarts(w, kind) ==
    /\ link[w] = "down"
    /\ link' = [link EXCEPT ![w] = kind]
    /\ lamp' = [lamp EXCEPT ![w] = Dark]
    /\ told' = [told EXCEPT ![w] = FALSE]
    /\ UNCHANGED <<leds, unseen, written>>

\* The loop is dropped, with the write it may be waiting for.
LinkDrops(w) ==
    /\ link[w] # "down"
    /\ link' = [link EXCEPT ![w] = "down"]
    /\ written' = [written EXCEPT ![w] = NotSet]
    /\ UNCHANGED <<leds, unseen, lamp, told>>

\* rx.changed() returns the newest value, then write_leds begins.
Changed(w) ==
    /\ link[w] # "down" /\ written[w] = NotSet
    /\ unseen[w]
    /\ unseen' = [unseen EXCEPT ![w] = FALSE]
    /\ written' = [written EXCEPT ![w] = leds]
    /\ UNCHANGED <<leds, link, lamp, told>>

\* A peripheral without an LED report has nothing written to it, and a write
\* that fails is only logged.
Wrote(w, ok) ==
    /\ written[w] # NotSet
    /\ ok => link[w] = "keyboard"
    /\ lamp' = IF ok THEN [lamp EXCEPT ![w] = written[w]] ELSE lamp
    /\ told' = [told EXCEPT ![w] = ok]
    /\ written' = [written EXCEPT ![w] = NotSet]
    /\ UNCHANGED <<leds, unseen, link>>

LedsNext ==
    \/ \E byte \in SUBSET Bits : HostSets(byte)
    \/ \E w \in Workers :
          \/ LinkStarts(w, "keyboard") \/ LinkStarts(w, "other")
          \/ LinkDrops(w)
          \/ Changed(w)
          \/ Wrote(w, TRUE) \/ Wrote(w, FALSE)

LedsSpec == LedsInit /\ [][LedsNext]_ledsVars

----------------------------------------------------------------------------
(* Properties.                                                             *)

LedsTypeOK ==
    /\ leds \in KeyboardLeds \cup {NotSet}
    /\ unseen \in [Workers -> BOOLEAN]
    /\ link \in [Workers -> Link]
    /\ written \in [Workers -> KeyboardLeds \cup {NotSet}]
    /\ lamp \in [Workers -> KeyboardLeds]
    /\ told \in [Workers -> BOOLEAN]

AtRest(w) == link[w] = "keyboard" /\ written[w] = NotSet /\ ~unseen[w]

\* A keyboard that was told the LEDs on this link keeps up with them, however
\* changes and writes overlap: at rest it shows the host's newest state.
LampsKeepUp == \A w \in Workers : AtRest(w) /\ told[w] => lamp[w] = leds

\* A keyboard at rest shows the state the host set (README.md:421: "Mirror
\* the host's Caps / Num / Scroll Lock LEDs back onto the BLE keyboard"),
\* unless writing it failed.
LampsMirrorHost ==
    \A w \in Workers : AtRest(w) /\ leds # NotSet => lamp[w] = leds
=============================================================================
