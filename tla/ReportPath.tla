----------------------------- MODULE ReportPath -----------------------------
(***************************************************************************)
(* The way of a HID report from a BLE peripheral to the USB host.          *)
(*                                                                         *)
(*   peripheral --notification--> coalescer[w] --drain[w]--> reports       *)
(*                                    (HID_REPORT_CHANNEL) --writer--> host *)
(*                                                                         *)
(* Each slot worker runs a notification loop of its own while its link is  *)
(* up (src/src/ble/hid_client.rs): a synchronous GATT callback pushes into *)
(* a coalescer and a drain future sends what it pops.  One USB task writes *)
(* what it receives (src/src/usb/hid_device.rs).  A step is what a future  *)
(* does between two awaits.                                                *)
(*                                                                         *)
(* Keyboard and consumer reports carry the whole state of the device, here *)
(* one of States; mouse reports carry a button state and a displacement.   *)
(* The four axes are treated alike and one stands for them.  from is       *)
(* history: the worker a report came through, which no code looks at.      *)
(***************************************************************************)
EXTENDS Integers, Sequences

CONSTANTS
    Workers,       \* the connection slots
    Emits,         \* Emits[w]: the kinds of report the peripheral of w sends
    States,        \* states of a keyboard, a consumer control, the buttons
    Released,      \* the state with nothing pressed
    Unknown,       \* no state was notified on this link
    Deltas,        \* displacements a peripheral sends
    DeltaMin,      \* the range of i8
    DeltaMax,
    REPORT_CAP     \* capacity of HID_REPORT_CHANNEL (16)

ASSUME StatesAssumption ==
    Released \in States /\ Unknown \notin States /\ Unknown \notin Workers
ASSUME DeltasAssumption ==
    /\ DeltaMin \in Int /\ DeltaMax \in Int
    /\ DeltaMin <= 0 /\ 0 <= DeltaMax
    /\ Deltas \subseteq DeltaMin .. DeltaMax
ASSUME EmitsAssumption == Emits \in [Workers -> SUBSET {"keyboard", "mouse", "consumer"}]
ASSUME ReportCapAssumption == REPORT_CAP \in Nat \ {0}

VARIABLES
    link,        \* link[w]: w is in run_notification_loop
    device,      \* device[w][e]: the last state notified on w's current or last link
    coalescer,   \* coalescer[w], local to the notification loop
    drain,       \* drain[w]: where drain_fut is, and the report it is sending
    wake,        \* wake[w]: the Signal from the callback to drain_fut
    reports,     \* HID_REPORT_CHANNEL
    writing,     \* the report hid_writer_task is writing
    bus,         \* the USB device is configured
    host,        \* host[e]: the state the host believes in, and whose it was
    owed         \* history: owed[w]: how far the mouse of w has moved beyond
                 \* what the host was sent

vars == <<link, device, coalescer, drain, wake, reports, writing, bus, host, owed>>

----------------------------------------------------------------------------
(* Reports and the coalescer.                                              *)

Endpoint == {"keyboard", "mouse", "consumer"}

\* The endpoints whose reports replace one another.
Absolute == {"keyboard", "consumer"}

\* The order in which pop looks at them.
Turn(i) == <<"keyboard", "mouse", "consumer">>[(i % 3) + 1]

NoReport == [kind |-> "none"]

Report ==
    [kind : Absolute, from : Workers, state : States]
      \cup [kind : {"mouse"}, from : Workers, state : States, delta : DeltaMin .. DeltaMax]

saturating_add(a, b) ==
    IF a + b > DeltaMax THEN DeltaMax ELSE IF a + b < DeltaMin THEN DeltaMin ELSE a + b

\* Mutant: motion is replaced like a state.
LatestMotion(older, newer) == newer

merged_with(older, newer) ==
    [newer EXCEPT !.delta = saturating_add(older.delta, newer.delta)]

\* The displacement of w's mouse in a report, and their sum over a sequence.
Displacement(r, w) == IF r.kind = "mouse" /\ r.from = w THEN r.delta ELSE 0

Travel(q, w) ==
    LET sum[i \in 0 .. Len(q)] == IF i = 0 THEN 0 ELSE sum[i - 1] + Displacement(q[i], w)
    IN  sum[Len(q)]

EmptyCoalescer == [pending |-> [e \in Endpoint |-> NoReport], next |-> 0]

HasPending(c) == \E e \in Endpoint : c.pending[e] # NoReport

\* Mutant: a report that finds another one pending is dropped.
KeepsOlder(c, r) ==
    [c EXCEPT !.pending[r.kind] =
        IF @ = NoReport THEN r ELSE IF r.kind = "mouse" THEN merged_with(@, r) ELSE @]

\* A newer state replaces an unsent one; displacements add up.
push(c, r) ==
    [c EXCEPT !.pending[r.kind] =
        IF r.kind = "mouse" /\ @ # NoReport THEN merged_with(@, r) ELSE r]

\* How many empty endpoints pop passes before it finds a report.
Passed(c) ==
    CHOOSE d \in 0 .. 2 :
        /\ c.pending[Turn(c.next + d)] # NoReport
        /\ \A p \in 0 .. d - 1 : c.pending[Turn(c.next + p)] = NoReport

Popped(c) == Turn(c.next + Passed(c))

\* Mutant: every pop begins with the keyboard.
FixedOrder(c) == [pending |-> [c.pending EXCEPT ![Popped(c)] = NoReport], next |-> 0]

pop(c) == [pending |-> [c.pending EXCEPT ![Popped(c)] = NoReport],
           next |-> (c.next + Passed(c) + 1) % 3]

----------------------------------------------------------------------------
AtPop  == [pc |-> "pop", report |-> NoReport]
AtWait == [pc |-> "wait", report |-> NoReport]
AtSend(r) == [pc |-> "send", report |-> r]

Silent == [e \in Endpoint |-> Unknown]

NothingHeld == [e \in Endpoint |-> [from |-> Unknown, state |-> Released]]

Init ==
    /\ link = [w \in Workers |-> FALSE]
    /\ device = [w \in Workers |-> Silent]
    /\ coalescer = [w \in Workers |-> EmptyCoalescer]
    /\ drain = [w \in Workers |-> AtPop]
    /\ wake = [w \in Workers |-> FALSE]
    /\ reports = <<>>
    /\ writing = NoReport
    /\ bus = TRUE
    /\ host = NothingHeld
    /\ owed = [w \in Workers |-> 0]

usbVars == <<reports, writing, bus, host>>

\* The displacement of w's mouse that has not reached the channel.
OnLink(w) ==
    Displacement(drain[w].report, w) + Displacement(coalescer[w].pending["mouse"], w)

\* run_notification_loop starts with a coalescer and a signal of its own.
LinkStarts(w) ==
    /\ ~link[w]
    /\ link' = [link EXCEPT ![w] = TRUE]
    /\ device' = [device EXCEPT ![w] = Silent]
    /\ UNCHANGED <<coalescer, drain, wake, usbVars, owed>>

\* The link closes or a command supersedes the loop: select drops the other
\* futures, and with them the coalescer and the report being sent, which
\* nobody is owed any more.
LinkEnds(w) ==
    /\ link[w]
    /\ link' = [link EXCEPT ![w] = FALSE]
    /\ coalescer' = [coalescer EXCEPT ![w] = EmptyCoalescer]
    /\ drain' = [drain EXCEPT ![w] = AtPop]
    /\ wake' = [wake EXCEPT ![w] = FALSE]
    /\ owed' = [owed EXCEPT ![w] = @ - OnLink(w)]
    /\ UNCHANGED <<device, usbVars>>

\* The GATT callback: a notification that parses is pushed; it never blocks.
Notified(w, r) ==
    /\ link[w] /\ r.from = w
    /\ device' = [device EXCEPT ![w][r.kind] = r.state]
    /\ coalescer' = [coalescer EXCEPT ![w] = push(@, r)]
    /\ wake' = [wake EXCEPT ![w] = TRUE]
    /\ UNCHANGED <<link, drain, usbVars>>

\* A peripheral reports a change of state, or a displacement.
StateChanges(w, e, s) ==
    /\ e \in Emits[w] \cap Absolute /\ s # device[w][e]
    /\ Notified(w, [kind |-> e, from |-> w, state |-> s])
    /\ UNCHANGED owed

\* What a sum of displacements loses by saturating is not owed.
MouseMoves(w, s, d) ==
    /\ "mouse" \in Emits[w]
    /\ Notified(w, [kind |-> "mouse", from |-> w, state |-> s, delta |-> d])
    /\ LET waiting == Displacement(coalescer[w].pending["mouse"], w)
       IN  owed' = [owed EXCEPT ![w] = @ + (saturating_add(waiting, d) - waiting)]

Notifies(w) ==
    \/ \E e \in Absolute, s \in States : StateChanges(w, e, s)
    \/ \E s \in States, d \in Deltas : MouseMoves(w, s, d)

Pops(w) ==
    /\ link[w] /\ drain[w].pc = "pop"
    /\ HasPending(coalescer[w])
    /\ drain' = [drain EXCEPT ![w] = AtSend(coalescer[w].pending[Popped(coalescer[w])])]
    /\ coalescer' = [coalescer EXCEPT ![w] = pop(@)]
    /\ UNCHANGED <<link, device, wake, usbVars, owed>>

FindsNothing(w) ==
    /\ link[w] /\ drain[w].pc = "pop"
    /\ ~HasPending(coalescer[w])
    /\ drain' = [drain EXCEPT ![w] = AtWait]
    /\ UNCHANGED <<link, device, coalescer, wake, usbVars, owed>>

Wakes(w) ==
    /\ link[w] /\ drain[w].pc = "wait"
    /\ wake[w]
    /\ wake' = [wake EXCEPT ![w] = FALSE]
    /\ drain' = [drain EXCEPT ![w] = AtPop]
    /\ UNCHANGED <<link, device, coalescer, usbVars, owed>>

\* Mutant: a report that finds the channel full is dropped.
DropsWhenFull(w) ==
    /\ link[w] /\ drain[w].pc = "send"
    /\ reports' = IF Len(reports) < REPORT_CAP THEN Append(reports, drain[w].report)
                    ELSE reports
    /\ drain' = [drain EXCEPT ![w] = AtPop]
    /\ UNCHANGED <<link, device, coalescer, wake, writing, bus, host, owed>>

\* Mutant: after a send the loop waits for the signal instead of popping again.
SleepsAfterSend(w) ==
    /\ link[w] /\ drain[w].pc = "send"
    /\ Len(reports) < REPORT_CAP
    /\ reports' = Append(reports, drain[w].report)
    /\ drain' = [drain EXCEPT ![w] = AtWait]
    /\ UNCHANGED <<link, device, coalescer, wake, writing, bus, host, owed>>

\* send().await: waits for room in the channel.
Sends(w) ==
    /\ link[w] /\ drain[w].pc = "send"
    /\ Len(reports) < REPORT_CAP
    /\ reports' = Append(reports, drain[w].report)
    /\ drain' = [drain EXCEPT ![w] = AtPop]
    /\ UNCHANGED <<link, device, coalescer, wake, writing, bus, host, owed>>

Drains(w) == Pops(w) \/ FindsNothing(w) \/ Wakes(w) \/ Sends(w)

WriterTakes ==
    /\ writing = NoReport /\ reports # <<>>
    /\ writing' = Head(reports)
    /\ reports' = Tail(reports)
    /\ UNCHANGED <<link, device, coalescer, drain, wake, bus, host, owed>>

\* write().await: the host polls the endpoint, or the device is not
\* configured, which is only logged.
WriterWrites ==
    /\ writing # NoReport
    /\ writing' = NoReport
    /\ host' = IF bus
                 THEN [host EXCEPT ![writing.kind] =
                          [from |-> writing.from, state |-> writing.state]]
                 ELSE host
    /\ owed' = IF writing.kind = "mouse"
                 THEN [owed EXCEPT ![writing.from] = @ - writing.delta] ELSE owed
    /\ UNCHANGED <<link, device, coalescer, drain, wake, reports, bus>>

\* The cable is pulled or the host resets the bus: it forgets what was held.
BusDrops ==
    /\ bus
    /\ bus' = FALSE
    /\ host' = NothingHeld
    /\ UNCHANGED <<link, device, coalescer, drain, wake, reports, writing, owed>>

BusReturns ==
    /\ ~bus
    /\ bus' = TRUE
    /\ UNCHANGED <<link, device, coalescer, drain, wake, reports, writing, host, owed>>

Next ==
    \/ \E w \in Workers : LinkStarts(w) \/ LinkEnds(w) \/ Notifies(w) \/ Drains(w)
    \/ WriterTakes \/ WriterWrites
    \/ BusDrops \/ BusReturns

Spec == Init /\ [][Next]_vars

\* Every future that can run runs, and the host keeps polling; nothing is
\* assumed of the peripherals, the links or the cable.
PathFairness ==
    /\ \A w \in Workers : WF_vars(Drains(w))
    /\ WF_vars(WriterTakes)
    /\ WF_vars(WriterWrites)

FairSpec == Spec /\ PathFairness

----------------------------------------------------------------------------
(* Properties.                                                             *)

\* The way of a report of w at endpoint e, from the host back to the callback,
\* and the places on it that hold one.
Pipeline(w, e) == <<writing>> \o reports \o <<drain[w].report, coalescer[w].pending[e]>>

UnderWay(w, e) ==
    {i \in DOMAIN Pipeline(w, e) : Pipeline(w, e)[i].kind = e /\ Pipeline(w, e)[i].from = w}

TypeOK ==
    /\ link \in [Workers -> BOOLEAN]
    /\ device \in [Workers -> [Endpoint -> States \cup {Unknown}]]
    /\ coalescer \in [Workers -> [pending : [Endpoint -> Report \cup {NoReport}], next : 0 .. 2]]
    /\ drain \in [Workers -> [pc : {"pop", "wait", "send"}, report : Report \cup {NoReport}]]
    /\ \A w \in Workers :
          /\ \A e \in Endpoint : coalescer[w].pending[e] # NoReport =>
                coalescer[w].pending[e].kind = e /\ coalescer[w].pending[e].from = w
          /\ IF drain[w].pc = "send" THEN drain[w].report # NoReport /\ drain[w].report.from = w
                                     ELSE drain[w].report = NoReport
    /\ wake \in [Workers -> BOOLEAN]
    /\ reports \in Seq(Report) /\ Len(reports) <= REPORT_CAP
    /\ writing \in Report \cup {NoReport}
    /\ bus \in BOOLEAN
    /\ host \in [Endpoint -> [from : Workers \cup {Unknown}, state : States]]
    /\ owed \in [Workers -> Int]

\* While a link is up, the newest state its peripheral notified is the last
\* of its reports under way or, with none under way, what the host believes
\* (coalesce.rs:16-22: only intermediate states are dropped, never the
\* resting state), whatever is merged, queued or held back by the host.
RestingStateIsLast ==
    \A w \in Workers, e \in Endpoint :
        link[w] /\ device[w][e] # Unknown =>
            IF UnderWay(w, e) = {}
              THEN host[e].from = w => host[e].state = device[w][e]
              ELSE \E i \in UnderWay(w, e) :
                      /\ \A j \in UnderWay(w, e) : j <= i
                      /\ Pipeline(w, e)[i].state = device[w][e]

\* A drain future never sleeps on a report: whenever it waits with something
\* pending, the signal that wakes it is set.
NoLostWakeup ==
    \A w \in Workers : drain[w].pc = "wait" /\ HasPending(coalescer[w]) => wake[w]

\* Whatever is merged, sent, dropped with a link or written, the displacements
\* under way add up to what the mouse moved and the host was not sent
\* (coalesce.rs:23-25: "coalescing preserves total travel").
TravelIsPreserved ==
    \A w \in Workers : Displacement(writing, w) + Travel(reports, w) + OnLink(w) = owed[w]

\* An endpoint that is always busy starves no other (coalesce.rs:47-48): a
\* pending report is sent, however many notifications arrive meanwhile.
EndpointsTakeTurns ==
    \A w \in Workers, e \in Endpoint :
        coalescer[w].pending[e] # NoReport ~> coalescer[w].pending[e] = NoReport

\* The state a peripheral comes to rest in is what the host comes to believe,
\* while the link and the cable stay and no other peripheral has the endpoint.
RestingStateArrives ==
    \A w \in Workers, e \in Endpoint, s \in States :
        /\ [](bus /\ \A v \in Workers \ {w} : device[v][e] = Unknown)
        /\ <>[](link[w] /\ device[w][e] = s)
        => <>[](host[e].state = s)

\* A key that was released is not held by the host once none of its
\* peripheral's reports are under way (coalesce.rs:18-22: "a release is never
\* lost", "a key can never be left stuck").
KeysNeverStick ==
    \A w \in Workers, e \in Absolute :
        device[w][e] = Released /\ UnderWay(w, e) = {} /\ host[e].from = w
            => host[e].state = Released

\* Displacements sent to the host are within the logical range of the report
\* descriptor, which is symmetric (mouse.rs:11: "signed, -127..127").
WithinLogicalRange ==
    writing.kind = "mouse" => writing.delta \in -DeltaMax .. DeltaMax
=============================================================================
