-------------------------------- MODULE Xhci --------------------------------
(***************************************************************************)
(* The xHCI driver: enumeration of the devices found at boot, and the      *)
(* reports of mice and tablets afterwards.  The driver waits by emptying   *)
(* the event ring until somebody clears the flag it waits for or its       *)
(* patience ends; the controller works at its own pace, and what it does   *)
(* may fail.  A request is named by the port and the step it belongs to,   *)
(* which the hardware does not know: it is carried along to say whose      *)
(* answer an event is.                                                     *)
(*                                                                         *)
(* A control transfer takes three entries of EP0's ring at most, and a     *)
(* device is sent five of them: that ring of 256 never comes round, and is *)
(* a queue here.  The other rings do, and are kept with their cycle bits.  *)
(***************************************************************************)
EXTENDS Integers, Sequences, SequencesExt, FiniteSets, FiniteSetsExt

CONSTANTS NPorts,       \* ports with or without a device, and slots
          Kinds,        \* what may be plugged in
          CmdSize,      \* RING_SIZE of the command ring
          EvtSize,      \* RING_SIZE of the event ring
          XferSize,     \* RING_SIZE of an interrupt endpoint's ring
          MaxFaults,    \* bound on what goes wrong
          MaxSent,      \* bound on the reports sent
          MaxChanges    \* bound on port status changes

ASSUME XhciAssumption ==
    /\ NPorts \in Nat \ {0} /\ {MaxFaults, MaxSent, MaxChanges} \subseteq Nat
    \* Two entries beside the link, where there is one.
    /\ EvtSize \in Nat \ {0, 1} /\ {CmdSize, XferSize} \subseteq Nat \ {0, 1, 2}
    \* A ring of 256 has room for the answers that may come late, of which a device has five.
    /\ XferSize > MaxFaults + 1
    /\ Kinds \subseteq {"mouse", "tablet", "keyboard", "none"}

VARIABLES kind,      \* the device in each port
          step, port, slot,        \* where the enumeration is
          waiting,   \* "no", or the flag waited for: "command", "transfer", or "over"
          reply,     \* the last answer taken
          input,     \* the input context, one page for every command
          config,    \* configData, which is static
          page,      \* the DMA page of the control transfer that is waited for
          dev,       \* m_devices
          cmd, evt, xfer, ep0,     \* the rings
          hw,        \* the controller's view of each slot
          sent, got, \* reports sent by each slot, and the last one handed on
          faults, gaveUp, changes

xhci == <<kind, step, port, slot, waiting, reply, input, config, page, dev,
          cmd, evt, xfer, ep0, hw, sent, got, faults, gaveUp, changes>>

Ports == 1 .. NPorts
Slots == 1 .. NPorts
Pointers == {"mouse", "tablet"}
CommandSteps == {"enable", "address", "endpoint"}
Request == <<port, step>>

-----------------------------------------------------------------------------
(* Rings.  The producer writes with its cycle bit, the consumer knows an   *)
(* entry as new by comparing it with its own.                              *)

NoTrb == [cycle |-> FALSE, what |-> <<>>]
NewRing(size) == [trb |-> [i \in 0 .. size - 1 |-> NoTrb],
                  enq |-> 0, cycle |-> TRUE, deq |-> 0, ccs |-> TRUE]

Write(r, what) == [r EXCEPT !.trb[r.enq] = [cycle |-> r.cycle, what |-> what], !.enq = @ + 1]

\* The last entry is the link: it gets the cycle bit before that is toggled.
Wrapped_LateLink(r, size) ==
    IF r.enq < size - 1 THEN r
    ELSE [r EXCEPT !.trb[size - 1].cycle = ~r.cycle, !.enq = 0, !.cycle = ~@]
Wrapped(r, size) ==
    IF r.enq < size - 1 THEN r
    ELSE [r EXCEPT !.trb[size - 1].cycle = r.cycle, !.enq = 0, !.cycle = ~@]
Enqueue(r, size, what) == Wrapped(Write(r, what), size)

\* What the controller sees: it follows the link when that is new.
Followed(r, size) ==
    IF r.deq = size - 1 /\ r.trb[r.deq].cycle = r.ccs
    THEN [r EXCEPT !.deq = 0, !.ccs = ~@] ELSE r
Ready(r, size) == LET f == Followed(r, size)
                  IN  f.deq < size - 1 /\ f.trb[f.deq].cycle = f.ccs
Taken(r, size) == LET f == Followed(r, size)
                  IN  <<f.trb[f.deq].what, [f EXCEPT !.deq = @ + 1]>>

\* The event ring has no link: both ends go round by counting.
Room == (evt.enq + 1) % EvtSize # evt.deq
Post(event) ==
    /\ Room
    /\ evt' = LET w == Write(evt, event)
              IN  IF w.enq = EvtSize THEN [w EXCEPT !.enq = 0, !.cycle = ~@] ELSE w
NewEvent == evt.trb[evt.deq].cycle = evt.ccs
Advance_SameCycle(r) == [r EXCEPT !.deq = (@ + 1) % EvtSize]
Advance(r) ==
    IF r.deq + 1 >= EvtSize THEN [r EXCEPT !.deq = 0, !.ccs = ~@]
    ELSE [r EXCEPT !.deq = @ + 1]

-----------------------------------------------------------------------------
(* The start of the controller *)

XhciInit ==
    /\ kind \in [Ports -> Kinds]
    /\ step = "next" /\ port = 0 /\ slot = 0
    /\ waiting = "no" /\ reply = [ok |-> FALSE, slot |-> 0, of |-> <<>>]
    /\ input = [port |-> 0, ring |-> 0] /\ config = "zero" /\ page = "zero"
    /\ dev = <<>>
    /\ cmd = NewRing(CmdSize) /\ evt = NewRing(EvtSize)
    /\ xfer = [p \in Ports |-> NewRing(XferSize)]
    /\ ep0 = [s \in Slots |-> [ring |-> 0, used |-> FALSE, queue |-> <<>>]]
    /\ hw = [s \in Slots |-> [state |-> "off", port |-> 0, ep0 |-> 0, in |-> 0, stuck |-> {}]]
    /\ sent = [s \in Slots |-> 0] /\ got = [s \in Slots |-> 0]
    /\ faults = 0 /\ gaveUp = {} /\ changes = 0

hardware == <<hw, sent, changes>>
driver == <<step, port, slot, input, config, dev>>

-----------------------------------------------------------------------------
(* Enumeration *)

\* probeDevices: the next port with a device, or the end of initialize.  Nothing
\* enumerates inside of an enumeration, so m_portEnumerating never refuses.
Probe ==
    /\ step = "next" /\ waiting = "no"
    /\ LET rest == {p \in Ports : p > port /\ kind[p] # "none"}
       IN  IF rest = {} THEN step' = "running" /\ UNCHANGED port
           ELSE step' = "enable" /\ port' = Min(rest)
    /\ UNCHANGED <<kind, slot, waiting, reply, input, config, page, dev, cmd, evt, xfer, ep0,
                   hardware, got, faults, gaveUp>>

\* A command names the slot; what else it needs is in the input context.
Send(what) == cmd' = Enqueue(cmd, CmdSize, [what |-> what, slot |-> slot, of |-> Request])

IssueCommand ==
    /\ step \in CommandSteps /\ waiting = "no"
    /\ waiting' = "command"
    /\ Send(step)
    /\ \/ step = "enable" /\ UNCHANGED <<input, ep0>>
       \/ \* a new EP0 ring, but the place in it stays where the old one had it
          /\ step = "address"
          /\ input' = [port |-> port, ring |-> IF ep0[slot].used THEN 0 ELSE port]
          /\ ep0' = [ep0 EXCEPT ![slot].ring = input'.ring]
       \/ step = "endpoint" /\ input' = [port |-> hw[slot].port, ring |-> port] /\ UNCHANGED ep0
    /\ UNCHANGED <<kind, step, port, slot, reply, config, page, dev, evt, xfer,
                   hardware, got, faults, gaveUp>>

ControlTransfer ==
    /\ step \notin CommandSteps \cup {"next", "running"} /\ waiting = "no"
    /\ waiting' = "transfer"
    /\ ep0' = [ep0 EXCEPT ![slot].queue = Append(@, [ring |-> ep0[slot].ring, of |-> Request]),
                          ![slot].used = TRUE]
    /\ page' = "zero"
    /\ UNCHANGED <<kind, driver, reply, cmd, evt, xfer, hardware, got, faults, gaveUp>>

\* scheduleInterruptIn: clear the buffer, then one more entry for it.
Cleared(d, i) == IF d[i].ring = 0 THEN d ELSE [d EXCEPT ![i].buffer = 0]
Scheduled(d, i) ==
    IF d[i].ring = 0 THEN xfer ELSE [xfer EXCEPT ![d[i].ring] = Enqueue(@, XferSize, i)]

\* A new device.
NoEntry == [slot |-> slot, kind |-> "none", ring |-> 0, buffer |-> 0]

\* What the next step is, given that this one went well or not.
Identified(c) == IF c \in Pointers THEN c ELSE "none"
After(ok, c) ==
    CASE step = "enable" -> IF ok /\ reply.slot # 0 THEN "address" ELSE "next"
      [] step = "address" -> IF ok THEN "device" ELSE "next"
      [] step = "device" -> "config"
      [] step = "config" -> IF Identified(c) = "none" THEN "next"
                            ELSE IF c = "tablet" THEN "ranges" ELSE "setconfig"
      [] step = "ranges" -> "setconfig"
      [] step = "setconfig" -> "protocol"
      [] step = "protocol" -> "endpoint"
      [] OTHER -> "next"

\* The descriptor is copied whatever the answer said; a timeout copies nothing.
Copied(ok, answered) == IF answered THEN page ELSE config

\* configureEndpoint gives the ring to the first entry of the slot.
WithRing(ok) ==
    IF ok THEN [dev EXCEPT ![Min({i \in DOMAIN dev : dev[i].slot = slot})].ring = port] ELSE dev
Marked(d) == [d EXCEPT ![Len(d)].kind = Identified(config)]

Proceed(ok, answered) ==
    /\ config' = IF step = "config" THEN Copied(ok, answered) ELSE config
    /\ step' = After(ok, config')
    /\ slot' = IF step = "enable" THEN reply.slot ELSE slot
    /\ \/ step \notin {"config", "endpoint"} /\ UNCHANGED <<dev, xfer>>
       \/ step = "config" /\ dev' = Append(dev, NoEntry) /\ UNCHANGED xfer
       \/ LET d == Marked(WithRing(ok))
          IN  step = "endpoint" /\ dev' = Cleared(d, Len(d)) /\ xfer' = Scheduled(d, Len(d))
    /\ UNCHANGED <<kind, port, reply, input, page, cmd, evt, ep0, hardware, got>>

\* The wait ends with an empty event ring, with the flag cleared or not.
Done ==
    /\ waiting = "over" /\ ~NewEvent
    /\ waiting' = "no"
    /\ UNCHANGED <<faults, gaveUp>>
    /\ Proceed(reply.ok, TRUE)

Fault == faults < MaxFaults /\ faults' = faults + 1

\* Whether the controller looks at the ring that the driver writes to.
Served(s) == hw[s].state = "addressed" /\ hw[s].ep0 = ep0[s].ring /\ hw[s].ep0 # 0
                 /\ "ep0" \notin hw[s].stuck

Timeout ==
    /\ waiting \in {"command", "transfer"} /\ ~NewEvent
    /\ waiting' = "no"
    /\ gaveUp' = gaveUp \cup {waiting}
    /\ IF waiting = "transfer" /\ ~Served(slot) THEN UNCHANGED faults ELSE Fault
    /\ Proceed(FALSE, FALSE)

-----------------------------------------------------------------------------
(* processEvents, while waiting and from poll: one event of the loop *)

Answer(e) == [ok |-> e.ok, slot |-> IF e.type = "command" THEN e.slot ELSE reply.slot, of |-> e.of]

\* An answer that nobody waits for any more leaves its code and slot all the same.
HandleCommandComplete(e) ==
    /\ waiting' = IF waiting = "command" THEN "over" ELSE waiting
    /\ reply' = IF step \in CommandSteps THEN Answer(e) ELSE [reply EXCEPT !.slot = e.slot]
    /\ UNCHANGED <<dev, xfer, got>>

\* Anything else from a slot is taken for a report of its pointer: it is
\* handed on from the buffer, which is then cleared for the next one.
Report_ClearedFirst(e) ==
    LET mine == {i \in DOMAIN dev : dev[i].slot = e.slot /\ dev[i].kind \in Pointers}
    IN  \/ mine = {} /\ UNCHANGED <<dev, xfer, got>>
        \/ /\ mine # {}
           /\ got' = IF e.ok THEN [got EXCEPT ![e.slot] = 0] ELSE got
           /\ dev' = Cleared(dev, Min(mine)) /\ xfer' = Scheduled(dev, Min(mine))
Report(e) ==
    LET mine == {i \in DOMAIN dev : dev[i].slot = e.slot /\ dev[i].kind \in Pointers}
        i == Min(mine)
    IN  \/ mine = {} /\ UNCHANGED <<dev, xfer, got>>
        \/ /\ mine # {}
           /\ got' = IF e.ok THEN [got EXCEPT ![e.slot] = dev[i].buffer] ELSE got
           /\ dev' = Cleared(dev, i) /\ xfer' = Scheduled(dev, i)

HandleTransferEvent(e) ==
    \/ /\ e.ep = "ep0" /\ waiting = "transfer"
       /\ waiting' = "over" /\ reply' = Answer(e) /\ UNCHANGED <<dev, xfer, got>>
    \/ ~(e.ep = "ep0" /\ waiting = "transfer") /\ Report(e) /\ UNCHANGED <<waiting, reply>>

\* The change bits are cleared; nothing is enumerated from here.
HandlePortStatusChange == UNCHANGED <<waiting, reply, dev, xfer, got>>

ProcessEvent ==
    /\ waiting # "no" \/ step = "running"
    /\ NewEvent
    /\ LET e == evt.trb[evt.deq].what
       IN  \/ e.type = "command" /\ HandleCommandComplete(e)
           \/ e.type = "transfer" /\ HandleTransferEvent(e)
           \/ e.type = "port" /\ HandlePortStatusChange
    /\ evt' = Advance(evt)
    /\ UNCHANGED <<kind, step, port, slot, input, config, page, cmd, ep0, hardware, faults, gaveUp>>

-----------------------------------------------------------------------------
(* The controller and the devices *)

\* One command.  Enable hands out a slot that is off; the other two read the input context.
Legal(c) ==
    \/ c.what = "enable" /\ \E s \in Slots : hw[s].state = "off"
    \/ c.what = "address" /\ hw[c.slot].state = "enabled"
    \/ c.what = "endpoint" /\ hw[c.slot].state = "addressed"

HwCommand ==
    /\ Ready(cmd, CmdSize)
    /\ cmd' = Taken(cmd, CmdSize)[2]
    /\ LET c == Taken(cmd, CmdSize)[1]
           s == IF c.what = "enable" THEN Min({t \in Slots : hw[t].state = "off"} \cup {NPorts + 1})
                ELSE c.slot
           Ok(b, t) == Post([type |-> "command", ok |-> b, slot |-> t, of |-> c.of])
       IN  \/ /\ Legal(c) /\ Ok(TRUE, s)
              /\ hw' = [hw EXCEPT ![s] =
                     CASE c.what = "enable" -> [@ EXCEPT !.state = "enabled"]
                       [] c.what = "address" ->
                            [@ EXCEPT !.state = "addressed", !.port = input.port, !.ep0 = input.ring]
                       [] OTHER -> [@ EXCEPT !.in = input.ring]]
              /\ UNCHANGED faults
           \/ /\ ~Legal(c) /\ Ok(FALSE, IF c.what = "enable" THEN 0 ELSE s)
              /\ UNCHANGED <<hw, faults>>
           \/ /\ Legal(c) /\ Ok(FALSE, IF c.what = "enable" THEN 0 ELSE s)
              /\ Fault /\ UNCHANGED hw
    /\ UNCHANGED <<kind, driver, waiting, reply, page, xfer, ep0, sent, got, gaveUp, changes>>

\* One control transfer of the ring that the controller was given; a stall stops EP0.
HwControl(s, ok) ==
    /\ hw[s].state = "addressed" /\ "ep0" \notin hw[s].stuck
    /\ ep0[s].queue # <<>> /\ Head(ep0[s].queue).ring = hw[s].ep0 /\ hw[s].ep0 # 0
    /\ IF ok THEN UNCHANGED faults ELSE Fault
    /\ LET r == Head(ep0[s].queue).of
       IN  /\ Post([type |-> "transfer", ep |-> "ep0", ok |-> ok, slot |-> s, of |-> r])
           /\ page' = IF ok /\ r = Request /\ step = "config" THEN kind[hw[s].port] ELSE page
    /\ ep0' = [ep0 EXCEPT ![s].queue = Tail(@)]
    /\ hw' = IF ok THEN hw ELSE [hw EXCEPT ![s].stuck = @ \cup {"ep0"}]
    /\ UNCHANGED <<kind, driver, waiting, reply, cmd, xfer, sent, got, gaveUp, changes>>

\* One report into the buffer the entry names, numbered; an error stops the endpoint.
HwReport(s, ok) ==
    /\ hw[s].in # 0 /\ "in" \notin hw[s].stuck /\ Ready(xfer[hw[s].in], XferSize)
    /\ FoldFunction(+, 0, sent) < MaxSent
    /\ IF ok THEN UNCHANGED faults ELSE Fault
    /\ LET t == Taken(xfer[hw[s].in], XferSize)
       IN  /\ Post([type |-> "transfer", ep |-> "in", ok |-> ok, slot |-> s, of |-> <<>>])
           /\ xfer' = [xfer EXCEPT ![hw[s].in] = t[2]]
           /\ dev' = IF ok THEN [dev EXCEPT ![t[1]].buffer = sent[s] + 1] ELSE dev
    /\ sent' = IF ok THEN [sent EXCEPT ![s] = @ + 1] ELSE sent
    /\ hw' = IF ok THEN hw ELSE [hw EXCEPT ![s].stuck = @ \cup {"in"}]
    /\ UNCHANGED <<kind, step, port, slot, input, config, waiting, reply, page, cmd, ep0,
                   got, gaveUp, changes>>

HwPortChange ==
    /\ changes < MaxChanges /\ changes' = changes + 1
    /\ Post([type |-> "port"])
    /\ UNCHANGED <<kind, driver, waiting, reply, page, cmd, xfer, ep0, hw, sent, got, faults, gaveUp>>

XhciNext ==
    \/ Probe \/ IssueCommand \/ ControlTransfer \/ Done \/ Timeout \/ ProcessEvent
    \/ HwCommand \/ HwPortChange
    \/ \E s \in Slots, ok \in BOOLEAN : HwControl(s, ok) \/ HwReport(s, ok)

XhciSpec == XhciInit /\ [][XhciNext]_xhci

-----------------------------------------------------------------------------
(* Properties *)

Pending == {i \in 0 .. EvtSize - 1 :
               LET d == (i + EvtSize - evt.deq) % EvtSize
                   n == (evt.enq + EvtSize - evt.deq) % EvtSize
               IN  d < n}
Reports(s, oks) == {i \in Pending : /\ evt.trb[i].what.type = "transfer"
                                    /\ evt.trb[i].what.ep = "in"
                                    /\ evt.trb[i].what.slot = s /\ evt.trb[i].what.ok \in oks}

\* An event is matched with a request by its type alone.  As long as no wait
\* was given up, it is nevertheless the answer to the request that waits.
AnswersMatch == waiting = "over" /\ gaveUp = {} => reply.of = Request

\* The one buffer of a device holds the report of the event that is still to
\* be handled, so every report is handed on, once and in order; unless a
\* control transfer was given up, of any device: its late answer takes the
\* place of another one, and the one that is left over is taken for a report.
Undisturbed == "transfer" \notin gaveUp
ReportsArrive ==
    Undisturbed =>
        \A s \in Slots : got[s] + Cardinality(Reports(s, {TRUE})) = sent[s]

\* A pointer that has a ring is never forgotten: the controller sees an entry
\* to fill or its event is to be handled; undisturbed there is one in all.
\* It holds as long as no command was given up: the answers that come late may
\* give a slot to two devices, and the ring to the one that is not scheduled.
Outstanding(r) == IF Ready(r, XferSize) THEN 1 ELSE 0
NeverSilent ==
    \A i \in DOMAIN dev : dev[i].kind \in Pointers /\ dev[i].ring # 0 /\ "command" \notin gaveUp =>
        LET n == Outstanding(xfer[dev[i].ring]) + Cardinality(Reports(dev[i].slot, BOOLEAN))
        IN  n >= 1 /\ (Undisturbed => n = 1)

=============================================================================
