-------------------------------- MODULE HidSpi --------------------------------
(***************************************************************************)
(* The life of one device bound to drivers/touch/hid-over-spi.c, from the  *)
(* first enable_irq() of hidspi_probe() to the release of its memory.      *)
(*                                                                         *)
(* Three threads share struct hidspi_device: the driver core, which runs   *)
(* probe, the power-management callbacks and remove one after another      *)
(* (pc); the threaded interrupt handler (ipc); and a user that opens and   *)
(* closes the HID device.  The touch controller and the interrupt line are *)
(* external: they are modelled from how the driver uses them.              *)
(*                                                                         *)
(* A message on the bus is known by its report type.  FIRST and REST are   *)
(* the two fragments of a long DATA report; FragReassembly models the      *)
(* reassembly itself.  REJECTED stands for every body the dispatcher logs  *)
(* and drops, COMMAND_RESPONSE included.                                   *)
(***************************************************************************)
EXTENDS Naturals, Sequences

CONSTANTS
    HasResetGpio,   \* the device tree gives a reset-gpios line
    EdgeTriggered,  \* IRQ_TYPE_EDGE_FALLING; otherwise a level interrupt
    SpiErrors,      \* an SPI transfer may fail
    AllocFails,     \* kmalloc, kmemdup and the HID core may fail
    Timeouts,       \* five seconds may pass before a response is handled
    QuickBoot,      \* the device is up before probe's first SPI write
    DescKinds,      \* device descriptors the device may return
    Spontaneous,    \* what the device does without being asked
    Unbinds,        \* the driver may be unbound
    MaxEvents,      \* bound: spontaneous device events
    MaxCycles,      \* bound: suspends, system and runtime together
    QueueMax        \* bound: reports the device queues before it waits

ASSUME FlagsAssumption ==
    /\ HasResetGpio \in BOOLEAN /\ EdgeTriggered \in BOOLEAN
    /\ SpiErrors \in BOOLEAN /\ AllocFails \in BOOLEAN
    /\ Timeouts \in BOOLEAN /\ QuickBoot \in BOOLEAN /\ Unbinds \in BOOLEAN

ASSUME BoundsAssumption ==
    /\ DescKinds \subseteq {"good", "bad"}
    /\ Spontaneous \subseteq {"RESET", "DATA", "FRAGMENTS", "REJECTED", "ANSWERS"}
    /\ MaxEvents \in Nat /\ MaxCycles \in Nat /\ QueueMax \in Nat

VARIABLES
    \* the driver core's thread
    pc,            \* next statement of probe, remove or a PM callback
    ret,           \* what probe is going to return
    rpm,           \* runtime PM status of the device
    cycles,        \* suspends so far
    \* the interrupt
    depth,         \* disable depth; the line is unmasked at 0
    latched,       \* an edge has been seen and not been served
    ipc,           \* next statement of hidspi_irq_thread()
    imsg,          \* the report in inbuf
    \* struct hidspi_device
    reset_done, desc_done, repdesc_done,   \* completion counts
    dev_desc, report_desc, frag_buf, frag_len, started, hid,
    \* the touch controller
    boot, power,
    inbox,         \* commands it has received and not answered
    dq,            \* reports it holds for the host, oldest first
    events         \* spontaneous events so far

core   == <<pc, ret, rpm, cycles>>
irq    == <<depth, latched, ipc, imsg>>
done   == <<reset_done, desc_done, repdesc_done>>
data   == <<dev_desc, report_desc, frag_buf, frag_len, started, hid>>
device == <<boot, power, inbox, dq, events>>
vars   == <<core, irq, done, data, device>>

Messages == {"RESET_RESPONSE", "good", "bad", "REPORT_DESCRIPTOR_RESPONSE",
             "DATA", "FIRST", "REST", "REJECTED"}

ProbePcs  == {"enable_irq", "reset", "gpio_1", "gpio_0", "wait_reset", "power_on",
              "dd_reinit", "dd_send", "dd_wait", "dd_check",
              "rd_reinit", "rd_send", "rd_wait", "rd_check",
              "hid_alloc", "hid_add", "err_destroy_hid", "err_free_report_desc",
              "err_disable_irq", "err_sync_irq"}
PmPcs     == {"suspend_irq", "suspend_sync", "suspend_power", "suspended", "resume_irq"}
RemovePcs == {"rm_disable_pm", "rm_destroy_hid", "rm_free_report_desc", "rm_free_frag_buf",
              "rm_null", "rm_release"}
Pcs == ProbePcs \cup PmPcs \cup RemovePcs \cup {"bound", "failed", "released"}

-------------------------------------------------------------------------------
(* The touch controller and its interrupt line. *)

\* A falling edge is seen once the interrupt has been started, masked or not.
Edge == EdgeTriggered /\ pc # "enable_irq"

Queue(ms) ==
    /\ dq' = dq \o ms
    /\ latched' = (latched \/ (Edge /\ dq = << >>))

Restart ==
    /\ inbox' = {}
    /\ dq' = << >>

\* The device comes up and reports it.
DevBoots ==
    /\ boot = "booting"
    /\ boot' = "up"
    /\ Queue(<<"RESET_RESPONSE">>)
    /\ UNCHANGED <<core, depth, ipc, imsg, done, data, power, inbox, events>>

DevAnswers ==
    /\ boot = "up"
    /\ \E c \in inbox :
        /\ inbox' = inbox \ {c}
        /\ \E m \in IF c = "DEVICE_DESCRIPTOR" THEN DescKinds
                    ELSE {"REPORT_DESCRIPTOR_RESPONSE"} : Queue(<<m>>)
    /\ UNCHANGED <<core, depth, ipc, imsg, done, data, boot, power, events>>

\* A touch, an odd report, a descriptor nobody asked for or that has been given
\* before, or a device-initiated reset that loses everything the device held.
DevSpontaneous ==
    /\ boot = "up"
    /\ events < MaxEvents
    /\ events' = events + 1
    /\ \/ /\ "RESET" \in Spontaneous
          /\ inbox' = {}
          /\ power' = "sleep"
          /\ dq' = <<"RESET_RESPONSE">>
          /\ latched' = (latched \/ Edge)
       \/ /\ Len(dq) < QueueMax
          /\ \/ "DATA" \in Spontaneous /\ power = "on" /\ Queue(<<"DATA">>)
             \/ "FRAGMENTS" \in Spontaneous /\ power = "on" /\ Queue(<<"FIRST", "REST">>)
             \/ "REJECTED" \in Spontaneous /\ Queue(<<"REJECTED">>)
             \/ /\ "ANSWERS" \in Spontaneous
                /\ \E m \in DescKinds \cup {"REPORT_DESCRIPTOR_RESPONSE"} : Queue(<<m>>)
          /\ UNCHANGED <<power, inbox>>
    /\ UNCHANGED <<core, depth, ipc, imsg, done, data, boot>>

Device == DevBoots \/ DevAnswers \/ DevSpontaneous

\* hidspi_write_output() of a command: a device that is not up does not see it.
Command(c) ==
    /\ inbox' = IF boot = "up" THEN inbox \cup {c} ELSE inbox
    /\ UNCHANGED <<boot, power, dq, events>>

\* One that failed may have reached the device all the same.
CommandFails(c) == SpiErrors /\ (Command(c) \/ UNCHANGED device)

\* hidspi_set_power(state); its result is ok.
SetPower(state, ok) ==
    /\ ok \in IF SpiErrors THEN BOOLEAN ELSE {TRUE}
    /\ \/ boot = "up" /\ power' = state
       \/ (boot # "up" \/ ~ok) /\ UNCHANGED power
    /\ UNCHANGED <<boot, inbox, dq, events>>

-------------------------------------------------------------------------------
Init ==
    /\ pc = "enable_irq" /\ ret = "none" /\ rpm = "disabled" /\ cycles = 0
    /\ depth = 1 /\ latched = FALSE      \* IRQF_NO_AUTOEN
    /\ ipc = "idle" /\ imsg = "REJECTED"
    /\ reset_done = 0 /\ desc_done = 0 /\ repdesc_done = 0
    /\ dev_desc = "none" /\ report_desc = "null" /\ hid = "none"
    /\ frag_buf = "null" /\ frag_len = 0 /\ started = FALSE
    /\ \/ boot = "booting" /\ dq = << >>
       \/ boot = "up" /\ dq \in {<< >>, <<"RESET_RESPONSE">>}
    /\ power \in {"on", "sleep"}
    /\ inbox = {} /\ events = 0

(* hidspi_irq_thread() *)

\* The line is served when it is unmasked and asserted (or latched).
IrqFires ==
    /\ ipc = "idle" /\ depth = 0 /\ pc # "released"
    /\ IF EdgeTriggered THEN latched ELSE dq # << >>
    /\ ipc' = "read"
    /\ latched' = FALSE
    /\ UNCHANGED <<core, depth, imsg, done, data, device>>

\* hidspi_read_input() takes one report and the device asserts the line again
\* for the next one.
IrqReads ==
    /\ ipc = "read" /\ dq # << >>
    /\ ipc' = "dispatch"
    /\ imsg' = Head(dq)
    /\ dq' = Tail(dq)
    /\ latched' = (latched \/ (EdgeTriggered /\ Tail(dq) # << >>))
    /\ UNCHANGED <<core, depth, done, data, boot, power, inbox, events>>

\* A transfer or the sync check fails: the handler returns.  The report is lost
\* or, when no byte of it was clocked out, stays where it is and the line low.
IrqReadFails ==
    /\ ipc = "read"
    /\ SpiErrors \/ dq = << >>
    /\ ipc' = "idle"
    /\ \/ UNCHANGED <<dq, latched>>
       \/ /\ dq # << >>
          /\ dq' = Tail(dq)
          /\ latched' = (latched \/ (EdgeTriggered /\ Tail(dq) # << >>))
    /\ UNCHANGED <<core, depth, imsg, done, data, boot, power, inbox, events>>

\* Cases of hidspi_handle_input_body() for a report in one fragment.
DispatchReset ==
    /\ imsg = "RESET_RESPONSE"
    /\ reset_done' = reset_done + 1
    /\ ipc' = "idle"
    /\ UNCHANGED <<desc_done, repdesc_done, data>>

\* Mutant: the waiter is woken before the descriptor is copied.
DispatchDescCompletesFirst ==
    /\ imsg \in {"good", "bad"}
    /\ desc_done' = desc_done + 1
    /\ dev_desc' = "torn"
    /\ ipc' = "dd_copy"
    /\ UNCHANGED <<reset_done, repdesc_done, report_desc, frag_buf, frag_len, started, hid>>

\* memcpy() to dev_desc begins, over nothing or over an earlier descriptor ...
DispatchDesc ==
    /\ imsg \in {"good", "bad"}
    /\ dev_desc' = IF dev_desc = "none" THEN "torn" ELSE "mixed"
    /\ ipc' = "dd_copy"
    /\ UNCHANGED <<done, report_desc, frag_buf, frag_len, started, hid>>

\* Mutant: a repeated descriptor replaces the one there is.
DispatchReportDescReplaces ==
    /\ imsg = "REPORT_DESCRIPTOR_RESPONSE"
    /\ \/ AllocFails /\ ipc' = "idle" /\ report_desc' = "null"
       \/ report_desc' = "live" /\ ipc' = "rd_complete"
    /\ UNCHANGED <<done, dev_desc, frag_buf, frag_len, started, hid>>

DispatchReportDesc ==
    /\ imsg = "REPORT_DESCRIPTOR_RESPONSE"
    /\ \/ /\ report_desc # "null" \/ AllocFails   \* duplicate, or no memory
          /\ ipc' = "idle"
          /\ UNCHANGED report_desc
       \/ /\ report_desc = "null"
          /\ report_desc' = "live"
          /\ ipc' = "rd_complete"
    /\ UNCHANGED <<done, dev_desc, frag_buf, frag_len, started, hid>>

DispatchData ==
    /\ imsg = "DATA"
    /\ ipc' = IF started THEN "forward" ELSE "idle"
    /\ UNCHANGED <<done, data>>

DispatchRejected ==
    /\ imsg \in {"REJECTED", "REST"}
    /\ ipc' = "idle"
    /\ UNCHANGED <<done, data>>

\* A first fragment allocates the accumulation buffer.
DispatchFirst ==
    /\ imsg = "FIRST"
    /\ \/ AllocFails /\ UNCHANGED <<frag_buf, frag_len>>
       \/ frag_buf' = "live" /\ frag_len' = 1
    /\ ipc' = "idle"
    /\ UNCHANGED <<done, dev_desc, report_desc, started, hid>>

\* A fragment met with frag_len # 0 is appended and, when it is the last, the
\* body is dispatched as DATA or, its lengths not adding up, dropped; one that
\* does not belong there may also overflow the expected length.
DispatchContinuation ==
    /\ \/ imsg # "REST" /\ frag_buf' = "null" /\ frag_len' = 0 /\ ipc' = "idle"
       \/ imsg = "FIRST" /\ ipc' = "idle" /\ UNCHANGED <<frag_buf, frag_len>>
       \/ /\ imsg # "FIRST"
          /\ ipc' \in {"frag_free"} \cup (IF started THEN {"forward"} ELSE {})
          /\ UNCHANGED <<frag_buf, frag_len>>
    /\ UNCHANGED <<done, dev_desc, report_desc, started, hid>>

IrqDispatches ==
    /\ ipc = "dispatch"
    /\ IF frag_len = 0
       THEN DispatchReset \/ DispatchDesc \/ DispatchReportDesc \/ DispatchData
            \/ DispatchRejected \/ DispatchFirst
       ELSE DispatchContinuation
    /\ UNCHANGED <<core, depth, latched, imsg, device>>

\* Mutant: the wrong completion is signalled.
IrqCompletesDescWrongly ==
    /\ ipc = "dd_copy"
    /\ dev_desc' = imsg
    /\ reset_done' = reset_done + 1
    /\ ipc' = "idle"
    /\ UNCHANGED <<core, depth, latched, imsg, desc_done, repdesc_done,
                   report_desc, frag_buf, frag_len, started, hid, device>>

\* ... memcpy() ends, and only then is the waiter woken.
IrqCompletesDesc ==
    /\ ipc = "dd_copy"
    /\ dev_desc' = imsg
    /\ desc_done' = desc_done + 1
    /\ ipc' = "idle"
    /\ UNCHANGED <<core, depth, latched, imsg, reset_done, repdesc_done,
                   report_desc, frag_buf, frag_len, started, hid, device>>

IrqCompletesReportDesc ==
    /\ ipc = "rd_complete"
    /\ repdesc_done' = repdesc_done + 1
    /\ ipc' = "idle"
    /\ UNCHANGED <<core, depth, latched, imsg, reset_done, desc_done, data, device>>

\* hid_input_report(hsdev->hid), some time after STARTED was tested.
IrqForwards ==
    /\ ipc = "forward"
    /\ ipc' = IF frag_len = 0 THEN "idle" ELSE "frag_free"
    /\ UNCHANGED <<core, depth, latched, imsg, done, data, device>>

\* Mutant: the buffer goes, its length stays.
IrqFreesFragmentsKeepsLen ==
    /\ ipc = "frag_free"
    /\ frag_buf' = "null"
    /\ ipc' = "idle"
    /\ UNCHANGED <<core, depth, latched, imsg, done, dev_desc, report_desc,
                   frag_len, started, hid, device>>

\* The reassembled report has been dispatched; its buffer is released.
IrqFreesFragments ==
    /\ ipc = "frag_free"
    /\ frag_buf' = "null" /\ frag_len' = 0
    /\ ipc' = "idle"
    /\ UNCHANGED <<core, depth, latched, imsg, done, dev_desc, report_desc,
                   started, hid, device>>

IrqThread == IrqFires \/ IrqReads \/ IrqReadFails \/ IrqDispatches
             \/ IrqCompletesDesc \/ IrqCompletesReportDesc
             \/ IrqForwards \/ IrqFreesFragments
-------------------------------------------------------------------------------
(* hidspi_probe(), from enable_irq() on.  What it does before changes no state *)
(* another thread can see.                                                     *)

At(l, m) == pc = l /\ pc' = m

Fail(err, m) == ret' = err /\ pc' = m

\* The line is started: an edge from before is gone (the pin controller clears
\* it), a level is still there.
EnableIrq ==
    /\ At("enable_irq", "reset")
    /\ depth' = depth - 1
    /\ UNCHANGED <<ret, rpm, cycles, latched, ipc, imsg, done, data, device>>

\* hidspi_reset_device() without a reset GPIO: msleep(100).
ResetSleeps ==
    /\ ~HasResetGpio
    /\ At("reset", "power_on")
    /\ QuickBoot => boot = "up"
    /\ UNCHANGED <<ret, rpm, cycles, irq, done, data, device>>

ResetReinit ==
    /\ HasResetGpio
    /\ At("reset", "gpio_1")
    /\ reset_done' = 0
    /\ UNCHANGED <<ret, rpm, cycles, irq, desc_done, repdesc_done, data, device>>

GpioAssert ==
    /\ At("gpio_1", "gpio_0")
    /\ boot' = "held"
    /\ power' = "sleep"
    /\ Restart
    /\ UNCHANGED <<ret, rpm, cycles, irq, done, data, events>>

GpioDeassert ==
    /\ At("gpio_0", "wait_reset")
    /\ boot' = "booting"
    /\ UNCHANGED <<ret, rpm, cycles, irq, done, data, power, inbox, dq, events>>

ResetWaitDone ==
    /\ At("wait_reset", "power_on")
    /\ reset_done > 0
    /\ reset_done' = reset_done - 1
    /\ UNCHANGED <<ret, rpm, cycles, irq, desc_done, repdesc_done, data, device>>

\* A timeout is only logged.
ResetWaitTimesOut ==
    /\ At("wait_reset", "power_on")
    /\ Timeouts /\ reset_done = 0
    /\ UNCHANGED <<ret, rpm, cycles, irq, done, data, device>>

\* So is a failed SET_POWER.
ProbePowersOn ==
    /\ At("power_on", "dd_reinit")
    /\ \E ok \in BOOLEAN : SetPower("on", ok)
    /\ UNCHANGED <<ret, rpm, cycles, irq, done, data>>

(* hidspi_fetch_device_descriptor() *)

DescReinit ==
    /\ At("dd_reinit", "dd_send")
    /\ desc_done' = 0
    /\ UNCHANGED <<ret, rpm, cycles, irq, reset_done, repdesc_done, data, device>>

DescSend ==
    /\ pc = "dd_send"
    /\ \/ pc' = "dd_wait" /\ Command("DEVICE_DESCRIPTOR") /\ UNCHANGED ret
       \/ Fail("EIO", "err_disable_irq") /\ CommandFails("DEVICE_DESCRIPTOR")
    /\ UNCHANGED <<rpm, cycles, irq, done, data>>

DescWaitDone ==
    /\ At("dd_wait", "dd_check")
    /\ desc_done > 0
    /\ desc_done' = desc_done - 1
    /\ UNCHANGED <<ret, rpm, cycles, irq, reset_done, repdesc_done, data, device>>

\* Mutant: the command is sent again and again.
DescWaitRetries ==
    /\ At("dd_wait", "dd_reinit")
    /\ Timeouts /\ desc_done = 0
    /\ UNCHANGED <<ret, rpm, cycles, irq, done, data, device>>

DescWaitTimesOut ==
    /\ pc = "dd_wait"
    /\ Timeouts /\ desc_done = 0
    /\ Fail("ETIMEDOUT", "err_disable_irq")
    /\ UNCHANGED <<rpm, cycles, irq, done, data, device>>

\* Mutant: the descriptor is used as it came.
DescUnchecked ==
    /\ At("dd_check", "rd_reinit")
    /\ UNCHANGED <<ret, rpm, cycles, irq, done, data, device>>

\* dev_desc_len and bcd_ver are validated; one that is being written may pass
\* or not.
DescCheck ==
    /\ pc = "dd_check"
    /\ \/ dev_desc \in {"good", "torn", "mixed"} /\ pc' = "rd_reinit" /\ UNCHANGED ret
       \/ dev_desc # "good" /\ Fail("ENODEV", "err_disable_irq")
    /\ UNCHANGED <<rpm, cycles, irq, done, data, device>>

(* hidspi_fetch_report_descriptor() *)

ReportDescReinit ==
    /\ At("rd_reinit", "rd_send")
    /\ repdesc_done' = 0
    /\ UNCHANGED <<ret, rpm, cycles, irq, reset_done, desc_done, data, device>>

ReportDescSend ==
    /\ pc = "rd_send"
    /\ \/ pc' = "rd_wait" /\ Command("REPORT_DESCRIPTOR") /\ UNCHANGED ret
       \/ Fail("EIO", "err_disable_irq") /\ CommandFails("REPORT_DESCRIPTOR")
    /\ UNCHANGED <<rpm, cycles, irq, done, data>>

ReportDescWaitDone ==
    /\ At("rd_wait", "rd_check")
    /\ repdesc_done > 0
    /\ repdesc_done' = repdesc_done - 1
    /\ UNCHANGED <<ret, rpm, cycles, irq, reset_done, desc_done, data, device>>

ReportDescWaitTimesOut ==
    /\ pc = "rd_wait"
    /\ Timeouts /\ repdesc_done = 0
    /\ Fail("ETIMEDOUT", "err_disable_irq")
    /\ UNCHANGED <<rpm, cycles, irq, done, data, device>>

ReportDescCheck ==
    /\ pc = "rd_check"
    /\ IF report_desc # "null"
       THEN pc' = "hid_alloc" /\ UNCHANGED ret
       ELSE Fail("ENOMEM", "err_disable_irq")
    /\ UNCHANGED <<rpm, cycles, irq, done, data, device>>

HidAllocate ==
    /\ pc = "hid_alloc"
    /\ \/ pc' = "hid_add" /\ hid' = "allocated" /\ UNCHANGED ret
       \/ AllocFails /\ Fail("ENOMEM", "err_free_report_desc") /\ UNCHANGED hid
    /\ UNCHANGED <<rpm, cycles, irq, done, dev_desc, report_desc, frag_buf, frag_len,
                   started, device>>

\* hid_add_device() parses the report descriptor; then runtime PM is set up.
HidAdd ==
    /\ pc = "hid_add"
    /\ \/ /\ report_desc # "null"
          /\ pc' = "bound" /\ ret' = "ok" /\ hid' = "added" /\ rpm' = "active"
       \/ /\ report_desc = "null" \/ AllocFails
          /\ Fail("EINVAL", "err_destroy_hid")
          /\ UNCHANGED <<hid, rpm>>
    /\ UNCHANGED <<cycles, irq, done, dev_desc, report_desc, frag_buf, frag_len,
                   started, device>>

\* Mutant: the error label jumps over the next one.
ErrDestroyHidSkipsFree ==
    /\ At("err_destroy_hid", "err_disable_irq")
    /\ hid' = "destroyed"
    /\ UNCHANGED <<ret, rpm, cycles, irq, done, dev_desc, report_desc, frag_buf,
                   frag_len, started, device>>

ErrDestroyHid ==
    /\ At("err_destroy_hid", "err_free_report_desc")
    /\ hid' = "destroyed"
    /\ UNCHANGED <<ret, rpm, cycles, irq, done, dev_desc, report_desc, frag_buf,
                   frag_len, started, device>>

ErrFreeReportDesc ==
    /\ At("err_free_report_desc", "err_disable_irq")
    /\ report_desc' = "null"
    /\ UNCHANGED <<ret, rpm, cycles, irq, done, dev_desc, frag_buf, frag_len,
                   started, hid, device>>

DisableIrq(l, m) ==
    /\ At(l, m)
    /\ depth' = depth + 1
    /\ UNCHANGED <<ret, rpm, cycles, latched, ipc, imsg, done, data, device>>

\* disable_irq() returns when the handler has returned.
SyncIrq(l, m) ==
    /\ At(l, m)
    /\ ipc = "idle"
    /\ UNCHANGED <<ret, rpm, cycles, irq, done, data, device>>

\* Mutant: the error path leaves the interrupt enabled.
ErrKeepsIrq ==
    /\ At("err_disable_irq", "err_sync_irq")
    /\ UNCHANGED <<ret, rpm, cycles, irq, done, data, device>>

ErrDisableIrq == DisableIrq("err_disable_irq", "err_sync_irq")
ErrSyncIrq    == SyncIrq("err_sync_irq", "failed")

Probe ==
    \/ EnableIrq \/ ResetSleeps \/ ResetReinit \/ GpioAssert \/ GpioDeassert
    \/ ResetWaitDone \/ ResetWaitTimesOut \/ ProbePowersOn
    \/ DescReinit \/ DescSend \/ DescWaitDone \/ DescWaitTimesOut \/ DescCheck
    \/ ReportDescReinit \/ ReportDescSend \/ ReportDescWaitDone
    \/ ReportDescWaitTimesOut \/ ReportDescCheck
    \/ HidAllocate \/ HidAdd
    \/ ErrDestroyHid \/ ErrFreeReportDesc \/ ErrDisableIrq \/ ErrSyncIrq
-------------------------------------------------------------------------------
(* The HID core's user. *)

\* hidspi_hid_open(): the HID core calls it for the first opener.
HidOpen ==
    /\ hid = "added" /\ ~started
    /\ pc \notin RemovePcs
    /\ started' = TRUE
    /\ UNCHANGED <<core, irq, done, dev_desc, report_desc, frag_buf, frag_len, hid, device>>

HidClose ==
    /\ hid = "added" /\ started
    /\ started' = FALSE
    /\ UNCHANGED <<core, irq, done, dev_desc, report_desc, frag_buf, frag_len, hid, device>>

-------------------------------------------------------------------------------
(* Power management.  hid_driver_suspend() may refuse a suspend before anything *)
(* has changed, which is no step here.                                          *)

SuspendStarts ==
    /\ At("bound", "suspend_irq")
    /\ cycles < MaxCycles
    /\ cycles' = cycles + 1
    /\ UNCHANGED <<ret, rpm, irq, done, data, device>>

\* Mutant: disable_irq_nosync().
SuspendDisablesIrqNosync == DisableIrq("suspend_irq", "suspend_power")

SuspendDisablesIrq == DisableIrq("suspend_irq", "suspend_sync")
SuspendSyncsIrq    == SyncIrq("suspend_sync", "suspend_power")

SuspendPowersOff ==
    /\ At("suspend_power", "suspended")
    /\ \E ok \in BOOLEAN : SetPower("sleep", ok)
    /\ UNCHANGED <<ret, rpm, cycles, irq, done, data>>

\* Mutant: resume forgets SET_POWER.
ResumeKeepsPower ==
    /\ At("suspended", "resume_irq")
    /\ UNCHANGED <<ret, rpm, cycles, irq, done, data, device>>

ResumePowersOn ==
    /\ At("suspended", "resume_irq")
    /\ \E ok \in BOOLEAN : SetPower("on", ok)
    /\ UNCHANGED <<ret, rpm, cycles, irq, done, data>>

\* Mutant: resume forgets enable_irq().
ResumeKeepsIrqOff ==
    /\ At("resume_irq", "bound")
    /\ UNCHANGED <<ret, rpm, cycles, irq, done, data, device>>

ResumeEnablesIrq ==
    /\ At("resume_irq", "bound")
    /\ depth' = depth - 1
    /\ UNCHANGED <<ret, rpm, cycles, latched, ipc, imsg, done, data, device>>

\* The autosuspend delay expires: no one ever takes a runtime PM reference.
RuntimeSuspend ==
    /\ pc = "bound" /\ rpm = "active"
    /\ cycles < MaxCycles
    /\ cycles' = cycles + 1
    /\ \E ok \in BOOLEAN :
        /\ SetPower("sleep", ok)
        /\ rpm' = IF ok THEN "suspended" ELSE "error"
    /\ UNCHANGED <<pc, ret, irq, done, data>>

PowerManagement ==
    \/ SuspendStarts \/ SuspendDisablesIrq \/ SuspendSyncsIrq \/ SuspendPowersOff
    \/ ResumePowersOn \/ ResumeEnablesIrq \/ RuntimeSuspend

-------------------------------------------------------------------------------
(* Unbinding: the driver core resumes the device, hidspi_remove() runs, then    *)
(* devres frees the interrupt, which waits for the handler, and struct          *)
(* hidspi_device.                                                               *)

Unbind ==
    /\ Unbinds
    /\ At("bound", "rm_disable_pm")
    /\ UNCHANGED <<ret, rpm, cycles, irq, done, data, device>>

RuntimeResume ==
    /\ pc = "rm_disable_pm" /\ rpm = "suspended"
    /\ \E ok \in BOOLEAN :
        /\ SetPower("on", ok)
        /\ rpm' = IF ok THEN "active" ELSE "error"
    /\ UNCHANGED <<pc, ret, cycles, irq, done, data>>

RemoveDisablesPm ==
    /\ At("rm_disable_pm", "rm_destroy_hid")
    /\ rpm # "suspended"
    /\ rpm' = "disabled"
    /\ UNCHANGED <<ret, cycles, irq, done, data, device>>

\* hid_destroy_device() closes an open device before it frees it.
RemoveDestroysHid ==
    /\ At("rm_destroy_hid", "rm_free_report_desc")
    /\ ~started
    /\ hid' = "destroyed"
    /\ UNCHANGED <<ret, rpm, cycles, irq, done, dev_desc, report_desc, frag_buf,
                   frag_len, started, device>>

Freed(p) == IF p = "live" THEN "freed" ELSE p

RemoveFreesReportDesc ==
    /\ At("rm_free_report_desc", "rm_free_frag_buf")
    /\ report_desc' = Freed(report_desc)
    /\ UNCHANGED <<ret, rpm, cycles, irq, done, dev_desc, frag_buf, frag_len,
                   started, hid, device>>

RemoveFreesFragBuf ==
    /\ At("rm_free_frag_buf", "rm_null")
    /\ frag_buf' = Freed(frag_buf)
    /\ UNCHANGED <<ret, rpm, cycles, irq, done, dev_desc, report_desc, frag_len,
                   started, hid, device>>

RemoveClearsPointers ==
    /\ At("rm_null", "rm_release")
    /\ report_desc' = "null" /\ frag_buf' = "null"
    /\ UNCHANGED <<ret, rpm, cycles, irq, done, dev_desc, frag_len, started, hid, device>>

DevresReleases == SyncIrq("rm_release", "released")

Remove ==
    \/ RuntimeResume \/ RemoveDisablesPm \/ RemoveDestroysHid
    \/ RemoveFreesReportDesc \/ RemoveFreesFragBuf \/ RemoveClearsPointers
    \/ DevresReleases

-------------------------------------------------------------------------------
Next ==
    \/ Device \/ IrqThread \/ Probe \/ PowerManagement \/ Unbind \/ Remove
    \/ HidOpen \/ HidClose

Spec == Init /\ [][Next]_vars

\* Threads that can run do run, and a transfer that is tried again and again
\* does not fail for ever.  Nobody has to suspend, unbind, open or close.
FairSpec ==
    /\ Spec
    /\ WF_vars(Probe) /\ WF_vars(Remove)
    /\ WF_vars(IrqThread) /\ SF_vars(IrqReads)
    /\ WF_vars(DevBoots) /\ WF_vars(DevAnswers)

-------------------------------------------------------------------------------
TypeOK ==
    /\ pc \in Pcs
    /\ ret \in {"none", "ok", "EIO", "ETIMEDOUT", "ENODEV", "ENOMEM", "EINVAL"}
    /\ rpm \in {"disabled", "active", "suspended", "error"}
    /\ cycles \in 0..MaxCycles
    /\ depth \in Nat /\ latched \in BOOLEAN
    /\ ipc \in {"idle", "read", "dispatch", "dd_copy", "rd_complete", "forward", "frag_free"}
    /\ imsg \in Messages
    /\ reset_done \in Nat /\ desc_done \in Nat /\ repdesc_done \in Nat
    /\ dev_desc \in {"none", "torn", "mixed", "good", "bad"}
    /\ report_desc \in {"null", "live", "freed"}
    /\ frag_buf \in {"null", "live", "freed"}
    /\ frag_len \in {0, 1}
    /\ started \in BOOLEAN
    /\ hid \in {"none", "allocated", "added", "destroyed"}
    /\ boot \in {"held", "booting", "up"} /\ power \in {"on", "sleep"}
    /\ inbox \subseteq {"DEVICE_DESCRIPTOR", "REPORT_DESCRIPTOR"}
    /\ dq \in Seq(Messages)
    /\ events \in 0..MaxEvents

\* enable_irq() and disable_irq() balance on every path: through the error
\* labels of probe, over suspend and resume, and for good when probe fails.
IrqDepthBalanced ==
    depth = IF pc \in {"enable_irq", "err_sync_irq", "failed", "suspend_sync",
                       "suspend_power", "suspended", "resume_irq"}
            THEN 1 ELSE 0

\* Once probe has failed, and while the device is suspended, no handler runs:
\* neither freed memory nor a sleeping bus is touched.  The same holds once an
\* unbound device's memory has been released.
HandlerQuiet ==
    pc \in {"failed", "suspend_power", "suspended", "resume_irq", "released"}
        => ipc = "idle"

\* A waiter that a completion wakes finds what it waited for, copied to its end,
\* whatever the device sends and however often: the descriptor is stored before
\* it is announced.
CompletionPublishes ==
    /\ desc_done > 0 \/ pc = "dd_check" => dev_desc \notin {"none", "torn"}
    /\ repdesc_done > 0 \/ pc = "rd_check" => report_desc = "live"

\* A HID device is made and used with a report descriptor that is there, and is
\* destroyed before that is freed, although answers that nobody asked for arrive
\* at any time.
RegisteredMeansFetched == hid \in {"allocated", "added"} => report_desc = "live"

\* From a device that answers when it is asked, and only then, the device
\* descriptor of a HID device is moreover the one that has been validated.
RegisteredMeansDescribed ==
    hid \in {"allocated", "added"} => dev_desc = "good" /\ report_desc = "live"

\* Up to the start of remove, the handler only forwards to a registered HID
\* device, and has an accumulation buffer just while something is accumulated:
\* none is used when it is gone, none is lost by allocating another.
HandlerTouchesLiveMemory ==
    pc \notin RemovePcs \cup {"released"} =>
        /\ ipc = "forward" => hid = "added"
        /\ frag_len > 0 <=> frag_buf = "live"

\* A probe that fails after it has taken the report descriptor gives it back.
\* One that is left behind then came, and was announced, after that.
FreesWhatItHad ==
    pc = "failed" /\ ret \in {"ENOMEM", "EINVAL"} /\ report_desc # "null"
        => repdesc_done > 0

\* "We start with the IRQ disabled so that the descriptor-fetch commands can
\* complete synchronously under irq_lock without racing the handler": the
\* descriptor is not written while it is validated.
WaiterAlone == pc = "dd_check" => ipc # "dd_copy"

\* "duplicate REPORT_DESCRIPTOR_RESPONSE ignored": when remove has freed the
\* report descriptor, a repeated response does not bring another.
DuplicatesIgnored == pc \in {"rm_release", "released"} => report_desc = "null"

\* Unless runtime PM put it to sleep, a bound device has been told to be on.
ActiveMeansOn == pc = "bound" /\ rpm = "active" => power = "on"

\* "Toggle the optional reset GPIO and wait for the device to respond with a
\* RESET_RESPONSE input report": after the wait the device has been reset.
WaitedForReset == HasResetGpio /\ pc = "power_on" => boot = "up"

\* "The device now sends DATA input reports (touch) and they are forwarded to
\* the HID core": a bound device someone has opened is on.
OpenMeansOn == pc = "bound" /\ started => power = "on"

\* Probe comes to an end, whatever the device does or does not do.
ProbeReturns == <>(pc \notin ProbePcs)

\* Probe of a device that answers ends with the device bound, or with ENODEV if what
\* it answers is not a descriptor the driver takes.
ProbeSucceeds == <>(ret = IF dev_desc = "bad" THEN "ENODEV" ELSE "ok")

\* What a bound device has to say is read, unless the device is suspended or
\* unbound first.
ReportsAreRead == (pc = "bound" /\ dq # << >>) ~> (pc # "bound" \/ dq = << >>)
===============================================================================
