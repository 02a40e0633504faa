----------------------------- MODULE HidSpiProofs -----------------------------
(***************************************************************************)
(* Proofs about HidSpi, for every device, every combination of failures    *)
(* and any number of events and suspends.                                  *)
(***************************************************************************)
EXTENDS HidSpi, TLAPS

\* Only a device descriptor is copied to dev_desc.
CopyInv == ipc = "dd_copy" => imsg \in {"good", "bad"}

\* Where probe and remove make, add and destroy the HID device, which is open
\* only while it is there.
HidInv ==
    /\ hid = "added" => pc \in {"bound", "rm_disable_pm", "rm_destroy_hid"} \cup PmPcs
    /\ started => hid = "added"

\* The device says nothing of itself but what the run allows, and answers what it
\* has been asked.
AnswersWhenAsked == "ANSWERS" \notin Spontaneous

\* Where the report descriptor has been taken, and where it has been freed
Fetched == {"rd_check", "hid_alloc", "hid_add", "err_destroy_hid", "err_free_report_desc",
            "bound", "rm_disable_pm", "rm_destroy_hid", "rm_free_report_desc"} \cup PmPcs
Freeing == {"rm_free_frag_buf", "rm_null"}
Exits == {"err_disable_irq", "err_sync_irq", "failed"}

\* What has been announced has been stored, for any device: a descriptor is torn
\* only under the first copy, which nothing announces before its end, and from
\* when the report descriptor has been allocated until it is freed there is no
\* second one, neither stored nor announced.
FetchInv ==
    /\ dev_desc = "torn" => ipc = "dd_copy"
    /\ desc_done > 0 \/ pc = "dd_check" => dev_desc \notin {"none", "torn"}
    /\ ipc = "rd_complete" \/ repdesc_done > 0 => report_desc = "live"
    /\ repdesc_done > 0 => repdesc_done = 1 /\ ipc # "rd_complete"
    /\ pc \in Fetched \cup Freeing => repdesc_done = 0 /\ ipc # "rd_complete"
    /\ pc \in Fetched => report_desc = "live"
    /\ pc \in Freeing => report_desc # "null"
    /\ pc \in Exits /\ ret \in {"ENOMEM", "EINVAL"} =>
          report_desc = "null" \/ repdesc_done > 0 \/ ipc = "rd_complete"

\* A HID device has been allocated where both descriptors have been taken.
RegisteredInv ==
    hid \in {"allocated", "added"} =>
        pc \in {"hid_add", "err_destroy_hid", "bound", "rm_disable_pm", "rm_destroy_hid"}
               \cup PmPcs

\* Probe asks for the device descriptor once, so that a device that answers when
\* asked gives no second one: it is still to be given, or queued, or in the
\* handler's hands.
DescKind == {"good", "bad"}
RepKind == {"REPORT_DESCRIPTOR_RESPONSE"}
Queued(kind) == {i \in DOMAIN dq : dq[i] \in kind}
Handled(kind, copying) == ipc = copying \/ (ipc = "dispatch" /\ imsg \in kind)

NoneLeft(command, kind, copying) ==
    command \notin inbox /\ Queued(kind) = {} /\ ~Handled(kind, copying)
OneAnswer(command, kind, copying) ==
    /\ \A i, j \in Queued(kind) : i = j
    /\ command \in inbox => Queued(kind) = {} /\ ~Handled(kind, copying)
    /\ Handled(kind, copying) => Queued(kind) = {}

NoDescLeft == NoneLeft("DEVICE_DESCRIPTOR", DescKind, "dd_copy")

\* Where probe has not asked yet, and where it has taken the answer
BeforeDesc == {"enable_irq", "reset", "gpio_1", "gpio_0", "wait_reset", "power_on",
               "dd_reinit", "dd_send"}
AfterDesc == {"dd_check", "rd_reinit", "rd_send", "rd_wait", "rd_check", "hid_alloc", "hid_add",
              "err_destroy_hid", "err_free_report_desc", "bound"} \cup PmPcs \cup RemovePcs

\* The descriptor that has been announced is the one that came.
DescInv ==
    /\ OneAnswer("DEVICE_DESCRIPTOR", DescKind, "dd_copy")
    /\ pc \in BeforeDesc \cup AfterDesc => NoDescLeft /\ desc_done = 0
    /\ desc_done > 0 => desc_done = 1 /\ NoDescLeft
    /\ \A i \in Queued(DescKind) : dq[i] \in DescKinds
    /\ Handled(DescKind, "dd_copy") => imsg \in DescKinds
    /\ desc_done > 0 \/ pc \in AfterDesc => dev_desc \in DescKinds
    /\ pc \in AfterDesc \ {"dd_check"} => dev_desc = "good"

\* A device that is up when SET_POWER is first sent, whose transfers do not fail
\* and that does not reset itself, is on from then on, but where power management
\* has put it to sleep.
CalmDevice == QuickBoot /\ ~HasResetGpio /\ ~SpiErrors /\ "RESET" \notin Spontaneous
PowerInv ==
    /\ pc \notin {"gpio_1", "gpio_0", "wait_reset"}
    /\ pc \notin {"enable_irq", "reset"} => boot = "up"
    /\ pc \in {"dd_reinit", "dd_send", "dd_wait", "dd_check", "rd_reinit", "rd_send",
              "rd_wait", "rd_check", "hid_alloc", "hid_add", "resume_irq"} => power = "on"
    /\ pc \in {"bound", "suspend_irq", "suspend_sync", "suspend_power"} /\ rpm = "active"
        => power = "on"

\* The invariant of the theorems below.
TypeInv == TypeOK /\ IrqDepthBalanced /\ CopyInv
SafeInv == TypeInv /\ HandlerQuiet /\ HidInv /\ HandlerTouchesLiveMemory

-------------------------------------------------------------------------------
\* Probe keeps the types, and takes back what it has enabled.
LEMMA ProbeType == TypeOK /\ IrqDepthBalanced /\ Probe => TypeOK' /\ IrqDepthBalanced'
<1> SUFFICES ASSUME TypeOK, IrqDepthBalanced, Probe
             PROVE  TypeOK' /\ IrqDepthBalanced'
  OBVIOUS
<1>1. TypeOK /\ IrqDepthBalanced
  OBVIOUS
<1> USE FlagsAssumption, BoundsAssumption
    DEF TypeOK, IrqDepthBalanced, At, core, irq, done, data, device, Pcs, ProbePcs, PmPcs, RemovePcs
<1>2. CASE EnableIrq
  BY <1>1, <1>2 DEF EnableIrq
<1>3. CASE ResetSleeps
  BY <1>1, <1>3 DEF ResetSleeps
<1>4. CASE ResetReinit
  BY <1>1, <1>4 DEF ResetReinit
<1>5. CASE GpioAssert
  BY <1>1, <1>5 DEF GpioAssert, Restart
<1>6. CASE GpioDeassert
  BY <1>1, <1>6 DEF GpioDeassert
<1>7. CASE ResetWaitDone
  BY <1>1, <1>7 DEF ResetWaitDone
<1>8. CASE ResetWaitTimesOut
  BY <1>1, <1>8 DEF ResetWaitTimesOut
<1>9. CASE ProbePowersOn
  BY <1>1, <1>9 DEF ProbePowersOn, SetPower
<1>10. CASE DescReinit
  BY <1>1, <1>10 DEF DescReinit
<1>11. CASE DescSend
  <2>1. /\ inbox' \subseteq {"DEVICE_DESCRIPTOR", "REPORT_DESCRIPTOR"}
        /\ UNCHANGED <<boot, power, dq, events>>
    BY <1>1, <1>11 DEF DescSend, Command, CommandFails, Fail, device
  <2>2. /\ pc' \in Pcs /\ pc' \in {"dd_wait", "rd_wait", "err_disable_irq"}
        /\ ret' \in {"none", "ok", "EIO", "ETIMEDOUT", "ENODEV", "ENOMEM", "EINVAL"}
        /\ pc \in {"dd_send", "rd_send"} /\ UNCHANGED <<rpm, cycles, irq, done, data>>
    BY <1>1, <1>11 DEF DescSend, Fail
  <2>3. QED
    BY <1>1, <2>1, <2>2
<1>12. CASE DescWaitDone
  BY <1>1, <1>12 DEF DescWaitDone
<1>13. CASE DescWaitTimesOut
  BY <1>1, <1>13 DEF DescWaitTimesOut, Fail
<1>14. CASE DescCheck
  BY <1>1, <1>14 DEF DescCheck, Fail
<1>15. CASE ReportDescReinit
  BY <1>1, <1>15 DEF ReportDescReinit
<1>16. CASE ReportDescSend
  <2>1. /\ inbox' \subseteq {"DEVICE_DESCRIPTOR", "REPORT_DESCRIPTOR"}
        /\ UNCHANGED <<boot, power, dq, events>>
    BY <1>1, <1>16 DEF ReportDescSend, Command, CommandFails, Fail, device
  <2>2. /\ pc' \in Pcs /\ pc' \in {"dd_wait", "rd_wait", "err_disable_irq"}
        /\ ret' \in {"none", "ok", "EIO", "ETIMEDOUT", "ENODEV", "ENOMEM", "EINVAL"}
        /\ pc \in {"dd_send", "rd_send"} /\ UNCHANGED <<rpm, cycles, irq, done, data>>
    BY <1>1, <1>16 DEF ReportDescSend, Fail
  <2>3. QED
    BY <1>1, <2>1, <2>2
<1>17. CASE ReportDescWaitDone
  BY <1>1, <1>17 DEF ReportDescWaitDone
<1>18. CASE ReportDescWaitTimesOut
  BY <1>1, <1>18 DEF ReportDescWaitTimesOut, Fail
<1>19. CASE ReportDescCheck
  BY <1>1, <1>19 DEF ReportDescCheck, Fail
<1>20. CASE HidAllocate
  BY <1>1, <1>20 DEF HidAllocate, Fail
<1>21. CASE HidAdd
  BY <1>1, <1>21 DEF HidAdd, Fail
<1>22. CASE ErrDestroyHid
  BY <1>1, <1>22 DEF ErrDestroyHid
<1>23. CASE ErrFreeReportDesc
  BY <1>1, <1>23 DEF ErrFreeReportDesc
<1>24. CASE ErrDisableIrq
  BY <1>1, <1>24 DEF ErrDisableIrq, DisableIrq
<1>25. CASE ErrSyncIrq
  BY <1>1, <1>25 DEF ErrSyncIrq, SyncIrq
<1>26. QED
  BY <1>2, <1>3, <1>4, <1>5, <1>6, <1>7, <1>8, <1>9, <1>10, <1>11, <1>12, <1>13, <1>14, <1>15, <1>16, <1>17, <1>18, <1>19, <1>20, <1>21, <1>22, <1>23, <1>24, <1>25 DEF Probe

\* So do suspend and resume ...
LEMMA PmType == TypeOK /\ IrqDepthBalanced /\ PowerManagement => TypeOK' /\ IrqDepthBalanced'
<1> SUFFICES ASSUME TypeOK, IrqDepthBalanced, PowerManagement
             PROVE  TypeOK' /\ IrqDepthBalanced'
  OBVIOUS
<1>1. TypeOK /\ IrqDepthBalanced
  OBVIOUS
<1> USE FlagsAssumption, BoundsAssumption
    DEF TypeOK, IrqDepthBalanced, At, core, irq, done, data, device, Pcs, ProbePcs, PmPcs, RemovePcs
<1>2. CASE SuspendStarts
  BY <1>1, <1>2 DEF SuspendStarts
<1>3. CASE SuspendDisablesIrq
  BY <1>1, <1>3 DEF SuspendDisablesIrq, DisableIrq
<1>4. CASE SuspendSyncsIrq
  BY <1>1, <1>4 DEF SuspendSyncsIrq, SyncIrq
<1>5. CASE SuspendPowersOff
  BY <1>1, <1>5 DEF SuspendPowersOff, SetPower
<1>6. CASE ResumePowersOn
  BY <1>1, <1>6 DEF ResumePowersOn, SetPower
<1>7. CASE ResumeEnablesIrq
  BY <1>1, <1>7 DEF ResumeEnablesIrq
<1>8. CASE RuntimeSuspend
  BY <1>1, <1>8 DEF RuntimeSuspend, SetPower
<1>9. QED
  BY <1>2, <1>3, <1>4, <1>5, <1>6, <1>7, <1>8 DEF PowerManagement

\* ... and remove, which leaves the interrupt enabled.
LEMMA RemoveType == TypeOK /\ IrqDepthBalanced /\ Remove => TypeOK' /\ IrqDepthBalanced'
<1> SUFFICES ASSUME TypeOK, IrqDepthBalanced, Remove
             PROVE  TypeOK' /\ IrqDepthBalanced'
  OBVIOUS
<1>1. TypeOK /\ IrqDepthBalanced
  OBVIOUS
<1> USE FlagsAssumption, BoundsAssumption
    DEF TypeOK, IrqDepthBalanced, At, core, irq, done, data, device, Pcs, ProbePcs, PmPcs, RemovePcs
<1>2. CASE RuntimeResume
  BY <1>1, <1>2 DEF RuntimeResume, SetPower
<1>3. CASE RemoveDisablesPm
  BY <1>1, <1>3 DEF RemoveDisablesPm
<1>4. CASE RemoveDestroysHid
  BY <1>1, <1>4 DEF RemoveDestroysHid
<1>5. CASE RemoveFreesReportDesc
  BY <1>1, <1>5 DEF RemoveFreesReportDesc, Freed
<1>6. CASE RemoveFreesFragBuf
  BY <1>1, <1>6 DEF RemoveFreesFragBuf, Freed
<1>7. CASE RemoveClearsPointers
  BY <1>1, <1>7 DEF RemoveClearsPointers
<1>8. CASE DevresReleases
  BY <1>1, <1>8 DEF DevresReleases, SyncIrq
<1>9. QED
  BY <1>2, <1>3, <1>4, <1>5, <1>6, <1>7, <1>8 DEF Remove

\* The handler touches none of what the driver core's thread is at.
LEMMA IrqType == TypeOK /\ CopyInv /\ IrqThread => TypeOK' /\ CopyInv' /\ UNCHANGED <<core, depth>>
<1> SUFFICES ASSUME TypeOK, CopyInv, IrqThread
             PROVE  TypeOK' /\ CopyInv' /\ UNCHANGED <<core, depth>>
  OBVIOUS
<1>1. TypeOK /\ CopyInv
  OBVIOUS
<1> USE DEF TypeOK, CopyInv, core, irq, done, data, device
<1>2. CASE IrqFires
  <2>1. ipc' = "read" /\ UNCHANGED <<core, depth, imsg, done, data, device>>
    BY <1>2 DEF IrqFires
  <2>2. latched' \in BOOLEAN
    BY <1>2 DEF IrqFires
  <2>3. QED
    BY <1>1, <2>1, <2>2
<1>3. dq # << >> => Head(dq) \in Messages /\ Tail(dq) \in Seq(Messages)
  BY <1>1
<1>4. CASE IrqReads
  <2>1. /\ dq' \in Seq(Messages) /\ imsg' \in Messages
        /\ ipc' = "dispatch"
    BY <1>3, <1>4 DEF IrqReads
  <2>2. latched' \in BOOLEAN
    BY <1>4 DEF IrqReads
  <2>3. UNCHANGED <<core, depth, done, data, boot, power, inbox, events>>
    BY <1>4 DEF IrqReads
  <2>4. QED
    BY <1>1, <2>1, <2>2, <2>3
<1>5. CASE IrqReadFails
  <2>1. dq' \in Seq(Messages) /\ ipc' = "idle"
    BY <1>1, <1>3, <1>5 DEF IrqReadFails
  <2>2. latched' \in BOOLEAN
    BY <1>1, <1>5 DEF IrqReadFails
  <2>3. UNCHANGED <<core, depth, imsg, done, data, boot, power, inbox, events>>
    BY <1>5 DEF IrqReadFails
  <2>4. QED
    BY <1>1, <2>1, <2>2, <2>3
<1>6. CASE IrqDispatches
  <2>1. CASE DispatchReset
    BY <1>1, <1>6, <2>1 DEF IrqDispatches, DispatchReset
  <2>2. CASE DispatchDesc
    BY <1>1, <1>6, <2>2 DEF IrqDispatches, DispatchDesc
  <2>3. CASE DispatchReportDesc
    BY <1>1, <1>6, <2>3 DEF IrqDispatches, DispatchReportDesc
  <2>4. CASE DispatchData \/ DispatchRejected
    BY <1>1, <1>6, <2>4 DEF IrqDispatches, DispatchData, DispatchRejected
  <2>5. CASE DispatchFirst
    BY <1>1, <1>6, <2>5 DEF IrqDispatches, DispatchFirst
  <2>6. CASE DispatchContinuation
    BY <1>1, <1>6, <2>6 DEF IrqDispatches, DispatchContinuation
  <2>7. QED
    BY <1>6, <2>1, <2>2, <2>3, <2>4, <2>5, <2>6 DEF IrqDispatches
<1>7. CASE IrqCompletesDesc
  <2>1. imsg \in {"good", "bad"}
    BY <1>1, <1>7 DEF IrqCompletesDesc, CopyInv
  <2>2. QED
    BY <1>1, <1>7, <2>1 DEF IrqCompletesDesc
<1>8. CASE IrqCompletesReportDesc
  BY <1>1, <1>8 DEF IrqCompletesReportDesc
<1>9. CASE IrqForwards
  BY <1>1, <1>9 DEF IrqForwards
<1>10. CASE IrqFreesFragments
  BY <1>1, <1>10 DEF IrqFreesFragments
<1>11. QED
  BY <1>2, <1>4, <1>5, <1>6, <1>7, <1>8, <1>9, <1>10 DEF IrqThread

\* Neither does the touch controller.
LEMMA DeviceType == TypeOK /\ Device => TypeOK' /\ UNCHANGED <<core, depth, ipc, data>>
<1> SUFFICES ASSUME TypeOK, Device
             PROVE  TypeOK' /\ UNCHANGED <<core, depth, ipc, data>>
  OBVIOUS
<1>1. TypeOK /\ dq \in Seq(Messages)
  BY DEF TypeOK
<1>2. ASSUME NEW m \in Messages, NEW n \in Messages
      PROVE  dq \o <<m>> \in Seq(Messages) /\ dq \o <<m, n>> \in Seq(Messages)
  BY <1>1
<1>3. ASSUME NEW m \in Messages, Queue(<<m>>)
      PROVE  dq' \in Seq(Messages) /\ latched' \in BOOLEAN
  <2>1. dq' \in Seq(Messages)
    BY <1>2, <1>3 DEF Queue
  <2>2. latched' \in BOOLEAN
    BY <1>3 DEF Queue
  <2>3. QED
    BY <2>1, <2>2
<1>4. ASSUME Queue(<<"FIRST", "REST">>)
      PROVE  dq' \in Seq(Messages) /\ latched' \in BOOLEAN
  <2>1. dq' \in Seq(Messages)
    BY <1>2, <1>4 DEF Queue, Messages
  <2>2. latched' \in BOOLEAN
    BY <1>4 DEF Queue
  <2>3. QED
    BY <2>1, <2>2
<1>5. CASE DevBoots
  <2>1. dq' \in Seq(Messages) /\ latched' \in BOOLEAN
    BY <1>3, <1>5 DEF DevBoots, Messages
  <2>2. QED
    BY <1>1, <1>5, <2>1 DEF DevBoots, TypeOK, core, done, data
<1>6. CASE DevAnswers
  <2>1. PICK c \in inbox :
          /\ inbox' = inbox \ {c}
          /\ \E m \in IF c = "DEVICE_DESCRIPTOR" THEN DescKinds
                      ELSE {"REPORT_DESCRIPTOR_RESPONSE"} : Queue(<<m>>)
    BY <1>6 DEF DevAnswers
  <2>2. PICK m \in Messages : Queue(<<m>>)
    BY <2>1, BoundsAssumption DEF Messages
  <2>3. dq' \in Seq(Messages) /\ latched' \in BOOLEAN
    BY <1>3, <2>2
  <2>4. UNCHANGED <<core, depth, ipc, imsg, done, data, boot, power, events>>
    BY <1>6 DEF DevAnswers
  <2>5. QED
    BY <1>1, <2>1, <2>3, <2>4 DEF TypeOK, core, done, data
<1>7. CASE DevSpontaneous
  <2>1. dq' \in Seq(Messages) /\ latched' \in BOOLEAN
    <3>1. CASE dq' = <<"RESET_RESPONSE">> /\ latched' = (latched \/ Edge)
      BY <3>1 DEF Messages
    <3>2. CASE Queue(<<"DATA">>) \/ Queue(<<"REJECTED">>)
      BY <1>3, <3>2 DEF Messages
    <3>3. ASSUME NEW m \in DescKinds \cup {"REPORT_DESCRIPTOR_RESPONSE"}, Queue(<<m>>)
          PROVE  dq' \in Seq(Messages) /\ latched' \in BOOLEAN
      <4>1. m \in Messages
        BY BoundsAssumption DEF Messages
      <4>2. QED
        BY <1>3, <3>3, <4>1
    <3>4. QED
      BY <1>4, <1>7, <3>1, <3>2, <3>3 DEF DevSpontaneous
  <2>2. /\ inbox' \subseteq inbox /\ power' \in {"on", "sleep"} /\ events' \in 0..MaxEvents
        /\ UNCHANGED <<core, depth, ipc, imsg, done, data, boot>>
    BY <1>1, <1>7, BoundsAssumption DEF DevSpontaneous, TypeOK
  <2>3. QED
    BY <1>1, <2>1, <2>2 DEF TypeOK, core, done, data
<1>8. QED
  BY <1>5, <1>6, <1>7 DEF Device

\* Every step keeps the types and the balance of enable_irq() and disable_irq().
LEMMA TypeStep == TypeInv /\ [Next]_vars => TypeInv'
<1> SUFFICES ASSUME TypeOK, IrqDepthBalanced, CopyInv, [Next]_vars
             PROVE  TypeOK' /\ IrqDepthBalanced' /\ CopyInv'
  BY DEF TypeInv
<1>1. CASE Probe \/ PowerManagement \/ Remove \/ Unbind
  <2>1. UNCHANGED <<ipc, imsg>>
    BY <1>1 DEF Probe, PowerManagement, Remove, Unbind, irq,
      EnableIrq, ResetSleeps, ResetReinit, GpioAssert, GpioDeassert, ResetWaitDone,
      ResetWaitTimesOut, ProbePowersOn, DescReinit, DescSend, DescWaitDone, DescWaitTimesOut,
      DescCheck, ReportDescReinit, ReportDescSend, ReportDescWaitDone, ReportDescWaitTimesOut,
      ReportDescCheck, HidAllocate, HidAdd, ErrDestroyHid, ErrFreeReportDesc, ErrDisableIrq,
      ErrSyncIrq, SuspendStarts, SuspendDisablesIrq, SuspendSyncsIrq, SuspendPowersOff,
      ResumePowersOn, ResumeEnablesIrq, RuntimeSuspend, RuntimeResume, RemoveDisablesPm,
      RemoveDestroysHid, RemoveFreesReportDesc, RemoveFreesFragBuf, RemoveClearsPointers,
      DevresReleases, DisableIrq, SyncIrq
  <2>2. CopyInv'
    BY <2>1 DEF CopyInv
  <2>3. ASSUME Unbind
        PROVE  TypeOK' /\ IrqDepthBalanced'
    BY <2>3 DEF Unbind, At, TypeOK, IrqDepthBalanced, core, irq, done, data, device, Pcs, RemovePcs
  <2>4. CASE Probe
    BY <2>2, <2>4, ProbeType
  <2>5. CASE PowerManagement
    BY <2>2, <2>5, PmType
  <2>6. CASE Remove
    BY <2>2, <2>6, RemoveType
  <2>7. QED
    BY <1>1, <2>2, <2>3, <2>4, <2>5, <2>6
<1>2. CASE IrqThread
  BY <1>2, IrqType DEF IrqDepthBalanced, core
<1>3. CASE Device
  <2>1. TypeOK' /\ UNCHANGED <<core, depth, ipc>>
    BY <1>3, DeviceType
  <2>2. UNCHANGED imsg
    BY <1>3 DEF Device, DevBoots, DevAnswers, DevSpontaneous
  <2>3. QED
    BY <2>1, <2>2 DEF IrqDepthBalanced, CopyInv, core
<1>4. CASE HidOpen \/ HidClose
  <2>1. /\ UNCHANGED <<core, irq, done, dev_desc, report_desc, frag_buf, frag_len, hid, device>>
        /\ started' \in BOOLEAN
    BY <1>4 DEF HidOpen, HidClose
  <2>2. QED
    BY <2>1 DEF TypeOK, IrqDepthBalanced, CopyInv, core, irq, done, device
<1>5. CASE UNCHANGED vars
  BY <1>5 DEF vars, TypeOK, IrqDepthBalanced, CopyInv, core, irq, done, data, device
<1>6. QED
  BY <1>1, <1>2, <1>3, <1>4, <1>5 DEF Next

\* No handler starts where the line is masked, and disable_irq() has waited for
\* the one that ran.
LEMMA QuietStep == SafeInv /\ [Next]_vars => HandlerQuiet'
<1> SUFFICES ASSUME SafeInv, [Next]_vars
             PROVE  HandlerQuiet'
  OBVIOUS
<1>1. TypeOK /\ IrqDepthBalanced /\ HandlerQuiet
  BY DEF SafeInv, TypeInv
<1> USE DEF HandlerQuiet, At, irq
<1>2. CASE Probe
  <2>1. UNCHANGED ipc
    BY <1>2 DEF Probe, EnableIrq, ResetSleeps, ResetReinit, GpioAssert, GpioDeassert,
      ResetWaitDone, ResetWaitTimesOut, ProbePowersOn, DescReinit, DescSend, DescWaitDone,
      DescWaitTimesOut, DescCheck, ReportDescReinit, ReportDescSend, ReportDescWaitDone,
      ReportDescWaitTimesOut, ReportDescCheck, HidAllocate, HidAdd, ErrDestroyHid,
      ErrFreeReportDesc, ErrDisableIrq, ErrSyncIrq, DisableIrq, SyncIrq
  <2>2. \/ pc' \notin {"failed", "suspend_power", "suspended", "resume_irq", "released"}
        \/ ErrSyncIrq
    BY <1>2 DEF Probe, EnableIrq, ResetSleeps, ResetReinit, GpioAssert, GpioDeassert,
      ResetWaitDone, ResetWaitTimesOut, ProbePowersOn, DescReinit, DescSend, DescWaitDone,
      DescWaitTimesOut, DescCheck, ReportDescReinit, ReportDescSend, ReportDescWaitDone,
      ReportDescWaitTimesOut, ReportDescCheck, HidAllocate, HidAdd, ErrDestroyHid,
      ErrFreeReportDesc, ErrDisableIrq, DisableIrq, Fail
  <2>3. QED
    BY <2>1, <2>2 DEF ErrSyncIrq, SyncIrq
<1>3. CASE PowerManagement
  BY <1>1, <1>3 DEF PowerManagement, SuspendStarts, SuspendDisablesIrq, SuspendSyncsIrq,
    SuspendPowersOff, ResumePowersOn, ResumeEnablesIrq, RuntimeSuspend, DisableIrq, SyncIrq
<1>4. CASE Remove \/ Unbind
  BY <1>1, <1>4 DEF Remove, Unbind, RuntimeResume, RemoveDisablesPm, RemoveDestroysHid,
    RemoveFreesReportDesc, RemoveFreesFragBuf, RemoveClearsPointers, DevresReleases, SyncIrq
<1>5. CASE IrqThread
  <2>1. UNCHANGED pc
    BY <1>1, <1>5, IrqType DEF core, SafeInv, TypeInv
  <2>2. ipc # "idle" \/ IrqFires
    BY <1>5 DEF IrqThread, IrqReads, IrqReadFails, IrqDispatches, IrqCompletesDesc,
                IrqCompletesReportDesc, IrqForwards, IrqFreesFragments
  <2>3. ASSUME IrqFires
        PROVE  pc \notin {"failed", "suspend_power", "suspended", "resume_irq", "released"}
    BY <1>1, <2>3 DEF IrqFires, IrqDepthBalanced
  <2>4. QED
    BY <1>1, <2>1, <2>2, <2>3
<1>6. CASE Device
  BY <1>1, <1>6, DeviceType DEF core
<1>7. CASE HidOpen \/ HidClose \/ UNCHANGED vars
  BY <1>1, <1>7 DEF HidOpen, HidClose, vars, core
<1>8. QED
  BY <1>2, <1>3, <1>4, <1>5, <1>6, <1>7 DEF Next

\* The HID device is added last by probe and destroyed first by remove, closed.
LEMMA HidStep == SafeInv /\ [Next]_vars => HidInv'
<1> SUFFICES ASSUME SafeInv, [Next]_vars
             PROVE  HidInv'
  OBVIOUS
<1>1. TypeOK /\ HidInv
  BY DEF SafeInv, TypeInv
<1> USE DEF HidInv, At, PmPcs
<1>2. CASE Probe
  <2>1. hid # "added" /\ ~started
    BY <1>1, <1>2 DEF Probe, EnableIrq, ResetSleeps, ResetReinit, GpioAssert, GpioDeassert,
      ResetWaitDone, ResetWaitTimesOut, ProbePowersOn, DescReinit, DescSend, DescWaitDone,
      DescWaitTimesOut, DescCheck, ReportDescReinit, ReportDescSend, ReportDescWaitDone,
      ReportDescWaitTimesOut, ReportDescCheck, HidAllocate, HidAdd, ErrDestroyHid,
      ErrFreeReportDesc, ErrDisableIrq, ErrSyncIrq, DisableIrq, SyncIrq
  <2>2. started' = started /\ (hid' # "added" \/ pc' = "bound")
    BY <1>2, <2>1 DEF Probe, EnableIrq, ResetSleeps, ResetReinit, GpioAssert, GpioDeassert,
      ResetWaitDone, ResetWaitTimesOut, ProbePowersOn, DescReinit, DescSend, DescWaitDone,
      DescWaitTimesOut, DescCheck, ReportDescReinit, ReportDescSend, ReportDescWaitDone,
      ReportDescWaitTimesOut, ReportDescCheck, HidAllocate, HidAdd, ErrDestroyHid,
      ErrFreeReportDesc, ErrDisableIrq, ErrSyncIrq, DisableIrq, SyncIrq, data
  <2>3. QED
    BY <2>1, <2>2
<1>3. CASE PowerManagement \/ Unbind
  BY <1>1, <1>3 DEF PowerManagement, Unbind, SuspendStarts, SuspendDisablesIrq,
    SuspendSyncsIrq, SuspendPowersOff, ResumePowersOn, ResumeEnablesIrq, RuntimeSuspend,
    DisableIrq, SyncIrq, data
<1>4. CASE Remove
  BY <1>1, <1>4 DEF Remove, RuntimeResume, RemoveDisablesPm, RemoveDestroysHid,
    RemoveFreesReportDesc, RemoveFreesFragBuf, RemoveClearsPointers, DevresReleases, SyncIrq,
    data
<1>5. CASE IrqThread
  <2>1. UNCHANGED pc
    BY <1>1, <1>5, IrqType DEF core, SafeInv, TypeInv
  <2>2. UNCHANGED <<hid, started>>
    BY <1>5 DEF IrqThread, IrqFires, IrqReads, IrqReadFails, IrqDispatches, DispatchReset,
      DispatchDesc, DispatchReportDesc, DispatchData, DispatchRejected, DispatchFirst,
      DispatchContinuation, IrqCompletesDesc, IrqCompletesReportDesc, IrqForwards,
      IrqFreesFragments, data
  <2>3. QED
    BY <1>1, <2>1, <2>2
<1>6. CASE Device \/ UNCHANGED vars
  BY <1>1, <1>6, DeviceType DEF core, data, vars
<1>7. CASE HidOpen \/ HidClose
  BY <1>1, <1>7 DEF HidOpen, HidClose, core
<1>8. QED
  BY <1>2, <1>3, <1>4, <1>5, <1>6, <1>7 DEF Next

\* STARTED is tested before a report is forwarded, and the accumulation buffer
\* comes and goes with frag_len, until remove destroys both under the handler.
LEMMA TouchStep == SafeInv /\ [Next]_vars => HandlerTouchesLiveMemory'
<1> SUFFICES ASSUME SafeInv, [Next]_vars
             PROVE  HandlerTouchesLiveMemory'
  OBVIOUS
<1>1. TypeOK /\ HidInv /\ HandlerTouchesLiveMemory
  BY DEF SafeInv, TypeInv
<1> USE DEF HandlerTouchesLiveMemory, At, RemovePcs
<1>2. CASE Probe
  <2>1. pc \notin RemovePcs \cup {"released"} /\ UNCHANGED <<ipc, frag_buf, frag_len>>
    BY <1>1, <1>2 DEF Probe, EnableIrq, ResetSleeps, ResetReinit, GpioAssert, GpioDeassert,
      ResetWaitDone, ResetWaitTimesOut, ProbePowersOn, DescReinit, DescSend, DescWaitDone,
      DescWaitTimesOut, DescCheck, ReportDescReinit, ReportDescSend, ReportDescWaitDone,
      ReportDescWaitTimesOut, ReportDescCheck, HidAllocate, HidAdd, ErrDestroyHid,
      ErrFreeReportDesc, ErrDisableIrq, ErrSyncIrq, DisableIrq, SyncIrq, data, irq
  <2>2. hid # "added"
    BY <1>1, <1>2 DEF HidInv, PmPcs, Probe, EnableIrq, ResetSleeps, ResetReinit, GpioAssert,
      GpioDeassert, ResetWaitDone, ResetWaitTimesOut, ProbePowersOn, DescReinit, DescSend,
      DescWaitDone, DescWaitTimesOut, DescCheck, ReportDescReinit, ReportDescSend,
      ReportDescWaitDone, ReportDescWaitTimesOut, ReportDescCheck, HidAllocate, HidAdd,
      ErrDestroyHid, ErrFreeReportDesc, ErrDisableIrq, ErrSyncIrq, DisableIrq, SyncIrq
  <2>3. QED
    BY <1>1, <2>1, <2>2
<1>3. CASE PowerManagement \/ Unbind
  <2>1. UNCHANGED <<ipc, data>> /\ pc \notin RemovePcs \cup {"released"}
    BY <1>3 DEF PowerManagement, Unbind, SuspendStarts, SuspendDisablesIrq,
      SuspendSyncsIrq, SuspendPowersOff, ResumePowersOn, ResumeEnablesIrq, RuntimeSuspend,
      DisableIrq, SyncIrq, irq
  <2>2. QED
    BY <1>1, <2>1 DEF data
<1>4. CASE Remove
  BY <1>4 DEF Remove, RuntimeResume, RemoveDisablesPm, RemoveDestroysHid,
    RemoveFreesReportDesc, RemoveFreesFragBuf, RemoveClearsPointers, DevresReleases, SyncIrq
<1>5. CASE IrqThread
  <2>1. UNCHANGED pc
    BY <1>1, <1>5, IrqType DEF core, SafeInv, TypeInv
  <2>2. CASE IrqFires \/ IrqReads \/ IrqReadFails \/ IrqCompletesDesc \/ IrqCompletesReportDesc
    <3>1. UNCHANGED <<frag_buf, frag_len>> /\ ipc' # "forward"
      BY <2>2 DEF IrqFires, IrqReads, IrqReadFails, IrqCompletesDesc, IrqCompletesReportDesc, data
    <3>2. QED
      BY <1>1, <2>1, <3>1
  <2>3. CASE IrqForwards
    <3>1. UNCHANGED <<frag_buf, frag_len>> /\ ipc' # "forward"
      BY <2>3 DEF IrqForwards, data
    <3>2. QED
      BY <1>1, <2>1, <3>1
  <2>4. CASE IrqFreesFragments
    BY <1>1, <2>1, <2>4 DEF IrqFreesFragments
  <2>5. CASE IrqDispatches
    <3>1. hid' = hid /\ (ipc' = "forward" => started)
      BY <2>5 DEF IrqDispatches, DispatchReset, DispatchDesc, DispatchReportDesc, DispatchData,
        DispatchRejected, DispatchFirst, DispatchContinuation, data
    <3>2. \/ UNCHANGED <<frag_buf, frag_len>>
          \/ frag_buf' = "live" /\ frag_len' = 1
          \/ frag_buf' = "null" /\ frag_len' = 0
      BY <2>5 DEF IrqDispatches, DispatchReset, DispatchDesc, DispatchReportDesc, DispatchData,
        DispatchRejected, DispatchFirst, DispatchContinuation, data
    <3>3. QED
      BY <1>1, <2>1, <3>1, <3>2 DEF HidInv
  <2>6. QED
    BY <1>5, <2>2, <2>3, <2>4, <2>5 DEF IrqThread
<1>6. CASE Device \/ UNCHANGED vars
  BY <1>1, <1>6, DeviceType DEF core, data, vars, irq
<1>7. CASE HidOpen \/ HidClose
  BY <1>1, <1>7 DEF HidOpen, HidClose, core, irq
<1>8. QED
  BY <1>2, <1>3, <1>4, <1>5, <1>6, <1>7 DEF Next

-------------------------------------------------------------------------------
(* The answers in flight *)

\* A queue that grows by other messages has the answers it had ...
LEMMA QueueGrows ==
  ASSUME dq \in Seq(Messages), NEW kind, NEW ms \in Seq(Messages),
         \A i \in DOMAIN ms : ms[i] \notin kind, dq' = dq \o ms
  PROVE  Queued(kind)' = Queued(kind) /\ \A i \in Queued(kind) : dq'[i] = dq[i]
<1>1. DOMAIN dq = 1..Len(dq) /\ DOMAIN ms = 1..Len(ms) /\ Len(dq) \in Nat /\ Len(ms) \in Nat
  OBVIOUS
<1>2. DOMAIN dq' = 1..(Len(dq) + Len(ms))
  OBVIOUS
<1>3. \A i \in 1..Len(dq) : dq'[i] = dq[i]
  OBVIOUS
<1>4. ASSUME NEW i \in DOMAIN dq', i \notin DOMAIN dq
      PROVE  dq'[i] \notin kind
  <2>1. i - Len(dq) \in DOMAIN ms /\ dq'[i] = ms[i - Len(dq)]
    BY <1>1, <1>2, <1>4
  <2>2. QED
    BY <2>1
<1>5. DOMAIN dq \subseteq DOMAIN dq'
  BY <1>1, <1>2
<1>6. QED
  BY <1>1, <1>3, <1>4, <1>5 DEF Queued

\* ... and by an answer, where there was none, that one.
LEMMA QueueAnswers ==
  ASSUME dq \in Seq(Messages), NEW kind, NEW m \in kind, m \in Messages,
         Queued(kind) = {}, dq' = dq \o <<m>>
  PROVE  Queued(kind)' = {Len(dq) + 1} /\ dq'[Len(dq) + 1] = m
<1>1. Len(dq) \in Nat /\ DOMAIN dq = 1..Len(dq) /\ DOMAIN dq' = 1..(Len(dq) + 1)
  OBVIOUS
<1>2. dq'[Len(dq) + 1] = m /\ \A i \in 1..Len(dq) : dq'[i] = dq[i]
  OBVIOUS
<1>3. \A i \in DOMAIN dq : dq'[i] \notin kind
  BY <1>1, <1>2 DEF Queued
<1>4. QED
  BY <1>1, <1>2, <1>3 DEF Queued

\* A report that is taken from the queue moves the others up.
LEMMA QueueTaken ==
  ASSUME dq \in Seq(Messages), dq # << >>, dq' = Tail(dq), NEW kind
  PROVE  /\ \A i \in Queued(kind)' : i + 1 \in Queued(kind) /\ dq'[i] = dq[i + 1]
         /\ 1 \in Queued(kind) <=> Head(dq) \in kind
<1>1. Len(dq) \in Nat /\ DOMAIN dq = 1..Len(dq) /\ 1 \in DOMAIN dq /\ Head(dq) = dq[1]
  OBVIOUS
<1>2. DOMAIN dq' = 1..(Len(dq) - 1) /\ \A i \in DOMAIN dq' : dq'[i] = dq[i + 1]
  OBVIOUS
<1>3. QED
  BY <1>1, <1>2 DEF Queued

\* What can be seen of the answers in flight
Flight == <<inbox, dq, ipc, imsg>>

LEMMA FlightSame ==
  ASSUME NEW command, NEW kind, NEW copying, UNCHANGED Flight
  PROVE  /\ Queued(kind)' = Queued(kind)
         /\ Handled(kind, copying)' <=> Handled(kind, copying)
         /\ NoneLeft(command, kind, copying)' <=> NoneLeft(command, kind, copying)
         /\ OneAnswer(command, kind, copying)' <=> OneAnswer(command, kind, copying)
BY DEF Flight, Queued, Handled, NoneLeft, OneAnswer

\* A device that restarts forgets what it was asked and what it was going to say.
LEMMA FlightLost ==
  ASSUME NEW command, NEW kind, NEW copying, UNCHANGED <<ipc, imsg>>,
         inbox' = {}, Queued(kind)' = {}
  PROVE  /\ NoneLeft(command, kind, copying) => NoneLeft(command, kind, copying)'
         /\ OneAnswer(command, kind, copying)'
BY DEF Handled, NoneLeft, OneAnswer

\* Kinds of answers: nothing else that the device says is one.
Kind(command, kind, copying) ==
    \/ command = "DEVICE_DESCRIPTOR" /\ kind = DescKind /\ copying = "dd_copy"
    \/ command = "REPORT_DESCRIPTOR" /\ kind = RepKind /\ copying = "rd_complete"

LEMMA OthersAreNone ==
  ASSUME NEW command, NEW kind, NEW copying, Kind(command, kind, copying)
  PROVE  kind \cap {"RESET_RESPONSE", "DATA", "FIRST", "REST", "REJECTED"} = {}
BY DEF Kind, DescKind, RepKind

\* The device answers what it was asked, and only that.
LEMMA DeviceFlight ==
  ASSUME AnswersWhenAsked, TypeOK, Device, NEW command, NEW kind, NEW copying,
         Kind(command, kind, copying)
  PROVE  /\ NoneLeft(command, kind, copying) => NoneLeft(command, kind, copying)'
         /\ OneAnswer(command, kind, copying) => OneAnswer(command, kind, copying)'
         /\ \A i \in Queued(kind)' : \/ dq'[i] \in DescKinds \cup RepKind
                                     \/ dq'[i] = dq[i] /\ i \in Queued(kind)
<1>1. dq \in Seq(Messages) /\ UNCHANGED <<ipc, imsg>>
  BY DEF TypeOK, Device, DevBoots, DevAnswers, DevSpontaneous
<1>2. ASSUME NEW ms \in Seq(Messages), \A i \in DOMAIN ms : ms[i] \notin kind,
             Queue(ms), inbox' = inbox
      PROVE  /\ NoneLeft(command, kind, copying) => NoneLeft(command, kind, copying)'
             /\ OneAnswer(command, kind, copying) => OneAnswer(command, kind, copying)'
             /\ \A i \in Queued(kind)' : dq'[i] = dq[i] /\ i \in Queued(kind)
  <2>1. Queued(kind)' = Queued(kind) /\ \A i \in Queued(kind) : dq'[i] = dq[i]
    BY <1>1, <1>2, QueueGrows DEF Queue
  <2>2. QED
    BY <1>1, <1>2, <2>1 DEF NoneLeft, OneAnswer, Handled
<1>3. CASE DevBoots
  <2>1. <<"RESET_RESPONSE">> \in Seq(Messages)
    BY DEF Messages
  <2>2. \A i \in DOMAIN <<"RESET_RESPONSE">> : <<"RESET_RESPONSE">>[i] \notin kind
    BY OthersAreNone
  <2>3. QED
    BY <1>2, <1>3, <2>1, <2>2 DEF DevBoots
<1>4. CASE DevAnswers
  <2>1. PICK c \in inbox :
          /\ inbox' = inbox \ {c}
          /\ \E m \in IF c = "DEVICE_DESCRIPTOR" THEN DescKinds
                      ELSE {"REPORT_DESCRIPTOR_RESPONSE"} : Queue(<<m>>)
    BY <1>4 DEF DevAnswers
  <2>2. PICK m \in IF c = "DEVICE_DESCRIPTOR" THEN DescKinds
                   ELSE {"REPORT_DESCRIPTOR_RESPONSE"} : Queue(<<m>>)
    BY <2>1
  <2>3. /\ m \in Messages /\ <<m>> \in Seq(Messages) /\ m \in DescKinds \cup RepKind
        /\ c \in {"DEVICE_DESCRIPTOR", "REPORT_DESCRIPTOR"}
    <3>1. c \in {"DEVICE_DESCRIPTOR", "REPORT_DESCRIPTOR"}
      BY DEF TypeOK
    <3>2. m \in Messages /\ m \in DescKinds \cup RepKind
      BY <2>2, BoundsAssumption DEF Messages, RepKind
    <3>3. QED
      BY <3>1, <3>2
  <2>4. m \in kind <=> c = command
    BY <2>2, <2>3, BoundsAssumption DEF Kind, DescKind, RepKind
  <2>5. CASE c = command
    <3>1. ~NoneLeft(command, kind, copying)
      BY <2>5 DEF NoneLeft
    <3>2. ASSUME OneAnswer(command, kind, copying)
          PROVE  Queued(kind) = {} /\ ~Handled(kind, copying)
      BY <2>5, <3>2 DEF OneAnswer
    <3>3. ASSUME Queued(kind) = {}
          PROVE  Queued(kind)' = {Len(dq) + 1}
      BY <1>1, <2>2, <2>3, <2>4, <2>5, <3>3, QueueAnswers DEF Queue
    <3>4. Handled(kind, copying)' <=> Handled(kind, copying)
      BY <1>1 DEF Handled
    <3>5. \A i \in Queued(kind)' : \/ dq'[i] = m
                                   \/ dq'[i] = dq[i] /\ i \in Queued(kind)
      <4>1. dq' = dq \o <<m>>
        BY <2>2 DEF Queue
      <4>2. /\ DOMAIN dq = 1..Len(dq) /\ DOMAIN dq' = 1..(Len(dq) + 1) /\ Len(dq) \in Nat
            /\ dq'[Len(dq) + 1] = m /\ \A i \in 1..Len(dq) : dq'[i] = dq[i]
        BY <1>1, <2>3, <4>1
      <4>3. ASSUME NEW i \in Queued(kind)', dq'[i] # m
            PROVE  dq'[i] = dq[i] /\ i \in Queued(kind)
        <5>1. i \in 1..(Len(dq) + 1) /\ dq'[i] \in kind
          BY <4>2, <4>3 DEF Queued
        <5>2. i \in 1..Len(dq)
          BY <4>2, <4>3, <5>1
        <5>3. QED
          BY <4>2, <5>1, <5>2 DEF Queued
      <4>4. QED
        BY <4>3, Zenon
    <3>6. command \notin inbox'
      BY <2>1, <2>5
    <3>7. OneAnswer(command, kind, copying) => OneAnswer(command, kind, copying)'
      BY <3>2, <3>3, <3>4, <3>6 DEF OneAnswer
    <3>8. QED
      BY <2>3, <3>1, <3>5, <3>7
  <2>6. CASE c # command
    <3>1. \A i \in DOMAIN <<m>> : <<m>>[i] \notin kind
      BY <2>4, <2>6
    <3>2. Queued(kind)' = Queued(kind) /\ \A i \in Queued(kind) : dq'[i] = dq[i]
      BY <1>1, <2>2, <2>3, <3>1, QueueGrows DEF Queue
    <3>3. command \in inbox' <=> command \in inbox
      BY <2>1, <2>6
    <3>4. QED
      BY <1>1, <3>2, <3>3 DEF NoneLeft, OneAnswer, Handled
  <2>7. QED
    BY <2>5, <2>6
<1>5. CASE DevSpontaneous
  <2>1. CASE inbox' = {} /\ dq' = <<"RESET_RESPONSE">>
    <3>1. Queued(kind)' = {}
      BY <2>1, OthersAreNone DEF Queued
    <3>2. QED
      BY <1>1, <2>1, <3>1, FlightLost
  <2>2. CASE inbox' = inbox /\ (Queue(<<"DATA">>) \/ Queue(<<"REJECTED">>))
    <3>1. ASSUME NEW m \in {"DATA", "REJECTED"}
          PROVE  <<m>> \in Seq(Messages) /\ \A i \in DOMAIN <<m>> : <<m>>[i] \notin kind
      BY OthersAreNone DEF Messages
    <3>2. QED
      BY <1>2, <2>2, <3>1
  <2>3. CASE inbox' = inbox /\ Queue(<<"FIRST", "REST">>)
    <3>1. /\ <<"FIRST", "REST">> \in Seq(Messages)
          /\ \A i \in DOMAIN <<"FIRST", "REST">> : <<"FIRST", "REST">>[i] \notin kind
      <4>1. <<"FIRST", "REST">> \in Seq(Messages)
        BY DEF Messages
      <4>2. DOMAIN <<"FIRST", "REST">> = {1, 2}
        OBVIOUS
      <4>3. QED
        BY <4>1, <4>2, OthersAreNone
    <3>2. QED
      BY <1>2, <2>3, <3>1
  <2>4. QED
    BY <1>5, <2>1, <2>2, <2>3 DEF DevSpontaneous, AnswersWhenAsked
<1>6. QED
  BY <1>3, <1>4, <1>5 DEF Device

\* The handler takes an answer from the queue, or loses it, and is through with it
\* when it has been copied.
LEMMA IrqFlight ==
  ASSUME TypeOK, IrqThread, NEW command, NEW kind, NEW copying,
         Kind(command, kind, copying)
  PROVE  /\ NoneLeft(command, kind, copying) => NoneLeft(command, kind, copying)'
         /\ OneAnswer(command, kind, copying) => OneAnswer(command, kind, copying)'
         /\ \A i \in Queued(kind)' : \E j \in Queued(kind) : dq'[i] = dq[j]
         /\ Handled(kind, copying)' =>
              \/ Handled(kind, copying) /\ imsg' = imsg
              \/ \E j \in Queued(kind) : imsg' = dq[j]
<1>1. /\ dq \in Seq(Messages) /\ inbox' = inbox
      /\ copying \notin {"idle", "read", "dispatch", "forward", "frag_free"}
  BY DEF TypeOK, Kind, IrqThread, IrqFires, IrqReads, IrqReadFails, IrqDispatches,
    IrqCompletesDesc, IrqCompletesReportDesc, IrqForwards, IrqFreesFragments, device
<1>2. ASSUME dq # << >>, dq' = Tail(dq),
             \/ ipc' = "dispatch" /\ imsg' = Head(dq)
             \/ ipc' = "idle",
             ~Handled(kind, copying)
      PROVE  /\ NoneLeft(command, kind, copying) => NoneLeft(command, kind, copying)'
             /\ OneAnswer(command, kind, copying) => OneAnswer(command, kind, copying)'
             /\ \A i \in Queued(kind)' : \E j \in Queued(kind) : dq'[i] = dq[j]
             /\ Handled(kind, copying)' => \E j \in Queued(kind) : imsg' = dq[j]
  <2>1. /\ \A i \in Queued(kind)' : i + 1 \in Queued(kind) /\ dq'[i] = dq[i + 1]
        /\ 1 \in Queued(kind) <=> Head(dq) \in kind
        /\ Head(dq) = dq[1]
    <3>1. Head(dq) = dq[1]
      BY <1>1, <1>2
    <3>2. QED
      BY <1>1, <1>2, <3>1, QueueTaken, Zenon
  <2>2. Handled(kind, copying)' => 1 \in Queued(kind) /\ imsg' = dq[1]
    BY <1>1, <1>2, <2>1 DEF Handled
  <2>3. ASSUME OneAnswer(command, kind, copying)
        PROVE  OneAnswer(command, kind, copying)'
    <3>1. ASSUME NEW i \in Queued(kind)', NEW j \in Queued(kind)' PROVE i = j
      <4>1. i + 1 = j + 1
        BY <2>1, <2>3 DEF OneAnswer
      <4>2. i \in Nat /\ j \in Nat
        <5>1. dq' \in Seq(Messages)
          BY <1>1, <1>2
        <5>2. QED
          BY <5>1 DEF Queued
      <4>3. QED
        BY <4>1, <4>2
    <3>2. ASSUME command \in inbox'
          PROVE  Queued(kind)' = {} /\ ~Handled(kind, copying)'
      <4>1. Queued(kind) = {}
        BY <1>1, <2>3, <3>2 DEF OneAnswer
      <4>2. QED
        BY <2>1, <2>2, <4>1
    <3>3. ASSUME Handled(kind, copying)', NEW i \in Queued(kind)' PROVE FALSE
      <4>1. i + 1 = 1
        BY <2>1, <2>2, <2>3, <3>3 DEF OneAnswer
      <4>2. i \in Nat /\ i # 0
        <5>1. dq' \in Seq(Messages)
          BY <1>1, <1>2
        <5>2. QED
          BY <5>1 DEF Queued
      <4>3. QED
        BY <4>1, <4>2
    <3>4. QED
      BY <3>1, <3>2, <3>3 DEF OneAnswer
  <2>4. QED
    BY <1>1, <2>1, <2>2, <2>3 DEF NoneLeft
<1>3. ASSUME dq' = dq, Handled(kind, copying)' => Handled(kind, copying) /\ imsg' = imsg
      PROVE  /\ NoneLeft(command, kind, copying) => NoneLeft(command, kind, copying)'
             /\ OneAnswer(command, kind, copying) => OneAnswer(command, kind, copying)'
             /\ \A i \in Queued(kind)' : \E j \in Queued(kind) : dq'[i] = dq[j]
             /\ Handled(kind, copying)' => Handled(kind, copying) /\ imsg' = imsg
  BY <1>1, <1>3 DEF NoneLeft, OneAnswer, Queued
<1>4. CASE IrqReads
  BY <1>1, <1>2, <1>4 DEF IrqReads, Handled
<1>5. CASE IrqReadFails
  <2>1. ipc' = "idle" /\ ~Handled(kind, copying) /\ ~Handled(kind, copying)'
    BY <1>1, <1>5 DEF IrqReadFails, Handled
  <2>2. dq' = dq \/ (dq # << >> /\ dq' = Tail(dq))
    BY <1>5, Zenon DEF IrqReadFails
  <2>3. QED
    BY <1>2, <1>3, <2>1, <2>2
<1>6. CASE IrqDispatches
  <2>1. UNCHANGED <<dq, imsg>>
    BY <1>6 DEF IrqDispatches, device
  <2>2. /\ ipc = "dispatch"
        /\ \/ ipc' \in {"idle", "forward", "frag_free"}
           \/ ipc' = "dd_copy" /\ imsg \in DescKind
           \/ ipc' = "rd_complete" /\ imsg \in RepKind
    BY <1>6 DEF IrqDispatches, DispatchReset, DispatchDesc, DispatchReportDesc, DispatchData,
      DispatchRejected, DispatchFirst, DispatchContinuation, DescKind, RepKind
  <2>3. Handled(kind, copying)' => Handled(kind, copying)
    BY <1>1, <2>1, <2>2 DEF Handled, Kind, DescKind, RepKind
  <2>4. QED
    BY <1>3, <2>1, <2>3
<1>7. CASE IrqFires \/ IrqCompletesDesc \/ IrqCompletesReportDesc \/ IrqForwards
           \/ IrqFreesFragments
  <2>1. dq' = dq /\ ipc' \in {"read", "idle", "frag_free"}
    BY <1>7 DEF IrqFires, IrqCompletesDesc, IrqCompletesReportDesc, IrqForwards,
      IrqFreesFragments, device
  <2>2. ~Handled(kind, copying)'
    BY <1>1, <2>1 DEF Handled
  <2>3. QED
    BY <1>3, <2>1, <2>2
<1>8. QED
  BY <1>4, <1>5, <1>6, <1>7 DEF IrqThread

\* Steps that touch neither the answers nor what they announce
LEMMA DescFrame ==
  ASSUME DescInv, UNCHANGED <<Flight, desc_done, dev_desc>>,
         pc' \in BeforeDesc => pc \in BeforeDesc,
         pc' \in AfterDesc => pc \in AfterDesc \ {"dd_check"}
  PROVE  DescInv'
<1>1. /\ NoDescLeft' <=> NoDescLeft
      /\ OneAnswer("DEVICE_DESCRIPTOR", DescKind, "dd_copy")'
         <=> OneAnswer("DEVICE_DESCRIPTOR", DescKind, "dd_copy")
      /\ Handled(DescKind, "dd_copy")' <=> Handled(DescKind, "dd_copy")
      /\ Queued(DescKind)' = Queued(DescKind)
  BY FlightSame DEF NoDescLeft
<1>2. dq' = dq /\ imsg' = imsg
  BY DEF Flight
<1>3. pc' \in BeforeDesc \cup AfterDesc => pc \in BeforeDesc \cup AfterDesc
  OBVIOUS
<1>4. pc' \in AfterDesc => pc \in AfterDesc /\ dev_desc = "good"
  BY DEF DescInv
<1>5. QED
  BY <1>1, <1>2, <1>3, <1>4 DEF DescInv

\* Probe, suspend, resume and remove keep what is known of the device descriptor.
LEMMA DescThread ==
  ASSUME TypeOK, DescInv, Probe \/ PowerManagement \/ Unbind \/ Remove
  PROVE  DescInv'
<1> USE DEF At
<1>1. CASE GpioAssert
  <2>1. inbox' = {} /\ dq' = << >> /\ UNCHANGED <<ipc, imsg, desc_done, dev_desc>>
        /\ pc = "gpio_1" /\ pc' = "gpio_0"
    BY <1>1 DEF GpioAssert, Restart, irq, done, data
  <2>2. Queued(DescKind)' = {}
    BY <2>1 DEF Queued
  <2>3. pc \in BeforeDesc /\ pc' \in BeforeDesc /\ pc' \notin AfterDesc
    BY <2>1 DEF BeforeDesc, AfterDesc, PmPcs, RemovePcs
  <2>4. NoDescLeft /\ desc_done = 0 /\ ~Handled(DescKind, "dd_copy")
    BY <2>3 DEF DescInv, NoDescLeft, NoneLeft
  <2>5. /\ OneAnswer("DEVICE_DESCRIPTOR", DescKind, "dd_copy")' /\ NoDescLeft'
        /\ ~Handled(DescKind, "dd_copy")'
    BY <2>1, <2>2, <2>4, FlightLost DEF NoDescLeft, NoneLeft
  <2>6. QED
    BY <2>1, <2>2, <2>3, <2>4, <2>5 DEF DescInv
<1>2. CASE DescReinit
  <2>1. UNCHANGED <<Flight, dev_desc>> /\ pc = "dd_reinit" /\ pc' = "dd_send" /\ desc_done' = 0
    BY <1>2 DEF DescReinit, Flight, irq, data, device
  <2>2. pc \in BeforeDesc /\ pc' \in BeforeDesc /\ pc' \notin AfterDesc
    BY <2>1 DEF BeforeDesc, AfterDesc, PmPcs, RemovePcs
  <2>3. desc_done = 0
    BY <2>2 DEF DescInv
  <2>4. QED
    BY <2>1, <2>2, <2>3, DescFrame
<1>3. CASE DescSend
  <2>1. UNCHANGED <<dq, ipc, imsg, desc_done, dev_desc>> /\ pc = "dd_send"
        /\ pc' \in {"dd_wait", "err_disable_irq"}
    BY <1>3 DEF DescSend, Command, CommandFails, Fail, irq, done, data, device
  <2>2. pc \in BeforeDesc /\ pc' \notin BeforeDesc \cup AfterDesc
    BY <2>1 DEF BeforeDesc, AfterDesc, PmPcs, RemovePcs
  <2>3. NoDescLeft /\ desc_done = 0
    BY <2>2 DEF DescInv
  <2>4. Queued(DescKind)' = {} /\ ~Handled(DescKind, "dd_copy")'
    BY <2>1, <2>3 DEF NoDescLeft, NoneLeft, Queued, Handled
  <2>5. QED
    BY <2>1, <2>2, <2>3, <2>4 DEF DescInv, OneAnswer
<1>4. CASE DescWaitDone
  <2>1. UNCHANGED <<Flight, dev_desc>> /\ pc' = "dd_check" /\ desc_done > 0
        /\ desc_done' = desc_done - 1
    BY <1>4 DEF DescWaitDone, Flight, irq, data, device
  <2>2. desc_done = 1 /\ NoDescLeft /\ dev_desc \in DescKinds
    BY <2>1 DEF DescInv
  <2>3. /\ NoDescLeft' /\ OneAnswer("DEVICE_DESCRIPTOR", DescKind, "dd_copy")'
    BY <2>1, <2>2, FlightSame DEF NoDescLeft, DescInv
  <2>4. Queued(DescKind)' = {} /\ ~Handled(DescKind, "dd_copy")'
    BY <2>3 DEF NoDescLeft, NoneLeft
  <2>5. desc_done' = 0
    BY <2>1, <2>2
  <2>6. QED
    BY <2>1, <2>2, <2>3, <2>4, <2>5 DEF DescInv
<1>5. CASE DescCheck
  <2>1. UNCHANGED <<Flight, desc_done, dev_desc>> /\ pc = "dd_check"
        /\ \/ pc' = "rd_reinit" /\ dev_desc = "good"
           \/ pc' = "err_disable_irq"
    BY <1>5, BoundsAssumption DEF DescInv, AfterDesc, DescCheck, Fail, Flight, irq, done, data, device
  <2>2. pc \in AfterDesc /\ pc' \notin BeforeDesc
    BY <2>1 DEF BeforeDesc, AfterDesc, PmPcs, RemovePcs
  <2>3. /\ NoDescLeft' <=> NoDescLeft
        /\ OneAnswer("DEVICE_DESCRIPTOR", DescKind, "dd_copy")'
           <=> OneAnswer("DEVICE_DESCRIPTOR", DescKind, "dd_copy")
    BY <2>1, FlightSame DEF NoDescLeft
  <2>4. Queued(DescKind)' = {} /\ ~Handled(DescKind, "dd_copy")' /\ desc_done' = 0
    BY <2>1, <2>2, <2>3 DEF DescInv, NoDescLeft, NoneLeft
  <2>5. pc' \in AfterDesc => dev_desc' = "good"
    BY <2>1 DEF AfterDesc, PmPcs, RemovePcs
  <2>6. dev_desc' \in DescKinds
    BY <2>1, <2>2 DEF DescInv
  <2>7. QED
    BY <2>1, <2>2, <2>3, <2>4, <2>5, <2>6 DEF DescInv
<1>6. CASE ReportDescSend
  <2>1. /\ UNCHANGED <<dq, ipc, imsg, desc_done, dev_desc>> /\ pc = "rd_send"
        /\ pc' \in {"rd_wait", "err_disable_irq"}
        /\ "DEVICE_DESCRIPTOR" \in inbox' <=> "DEVICE_DESCRIPTOR" \in inbox
    BY <1>6 DEF ReportDescSend, Command, CommandFails, Fail, irq, done, data, device
  <2>2. pc \in AfterDesc \ {"dd_check"} /\ pc' \notin BeforeDesc
    BY <2>1 DEF BeforeDesc, AfterDesc, PmPcs, RemovePcs
  <2>3. /\ NoDescLeft' <=> NoDescLeft
        /\ OneAnswer("DEVICE_DESCRIPTOR", DescKind, "dd_copy")'
           <=> OneAnswer("DEVICE_DESCRIPTOR", DescKind, "dd_copy")
    BY <2>1 DEF NoDescLeft, NoneLeft, OneAnswer, Queued, Handled
  <2>4. Queued(DescKind)' = {} /\ ~Handled(DescKind, "dd_copy")' /\ desc_done' = 0
    BY <2>1, <2>2, <2>3 DEF DescInv, NoDescLeft, NoneLeft
  <2>5. QED
    BY <2>1, <2>2, <2>3, <2>4 DEF DescInv
<1> USE DEF Flight, irq, done, data, device, BeforeDesc, AfterDesc, PmPcs, RemovePcs
<1>7. ASSUME EnableIrq \/ ResetSleeps \/ ResetReinit \/ GpioDeassert \/ ResetWaitDone
             \/ ResetWaitTimesOut \/ ProbePowersOn \/ DescWaitTimesOut
      PROVE  DescInv'
  <2>1. /\ UNCHANGED <<Flight, desc_done, dev_desc>>
        /\ pc' \in BeforeDesc => pc \in BeforeDesc
        /\ pc' \notin AfterDesc
    BY <1>7 DEF EnableIrq, ResetSleeps, ResetReinit, GpioDeassert, ResetWaitDone,
      ResetWaitTimesOut, ProbePowersOn, DescWaitTimesOut, SetPower, Fail
  <2>2. QED
    BY <2>1, DescFrame
<1>8. ASSUME ReportDescReinit \/ ReportDescWaitDone \/ ReportDescWaitTimesOut
             \/ ReportDescCheck \/ HidAllocate \/ HidAdd \/ ErrDestroyHid \/ ErrFreeReportDesc
             \/ ErrDisableIrq \/ ErrSyncIrq
      PROVE  DescInv'
  <2>1. /\ UNCHANGED <<Flight, desc_done, dev_desc>>
        /\ pc' \notin BeforeDesc
        /\ pc' \in AfterDesc => pc \in AfterDesc \ {"dd_check"}
    BY <1>8 DEF ReportDescReinit, ReportDescWaitDone, ReportDescWaitTimesOut,
      ReportDescCheck, HidAllocate, HidAdd, ErrDestroyHid, ErrFreeReportDesc, ErrDisableIrq,
      ErrSyncIrq, DisableIrq, SyncIrq, Fail
  <2>2. QED
    BY <2>1, DescFrame
<1>9. ASSUME PowerManagement \/ Unbind
      PROVE  DescInv'
  <2>1. /\ UNCHANGED <<Flight, desc_done, dev_desc>>
        /\ pc' \notin BeforeDesc
        /\ pc' \in AfterDesc => pc \in AfterDesc \ {"dd_check"}
    BY <1>9 DEF PowerManagement, Unbind, SuspendStarts, SuspendDisablesIrq, SuspendSyncsIrq,
      SuspendPowersOff, ResumePowersOn, ResumeEnablesIrq, RuntimeSuspend, DisableIrq,
      SyncIrq, SetPower
  <2>2. QED
    BY <2>1, DescFrame
<1>10. ASSUME Remove
       PROVE  DescInv'
  <2>1. /\ UNCHANGED <<Flight, desc_done, dev_desc>>
        /\ pc' \notin BeforeDesc
        /\ pc' \in AfterDesc => pc \in AfterDesc \ {"dd_check"}
    BY <1>10 DEF Remove, RuntimeResume, RemoveDisablesPm, RemoveDestroysHid,
      RemoveFreesReportDesc, RemoveFreesFragBuf, RemoveClearsPointers, DevresReleases, SyncIrq,
      SetPower
  <2>2. QED
    BY <2>1, DescFrame
<1>11. QED
  BY <1>1, <1>2, <1>3, <1>4, <1>5, <1>6, <1>7, <1>8, <1>9, <1>10 DEF Probe

\* The one answer is copied whole before it is announced.
LEMMA DescStep ==
  ASSUME AnswersWhenAsked, TypeInv, DescInv, [Next]_vars
  PROVE  DescInv'
<1>1. TypeOK /\ CopyInv /\ Kind("DEVICE_DESCRIPTOR", DescKind, "dd_copy")
  BY DEF TypeInv, Kind
<1>2. CASE Probe \/ PowerManagement \/ Unbind \/ Remove
  BY <1>1, <1>2, DescThread
<1>3. CASE Device
  <2>1. /\ NoDescLeft => NoDescLeft'
        /\ OneAnswer("DEVICE_DESCRIPTOR", DescKind, "dd_copy")'
        /\ \A i \in Queued(DescKind)' : \/ dq'[i] \in DescKinds \cup RepKind
                                        \/ dq'[i] = dq[i] /\ i \in Queued(DescKind)
    BY <1>1, <1>3, DeviceFlight DEF NoDescLeft, DescInv
  <2>2. UNCHANGED <<pc, ipc, imsg, desc_done, dev_desc>>
    BY <1>3 DEF Device, DevBoots, DevAnswers, DevSpontaneous, core, done, data
  <2>3. Handled(DescKind, "dd_copy")' <=> Handled(DescKind, "dd_copy")
    BY <2>2 DEF Handled
  <2>4. ASSUME NEW i \in Queued(DescKind)'
        PROVE  dq'[i] \in DescKinds
    <3>1. dq'[i] \in DescKind
      BY DEF Queued
    <3>2. QED
      BY <2>1, <3>1 DEF DescKind, RepKind, DescInv
  <2>5. QED
    BY <2>1, <2>2, <2>3, <2>4 DEF DescInv
<1>4. CASE IrqThread
  <2>1. /\ NoDescLeft => NoDescLeft'
        /\ OneAnswer("DEVICE_DESCRIPTOR", DescKind, "dd_copy")'
        /\ \A i \in Queued(DescKind)' : \E j \in Queued(DescKind) : dq'[i] = dq[j]
        /\ Handled(DescKind, "dd_copy")' =>
             \/ Handled(DescKind, "dd_copy") /\ imsg' = imsg
             \/ \E j \in Queued(DescKind) : imsg' = dq[j]
    BY <1>1, <1>4, IrqFlight DEF NoDescLeft, DescInv
  <2>2. pc' = pc
    BY <1>1, <1>4, IrqType DEF core
  <2>3. /\ \A i \in Queued(DescKind)' : dq'[i] \in DescKinds
        /\ Handled(DescKind, "dd_copy")' => imsg' \in DescKinds
    BY <2>1 DEF DescInv
  <2>4. CASE IrqCompletesDesc
    <3>1. /\ ipc = "dd_copy" /\ ipc' = "idle" /\ UNCHANGED <<inbox, dq>>
          /\ dev_desc' = imsg /\ desc_done' = desc_done + 1
      BY <2>4 DEF IrqCompletesDesc, device
    <3>2. Handled(DescKind, "dd_copy") /\ ~Handled(DescKind, "dd_copy")'
      BY <3>1 DEF Handled
    <3>3. /\ ~NoDescLeft /\ "DEVICE_DESCRIPTOR" \notin inbox /\ Queued(DescKind) = {}
          /\ imsg \in DescKinds
      BY <3>2 DEF NoDescLeft, NoneLeft, OneAnswer, DescInv
    <3>4. pc \notin BeforeDesc \cup AfterDesc /\ desc_done = 0
      <4>1. desc_done \in Nat
        BY <1>1 DEF TypeOK
      <4>2. QED
        BY <3>3, <4>1 DEF DescInv
    <3>5. NoDescLeft'
      BY <3>1, <3>2, <3>3 DEF NoDescLeft, NoneLeft, Queued
    <3>6. QED
      BY <2>1, <2>2, <2>3, <3>1, <3>3, <3>4, <3>5 DEF DescInv
  <2>5. CASE ~IrqCompletesDesc /\ dev_desc' # dev_desc
    <3>1. Handled(DescKind, "dd_copy") /\ desc_done' = desc_done
      BY <1>4, <2>5 DEF IrqThread, IrqFires, IrqReads, IrqReadFails, IrqDispatches,
        DispatchReset, DispatchDesc, DispatchReportDesc, DispatchData, DispatchRejected,
        DispatchFirst, DispatchContinuation, IrqCompletesReportDesc, IrqForwards,
        IrqFreesFragments, Handled, DescKind, done, data
    <3>2. ~NoDescLeft
      BY <3>1 DEF NoDescLeft, NoneLeft
    <3>3. pc \notin BeforeDesc \cup AfterDesc /\ ~(desc_done > 0)
      BY <3>2 DEF DescInv
    <3>4. QED
      BY <2>1, <2>2, <2>3, <3>1, <3>3 DEF DescInv
  <2>6. CASE ~IrqCompletesDesc /\ dev_desc' = dev_desc
    <3>1. desc_done' = desc_done
      BY <1>4, <2>6 DEF IrqThread, IrqFires, IrqReads, IrqReadFails, IrqDispatches,
        DispatchReset, DispatchDesc, DispatchReportDesc, DispatchData, DispatchRejected,
        DispatchFirst, DispatchContinuation, IrqCompletesReportDesc, IrqForwards,
        IrqFreesFragments, done
    <3>2. QED
      BY <2>1, <2>2, <2>3, <2>6, <3>1 DEF DescInv
  <2>7. QED
    BY <2>4, <2>5, <2>6
<1>5. CASE HidOpen \/ HidClose \/ UNCHANGED vars
  <2>1. UNCHANGED <<pc, Flight, desc_done, dev_desc>>
    BY <1>5 DEF HidOpen, HidClose, vars, Flight, core, irq, done, data, device
  <2>2. /\ NoDescLeft' <=> NoDescLeft
        /\ OneAnswer("DEVICE_DESCRIPTOR", DescKind, "dd_copy")'
           <=> OneAnswer("DEVICE_DESCRIPTOR", DescKind, "dd_copy")
        /\ Handled(DescKind, "dd_copy")' <=> Handled(DescKind, "dd_copy")
        /\ Queued(DescKind)' = Queued(DescKind)
    BY <2>1, FlightSame DEF NoDescLeft
  <2>3. dq' = dq /\ imsg' = imsg
    BY <2>1 DEF Flight
  <2>4. QED
    BY <2>1, <2>2, <2>3 DEF DescInv
<1>6. QED
  BY <1>2, <1>3, <1>4, <1>5 DEF Next

\* Steps that touch nothing of it
LEMMA FetchFrame ==
  ASSUME FetchInv, UNCHANGED <<ipc, desc_done, repdesc_done, dev_desc, report_desc>>,
         pc' = "dd_check" => pc = "dd_check",
         pc' \in Fetched => pc \in Fetched,
         pc' \in Freeing => pc \in Fetched \cup Freeing,
         pc' \in Exits => (pc \in Exits /\ ret' = ret) \/ ret' \notin {"ENOMEM", "EINVAL"}
  PROVE  FetchInv'
BY DEF FetchInv

\* Probe takes what has been announced, and frees it where it fails later on.
LEMMA FetchProbe == ASSUME TypeOK, FetchInv, Probe PROVE FetchInv'
<1> USE DEF At, Fetched, Freeing, Exits, PmPcs
<1>1. UNCHANGED ipc
  BY DEF Probe, EnableIrq, ResetSleeps, ResetReinit, GpioAssert, GpioDeassert,
    ResetWaitDone, ResetWaitTimesOut, ProbePowersOn, DescReinit, DescSend, DescWaitDone,
    DescWaitTimesOut, DescCheck, ReportDescReinit, ReportDescSend, ReportDescWaitDone,
    ReportDescWaitTimesOut, ReportDescCheck, HidAllocate, HidAdd, ErrDestroyHid,
    ErrFreeReportDesc, ErrDisableIrq, ErrSyncIrq, DisableIrq, SyncIrq, irq
<1>2. ASSUME EnableIrq \/ ResetSleeps \/ ResetReinit \/ GpioAssert \/ GpioDeassert
             \/ ResetWaitDone \/ ResetWaitTimesOut \/ ProbePowersOn
      PROVE  FetchInv'
  <2>1. UNCHANGED <<desc_done, repdesc_done, dev_desc, report_desc>>
    BY <1>2 DEF EnableIrq, ResetSleeps, ResetReinit, GpioAssert, GpioDeassert, ResetWaitDone,
      ResetWaitTimesOut, ProbePowersOn, done, data
  <2>2. pc' \in {"reset", "gpio_1", "gpio_0", "wait_reset", "power_on", "dd_reinit"}
    BY <1>2 DEF EnableIrq, ResetSleeps, ResetReinit, GpioAssert, GpioDeassert, ResetWaitDone,
      ResetWaitTimesOut, ProbePowersOn
  <2>3. QED
    BY <1>1, <2>1, <2>2, FetchFrame
<1>3. ASSUME DescSend \/ DescWaitTimesOut \/ DescCheck \/ ReportDescSend
             \/ ReportDescWaitTimesOut
      PROVE  FetchInv'
  <2>1. UNCHANGED <<desc_done, repdesc_done, dev_desc, report_desc>>
    BY <1>3 DEF DescSend, DescWaitTimesOut, DescCheck, ReportDescSend, ReportDescWaitTimesOut,
      done, data
  <2>2. /\ pc' \in {"dd_wait", "rd_reinit", "rd_wait", "err_disable_irq"}
        /\ pc' = "err_disable_irq" => ret' \in {"EIO", "ETIMEDOUT", "ENODEV"}
    BY <1>3 DEF DescSend, DescWaitTimesOut, DescCheck, ReportDescSend, ReportDescWaitTimesOut,
      Fail
  <2>3. QED
    BY <1>1, <2>1, <2>2, FetchFrame
<1>4. CASE DescReinit
  BY <1>1, <1>4 DEF DescReinit, FetchInv, data
<1>5. CASE DescWaitDone
  BY <1>1, <1>5 DEF DescWaitDone, FetchInv, TypeOK, data
<1>6. CASE ReportDescReinit
  BY <1>1, <1>6 DEF ReportDescReinit, FetchInv, data
<1>7. CASE ReportDescWaitDone
  BY <1>1, <1>7 DEF ReportDescWaitDone, FetchInv, TypeOK, data
<1>8. CASE ReportDescCheck \/ HidAllocate \/ HidAdd
  <2>1. UNCHANGED <<desc_done, repdesc_done, dev_desc, report_desc>>
        /\ pc \in Fetched /\ pc' \in Fetched
    BY <1>8 DEF ReportDescCheck, HidAllocate, HidAdd, Fail, FetchInv, done, data
  <2>2. pc' # "dd_check" /\ pc' \notin Freeing \cup Exits
    BY <2>1
  <2>3. QED
    BY <1>1, <2>1, <2>2, FetchFrame
<1>9. CASE ErrDestroyHid
  BY <1>1, <1>9 DEF ErrDestroyHid, FetchInv, done
<1>10. CASE ErrFreeReportDesc
  BY <1>1, <1>10 DEF ErrFreeReportDesc, FetchInv, done
<1>11. CASE ErrDisableIrq \/ ErrSyncIrq
  <2>1. UNCHANGED <<desc_done, repdesc_done, dev_desc, report_desc, ret>>
        /\ pc \in Exits /\ pc' \in Exits
    BY <1>11 DEF ErrDisableIrq, ErrSyncIrq, DisableIrq, SyncIrq, done, data
  <2>2. QED
    BY <1>1, <2>1, FetchFrame
<1>12. QED
  BY <1>2, <1>3, <1>4, <1>5, <1>6, <1>7, <1>8, <1>9, <1>10, <1>11 DEF Probe

\* The handler stores before it announces, and stores a report descriptor only
\* where there is none.
LEMMA FetchIrq == ASSUME TypeOK, CopyInv, FetchInv, IrqThread PROVE FetchInv'
<1>1. UNCHANGED <<pc, ret>>
  BY IrqType DEF core
<1>2. CASE IrqCompletesDesc
  <2>1. /\ ipc = "dd_copy" /\ ipc' = "idle" /\ dev_desc' \in {"good", "bad"}
        /\ UNCHANGED <<repdesc_done, report_desc>>
    BY <1>2 DEF IrqCompletesDesc, CopyInv
  <2>2. QED
    BY <1>1, <2>1 DEF FetchInv
<1>3. CASE IrqCompletesReportDesc
  <2>1. /\ ipc = "rd_complete" /\ ipc' = "idle" /\ repdesc_done' = repdesc_done + 1
        /\ UNCHANGED <<desc_done, dev_desc, report_desc>>
    BY <1>3 DEF IrqCompletesReportDesc, data
  <2>2. report_desc = "live" /\ repdesc_done = 0 /\ pc \notin Fetched \cup Freeing
    BY <2>1 DEF FetchInv, TypeOK
  <2>3. QED
    BY <1>1, <2>1, <2>2 DEF FetchInv
<1>4. CASE IrqDispatches
  <2>1. UNCHANGED <<desc_done, repdesc_done>> /\ ipc = "dispatch"
    BY <1>4 DEF IrqDispatches, DispatchReset, DispatchDesc, DispatchReportDesc, DispatchData,
      DispatchRejected, DispatchFirst, DispatchContinuation, done
  <2>2. \/ dev_desc' = dev_desc /\ ipc' # "dd_copy"
        \/ /\ dev_desc' = IF dev_desc = "none" THEN "torn" ELSE "mixed"
           /\ ipc' = "dd_copy"
    BY <1>4 DEF IrqDispatches, DispatchReset, DispatchDesc, DispatchReportDesc, DispatchData,
      DispatchRejected, DispatchFirst, DispatchContinuation, data
  <2>3. \/ report_desc' = report_desc /\ ipc' # "rd_complete"
        \/ report_desc = "null" /\ report_desc' = "live" /\ ipc' = "rd_complete"
    BY <1>4 DEF IrqDispatches, DispatchReset, DispatchDesc, DispatchReportDesc, DispatchData,
      DispatchRejected, DispatchFirst, DispatchContinuation, data
  <2>4. repdesc_done \in Nat /\ desc_done \in Nat
    BY DEF TypeOK
  <2>5. Fetched \cap Freeing = {}
    BY DEF Fetched, Freeing, PmPcs
  <2>6. QED
    BY <1>1, <2>1, <2>2, <2>3, <2>4, <2>5 DEF FetchInv
<1>5. CASE IrqFires \/ IrqReads \/ IrqReadFails \/ IrqForwards \/ IrqFreesFragments
  <2>1. /\ UNCHANGED <<desc_done, repdesc_done, dev_desc, report_desc>>
        /\ ipc \notin {"dd_copy", "rd_complete"} /\ ipc' \notin {"dd_copy", "rd_complete"}
    BY <1>5 DEF IrqFires, IrqReads, IrqReadFails, IrqForwards, IrqFreesFragments, done, data
  <2>2. QED
    BY <1>1, <2>1 DEF FetchInv
<1>6. QED
  BY <1>2, <1>3, <1>4, <1>5 DEF IrqThread

LEMMA FetchStep == TypeInv /\ FetchInv /\ [Next]_vars => FetchInv'
<1> SUFFICES ASSUME TypeInv, FetchInv, [Next]_vars
             PROVE  FetchInv'
  OBVIOUS
<1>1. TypeOK /\ CopyInv
  BY DEF TypeInv
<1>2. CASE Probe
  BY <1>1, <1>2, FetchProbe
<1>3. CASE IrqThread
  BY <1>1, <1>3, FetchIrq
<1>4. CASE PowerManagement \/ Unbind
  <2>1. UNCHANGED <<ipc, desc_done, repdesc_done, dev_desc, report_desc>>
        /\ pc \in Fetched /\ pc' \in Fetched
    BY <1>4 DEF PowerManagement, Unbind, SuspendStarts, SuspendDisablesIrq, SuspendSyncsIrq,
      SuspendPowersOff, ResumePowersOn, ResumeEnablesIrq, RuntimeSuspend, DisableIrq, SyncIrq,
      At, irq, done, data, Fetched, PmPcs
  <2>2. pc' # "dd_check" /\ pc' \notin Freeing \cup Exits
    BY <2>1 DEF Fetched, Freeing, Exits, PmPcs
  <2>3. QED
    BY <2>1, <2>2, FetchFrame
<1>5. CASE Remove
  <2>1. CASE RemoveFreesReportDesc \/ RemoveClearsPointers
    BY <2>1 DEF RemoveFreesReportDesc, RemoveClearsPointers, Freed, FetchInv, Fetched, Freeing,
      Exits, PmPcs, At, irq, done
  <2>2. CASE RuntimeResume \/ RemoveDisablesPm \/ RemoveDestroysHid \/ RemoveFreesFragBuf
             \/ DevresReleases
    <3>1. /\ UNCHANGED <<ipc, desc_done, repdesc_done, dev_desc, report_desc>>
          /\ \/ pc \in Fetched /\ pc' \in Fetched
             \/ pc \in Freeing /\ pc' \in Freeing
             \/ pc' = "released"
      BY <2>2 DEF RuntimeResume, RemoveDisablesPm, RemoveDestroysHid, RemoveFreesFragBuf,
        DevresReleases, SyncIrq, At, irq, done, data, Fetched, Freeing, PmPcs
    <3>2. pc' # "dd_check" /\ pc' \notin Exits
      BY <3>1 DEF Fetched, Freeing, Exits, PmPcs
    <3>3. /\ pc' \in Fetched => pc \in Fetched
          /\ pc' \in Freeing => pc \in Fetched \cup Freeing
      BY <3>1 DEF Fetched, Freeing, PmPcs
    <3>4. QED
      BY <3>1, <3>2, <3>3, FetchFrame
  <2>3. QED
    BY <1>5, <2>1, <2>2 DEF Remove
<1>6. CASE Device \/ HidOpen \/ HidClose \/ UNCHANGED vars
  <2>1. UNCHANGED <<pc, ret, ipc, desc_done, repdesc_done, dev_desc, report_desc>>
    BY <1>6 DEF Device, DevBoots, DevAnswers, DevSpontaneous, HidOpen, HidClose, vars, core,
      irq, done, data
  <2>2. QED
    BY <2>1, FetchFrame
<1>7. QED
  BY <1>2, <1>3, <1>4, <1>5, <1>6 DEF Next

\* A HID device is allocated by probe and destroyed by its error path or remove.
LEMMA RegisteredStep == TypeInv /\ RegisteredInv /\ [Next]_vars => RegisteredInv'
<1> SUFFICES ASSUME TypeInv, RegisteredInv, [Next]_vars
             PROVE  RegisteredInv'
  OBVIOUS
<1>1. TypeOK /\ CopyInv
  BY DEF TypeInv
<1> USE DEF RegisteredInv, At, PmPcs
<1>2. CASE Probe
  <2>1. CASE HidAllocate \/ HidAdd \/ ErrDestroyHid
    BY <2>1 DEF HidAllocate, HidAdd, ErrDestroyHid, Fail
  <2>2. CASE ~(HidAllocate \/ HidAdd \/ ErrDestroyHid)
    <3>1. /\ hid' = hid
          /\ pc \notin {"hid_add", "err_destroy_hid", "bound", "rm_disable_pm",
                        "rm_destroy_hid"} \cup PmPcs
      BY <1>2, <2>2 DEF Probe, EnableIrq, ResetSleeps, ResetReinit, GpioAssert, GpioDeassert,
        ResetWaitDone, ResetWaitTimesOut, ProbePowersOn, DescReinit, DescSend, DescWaitDone,
        DescWaitTimesOut, DescCheck, ReportDescReinit, ReportDescSend, ReportDescWaitDone,
        ReportDescWaitTimesOut, ReportDescCheck, ErrFreeReportDesc, ErrDisableIrq, ErrSyncIrq,
        DisableIrq, SyncIrq, data
    <3>2. QED
      BY <3>1
  <2>3. QED
    BY <2>1, <2>2
<1>3. CASE PowerManagement \/ Unbind
  BY <1>3 DEF PowerManagement, Unbind, SuspendStarts, SuspendDisablesIrq, SuspendSyncsIrq,
    SuspendPowersOff, ResumePowersOn, ResumeEnablesIrq, RuntimeSuspend, DisableIrq, SyncIrq,
    data
<1>4. CASE Remove
  BY <1>4 DEF Remove, RuntimeResume, RemoveDisablesPm, RemoveDestroysHid,
    RemoveFreesReportDesc, RemoveFreesFragBuf, RemoveClearsPointers, DevresReleases, SyncIrq,
    data
<1>5. CASE IrqThread
  <2>1. UNCHANGED pc
    BY <1>1, <1>5, IrqType DEF core
  <2>2. UNCHANGED hid
    BY <1>5 DEF IrqThread, IrqFires, IrqReads, IrqReadFails, IrqDispatches, DispatchReset,
      DispatchDesc, DispatchReportDesc, DispatchData, DispatchRejected, DispatchFirst,
      DispatchContinuation, IrqCompletesDesc, IrqCompletesReportDesc, IrqForwards,
      IrqFreesFragments, data
  <2>3. QED
    BY <2>1, <2>2
<1>6. CASE Device \/ HidOpen \/ HidClose \/ UNCHANGED vars
  <2>1. UNCHANGED <<pc, hid>>
    BY <1>1, <1>6, DeviceType DEF HidOpen, HidClose, vars, core, data
  <2>2. QED
    BY <2>1
<1>7. QED
  BY <1>2, <1>3, <1>4, <1>5, <1>6 DEF Next

\* What is told to be on stays on until it is told to sleep.
LEMMA PowerStep ==
  ASSUME CalmDevice, TypeInv, PowerInv, [Next]_vars
  PROVE  PowerInv'
<1> USE DEF PowerInv, At
<1>1. TypeOK /\ CopyInv
  BY DEF TypeInv
<1>2. ASSUME NEW state \in {"on", "sleep"}, NEW ok \in BOOLEAN, SetPower(state, ok), boot = "up"
      PROVE  power' = state /\ boot' = "up"
  BY <1>2 DEF SetPower, CalmDevice
<1>3. CASE Probe
  <2>1. CASE ProbePowersOn
    <3>1. power' = "on" /\ boot' = "up" /\ pc' = "dd_reinit"
      BY <1>2, <2>1 DEF ProbePowersOn
    <3>2. QED
      BY <3>1
  <2>2. CASE EnableIrq \/ ResetSleeps
    BY <2>2 DEF EnableIrq, ResetSleeps, CalmDevice, device
  <2>3. CASE DescSend \/ ReportDescSend
    <3>1. /\ UNCHANGED <<boot, power>> /\ pc \in {"dd_send", "rd_send"}
          /\ pc' \in {"dd_wait", "rd_wait", "err_disable_irq"}
      BY <2>3 DEF DescSend, ReportDescSend, Command, CommandFails, Fail, device
    <3>2. QED
      BY <3>1
  <2>4. ASSUME DescReinit \/ DescWaitDone \/ DescWaitTimesOut \/ DescCheck \/ ReportDescReinit
               \/ ReportDescWaitDone \/ ReportDescWaitTimesOut \/ ReportDescCheck
        PROVE  PowerInv'
    BY <2>4 DEF DescReinit, DescWaitDone, DescWaitTimesOut, DescCheck, ReportDescReinit,
      ReportDescWaitDone, ReportDescWaitTimesOut, ReportDescCheck, Fail, device
  <2>5. ASSUME HidAllocate \/ HidAdd \/ ErrDestroyHid \/ ErrFreeReportDesc \/ ErrDisableIrq
               \/ ErrSyncIrq
        PROVE  PowerInv'
    BY <2>5 DEF HidAllocate, HidAdd, ErrDestroyHid, ErrFreeReportDesc, ErrDisableIrq,
      ErrSyncIrq, DisableIrq, SyncIrq, Fail, device
  <2>6. ~(ResetReinit \/ GpioAssert \/ GpioDeassert \/ ResetWaitDone \/ ResetWaitTimesOut)
    BY DEF ResetReinit, GpioAssert, GpioDeassert, ResetWaitDone, ResetWaitTimesOut, CalmDevice
  <2>7. QED
    BY <1>3, <2>1, <2>2, <2>3, <2>4, <2>5, <2>6 DEF Probe
<1>4. CASE PowerManagement
  <2>1. CASE SuspendStarts \/ SuspendDisablesIrq \/ SuspendSyncsIrq \/ ResumeEnablesIrq
    BY <2>1 DEF SuspendStarts, SuspendDisablesIrq, SuspendSyncsIrq, ResumeEnablesIrq,
      DisableIrq, SyncIrq, device
  <2>2. CASE SuspendPowersOff
    <3>1. boot' = "up" /\ pc' = "suspended"
      BY <1>2, <2>2 DEF SuspendPowersOff
    <3>2. QED
      BY <3>1
  <2>3. CASE ResumePowersOn
    <3>1. power' = "on" /\ boot' = "up" /\ pc' = "resume_irq"
      BY <1>2, <2>3 DEF ResumePowersOn
    <3>2. QED
      BY <3>1
  <2>4. CASE RuntimeSuspend
    <3>1. boot' = "up" /\ pc' = "bound" /\ rpm' # "active"
      BY <1>2, <2>4 DEF RuntimeSuspend
    <3>2. QED
      BY <3>1
  <2>5. QED
    BY <1>4, <2>1, <2>2, <2>3, <2>4 DEF PowerManagement
<1>5. ASSUME Unbind \/ Remove
      PROVE  PowerInv'
  <2>1. CASE RuntimeResume
    <3>1. boot' = "up" /\ pc' = "rm_disable_pm"
      BY <1>2, <2>1 DEF RuntimeResume
    <3>2. QED
      BY <3>1
  <2>2. CASE ~RuntimeResume
    <3>1. boot' = boot /\ pc \in RemovePcs \cup {"bound"} /\ pc' \in RemovePcs \cup {"released"}
      BY <1>5, <2>2 DEF Unbind, Remove, RemoveDisablesPm, RemoveDestroysHid,
        RemoveFreesReportDesc, RemoveFreesFragBuf, RemoveClearsPointers, DevresReleases,
        SyncIrq, device, RemovePcs
    <3>2. QED
      BY <3>1 DEF RemovePcs
  <2>3. QED
    BY <2>1, <2>2
<1>6. CASE IrqThread
  <2>1. UNCHANGED <<pc, rpm>>
    BY <1>1, <1>6, IrqType DEF core
  <2>2. UNCHANGED <<boot, power>>
    BY <1>6 DEF IrqThread, IrqFires, IrqReads, IrqReadFails, IrqDispatches, IrqCompletesDesc,
      IrqCompletesReportDesc, IrqForwards, IrqFreesFragments, device
  <2>3. QED
    BY <2>1, <2>2
<1>7. CASE Device
  <2>1. UNCHANGED <<pc, rpm>>
    BY <1>1, <1>7, DeviceType DEF core
  <2>2. power' = power /\ (boot = "up" => boot' = "up")
    BY <1>7 DEF Device, DevBoots, DevAnswers, DevSpontaneous, CalmDevice
  <2>3. QED
    BY <2>1, <2>2
<1>8. CASE HidOpen \/ HidClose \/ UNCHANGED vars
  BY <1>8 DEF HidOpen, HidClose, vars, core, device
<1>9. QED
  BY <1>3, <1>4, <1>5, <1>6, <1>7, <1>8 DEF Next

-------------------------------------------------------------------------------
\* The invariant holds, and every step keeps it.
LEMMA SafeInductive == Spec => []SafeInv
<1>1. ASSUME Init
      PROVE  SafeInv
  <2>1. dq \in Seq(Messages)
    <3>1. << >> \in Seq(Messages) /\ <<"RESET_RESPONSE">> \in Seq(Messages)
      BY DEF Messages
    <3>2. dq = << >> \/ dq = <<"RESET_RESPONSE">>
      BY <1>1 DEF Init
    <3>3. QED
      BY <3>1, <3>2
  <2>2. /\ cycles \in 0..MaxCycles /\ events \in 0..MaxEvents
        /\ pc = "enable_irq" /\ pc \in Pcs /\ imsg \in Messages
    BY <1>1, BoundsAssumption DEF Init, Pcs, ProbePcs, Messages
  <2>3. TypeOK
    BY <1>1, <2>1, <2>2 DEF Init, TypeOK
  <2>4. IrqDepthBalanced /\ CopyInv /\ HandlerQuiet
    BY <1>1 DEF Init, IrqDepthBalanced, CopyInv, HandlerQuiet
  <2>5. HidInv /\ HandlerTouchesLiveMemory
    BY <1>1 DEF Init, HidInv, HandlerTouchesLiveMemory
  <2>6. QED
    BY <2>3, <2>4, <2>5 DEF SafeInv, TypeInv
<1>2. SafeInv /\ [Next]_vars => SafeInv'
  BY TypeStep, QuietStep, HidStep, TouchStep DEF SafeInv
<1>3. QED
  BY <1>1, <1>2, PTL DEF Spec

\* So does what has been stored and announced, for any device ...
LEMMA FetchInductive == Spec => [](SafeInv /\ FetchInv /\ RegisteredInv)
<1>1. Init => FetchInv /\ RegisteredInv
  BY DEF Init, FetchInv, RegisteredInv, Fetched, Freeing, Exits, PmPcs
<1>2. TypeInv /\ FetchInv /\ RegisteredInv /\ [Next]_vars => FetchInv' /\ RegisteredInv'
  BY FetchStep, RegisteredStep
<1>3. SafeInv => TypeInv
  BY DEF SafeInv
<1>4. QED
  BY <1>1, <1>2, <1>3, SafeInductive, PTL DEF Spec

\* ... and the one answer of a device that answers when it is asked.
LEMMA DescInductive == ASSUME AnswersWhenAsked PROVE Spec => []DescInv
<1>1. ASSUME Init
      PROVE  DescInv
  <2>1. /\ pc = "enable_irq" /\ ipc = "idle" /\ desc_done = 0
        /\ inbox = {} /\ dq \in {<< >>, <<"RESET_RESPONSE">>}
    BY <1>1 DEF Init
  <2>2. Queued(DescKind) = {}
    BY <2>1 DEF Queued, DescKind
  <2>3. NoDescLeft
    BY <2>1, <2>2 DEF NoDescLeft, NoneLeft, Handled
  <2>4. pc \in BeforeDesc /\ pc \notin AfterDesc
    BY <2>1 DEF BeforeDesc, AfterDesc, PmPcs, RemovePcs
  <2>5. QED
    BY <2>1, <2>2, <2>3, <2>4 DEF DescInv, OneAnswer, Handled
<1>2. TypeInv /\ DescInv /\ [Next]_vars => DescInv'
  BY DescStep
<1>3. SafeInv => TypeInv
  BY DEF SafeInv
<1>4. QED
  BY <1>1, <1>2, <1>3, SafeInductive, PTL DEF Spec

\* Every variable keeps its type, whatever the device sends and whatever fails:
\* no completion is consumed that was not signalled.
THEOREM TypeCorrect == Spec => []TypeOK
<1>1. SafeInv => TypeOK
  BY DEF SafeInv, TypeInv
<1>2. QED
  BY SafeInductive, <1>1, PTL

\* The interrupt is enabled exactly from the start of probe until it fails, and
\* while the device is not suspended.
THEOREM IrqBalanced == Spec => []IrqDepthBalanced
<1>1. SafeInv => IrqDepthBalanced
  BY DEF SafeInv, TypeInv
<1>2. QED
  BY SafeInductive, <1>1, PTL

\* A failed probe and a suspended device have no handler left running.
THEOREM QuietWhenDisabled == Spec => []HandlerQuiet
<1>1. SafeInv => HandlerQuiet
  BY DEF SafeInv
<1>2. QED
  BY SafeInductive, <1>1, PTL

\* Until remove begins, the handler never forwards to a HID device that is not
\* there, and has an accumulation buffer just while it accumulates.
THEOREM HandlerSafe == Spec => []HandlerTouchesLiveMemory
<1>1. SafeInv => HandlerTouchesLiveMemory
  BY DEF SafeInv
<1>2. QED
  BY SafeInductive, <1>1, PTL

\* Probe, woken by a completion, finds the descriptor stored to its end, whatever
\* the device sends, asked or not and however often.  (A later answer may be
\* written over it by then: that is WaiterAlone, which does not hold.)
THEOREM Published == Spec => []CompletionPublishes
<1>1. FetchInv => CompletionPublishes
  BY DEF FetchInv, CompletionPublishes, Fetched
<1>2. QED
  BY FetchInductive, <1>1, PTL

\* From its allocation to its destruction a HID device has a report descriptor,
\* which no answer of any device replaces.
THEOREM HasReportDescriptor == Spec => []RegisteredMeansFetched
<1>1. FetchInv /\ RegisteredInv => RegisteredMeansFetched
  BY DEF FetchInv, RegisteredInv, RegisteredMeansFetched, Fetched
<1>2. QED
  BY FetchInductive, <1>1, PTL

\* If the device answers when it is asked and not otherwise, the descriptor of a
\* HID device is the one that was validated.
THEOREM Described ==
  ASSUME AnswersWhenAsked
  PROVE  Spec => []RegisteredMeansDescribed
<1>1. FetchInv /\ RegisteredInv /\ DescInv => RegisteredMeansDescribed
  <2> SUFFICES ASSUME FetchInv, RegisteredInv, DescInv, hid \in {"allocated", "added"}
               PROVE  dev_desc = "good" /\ report_desc = "live"
    BY DEF RegisteredMeansDescribed
  <2>1. pc \in {"hid_add", "err_destroy_hid", "bound", "rm_disable_pm", "rm_destroy_hid"}
               \cup PmPcs
    BY DEF RegisteredInv
  <2>2. pc \in Fetched /\ pc \in AfterDesc \ {"dd_check"}
    BY <2>1 DEF Fetched, AfterDesc, PmPcs, RemovePcs
  <2>3. QED
    BY <2>2 DEF FetchInv, DescInv
<1>2. QED
  BY FetchInductive, DescInductive, <1>1, PTL

\* A probe that fails after it has taken the report descriptor frees it, whatever
\* the device sends: what is there when it has failed came later.
THEOREM GivesBack == Spec => []FreesWhatItHad
<1>1. SafeInv /\ FetchInv => FreesWhatItHad
  BY DEF SafeInv, HandlerQuiet, FetchInv, FreesWhatItHad, Exits
<1>2. QED
  BY FetchInductive, <1>1, PTL

\* A device that probe found up and that keeps its power mode is on whenever it
\* is bound and runtime PM has not suspended it, however often it has been
\* suspended and resumed, and whatever else fails.
THEOREM OnWhileActive ==
  ASSUME CalmDevice
  PROVE  Spec => []ActiveMeansOn
<1>1. Init => PowerInv
  BY DEF Init, PowerInv
<1>2. TypeInv /\ PowerInv /\ [Next]_vars => PowerInv'
  BY PowerStep
<1>3. SafeInv => TypeInv
  BY DEF SafeInv
<1>4. PowerInv => ActiveMeansOn
  BY DEF PowerInv, ActiveMeansOn
<1>5. QED
  BY <1>1, <1>2, <1>3, <1>4, SafeInductive, PTL DEF Spec
===============================================================================
