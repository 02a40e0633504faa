------------------------------- MODULE SpiOutput -------------------------------
(***************************************************************************)
(* The output path of drivers/touch/hid-over-spi.c: threads that send a    *)
(* command (probe and the PM callbacks) or an output report (users of the  *)
(* HID device) build it in the one cmdbuf, under cmd_lock, and write it to *)
(* the SPI bus, while the interrupt handler reads inputs from the same bus *)
(* under irq_lock, a header transfer first and then a body transfer.       *)
(*                                                                         *)
(* A report is known by the thread that sends it and a running number; its *)
(* header and its content are two parts of cmdbuf.                         *)
(***************************************************************************)
EXTENDS Naturals, Sequences

CONSTANTS
    Writers,      \* threads that send output reports
    NoOne,        \* the owner of a free mutex
    SpiErrors,    \* an SPI transfer may fail
    MaxRequests,  \* bound: output reports each thread sends
    MaxInputs     \* bound: inputs the device sends

ASSUME WritersAssumption == NoOne \notin Writers

ASSUME OutputBounds ==
    SpiErrors \in BOOLEAN /\ MaxRequests \in Nat /\ MaxInputs \in Nat

VARIABLES
    wpc,       \* next statement of each writer
    request,   \* number of the request each writer is at
    oversize,  \* whether its content does not fit in a page
    acked,     \* requests for which each writer was told "sent"
    owner,     \* holder of cmd_lock
    cmdbuf,    \* who wrote the header and who the content
    seen,      \* output reports the device has received, in bus order
    ipc,       \* next statement of the interrupt handler
    inputs,    \* inputs read so far
    mark       \* output reports seen when the handler read a header

writers == <<wpc, request, oversize, acked, owner, cmdbuf>>
handler == <<ipc, inputs, mark>>
vars == <<wpc, request, oversize, acked, owner, cmdbuf, seen, ipc, inputs, mark>>

Id == Writers \X Nat
Blank == [hdr |-> << >>, content |-> << >>]
Buffer == [hdr : Id \cup {<< >>}, content : Id \cup {<< >>}]
Me(w) == <<w, request[w]>>

Init ==
    /\ wpc = [w \in Writers |-> "idle"]
    /\ request = [w \in Writers |-> 0]
    /\ oversize = [w \in Writers |-> FALSE]
    /\ acked = [w \in Writers |-> {}]
    /\ owner = NoOne
    /\ cmdbuf = Blank
    /\ seen = << >>
    /\ ipc = "idle"
    /\ inputs = 0
    /\ mark = 0

Step(w, l, m) ==
    /\ wpc[w] = l
    /\ wpc' = [wpc EXCEPT ![w] = m]

-------------------------------------------------------------------------------
(* hidspi_set_power(), hidspi_send_*_descriptor_cmd(), hidspi_hid_output_report() *)

Call(w) ==
    /\ Step(w, "idle", "lock")
    /\ request[w] < MaxRequests
    /\ request' = [request EXCEPT ![w] = @ + 1]
    /\ \E big \in BOOLEAN : oversize' = [oversize EXCEPT ![w] = big]
    /\ UNCHANGED <<acked, owner, cmdbuf, seen, handler>>

\* Mutant: the guard is forgotten.
NoLock(w) ==
    /\ Step(w, "lock", "check")
    /\ owner' = w
    /\ UNCHANGED <<request, oversize, acked, cmdbuf, seen, handler>>

\* guard(mutex)(&hsdev->cmd_lock)
Lock(w) ==
    /\ Step(w, "lock", "check")
    /\ owner = NoOne
    /\ owner' = w
    /\ UNCHANGED <<request, oversize, acked, cmdbuf, seen, handler>>

(* hidspi_write_output() *)

\* Mutant: the early return keeps the mutex.
CheckSizeKeepsLock(w) ==
    /\ Step(w, "check", IF oversize[w] THEN "idle" ELSE "header")
    /\ UNCHANGED <<request, oversize, acked, owner, cmdbuf, seen, handler>>

\* total > PAGE_SIZE is refused with -EINVAL before anything is touched.
CheckSize(w) ==
    /\ Step(w, "check", IF oversize[w] THEN "unlock" ELSE "header")
    /\ UNCHANGED <<request, oversize, acked, owner, cmdbuf, seen, handler>>

FillHeader(w) ==
    /\ Step(w, "header", "content")
    /\ cmdbuf' = [cmdbuf EXCEPT !.hdr = Me(w)]
    /\ UNCHANGED <<request, oversize, acked, owner, seen, handler>>

\* A command without content has nothing to copy.
FillContent(w) ==
    /\ Step(w, "content", "write")
    /\ cmdbuf' = [cmdbuf EXCEPT !.content = Me(w)]
    /\ UNCHANGED <<request, oversize, acked, owner, seen, handler>>

\* Mutant: a failed transfer is reported as sent.
WriteAlwaysAcks(w) ==
    /\ Step(w, "write", "unlock")
    /\ acked' = [acked EXCEPT ![w] = @ \cup {request[w]}]
    /\ \/ seen' = Append(seen, cmdbuf)
       \/ SpiErrors /\ UNCHANGED seen
    /\ UNCHANGED <<request, oversize, owner, cmdbuf, handler>>

\* spi_write(): one transfer, and the result the caller returns.  One that failed
\* may have reached the device all the same.
Write(w) ==
    /\ Step(w, "write", "unlock")
    /\ \/ /\ seen' = Append(seen, cmdbuf)
          /\ acked' = [acked EXCEPT ![w] = @ \cup {request[w]}]
       \/ /\ SpiErrors
          /\ seen' \in {seen, Append(seen, cmdbuf)}
          /\ UNCHANGED acked
    /\ UNCHANGED <<request, oversize, owner, cmdbuf, handler>>

\* The guard's scope ends on every return.
Unlock(w) ==
    /\ Step(w, "unlock", "idle")
    /\ owner' = NoOne
    /\ UNCHANGED <<request, oversize, acked, cmdbuf, seen, handler>>

Writer(w) == Call(w) \/ Lock(w) \/ CheckSize(w) \/ FillHeader(w) \/ FillContent(w)
             \/ Write(w) \/ Unlock(w)

-------------------------------------------------------------------------------
(* hidspi_irq_thread() and hidspi_read_input(); it alone takes irq_lock. *)

ReadHeader ==
    /\ ipc = "idle"
    /\ inputs < MaxInputs
    /\ inputs' = inputs + 1
    /\ mark' = Len(seen)
    /\ \/ ipc' = "body"
       \/ SpiErrors /\ ipc' = "idle"
    /\ UNCHANGED <<writers, seen>>

\* Whether the transfer fails or not, the handler is done with the bus.
ReadBody ==
    /\ ipc = "body"
    /\ ipc' = "idle"
    /\ UNCHANGED <<writers, seen, inputs, mark>>

Next == (\E w \in Writers : Writer(w)) \/ ReadHeader \/ ReadBody

Spec == Init /\ [][Next]_vars

\* A thread inside the driver runs on, and a mutex that is freed again and
\* again is handed to each thread that waits for it.
FairSpec ==
    /\ Spec
    /\ \A w \in Writers :
        /\ SF_vars(Lock(w))
        /\ WF_vars(CheckSize(w) \/ FillHeader(w) \/ FillContent(w) \/ Write(w) \/ Unlock(w))

-------------------------------------------------------------------------------
Critical == {"check", "header", "content", "write", "unlock"}

TypeOK ==
    /\ wpc \in [Writers -> {"idle", "lock"} \cup Critical]
    /\ request \in [Writers -> Nat]
    /\ oversize \in [Writers -> BOOLEAN]
    /\ acked \in [Writers -> SUBSET Nat]
    /\ owner \in Writers \cup {NoOne}
    /\ cmdbuf \in Buffer
    /\ seen \in Seq(Buffer)
    /\ ipc \in {"idle", "body"}
    /\ inputs \in Nat
    /\ mark \in Nat

\* "serialises output-report writes": no two threads build a report in cmdbuf
\* at the same time.
CmdbufExclusive ==
    \A v, w \in Writers :
        wpc[v] \in Critical /\ wpc[w] \in Critical => v = w

\* What the device receives is one thread's report, header and content, never
\* one thread's header with another's content.
ReportsUntorn == \A k \in 1..Len(seen) : seen[k].hdr = seen[k].content

\* A caller that is told "sent" has had its own report received, and no report is
\* received twice, not even one whose transfer failed.
SentMeansReceivedOnce ==
    /\ \A w \in Writers : \A n \in acked[w] :
          \E k \in 1..Len(seen) : seen[k].hdr = <<w, n>>
    /\ \A j, k \in 1..Len(seen) : seen[j].hdr = seen[k].hdr => j = k

\* "@irq_lock: serialises IRQ-context input reads vs command waiters": no
\* output report is written between the two transfers of an input.
InputReadUninterrupted == ipc = "body" => Len(seen) = mark

\* Every call returns: cmd_lock is released on every path.
CallsReturn == \A w \in Writers : wpc[w] = "lock" ~> wpc[w] = "idle"
===============================================================================
