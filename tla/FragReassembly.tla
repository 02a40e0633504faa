---------------------------- MODULE FragReassembly ----------------------------
(***************************************************************************)
(* The input path of drivers/touch/hid-over-spi.c from the SPI bus to the  *)
(* dispatcher: hidspi_read_input() takes one fragment off the device,      *)
(* hidspi_handle_input() dispatches it or accumulates it in frag_buf, and  *)
(* hidspi_handle_input_body() accepts or rejects a complete body.  One     *)
(* action is one run of the interrupt handler, which irq_lock makes        *)
(* sequential.                                                             *)
(*                                                                         *)
(* Bytes are abstracted to where they come from: a fragment carries bytes  *)
(* from..to of the body of report number `report'.  A body starts with a   *)
(* header of HeaderSize bytes that announces the content length; when a    *)
(* buffer does not start with the first fragment of a report, whatever     *)
(* lies there is read as that length (any member of GarbageContent).       *)
(***************************************************************************)
EXTENDS Naturals, Sequences

CONSTANTS
    Shapes,          \* how the device may cut a report into fragments
    HeaderSize,      \* HIDSPI_INPUT_BODY_HEADER_SIZE
    MaxInput,        \* HIDSPI_MAX_INPUT_SIZE
    Word,            \* the unit of REPORT_LEN, sizeof(u32)
    GarbageContent,  \* values misread as a content length
    MaxReports,      \* bound: reports the device produces
    ReadErrors,      \* where an SPI transfer or the sync check may fail
    AllocFails       \* whether kmalloc may fail

\* A shape is the content length its header announces and the end offset of
\* each fragment in the body; REPORT_LEN counts words, so every end does.
ASSUME ShapesAssumption ==
    \A s \in Shapes :
        /\ s.content \in Nat
        /\ s.ends \in Seq(Nat)
        /\ Len(s.ends) > 0
        /\ s.ends[1] > 0
        /\ \A i \in 1..Len(s.ends) : s.ends[i] % Word = 0
        /\ \A i, j \in 1..Len(s.ends) : i < j => s.ends[i] < s.ends[j]

ASSUME SizesAssumption ==
    /\ HeaderSize \in Nat \ {0}
    /\ MaxInput \in Nat \ {0}
    /\ Word \in Nat \ {0}
    /\ GarbageContent # {}
    /\ GarbageContent \subseteq Nat
    /\ MaxReports \in Nat
    /\ ReadErrors \in {"never", "between", "anywhere"}
    /\ AllocFails \in BOOLEAN

VARIABLES
    sent,           \* reports the device has produced so far
    wire,           \* fragments the device still holds, oldest first
    lost,           \* reports of which a read has failed
    frag_buf,       \* fragments copied to hsdev->frag_buf; << >> is NULL
    frag_len,       \* hsdev->frag_len
    frag_expected,  \* hsdev->frag_expected, the size of the allocation
    dispatched      \* bodies hidspi_handle_input_body() acted on

hsdev == <<frag_buf, frag_len, frag_expected>>
vars == <<sent, wire, lost, frag_buf, frag_len, frag_expected, dispatched>>

Fragments(n, s) ==
    [i \in 1..Len(s.ends) |->
        [report  |-> n,
         index   |-> i,
         last    |-> i = Len(s.ends),
         content |-> s.content,
         from    |-> IF i = 1 THEN 0 ELSE s.ends[i - 1],
         to      |-> s.ends[i]]]

Fragment ==
    [report : Nat, index : Nat, last : BOOLEAN, content : Nat, from : Nat, to : Nat]

BodyLen(f) == f.to - f.from

ContentLen(f, garbage) == IF f.index = 1 THEN f.content ELSE garbage

-------------------------------------------------------------------------------
Init ==
    /\ sent = 0
    /\ wire = << >>
    /\ lost = {}
    /\ frag_buf = << >>
    /\ frag_len = 0
    /\ frag_expected = 0
    /\ dispatched = << >>

\* The device queues the fragments of its next report and raises its interrupt.
DeviceSends(s) ==
    /\ sent < MaxReports
    /\ sent' = sent + 1
    /\ wire' = wire \o Fragments(sent + 1, s)
    /\ UNCHANGED <<lost, hsdev, dispatched>>

\* hidspi_read_input() fails: an SPI transfer fails, or the header has a bad
\* sync byte.  The handler returns at once; the fragment is gone.  "between"
\* are the failures that hit a report in one fragment.
ReadFails ==
    /\ \/ ReadErrors = "anywhere"
       \/ ReadErrors = "between" /\ Head(wire).index = 1 /\ Head(wire).last
    /\ wire' = Tail(wire)
    /\ lost' = lost \cup {Head(wire).report}
    /\ UNCHANGED <<sent, hsdev, dispatched>>

\* The header announces a body that does not fit inbuf: -EBADMSG.
BodyLenOutOfRange ==
    /\ BodyLen(Head(wire)) \notin 1..MaxInput
    /\ wire' = Tail(wire)
    /\ UNCHANGED <<sent, lost, hsdev, dispatched>>

\* hidspi_read_input() succeeds and leaves fragment f in inbuf.
ReadInput(f) ==
    /\ BodyLen(f) \in 1..MaxInput
    /\ wire' = Tail(wire)
    /\ UNCHANGED <<sent, lost>>

\* hidspi_handle_input_body(body, len): only a body that holds its header and
\* all the content the header announces is acted on.
HandleInputBody(body, len) ==
    \E garbage \in GarbageContent :
        dispatched' =
            IF /\ len >= HeaderSize
               /\ HeaderSize + ContentLen(body[1], garbage) <= len
            THEN Append(dispatched, body)
            ELSE dispatched

\* Mutant: the accumulation state survives the buffer.
DiscardKeepsLen ==
    /\ frag_buf' = << >>
    /\ UNCHANGED <<frag_len, frag_expected>>

Discard ==
    /\ frag_buf' = << >>
    /\ frag_len' = 0
    /\ frag_expected' = 0

\* Mutant: the single-fragment case falls through into the accumulation.
SingleFragmentFallsThrough(f) ==
    /\ ReadInput(f)
    /\ f.last /\ frag_len = 0
    /\ dispatched' = dispatched \o << <<f>>, <<f>> >>
    /\ UNCHANGED hsdev

SingleFragment(f) ==
    /\ ReadInput(f)
    /\ f.last /\ frag_len = 0
    /\ HandleInputBody(<<f>>, BodyLen(f))
    /\ UNCHANGED hsdev

\* Mutant: the body header is left out of the expected size.
FirstFragmentForgetsHeader(f) ==
    /\ ReadInput(f)
    /\ ~f.last /\ frag_len = 0
    /\ UNCHANGED dispatched
    /\ frag_expected' = f.content
    /\ frag_buf' = <<f>>
    /\ frag_len' = BodyLen(f)

FirstFragment(f) ==
    /\ ReadInput(f)
    /\ ~f.last /\ frag_len = 0
    /\ UNCHANGED dispatched
    /\ IF BodyLen(f) < HeaderSize
       THEN UNCHANGED hsdev
       ELSE \E garbage \in GarbageContent :
                LET expected == ContentLen(f, garbage) + HeaderSize IN
                /\ frag_expected' = expected
                /\ \/ /\ expected > MaxInput \/ AllocFails
                      /\ UNCHANGED <<frag_buf, frag_len>>
                   \/ /\ expected <= MaxInput
                      /\ frag_buf' = <<f>>
                      /\ frag_len' = BodyLen(f)

Overflow(f) ==
    /\ ReadInput(f)
    /\ frag_len # 0
    /\ frag_len + BodyLen(f) > frag_expected
    /\ Discard
    /\ UNCHANGED dispatched

\* Mutant: a continuation is bounded without counting its own length.
ContinuationUnbounded(f) ==
    /\ ReadInput(f)
    /\ frag_len # 0
    /\ frag_len <= frag_expected
    /\ IF f.last
       THEN /\ HandleInputBody(Append(frag_buf, f), frag_len + BodyLen(f))
            /\ Discard
       ELSE /\ frag_buf' = Append(frag_buf, f)
            /\ frag_len' = frag_len + BodyLen(f)
            /\ UNCHANGED <<frag_expected, dispatched>>

Continuation(f) ==
    /\ ReadInput(f)
    /\ frag_len # 0
    /\ frag_len + BodyLen(f) <= frag_expected
    /\ IF f.last
       THEN /\ HandleInputBody(Append(frag_buf, f), frag_len + BodyLen(f))
            /\ Discard
       ELSE /\ frag_buf' = Append(frag_buf, f)
            /\ frag_len' = frag_len + BodyLen(f)
            /\ UNCHANGED <<frag_expected, dispatched>>

\* One run of hidspi_irq_thread().
HandleInput ==
    /\ wire # << >>
    /\ \/ ReadFails
       \/ BodyLenOutOfRange
       \/ SingleFragment(Head(wire))
       \/ FirstFragment(Head(wire))
       \/ Overflow(Head(wire))
       \/ Continuation(Head(wire))

Next ==
    \/ \E s \in Shapes : DeviceSends(s)
    \/ HandleInput

Spec == Init /\ [][Next]_vars

\* The interrupt stays asserted while the device holds a fragment, and the
\* threaded handler is scheduled again after each run.
FairSpec == Spec /\ WF_vars(HandleInput)

-------------------------------------------------------------------------------
TypeOK ==
    /\ sent \in 0..MaxReports
    /\ wire \in Seq(Fragment)
    /\ lost \in SUBSET Nat
    /\ frag_buf \in Seq(Fragment)
    /\ frag_len \in Nat
    /\ frag_expected \in Nat
    /\ dispatched \in Seq(Seq(Fragment))

\* @frag_len is the "number of bytes accumulated in @frag_buf so far": no byte
\* is accounted for without a buffer that holds it, nor a buffer kept that the
\* next fragment would not find, whatever the device sends and whatever fails.
LenMatchesBuffer == (frag_len = 0) <=> (frag_buf = << >>)

\* A buffer can only outgrow its allocation through its first fragment, the
\* one copy hidspi_handle_input() makes without comparing it with the size it
\* allocated; every later copy is bounded.
OnlyFirstCopyUnbounded ==
    frag_buf # << >> =>
        \/ frag_len <= frag_expected
        \/ Len(frag_buf) = 1 /\ frag_len = BodyLen(frag_buf[1])

Whole(body) ==
    /\ body # << >>
    /\ \A i \in 1..Len(body) :
        /\ body[i].report = body[1].report
        /\ body[i].index = i
        /\ body[i].last <=> i = Len(body)

\* "We accumulate in frag_buf until the last fragment arrives, then dispatch
\* the whole report": nothing is dispatched but one report, all of it.
DispatchesWholeReports == \A k \in 1..Len(dispatched) : Whole(dispatched[k])

\* Reports that have left the device altogether.
Consumed == IF wire = << >> THEN sent
            ELSE Head(wire).report - 1

\* Every report all of whose fragments have been read has been dispatched, once
\* and in the order the device produced them; only what a failed read hit is
\* missing.
ReadMeansDispatched ==
    /\ \A n \in 1..Consumed :
          n \in lost \/ \E k \in 1..Len(dispatched) : dispatched[k][1].report = n
    /\ \A k \in 1..Len(dispatched) : dispatched[k][1].report \in (1..Consumed) \ lost
    /\ \A j, k \in 1..Len(dispatched) :
          j < k => dispatched[j][1].report < dispatched[k][1].report

Delivered == [k \in 1..Len(dispatched) |->
                IF Whole(dispatched[k]) THEN dispatched[k][1].report ELSE 0]

Stream == INSTANCE ReportStream WITH
    produced <- sent,
    consumed <- Consumed,
    delivered <- Delivered,
    BusLoses <- ReadErrors # "never"

\* The reassembly implements the report stream: every report the device produces
\* is eventually delivered, whole and in order, but for those of which a read
\* failed, as long as reads fail on reports in one fragment only.
ImplementsStream == Stream!Spec
===============================================================================
