---------------------------- MODULE ReportStream -----------------------------
(***************************************************************************)
(* What the input path of the HID-over-SPI driver promises to its          *)
(* consumers: the reports the device produced reach the dispatcher whole,  *)
(* in the order in which they were produced, each at most once, and all    *)
(* but those the bus lost.  A report is known by its number.               *)
(***************************************************************************)
EXTENDS Naturals, Sequences

CONSTANTS
    MaxReports,   \* bound: how many reports the device produces
    BusLoses      \* whether the bus may lose a report

VARIABLES
    produced,     \* number of reports the device has produced
    consumed,     \* number of reports that have left the device
    lost,         \* numbers of the reports lost on the bus
    delivered     \* numbers of the reports delivered, in delivery order

vars == <<produced, consumed, lost, delivered>>

Init ==
    /\ produced = 0
    /\ consumed = 0
    /\ lost = {}
    /\ delivered = << >>

Produce ==
    /\ produced < MaxReports
    /\ produced' = produced + 1
    /\ UNCHANGED <<consumed, lost, delivered>>

Deliver ==
    /\ consumed < produced
    /\ consumed' = consumed + 1
    /\ delivered' = Append(delivered, consumed + 1)
    /\ UNCHANGED <<produced, lost>>

Lose ==
    /\ BusLoses
    /\ consumed < produced
    /\ consumed' = consumed + 1
    /\ lost' = lost \cup {consumed + 1}
    /\ UNCHANGED <<produced, delivered>>

Next == Produce \/ Deliver \/ Lose

\* What may happen to a report ...
Safe == Init /\ [][Next]_vars

\* ... and that something does.
Spec == Safe /\ WF_vars(Deliver \/ Lose)
==============================================================================
