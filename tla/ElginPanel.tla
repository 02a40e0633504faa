------------------------------ MODULE ElginPanel ------------------------------
(***************************************************************************)
(* drivers/panel/panel-elgin.c: one panel, from probe on, with its         *)
(* supplies, its reset line, the link mode of its DSI commands and its     *)
(* display controller (DDIC).                                              *)
(*                                                                         *)
(* Two threads call the driver.  The DRM core ("drm") prepares, enables,   *)
(* disables and unprepares the panel and turns the backlight on and off    *)
(* around that.  A user of the backlight's sysfs files ("sysfs") sets and  *)
(* reads the brightness at any time from probe on.  Nothing but the        *)
(* backlight core's update lock orders them, and dsi->mode_flags, which    *)
(* every command consults, belongs to neither.                             *)
(*                                                                         *)
(* A command is known by its purpose; registers of elgin_on() that take    *)
(* the same part and do not depend on their position are one command.      *)
(***************************************************************************)
EXTENDS Naturals, Sequences

CONSTANTS
    Levels,        \* brightness levels a user may ask for
    Default,       \* ELGIN_DBV_DEFAULT
    BusErrors,     \* a DSI transfer may fail
    EnableFails,   \* regulator_enable() may fail
    DisableFails,  \* regulator_disable() may fail
    MaxCycles,     \* bound: calls of elgin_prepare()
    MaxOps         \* bound: uses of the sysfs files

ASSUME LevelsAssumption == Levels \subseteq Nat /\ Default \in Levels /\ Default > 0

ASSUME PanelBounds ==
    /\ BusErrors \in BOOLEAN /\ EnableFails \in BOOLEAN /\ DisableFails \in BOOLEAN
    /\ MaxCycles \in Nat /\ MaxOps \in Nat

VARIABLES
    pc,          \* next statement of the DRM core's thread
    next,        \* next command of elgin_on()
    cycles,      \* calls of elgin_prepare()
    vddio, vdd,  \* enable counts of the panel's two supplies
    stuck,       \* disables of each that have failed
    reset,       \* whether reset_gpio is asserted
    lpm,         \* MIPI_DSI_MODE_LPM in dsi->mode_flags
    op,          \* next statement of each thread in a backlight operation
    value,       \* the brightness it is about to send
    owner,       \* holder of the backlight core's update lock
    brightness, blank,  \* what the backlight core is asked to show
    bl_ok,       \* whether the last elgin_bl_update_status() returned 0
    ops,         \* uses of the sysfs files
    ddic         \* the display controller

supplies == <<vddio, vdd, stuck>>
bl       == <<op, value, owner, brightness, blank, bl_ok, ops>>
vars     == <<pc, next, cycles, supplies, reset, lpm, bl, ddic>>

Threads == {"drm", "sysfs"}

\* elgin_on(): unlock keys, flash access to DHFR, brightness, PPS, tearing
\* effect, sleep out, then the two VFP trims and flash control, each after the
\* parameter offset it is written at.
OnSequence == <<"keys", "config", "brightness", "pps", "tear", "sleep_out",
                "offset_08", "trim_60", "offset_10", "trim_90",
                "offset_70", "flash_ctrl">>
Commands == {OnSequence[i] : i \in 1..Len(OnSequence)}

\* The offset each of these is written at.
Offset == [trim_60 |-> "offset_08", trim_90 |-> "offset_10", flash_ctrl |-> "offset_70"]

\* Commands that are sent from elsewhere.
OtherCommands == {"display_on", "display_off", "sleep_in", "set_brightness", "get_brightness"}

\* The DDIC: the commands of elgin_on() it has executed since its reset, the
\* brightness, whether it shows anything, and the last command of all.
Ddic == [got : Seq(Commands), dbv : Levels \cup {0}, shows : BOOLEAN,
         last : Commands \cup OtherCommands \cup {"none"}]

\* One that is held in reset or has just left it.
Fresh == [got |-> << >>, dbv |-> 0, shows |-> FALSE, last |-> "none"]

Alive == ~reset /\ vddio > 0 /\ vdd > 0

\* What a transfer may come to, and whom it reaches.
Transfers == IF BusErrors THEN BOOLEAN ELSE {TRUE}
Reaches(ok) == ok /\ Alive

At(l, m) == pc = l /\ pc' = m

-------------------------------------------------------------------------------
\* elgin_probe() has taken the reset line asserted and the panel is registered.
Init ==
    /\ pc = "unprepared" /\ next = 1 /\ cycles = 0
    /\ vddio = 0 /\ vdd = 0 /\ stuck = [vddio |-> 0, vdd |-> 0]
    /\ reset = TRUE
    /\ lpm = TRUE
    /\ op = [t \in Threads |-> "none"]
    /\ value = [t \in Threads |-> 0]
    /\ owner = "none"
    /\ brightness = Default /\ blank = FALSE /\ bl_ok = TRUE /\ ops = 0
    /\ ddic = Fresh

(* elgin_prepare() *)

EnableVddio ==
    /\ pc = "unprepared"
    /\ cycles < MaxCycles
    /\ cycles' = cycles + 1
    /\ \/ pc' = "enable_vdd" /\ vddio' = vddio + 1
       \/ EnableFails /\ UNCHANGED <<pc, vddio>>
    /\ UNCHANGED <<next, vdd, stuck, reset, lpm, bl, ddic>>

\* Mutant: the error path starts one label too late.
EnableVddReturns ==
    /\ pc = "enable_vdd"
    /\ \/ pc' = "assert" /\ vdd' = vdd + 1
       \/ EnableFails /\ pc' = "unprepared" /\ UNCHANGED vdd
    /\ UNCHANGED <<next, cycles, vddio, stuck, reset, lpm, bl, ddic>>

EnableVdd ==
    /\ pc = "enable_vdd"
    /\ \/ pc' = "assert" /\ vdd' = vdd + 1
       \/ EnableFails /\ pc' = "err_vdd" /\ UNCHANGED vdd
    /\ UNCHANGED <<next, cycles, vddio, stuck, reset, lpm, bl, ddic>>

\* elgin_reset()
AssertReset(l, m) ==
    /\ At(l, m)
    /\ reset' = TRUE
    /\ ddic' = Fresh
    /\ UNCHANGED <<next, cycles, supplies, lpm, bl>>

ResetAsserts == AssertReset("assert", "release")

ResetReleases ==
    /\ At("release", "on")
    /\ reset' = FALSE
    /\ next' = 1
    /\ UNCHANGED <<cycles, supplies, lpm, bl, ddic>>

Executed(c) ==
    [ddic EXCEPT !.got = Append(@, c), !.last = c,
                 !.dbv = IF c = "brightness" THEN Default ELSE @]

\* Mutant: a failed command is skipped and the sequence goes on.
OnCommandGoesOn ==
    /\ pc = "on"
    /\ \E ok \in Transfers :
        /\ ddic' = IF Reaches(ok) THEN Executed(OnSequence[next]) ELSE ddic
        /\ pc' = IF next = Len(OnSequence) THEN "prepared" ELSE "on"
        /\ next' = next + 1
    /\ UNCHANGED <<cycles, supplies, reset, lpm, bl>>

\* The first failure ends the sequence: accum_err makes the rest no-ops.
OnCommand ==
    /\ pc = "on"
    /\ \E ok \in Transfers :
        /\ ddic' = IF Reaches(ok) THEN Executed(OnSequence[next]) ELSE ddic
        /\ pc' = IF ~ok THEN "err_on"
                 ELSE IF next = Len(OnSequence) THEN "prepared" ELSE "on"
        /\ next' = next + 1
    /\ UNCHANGED <<cycles, supplies, reset, lpm, bl>>

\* Mutant: the error path leaves the DDIC out of reset.
ErrOnKeepsReset ==
    /\ At("err_on", "err_on_vdd")
    /\ UNCHANGED <<next, cycles, supplies, reset, lpm, bl, ddic>>

ErrOn == AssertReset("err_on", "err_on_vdd")

\* The results of regulator_disable() are not looked at.
ErrDisableVdd ==
    /\ At("err_on_vdd", "err_vdd")
    /\ \/ vdd' = vdd - 1 /\ UNCHANGED stuck
       \/ DisableFails /\ stuck' = [stuck EXCEPT !.vdd = @ + 1] /\ UNCHANGED vdd
    /\ UNCHANGED <<next, cycles, vddio, reset, lpm, bl, ddic>>

ErrDisableVddio ==
    /\ At("err_vdd", "unprepared")
    /\ \/ vddio' = vddio - 1 /\ UNCHANGED stuck
       \/ DisableFails /\ stuck' = [stuck EXCEPT !.vddio = @ + 1] /\ UNCHANGED vddio
    /\ UNCHANGED <<next, cycles, vdd, reset, lpm, bl, ddic>>

(* elgin_unprepare() *)

UnprepareAsserts == AssertReset("disabled", "unprepare")

\* regulator_bulk_disable() enables again what it had disabled when it fails.
UnprepareSupplies ==
    /\ At("unprepare", "unprepared")
    /\ \/ vddio' = vddio - 1 /\ vdd' = vdd - 1 /\ UNCHANGED stuck
       \/ /\ DisableFails
          /\ stuck' = [vddio |-> stuck.vddio + 1, vdd |-> stuck.vdd + 1]
          /\ UNCHANGED <<vddio, vdd>>
    /\ UNCHANGED <<next, cycles, reset, lpm, bl, ddic>>
-------------------------------------------------------------------------------
\* Mutant: LPM is restored only when the brightness was sent.
RestoresOnSuccess(b) == lpm' = IF b /\ ~bl_ok THEN lpm ELSE b

SetLpm(b) == lpm' = b

ModeFlags(l, m, b) ==
    /\ At(l, m)
    /\ SetLpm(b)
    /\ UNCHANGED <<next, cycles, supplies, reset, bl, ddic>>

(* elgin_enable() *)

EnableClears == ModeFlags("prepared", "display_on", FALSE)

EnableSends ==
    /\ pc = "display_on"
    /\ \E ok \in Transfers :
        /\ ddic' = IF Reaches(ok) THEN [ddic EXCEPT !.shows = TRUE, !.last = "display_on"]
                   ELSE ddic
        /\ pc' = IF ok THEN "enable_restore" ELSE "enable_failed"
    /\ UNCHANGED <<next, cycles, supplies, reset, lpm, bl>>

EnableFailed == ModeFlags("enable_failed", "disabled", TRUE)

\* The DRM core turns the backlight on once elgin_enable() has returned 0 ...
EnableRestores ==
    /\ At("enable_restore", "enabled")
    /\ SetLpm(TRUE)
    /\ blank' = FALSE
    /\ op' = [op EXCEPT !["drm"] = "lock"]
    /\ UNCHANGED <<next, cycles, supplies, reset, value, owner, brightness, bl_ok,
                   ops, ddic>>

\* ... and off before it calls elgin_disable().
BacklightOff ==
    /\ At("enabled", "disable")
    /\ blank' = TRUE
    /\ op' = [op EXCEPT !["drm"] = "lock"]
    /\ UNCHANGED <<next, cycles, supplies, reset, lpm, value, owner, brightness, bl_ok,
                   ops, ddic>>

(* elgin_disable() *)

DisableClears == ModeFlags("disable", "display_off", FALSE)

\* The first failure makes the second command a no-op.
DisableSends(l, m) ==
    /\ pc = l
    /\ \E ok \in Transfers :
        /\ ddic' = IF Reaches(ok) THEN [ddic EXCEPT !.shows = FALSE, !.last = l] ELSE ddic
        /\ pc' = IF ok THEN m ELSE "disable_restore"
    /\ UNCHANGED <<next, cycles, supplies, reset, lpm, bl>>

DisplayOff == DisableSends("display_off", "sleep_in")
SleepIn    == DisableSends("sleep_in", "disable_restore")

DisableRestores == ModeFlags("disable_restore", "disabled", TRUE)

\* The DRM core goes on when the backlight operation it asked for has returned.
Drm ==
    /\ op["drm"] = "none"
    /\ \/ EnableVddio \/ EnableVdd \/ ResetAsserts \/ ResetReleases \/ OnCommand
       \/ ErrOn \/ ErrDisableVdd \/ ErrDisableVddio
       \/ EnableClears \/ EnableSends \/ EnableFailed \/ EnableRestores
       \/ BacklightOff \/ DisableClears \/ DisplayOff \/ SleepIn \/ DisableRestores
       \/ UnprepareAsserts \/ UnprepareSupplies

-------------------------------------------------------------------------------
(* Backlight operations. *)

OpStep(t, l, m) ==
    /\ op[t] = l
    /\ op' = [op EXCEPT ![t] = m]

\* A user stores a brightness, or reads the actual one.
Store(b) ==
    /\ ops < MaxOps /\ ops' = ops + 1
    /\ OpStep("sysfs", "none", "lock")
    /\ brightness' = b
    /\ UNCHANGED <<pc, next, cycles, supplies, reset, lpm, value, owner, blank, bl_ok, ddic>>

Show ==
    /\ ops < MaxOps /\ ops' = ops + 1
    /\ OpStep("sysfs", "none", "get")
    /\ UNCHANGED <<pc, next, cycles, supplies, reset, lpm, value, owner, brightness, blank,
                   bl_ok, ddic>>

\* backlight_get_brightness()
Shown == IF blank THEN 0 ELSE brightness

(* elgin_bl_update_status(), called with the update lock held *)

\* Mutant: bl->props.brightness, whether the backlight is on or off.
UpdateReadsRaw(t) ==
    /\ OpStep(t, "lock", "update")
    /\ owner = "none" /\ owner' = t
    /\ value' = [value EXCEPT ![t] = brightness]
    /\ UNCHANGED <<pc, next, cycles, supplies, reset, lpm, brightness, blank, bl_ok, ops, ddic>>

UpdateReads(t) ==
    /\ OpStep(t, "lock", "update")
    /\ owner = "none" /\ owner' = t
    /\ value' = [value EXCEPT ![t] = Shown]
    /\ UNCHANGED <<pc, next, cycles, supplies, reset, lpm, brightness, blank, bl_ok, ops, ddic>>

OpClears(t, l, m) ==
    /\ OpStep(t, l, m)
    /\ SetLpm(FALSE)
    /\ UNCHANGED <<pc, next, cycles, supplies, reset, value, owner, brightness, blank,
                   bl_ok, ops, ddic>>

UpdateClears(t) == OpClears(t, "update", "send")

UpdateSends(t) ==
    /\ OpStep(t, "send", "restore")
    /\ \E ok \in Transfers :
        /\ ddic' = IF Reaches(ok)
                   THEN [ddic EXCEPT !.dbv = value[t], !.last = "set_brightness"] ELSE ddic
        /\ bl_ok' = ok
    /\ UNCHANGED <<pc, next, cycles, supplies, reset, lpm, value, owner, brightness, blank, ops>>

UpdateRestores(t) ==
    /\ OpStep(t, "restore", "none")
    /\ SetLpm(TRUE)
    /\ owner' = "none"
    /\ UNCHANGED <<pc, next, cycles, supplies, reset, value, brightness, blank, bl_ok, ops, ddic>>

(* elgin_bl_get_brightness(), called without the update lock *)

GetClears == OpClears("sysfs", "get", "get_send")

\* The read is a command to the DDIC like any other.
GetSends ==
    /\ OpStep("sysfs", "get_send", "get_restore")
    /\ \E ok \in Transfers :
        ddic' = IF Reaches(ok) THEN [ddic EXCEPT !.last = "get_brightness"] ELSE ddic
    /\ UNCHANGED <<pc, next, cycles, supplies, reset, lpm, value, owner, brightness, blank,
                   bl_ok, ops>>

GetRestores ==
    /\ OpStep("sysfs", "get_restore", "none")
    /\ SetLpm(TRUE)
    /\ UNCHANGED <<pc, next, cycles, supplies, reset, value, owner, brightness, blank,
                   bl_ok, ops, ddic>>

Backlight ==
    \/ \E b \in Levels : Store(b)
    \/ Show \/ GetClears \/ GetSends \/ GetRestores
    \/ \E t \in Threads : UpdateReads(t) \/ UpdateClears(t) \/ UpdateSends(t) \/ UpdateRestores(t)

Next == Drm \/ Backlight

Spec == Init /\ [][Next]_vars

-------------------------------------------------------------------------------
PreparedPcs == {"prepared", "display_on", "enable_failed", "enable_restore", "enabled",
                "disable", "display_off", "sleep_in", "disable_restore", "disabled"}
Pcs == {"unprepared", "enable_vdd", "assert", "release", "on", "err_on", "err_on_vdd",
        "err_vdd", "unprepare"} \cup PreparedPcs

TypeOK ==
    /\ pc \in Pcs
    /\ next \in 1..(Len(OnSequence) + 1)
    /\ cycles \in 0..MaxCycles
    /\ vddio \in Nat /\ vdd \in Nat
    /\ stuck \in [vddio : Nat, vdd : Nat]
    /\ reset \in BOOLEAN /\ lpm \in BOOLEAN
    /\ op \in [Threads -> {"none", "lock", "update", "send", "restore",
                           "get", "get_send", "get_restore"}]
    /\ value \in [Threads -> Levels \cup {0}]
    /\ owner \in Threads \cup {"none"}
    /\ brightness \in Levels /\ blank \in BOOLEAN /\ bl_ok \in BOOLEAN
    /\ ops \in 0..MaxOps
    /\ ddic \in Ddic

\* A thread between clearing LPM and setting it again.
DrmWindow == pc \in {"display_on", "enable_restore", "enable_failed",
                     "display_off", "sleep_in", "disable_restore"}
OpWindow(t) == op[t] \in {"send", "restore", "get_send", "get_restore"}

\* However the calls interleave, LPM is set again when the last of them returns:
\* elgin_on() is not sent in high speed mode because an earlier operation
\* failed or overlapped another.
LpmRestored == lpm \/ DrmWindow \/ \E t \in Threads : OpWindow(t)

\* Supplies are enabled and disabled in pairs on every path of prepare and
\* unprepare; a disable that fails is all that leaves one on.
SuppliesBalanced ==
    /\ vddio = stuck.vddio + (IF pc = "unprepared" THEN 0 ELSE 1)
    /\ vdd = stuck.vdd + (IF pc \in {"unprepared", "enable_vdd", "err_vdd"} THEN 0 ELSE 1)

\* The DDIC is out of reset only while both of its supplies are on.
ReleasedMeansPowered == ~reset => vddio > 0 /\ vdd > 0

\* A panel that elgin_prepare() has reported prepared has executed all commands
\* of elgin_on(), in their order, since it was last reset.  What the backlight
\* has sent between two of them is not excluded.
PreparedMeansInitialised == pc \in PreparedPcs => ddic.got = OnSequence

\* "The 0xb0 parameter-offset writes are each immediately followed by their 0xe1
\* VFP-trim payload": what is written at an offset is sent while the offset is
\* the last command the DDIC has received.
OffsetsAdjacent ==
    pc = "on" /\ OnSequence[next] \in DOMAIN Offset
        => ddic.last = Offset[OnSequence[next]]

\* From when the DRM core has enabled the panel until it has disabled it, and no
\* brightness operation is under way, the panel shows what the backlight core
\* asks for - nothing while the backlight is off - however the user's stores
\* interleaved with the default elgin_on() writes and with the DRM core's own
\* updates; or the last update has failed.
ShowsRequested ==
    /\ pc \in {"enabled", "disable", "display_off", "sleep_in", "disable_restore"}
    /\ op["drm"] \notin {"lock", "update", "send"}
    /\ op["sysfs"] \notin {"lock", "update", "send"}
    => ddic.dbv = Shown \/ ~bl_ok

\* "dsi->mode_flags has MIPI_DSI_MODE_LPM cleared for the duration": the
\* commands of elgin_enable() and elgin_disable() are sent in high speed mode.
HighSpeedForDuration == pc \in {"display_on", "display_off", "sleep_in"} => ~lpm
===============================================================================
