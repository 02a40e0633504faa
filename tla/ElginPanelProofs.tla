--------------------------- MODULE ElginPanelProofs ---------------------------
(***************************************************************************)
(* Proofs about ElginPanel, for all brightness levels, every combination   *)
(* of failures and any number of cycles and operations.                    *)
(***************************************************************************)
EXTENDS ElginPanel, SequenceTheorems, TLAPS

-------------------------------------------------------------------------------
\* The reset line follows the DRM core's thread.
ResetInv == reset <=> pc \notin {"on", "err_on"} \cup PreparedPcs

\* While elgin_on() runs the DDIC has executed the commands sent so far.
SequenceInv ==
    /\ pc = "release" => ddic.got = << >>
    /\ pc = "on" => /\ next \in 1..Len(OnSequence)
                    /\ Len(ddic.got) = next - 1
                    /\ \A i \in 1..(next - 1) : ddic.got[i] = OnSequence[i]
    /\ PreparedMeansInitialised

\* The holder of the update lock is in elgin_bl_update_status().
LockInv == \A t \in Threads : op[t] \in {"update", "send", "restore"} <=> owner = t

\* What a thread is about to send is what is asked for, unless the other thread
\* waits to send something newer.
ValueInv ==
    \A t \in Threads :
        op[t] \in {"update", "send"} /\ (\A u \in Threads : op[u] # "lock")
            => value[t] = Shown

PowerInv == TypeOK /\ SuppliesBalanced /\ ResetInv

\* The sequence elgin_on() sends.
LEMMA Sequence ==
    /\ OnSequence \in Seq(Commands)
    /\ Len(OnSequence) = 12
    /\ \A i \in 1..12 : OnSequence[i] \in Commands
<1>1. Len(OnSequence) = 12
  BY DEF OnSequence
<1>2. \A i \in 1..12 : OnSequence[i] \in Commands
  BY <1>1 DEF Commands
<1>3. OnSequence = [i \in 1..12 |-> OnSequence[i]]
  BY DEF OnSequence
<1>4. OnSequence \in Seq(Commands)
  <2>1. OnSequence \in [1..12 -> Commands]
    BY <1>2, <1>3
  <2>2. QED
    BY <2>1, SeqDef
<1>5. QED
  BY <1>1, <1>2, <1>4

\* A DDIC that is out of reset is powered, whatever disable has failed.
LEMMA OutOfResetAlive ==
    ASSUME PowerInv
    PROVE  /\ ReleasedMeansPowered
           /\ ~reset => Alive
BY DEF PowerInv, TypeOK, SuppliesBalanced, ResetInv, ReleasedMeansPowered, Alive, PreparedPcs

\* A transfer leaves a DDIC, whatever command it carries.
LEMMA ExecutedType ==
    ASSUME TypeOK, NEW i \in 1..Len(OnSequence)
    PROVE  Executed(OnSequence[i]) \in Ddic
<1>1. OnSequence[i] \in Commands
  BY Sequence
<1>2. PICK c \in Commands : c = OnSequence[i]
  BY <1>1
<1>3. ddic \in Ddic /\ ddic.got \in Seq(Commands)
  BY DEF TypeOK, Ddic
<1>4. Append(ddic.got, c) \in Seq(Commands)
  BY <1>3
<1>5. QED
  BY <1>2, <1>3, <1>4, LevelsAssumption DEF Executed, Ddic

\* A command from elsewhere leaves what elgin_on() has sent, and only a brightness
\* update changes the brightness.
LEMMA OtherCommand ==
    ASSUME TypeOK,
           \/ EnableSends \/ DisplayOff \/ SleepIn \/ GetSends
           \/ \E t \in Threads : UpdateSends(t)
    PROVE  /\ ddic' \in Ddic
           /\ ddic'.got = ddic.got
           /\ ddic'.dbv = ddic.dbv \/ \E t \in Threads : UpdateSends(t)
<1>1. ddic \in Ddic /\ value \in [Threads -> Levels \cup {0}]
  BY DEF TypeOK
<1>2. CASE EnableSends
  BY <1>1, <1>2, ZenonT(60) DEF EnableSends, Ddic, OtherCommands
<1>3. CASE DisplayOff \/ SleepIn
  BY <1>1, <1>3, ZenonT(60) DEF DisplayOff, SleepIn, DisableSends, Ddic, OtherCommands
<1>4. CASE GetSends
  BY <1>1, <1>4, ZenonT(60) DEF GetSends, Ddic, OtherCommands
<1>5. ASSUME NEW t \in Threads, UpdateSends(t)
      PROVE  ddic' \in Ddic /\ ddic'.got = ddic.got
  <2>1. value[t] \in Levels \cup {0}
    BY <1>1
  <2>2. PICK v \in Levels \cup {0} : v = value[t]
    BY <2>1
  <2>3. \/ ddic' = [ddic EXCEPT !.dbv = v, !.last = "set_brightness"]
        \/ ddic' = ddic
    BY <1>5, <2>2 DEF UpdateSends
  <2>4. QED
    BY <1>1, <2>3 DEF Ddic, OtherCommands
<1>6. QED
  BY <1>2, <1>3, <1>4, <1>5

\* Everything is off, and LPM set, when elgin_probe() returns.
LEMMA PanelInit ==
    Init => /\ PowerInv /\ LpmRestored /\ SequenceInv
            /\ LockInv /\ ValueInv /\ ShowsRequested
<1> SUFFICES ASSUME Init
             PROVE  /\ PowerInv /\ LpmRestored /\ SequenceInv
                    /\ LockInv /\ ValueInv /\ ShowsRequested
  OBVIOUS
<1>1. ddic \in Ddic
  BY DEF Init, Fresh, Ddic
<1>2. next \in 1..(Len(OnSequence) + 1)
  BY Sequence DEF Init
<1>3. TypeOK
  <2>1. cycles \in 0..MaxCycles /\ ops \in 0..MaxOps
    BY PanelBounds DEF Init
  <2>2. /\ vddio \in Nat /\ vdd \in Nat /\ stuck \in [vddio : Nat, vdd : Nat]
        /\ brightness \in Levels /\ value \in [Threads -> Levels \cup {0}]
    BY LevelsAssumption DEF Init
  <2>3. /\ pc \in Pcs /\ owner \in Threads \cup {"none"}
        /\ reset \in BOOLEAN /\ lpm \in BOOLEAN /\ blank \in BOOLEAN /\ bl_ok \in BOOLEAN
        /\ op \in [Threads -> {"none", "lock", "update", "send", "restore",
                               "get", "get_send", "get_restore"}]
    BY DEF Init, Pcs
  <2>4. QED
    BY <1>1, <1>2, <2>1, <2>2, <2>3 DEF TypeOK
<1>4. PowerInv /\ LpmRestored
  BY <1>3 DEF Init, PowerInv, LpmRestored, SuppliesBalanced, ResetInv, PreparedPcs
<1>5. SequenceInv
  BY DEF Init, SequenceInv, PreparedMeansInitialised, PreparedPcs
<1>6. LockInv /\ ValueInv /\ ShowsRequested
  BY DEF Init, LockInv, ValueInv, ShowsRequested, Threads
<1>7. QED
  BY <1>4, <1>5, <1>6

-------------------------------------------------------------------------------
\* No step changes a type.
LEMMA TypeStep == PowerInv /\ SequenceInv /\ [Next]_vars => TypeOK'
<1> SUFFICES ASSUME PowerInv, SequenceInv, [Next]_vars
             PROVE  TypeOK'
  OBVIOUS
<1>1. TypeOK /\ SuppliesBalanced
  BY DEF PowerInv
<1> USE LevelsAssumption, PanelBounds DEF TypeOK, At
<1>2. ASSUME EnableVddio
      PROVE  TypeOK'
  <2>1. pc' \in Pcs
    BY <1>1, <1>2 DEF EnableVddio, Pcs
  <2>2. cycles' \in 0..MaxCycles
    BY <1>1, <1>2 DEF EnableVddio
  <2>3. vddio' \in Nat
    BY <1>1, <1>2 DEF EnableVddio
  <2>4. QED
    BY <1>1, <1>2, <2>1, <2>2, <2>3 DEF EnableVddio, bl
<1>20. ASSUME EnableVdd
      PROVE  TypeOK'
  <2>1. pc' \in Pcs
    BY <1>1, <1>20 DEF EnableVdd, Pcs
  <2>3. vdd' \in Nat
    BY <1>1, <1>20 DEF EnableVdd
  <2>4. QED
    BY <1>1, <1>20, <2>1, <2>3 DEF EnableVdd, bl
<1>3. Fresh \in Ddic
  BY DEF Fresh, Ddic
<1>4. ASSUME ResetAsserts \/ ErrOn \/ UnprepareAsserts
      PROVE  TypeOK'
  BY <1>1, <1>3, <1>4, ZenonT(60) DEF ResetAsserts, ErrOn, UnprepareAsserts, AssertReset, bl, supplies, Pcs
<1>5. ASSUME ResetReleases
      PROVE  TypeOK'
  <2>1. pc' \in Pcs
    BY <1>5 DEF ResetReleases, Pcs
  <2>2. next' \in 1..(Len(OnSequence) + 1)
    <3>1. next' = 1 /\ Len(OnSequence) = 12
      BY <1>5, Sequence DEF ResetReleases
    <3>2. QED
      BY <3>1
  <2>3. QED
    BY <1>1, <1>5, <2>1, <2>2 DEF ResetReleases, bl, supplies
<1>6. ASSUME OnCommand
      PROVE  TypeOK'
  <2>1. next \in 1..Len(OnSequence)
    BY <1>6 DEF OnCommand, SequenceInv
  <2>2. Executed(OnSequence[next]) \in Ddic
    BY <1>1, <2>1, ExecutedType
  <2>3. ddic' \in Ddic
    BY <1>1, <1>6, <2>2 DEF OnCommand
  <2>4. pc' \in Pcs
    BY <1>6 DEF OnCommand, Pcs, PreparedPcs
  <2>5. next' \in 1..(Len(OnSequence) + 1)
    <3>1. next' = next + 1
      BY <1>6 DEF OnCommand
    <3>2. Len(OnSequence) = 12
      BY Sequence
    <3>3. QED
      BY <2>1, <3>1, <3>2
  <2>6. QED
    BY <1>1, <1>6, <2>3, <2>4, <2>5 DEF OnCommand, bl, supplies
<1>7. ASSUME ErrDisableVdd
      PROVE  TypeOK'
  <2>1. stuck.vddio \in Nat /\ stuck.vdd \in Nat
    BY <1>1
  <2>2. pc' \in Pcs /\ vdd' \in Nat
    BY <1>1, <1>7, <2>1, SMTT(60) DEF ErrDisableVdd, SuppliesBalanced, Pcs
  <2>3. stuck' \in [vddio : Nat, vdd : Nat]
    BY <1>1, <1>7, <2>1 DEF ErrDisableVdd
  <2>4. QED
    BY <1>1, <1>7, <2>2, <2>3 DEF ErrDisableVdd, bl
<1>21. ASSUME ErrDisableVddio
       PROVE  TypeOK'
  <2>1. stuck.vddio \in Nat /\ stuck.vdd \in Nat
    BY <1>1
  <2>2. pc' \in Pcs /\ vddio' \in Nat
    BY <1>1, <1>21, <2>1, SMTT(60) DEF ErrDisableVddio, SuppliesBalanced, Pcs
  <2>3. stuck' \in [vddio : Nat, vdd : Nat]
    BY <1>1, <1>21, <2>1, SMTT(60) DEF ErrDisableVddio
  <2>4. QED
    BY <1>1, <1>21, <2>2, <2>3 DEF ErrDisableVddio, bl
<1>8. ASSUME UnprepareSupplies
      PROVE  TypeOK'
  BY <1>1, <1>8, SMTT(60) DEF UnprepareSupplies, SuppliesBalanced, bl, Pcs
<1>9. ASSUME NEW l, NEW m \in Pcs, NEW b \in BOOLEAN, ModeFlags(l, m, b)
      PROVE  TypeOK'
  BY <1>1, <1>9 DEF ModeFlags, SetLpm, bl, supplies
<1>10. ASSUME EnableClears \/ EnableFailed \/ DisableClears \/ DisableRestores
       PROVE  TypeOK'
  <2>1. {"display_on", "disabled", "display_off"} \subseteq Pcs
    BY DEF Pcs, PreparedPcs
  <2>2. QED
    BY <1>9, <1>10, <2>1 DEF EnableClears, EnableFailed, DisableClears, DisableRestores
<1>11. ASSUME EnableSends \/ DisplayOff \/ SleepIn
       PROVE  TypeOK'
  <2>1. ddic' \in Ddic
    BY <1>1, <1>11, OtherCommand
  <2>2. pc' \in Pcs
    BY <1>11 DEF EnableSends, DisplayOff, SleepIn, DisableSends, Pcs, PreparedPcs
  <2>3. QED
    BY <1>1, <1>11, <2>1, <2>2, SMTT(60) DEF EnableSends, DisplayOff, SleepIn, DisableSends, bl, supplies
<1>12. ASSUME EnableRestores \/ BacklightOff
       PROVE  TypeOK'
  BY <1>1, <1>12, ZenonT(60) DEF EnableRestores, BacklightOff, SetLpm, supplies, Threads, Pcs, PreparedPcs
<1>13. ASSUME (\E b \in Levels : Store(b)) \/ Show
       PROVE  TypeOK'
  <2>1. CASE \E b \in Levels : Store(b)
    <3>1. PICK b \in Levels : Store(b)
      BY <2>1
    <3>2. ops' \in 0..MaxOps /\ brightness' \in Levels
      BY <1>1, <3>1, PanelBounds DEF Store
    <3>3. op' \in [Threads -> {"none", "lock", "update", "send", "restore",
                               "get", "get_send", "get_restore"}]
      BY <1>1, <3>1 DEF Store, OpStep
    <3>4. QED
      BY <1>1, <3>1, <3>2, <3>3 DEF Store, supplies
  <2>2. CASE Show
    <3>1. ops' \in 0..MaxOps
      BY <1>1, <2>2, PanelBounds DEF Show
    <3>2. op' \in [Threads -> {"none", "lock", "update", "send", "restore",
                               "get", "get_send", "get_restore"}]
      BY <1>1, <2>2 DEF Show, OpStep
    <3>3. QED
      BY <1>1, <2>2, <3>1, <3>2 DEF Show, supplies
  <2>3. QED
    BY <1>13, <2>1, <2>2
<1>14. ASSUME GetClears \/ GetSends \/ GetRestores
       PROVE  TypeOK'
  <2>1. ddic' \in Ddic
    BY <1>1, <1>14, OtherCommand DEF GetClears, GetRestores, OpClears
  <2>2. op' \in [Threads -> {"none", "lock", "update", "send", "restore",
                             "get", "get_send", "get_restore"}]
    BY <1>1, <1>14 DEF GetClears, GetSends, GetRestores, OpClears, OpStep
  <2>3. lpm' \in BOOLEAN
    BY <1>1, <1>14 DEF GetClears, GetSends, GetRestores, OpClears, SetLpm
  <2>4. QED
    BY <1>1, <1>14, <2>1, <2>2, <2>3 DEF GetClears, GetSends, GetRestores, OpClears, supplies
<1>15. ASSUME NEW t \in Threads, UpdateReads(t)
       PROVE  TypeOK'
  <2>1. Shown \in Levels \cup {0}
    BY <1>1 DEF Shown
  <2>2. QED
    BY <1>1, <1>15, <2>1 DEF UpdateReads, OpStep, supplies
<1>16. ASSUME NEW t \in Threads, UpdateClears(t) \/ UpdateRestores(t)
       PROVE  TypeOK'
  BY <1>1, <1>16 DEF UpdateClears, UpdateRestores, OpClears, OpStep, SetLpm, supplies
<1>17. ASSUME NEW t \in Threads, UpdateSends(t)
       PROVE  TypeOK'
  <2>1. ddic' \in Ddic
    BY <1>1, <1>17, OtherCommand
  <2>2. bl_ok' \in BOOLEAN
    BY <1>17 DEF UpdateSends, Transfers
  <2>3. op' \in [Threads -> {"none", "lock", "update", "send", "restore",
                             "get", "get_send", "get_restore"}]
    BY <1>1, <1>17 DEF UpdateSends, OpStep
  <2>4. QED
    BY <1>1, <1>17, <2>1, <2>2, <2>3 DEF UpdateSends, supplies
<1>18. CASE UNCHANGED vars
  BY <1>1, <1>18 DEF vars, bl, supplies
<1>19. QED
  BY <1>2, <1>20, <1>4, <1>5, <1>6, <1>7, <1>21, <1>8, <1>10, <1>11, <1>12, <1>13, <1>14, <1>15, <1>16,
     <1>17, <1>18
     DEF Next, Drm, Backlight

\* A supply is switched, and the reset line moved, only where the DRM core's
\* thread goes from one part of elgin_prepare() or elgin_unprepare() to the next.
LEMMA PowerStep == PowerInv /\ SequenceInv /\ [Next]_vars => PowerInv'
<1> SUFFICES ASSUME PowerInv, SequenceInv, [Next]_vars
             PROVE  SuppliesBalanced' /\ ResetInv'
  BY TypeStep DEF PowerInv
<1>1. /\ TypeOK /\ SuppliesBalanced /\ ResetInv
      /\ vddio \in Nat /\ vdd \in Nat /\ stuck \in [vddio : Nat, vdd : Nat]
  BY DEF PowerInv, TypeOK
<1> USE DEF At, SuppliesBalanced, ResetInv, PreparedPcs, supplies
<1>2. CASE EnableVddio
  BY <1>1, <1>2 DEF EnableVddio
<1>3. CASE EnableVdd
  BY <1>1, <1>3 DEF EnableVdd
<1>4. CASE ResetAsserts \/ ErrOn \/ UnprepareAsserts
  BY <1>1, <1>4 DEF ResetAsserts, ErrOn, UnprepareAsserts, AssertReset
<1>5. CASE ResetReleases
  BY <1>1, <1>5 DEF ResetReleases
<1>6. CASE OnCommand
  BY <1>1, <1>6 DEF OnCommand
<1>7. CASE ErrDisableVdd
  <2>1. stuck.vddio \in Nat /\ stuck.vdd \in Nat
    BY <1>1
  <2>2. SuppliesBalanced'
    BY <1>1, <1>7, <2>1 DEF ErrDisableVdd
  <2>3. ResetInv'
    BY <1>1, <1>7 DEF ErrDisableVdd
  <2>4. QED
    BY <2>2, <2>3
<1>8. CASE ErrDisableVddio
  <2>1. stuck.vddio \in Nat /\ stuck.vdd \in Nat
    BY <1>1
  <2>2. SuppliesBalanced'
    BY <1>1, <1>8, <2>1 DEF ErrDisableVddio
  <2>3. ResetInv'
    BY <1>1, <1>8 DEF ErrDisableVddio
  <2>4. QED
    BY <2>2, <2>3
<1>9. CASE UnprepareSupplies
  <2>1. stuck.vddio \in Nat /\ stuck.vdd \in Nat
    BY <1>1
  <2>2. SuppliesBalanced'
    BY <1>1, <1>9, <2>1 DEF UnprepareSupplies
  <2>3. ResetInv'
    BY <1>1, <1>9 DEF UnprepareSupplies
  <2>4. QED
    BY <2>2, <2>3
<1>10. CASE EnableClears \/ EnableFailed \/ DisableClears \/ DisableRestores
  <2>1. UNCHANGED <<vddio, vdd, stuck, reset>> /\ pc \in PreparedPcs /\ pc' \in PreparedPcs
    BY <1>10 DEF EnableClears, EnableFailed, DisableClears, DisableRestores, ModeFlags
  <2>2. QED
    BY <1>1, <2>1
<1>11. CASE EnableSends \/ DisplayOff \/ SleepIn
  <2>1. UNCHANGED <<vddio, vdd, stuck, reset>> /\ pc \in PreparedPcs /\ pc' \in PreparedPcs
    BY <1>11 DEF EnableSends, DisplayOff, SleepIn, DisableSends
  <2>2. QED
    BY <1>1, <2>1
<1>12. CASE EnableRestores \/ BacklightOff
  <2>1. UNCHANGED <<vddio, vdd, stuck, reset>> /\ pc \in PreparedPcs /\ pc' \in PreparedPcs
    BY <1>12 DEF EnableRestores, BacklightOff
  <2>2. QED
    BY <1>1, <2>1
<1>13. CASE Backlight
  <2>1. UNCHANGED <<pc, supplies, reset>>
    BY <1>13 DEF Backlight, Store, Show, GetClears, GetSends, GetRestores, UpdateReads,
                 UpdateClears, UpdateSends, UpdateRestores, OpClears
  <2>2. QED
    BY <1>1, <2>1
<1>14. CASE UNCHANGED vars
  BY <1>1, <1>14 DEF vars
<1>15. QED
  BY <1>2, <1>3, <1>4, <1>5, <1>6, <1>7, <1>8, <1>9, <1>10, <1>11, <1>12, <1>13, <1>14
     DEF Next, Drm

\* The thread that clears LPM sets it again before it leaves the window.
LEMMA LpmStep == TypeOK /\ LpmRestored /\ [Next]_vars => LpmRestored'
<1> SUFFICES ASSUME TypeOK, LpmRestored, [Next]_vars
             PROVE  LpmRestored'
  OBVIOUS
<1>1. DOMAIN op = Threads
  BY DEF TypeOK
<1> USE DEF LpmRestored, DrmWindow, OpWindow, At
<1>2. CASE EnableClears \/ EnableFailed \/ DisableClears \/ DisableRestores
  BY <1>2 DEF EnableClears, EnableFailed, DisableClears, DisableRestores, ModeFlags, SetLpm
<1>3. CASE EnableRestores
  BY <1>3 DEF EnableRestores, SetLpm
<1>4. CASE EnableSends \/ DisplayOff \/ SleepIn
  <2>1. DrmWindow'
    BY <1>4 DEF EnableSends, DisplayOff, SleepIn, DisableSends
  <2>2. QED
    BY <2>1
<1>5. CASE \/ EnableVddio \/ EnableVdd \/ ResetAsserts \/ ResetReleases \/ OnCommand
           \/ ErrOn \/ ErrDisableVdd \/ ErrDisableVddio
           \/ UnprepareAsserts \/ UnprepareSupplies
  <2>1. ~DrmWindow /\ UNCHANGED <<lpm, op>>
    BY <1>5 DEF EnableVddio, EnableVdd, ResetAsserts, ResetReleases, OnCommand, ErrOn,
                ErrDisableVdd, ErrDisableVddio, UnprepareAsserts, UnprepareSupplies,
                AssertReset, bl
  <2>2. QED
    BY <2>1
<1>6. CASE BacklightOff /\ op["drm"] = "none"
  <2>1. UNCHANGED lpm /\ op' = [op EXCEPT !["drm"] = "lock"] /\ ~DrmWindow
    BY <1>6 DEF BacklightOff
  <2>2. ASSUME NEW t \in Threads, OpWindow(t)
        PROVE  OpWindow(t)'
    BY <1>1, <1>6, <2>1, <2>2
  <2>3. QED
    BY <2>1, <2>2
<1>7. CASE (\E b \in Levels : Store(b)) \/ Show
  <2>1. UNCHANGED <<pc, lpm>> /\ op["sysfs"] = "none"
    BY <1>7 DEF Store, Show, OpStep
  <2>2. \E l \in {"lock", "get"} : op' = [op EXCEPT !["sysfs"] = l]
    BY <1>7 DEF Store, Show, OpStep
  <2>3. ASSUME NEW t \in Threads, OpWindow(t)
        PROVE  OpWindow(t)'
    BY <1>1, <2>1, <2>2, <2>3
  <2>4. QED
    BY <2>1, <2>3
<1>8. CASE GetRestores \/ \E t \in Threads : UpdateRestores(t)
  BY <1>8 DEF GetRestores, UpdateRestores, SetLpm
<1>9. CASE GetClears \/ GetSends
  <2>1. op' = [op EXCEPT !["sysfs"] = "get_send"] \/ op' = [op EXCEPT !["sysfs"] = "get_restore"]
    BY <1>9 DEF GetClears, GetSends, OpClears, OpStep
  <2>2. "sysfs" \in Threads
    BY DEF Threads
  <2>3. OpWindow("sysfs")'
    BY <1>1, <2>1, <2>2
  <2>4. QED
    BY <2>2, <2>3
<1>10. ASSUME NEW t \in Threads, UpdateClears(t) \/ UpdateSends(t)
       PROVE  LpmRestored'
  <2>1. op' = [op EXCEPT ![t] = "send"] \/ op' = [op EXCEPT ![t] = "restore"]
    BY <1>10 DEF UpdateClears, UpdateSends, OpClears, OpStep
  <2>2. OpWindow(t)'
    BY <1>1, <2>1
  <2>3. QED
    BY <2>2
<1>11. ASSUME NEW t \in Threads, UpdateReads(t)
       PROVE  LpmRestored'
  <2>1. UNCHANGED <<pc, lpm>> /\ op[t] = "lock" /\ op' = [op EXCEPT ![t] = "update"]
    BY <1>11 DEF UpdateReads, OpStep
  <2>2. ASSUME NEW u \in Threads, OpWindow(u)
        PROVE  OpWindow(u)'
    BY <1>1, <2>1, <2>2
  <2>3. QED
    BY <2>1, <2>2
<1>12. CASE UNCHANGED vars
  BY <1>12 DEF vars, bl
<1>13. QED
  BY <1>2, <1>3, <1>4, <1>5, <1>6, <1>7, <1>8, <1>9, <1>10, <1>11, <1>12
     DEF Next, Drm, Backlight

\* What the DDIC has executed stays as it is where nothing is executed.
LEMMA SequenceKept ==
    ASSUME SequenceInv, ddic'.got = ddic.got, UNCHANGED next,
           \/ UNCHANGED pc
           \/ pc' \notin {"release", "on"} \cup PreparedPcs
           \/ pc \in PreparedPcs /\ pc' \in PreparedPcs
    PROVE  SequenceInv'
BY DEF SequenceInv, PreparedMeansInitialised, PreparedPcs

\* elgin_on() adds its commands to a DDIC that has just left reset, one by one
\* and in order; nothing else adds or takes away.
LEMMA SequenceStep == PowerInv /\ SequenceInv /\ [Next]_vars => SequenceInv'
<1> SUFFICES ASSUME PowerInv, SequenceInv, [Next]_vars
             PROVE  SequenceInv'
  OBVIOUS
<1>1. TypeOK /\ ResetInv /\ (~reset => Alive)
  BY OutOfResetAlive DEF PowerInv
<1>2. ddic \in Ddic
  BY <1>1 DEF TypeOK
<1> USE DEF At
<1>3. CASE ResetAsserts \/ ErrOn \/ UnprepareAsserts
  <2>1. ddic'.got = << >> /\ pc' \in {"release", "err_on_vdd", "unprepare"}
    BY <1>3 DEF ResetAsserts, ErrOn, UnprepareAsserts, AssertReset, Fresh
  <2>2. QED
    BY <2>1 DEF SequenceInv, PreparedMeansInitialised, PreparedPcs
<1>4. CASE ResetReleases
  <2>1. ddic'.got = << >> /\ pc' = "on" /\ next' = 1
    BY <1>4 DEF ResetReleases, SequenceInv
  <2>2. Len(OnSequence) = 12 /\ Len(ddic'.got) = 0
    BY <2>1, Sequence
  <2>3. /\ next' \in 1..Len(OnSequence) /\ Len(ddic'.got) = next' - 1
        /\ \A i \in 1..(next' - 1) : ddic'.got[i] = OnSequence[i]
    BY <2>1, <2>2
  <2>4. QED
    BY <2>1, <2>3 DEF SequenceInv, PreparedMeansInitialised, PreparedPcs
<1>5. CASE OnCommand
  <2>1. PICK ok \in BOOLEAN :
          /\ ddic' = IF Reaches(ok) THEN Executed(OnSequence[next]) ELSE ddic
          /\ pc' = IF ~ok THEN "err_on"
                   ELSE IF next = Len(OnSequence) THEN "prepared" ELSE "on"
    BY <1>5 DEF OnCommand, Transfers
  <2>2. pc = "on" /\ next' = next + 1
    BY <1>5 DEF OnCommand
  <2>3. Alive
    BY <1>1, <2>2 DEF ResetInv, PreparedPcs
  <2>4. CASE ~ok
    <3>1. pc' = "err_on"
      BY <2>1, <2>4
    <3>2. QED
      BY <3>1 DEF SequenceInv, PreparedMeansInitialised, PreparedPcs
  <2>5. CASE ok
    <3>1. ddic'.got = Append(ddic.got, OnSequence[next])
      BY <1>2, <2>1, <2>3, <2>5 DEF Reaches, Executed
    <3>2. PICK n : n = next
      OBVIOUS
    <3>3. /\ n \in 1..12 /\ Len(OnSequence) = 12
          /\ Len(ddic.got) = n - 1
          /\ \A i \in 1..(n - 1) : ddic.got[i] = OnSequence[i]
      BY <2>2, <3>2, Sequence DEF SequenceInv
    <3>4. PICK c \in Commands : c = OnSequence[n]
      BY <3>3, Sequence
    <3>5. /\ ddic'.got \in Seq(Commands)
          /\ Len(ddic'.got) = n
          /\ \A i \in 1..(n - 1) : ddic'.got[i] = OnSequence[i]
          /\ ddic'.got[n] = OnSequence[n]
      <4>1. ddic.got \in Seq(Commands) /\ ddic'.got = Append(ddic.got, c)
        BY <1>2, <3>1, <3>2, <3>4 DEF Ddic
      <4>2. /\ ddic'.got \in Seq(Commands)
            /\ Len(ddic'.got) = Len(ddic.got) + 1
            /\ \A i \in 1..Len(ddic.got) : ddic'.got[i] = ddic.got[i]
            /\ ddic'.got[Len(ddic.got) + 1] = c
        BY <4>1, AppendProperties
      <4>3. Len(ddic.got) = n - 1 /\ Len(ddic.got) + 1 = n
        BY <3>3
      <4>4. QED
        BY <3>3, <3>4, <4>2, <4>3
    <3>6. \A i \in 1..n : ddic'.got[i] = OnSequence[i]
      BY <3>3, <3>5
    <3>7. CASE n = 12
      <4>1. ddic'.got = OnSequence
        <5>1. ddic'.got \in Seq(Commands) /\ OnSequence \in Seq(Commands)
          BY <3>5, Sequence
        <5>2. Len(ddic'.got) = Len(OnSequence)
          BY <3>3, <3>5, <3>7
        <5>3. \A i \in 1..Len(ddic'.got) : ddic'.got[i] = OnSequence[i]
          BY <3>5, <3>6
        <5>4. QED
          BY <5>1, <5>2, <5>3, SeqEqual
      <4>2. pc' = "prepared"
        BY <2>1, <2>5, <3>2, <3>3, <3>7
      <4>3. QED
        BY <4>1, <4>2 DEF SequenceInv, PreparedMeansInitialised
    <3>8. CASE n # 12
      <4>1. pc' = "on" /\ next' = n + 1
        BY <2>1, <2>2, <2>5, <3>2, <3>3, <3>8
      <4>2. /\ next' \in 1..Len(OnSequence) /\ Len(ddic'.got) = next' - 1
            /\ \A i \in 1..(next' - 1) : ddic'.got[i] = OnSequence[i]
        BY <3>3, <3>5, <3>6, <3>8, <4>1
      <4>3. QED
        BY <4>1, <4>2 DEF SequenceInv, PreparedMeansInitialised, PreparedPcs
    <3>9. QED
      BY <3>7, <3>8
  <2>6. QED
    BY <2>4, <2>5
<1>6. CASE EnableVddio \/ EnableVdd \/ ErrDisableVdd \/ ErrDisableVddio \/ UnprepareSupplies
  <2>1. UNCHANGED <<ddic, next>> /\ (UNCHANGED pc \/ pc' \notin {"release", "on"} \cup PreparedPcs)
    BY <1>6 DEF EnableVddio, EnableVdd, ErrDisableVdd, ErrDisableVddio, UnprepareSupplies,
                PreparedPcs
  <2>2. QED
    BY <2>1, SequenceKept
<1>7. CASE \/ EnableClears \/ EnableFailed \/ DisableClears \/ DisableRestores
           \/ EnableRestores \/ BacklightOff
  <2>1. UNCHANGED <<ddic, next>> /\ pc \in PreparedPcs /\ pc' \in PreparedPcs
    BY <1>7 DEF EnableClears, EnableFailed, DisableClears, DisableRestores, EnableRestores,
                BacklightOff, ModeFlags, PreparedPcs
  <2>2. QED
    BY <2>1, SequenceKept
<1>8. CASE EnableSends \/ DisplayOff \/ SleepIn
  <2>1. UNCHANGED next /\ pc \in PreparedPcs /\ pc' \in PreparedPcs
    BY <1>8 DEF EnableSends, DisplayOff, SleepIn, DisableSends, PreparedPcs
  <2>2. ddic'.got = ddic.got
    BY <1>1, <1>8, OtherCommand
  <2>3. QED
    BY <2>1, <2>2, SequenceKept
<1>9. CASE \E t \in Threads : UpdateSends(t)
  <2>1. UNCHANGED <<next, pc>>
    BY <1>9 DEF UpdateSends
  <2>2. ddic'.got = ddic.got
    BY <1>1, <1>9, OtherCommand
  <2>3. QED
    BY <2>1, <2>2, SequenceKept
<1>10. CASE \/ (\E b \in Levels : Store(b)) \/ Show \/ GetClears \/ GetSends \/ GetRestores
            \/ \E t \in Threads : UpdateReads(t) \/ UpdateClears(t) \/ UpdateRestores(t)
  <2>1. UNCHANGED <<next, pc>> /\ (UNCHANGED ddic \/ GetSends)
    BY <1>10 DEF Store, Show, GetClears, GetSends, GetRestores, UpdateReads, UpdateClears,
                 UpdateRestores, OpClears
  <2>2. ddic'.got = ddic.got
    BY <1>1, <2>1, OtherCommand
  <2>3. QED
    BY <2>1, <2>2, SequenceKept
<1>11. CASE UNCHANGED vars
  <2>1. UNCHANGED <<next, pc, ddic>>
    BY <1>11 DEF vars
  <2>2. QED
    BY <2>1, SequenceKept
<1>12. QED
  BY <1>3, <1>4, <1>5, <1>6, <1>7, <1>8, <1>9, <1>10, <1>11 DEF Next, Drm, Backlight

ShowInv == LockInv /\ ValueInv /\ ShowsRequested

\* Where nothing that is shown, asked for or locked changes.
LEMMA ShowKept ==
    ASSUME ShowInv, UNCHANGED <<op, value, owner, brightness, blank, bl_ok>>,
           ddic'.dbv = ddic.dbv,
           \/ UNCHANGED pc
           \/ pc' \notin {"enabled", "disable", "display_off", "sleep_in", "disable_restore"}
           \/ pc \in {"enabled", "disable", "display_off", "sleep_in", "disable_restore"}
    PROVE  ShowInv'
BY DEF ShowInv, LockInv, ValueInv, ShowsRequested, Shown

\* Something newer is asked for: the thread that asks is waiting for the lock.
LEMMA ShowAsked ==
    ASSUME TypeOK, ShowInv, NEW t \in Threads, op[t] = "none",
           op' = [op EXCEPT ![t] = "lock"], UNCHANGED <<value, owner>>
    PROVE  ShowInv'
<1>1. DOMAIN op = Threads /\ op'[t] = "lock"
  BY DEF TypeOK
<1>2. LockInv'
  BY <1>1 DEF ShowInv, LockInv
<1>3. ValueInv'
  BY <1>1 DEF ValueInv
<1>4. ShowsRequested'
  <2>1. op'["drm"] = "lock" \/ op'["sysfs"] = "lock"
    BY <1>1 DEF Threads
  <2>2. QED
    BY <2>1 DEF ShowsRequested
<1>5. QED
  BY <1>2, <1>3, <1>4 DEF ShowInv

\* What is sent last under the update lock is what was asked for last.
LEMMA ShowStep == PowerInv /\ ShowInv /\ [Next]_vars => ShowInv'
<1> SUFFICES ASSUME PowerInv, ShowInv, [Next]_vars
             PROVE  ShowInv'
  OBVIOUS
<1>1. TypeOK /\ ResetInv /\ (~reset => Alive)
  BY OutOfResetAlive DEF PowerInv
<1>2. /\ ddic \in Ddic
      /\ DOMAIN op = Threads /\ value \in [Threads -> Levels \cup {0}]
      /\ owner \in Threads \cup {"none"}
  BY <1>1 DEF TypeOK
<1>3. "drm" \in Threads /\ "sysfs" \in Threads /\ "none" \notin Threads
  BY DEF Threads
<1> DEFINE Shows == {"enabled", "disable", "display_off", "sleep_in", "disable_restore"}
<1> USE DEF At
<1>4. CASE \/ EnableVddio \/ EnableVdd \/ ErrDisableVdd \/ ErrDisableVddio \/ UnprepareSupplies
           \/ ResetAsserts \/ ErrOn \/ UnprepareAsserts \/ ResetReleases \/ OnCommand
  <2>1. UNCHANGED <<op, value, owner, brightness, blank, bl_ok>> /\ pc' \notin Shows /\ pc \notin Shows
    BY <1>4 DEF EnableVddio, EnableVdd, ErrDisableVdd, ErrDisableVddio, UnprepareSupplies,
                ResetAsserts, ErrOn, UnprepareAsserts, AssertReset, ResetReleases, OnCommand, bl
  <2>2. QED
    BY <2>1 DEF ShowInv, LockInv, ValueInv, ShowsRequested, Shown
<1>5. CASE EnableClears \/ EnableFailed \/ DisableClears \/ DisableRestores
  <2>1. /\ UNCHANGED <<op, value, owner, brightness, blank, bl_ok, ddic>>
        /\ pc' \notin Shows \/ pc \in Shows
    BY <1>5 DEF EnableClears, EnableFailed, DisableClears, DisableRestores, ModeFlags, bl
  <2>2. QED
    BY <2>1, ShowKept
<1>6. CASE EnableSends \/ DisplayOff \/ SleepIn
  <2>1. /\ UNCHANGED <<op, value, owner, brightness, blank, bl_ok>>
        /\ pc' \notin Shows \/ pc \in Shows
    BY <1>6 DEF EnableSends, DisplayOff, SleepIn, DisableSends, bl
  <2>2. ddic'.dbv = ddic.dbv
    <3>1. \A t \in Threads : ~UpdateSends(t)
      BY <1>2, <1>6 DEF EnableSends, DisplayOff, SleepIn, DisableSends, UpdateSends, OpStep, bl
    <3>2. QED
      BY <1>1, <1>6, <3>1, OtherCommand
  <2>3. QED
    BY <2>1, <2>2, ShowKept
<1>7. CASE (EnableRestores \/ BacklightOff) /\ op["drm"] = "none"
  <2>1. op' = [op EXCEPT !["drm"] = "lock"] /\ UNCHANGED <<value, owner>>
    BY <1>7 DEF EnableRestores, BacklightOff
  <2>2. QED
    BY <1>1, <1>3, <1>7, <2>1, ShowAsked
<1>8. ASSUME NEW b \in Levels, Store(b)
      PROVE  ShowInv'
  <2>1. op["sysfs"] = "none" /\ op' = [op EXCEPT !["sysfs"] = "lock"] /\ UNCHANGED <<value, owner>>
    BY <1>8 DEF Store, OpStep
  <2>2. QED
    BY <1>1, <1>3, <2>1, ShowAsked
<1>9. CASE Show \/ GetClears \/ GetSends \/ GetRestores
  <2>1. UNCHANGED <<pc, value, owner, brightness, blank, bl_ok>> /\ ddic'.dbv = ddic.dbv
    <3>1. GetSends => ddic'.dbv = ddic.dbv
      BY <1>2 DEF GetSends, Ddic
    <3>2. QED
      BY <1>9, <3>1 DEF Show, GetClears, GetSends, GetRestores, OpClears
  <2>2. /\ op["sysfs"] \in {"none", "get", "get_send", "get_restore"}
        /\ op'["sysfs"] \in {"none", "get", "get_send", "get_restore"}
        /\ op'["drm"] = op["drm"]
    BY <1>2, <1>3, <1>9 DEF Show, GetClears, GetSends, GetRestores, OpClears, OpStep
  <2>3. QED
    BY <1>2, <2>1, <2>2 DEF ShowInv, LockInv, ValueInv, ShowsRequested, Shown, Threads
<1>10. ASSUME NEW t \in Threads, UpdateReads(t)
       PROVE  ShowInv'
  <2>1. /\ op[t] = "lock" /\ op' = [op EXCEPT ![t] = "update"]
        /\ owner = "none" /\ owner' = t
        /\ value' = [value EXCEPT ![t] = Shown]
        /\ UNCHANGED <<pc, brightness, blank, bl_ok, ddic>>
    BY <1>10 DEF UpdateReads, OpStep
  <2>2. op'[t] = "update" /\ value'[t] = Shown /\ Shown' = Shown
    BY <1>2, <2>1 DEF Shown
  <2>3. \A u \in Threads : u # t => op'[u] = op[u] /\ value'[u] = value[u]
    BY <1>2, <2>1
  <2>4. \A u \in Threads : op[u] \notin {"update", "send", "restore"}
    BY <1>3, <2>1 DEF ShowInv, LockInv
  <2>5. LockInv'
    BY <2>1, <2>2, <2>3, <2>4 DEF LockInv
  <2>6. ValueInv'
    BY <2>2, <2>3, <2>4 DEF ValueInv
  <2>7. ShowsRequested'
    BY <2>2 DEF ShowsRequested, Threads
  <2>8. QED
    BY <2>5, <2>6, <2>7 DEF ShowInv
<1>11. ASSUME NEW t \in Threads, UpdateClears(t)
       PROVE  ShowInv'
  <2>1. /\ op[t] = "update" /\ op' = [op EXCEPT ![t] = "send"]
        /\ UNCHANGED <<pc, value, owner, brightness, blank, bl_ok, ddic>>
    BY <1>11 DEF UpdateClears, OpClears, OpStep
  <2>2. op'[t] = "send" /\ \A u \in Threads : u # t => op'[u] = op[u]
    BY <1>2, <2>1
  <2>3. LockInv'
    BY <2>1, <2>2 DEF ShowInv, LockInv
  <2>4. ValueInv'
    BY <2>1, <2>2 DEF ShowInv, ValueInv, Shown
  <2>5. ShowsRequested'
    BY <2>2 DEF ShowsRequested, Threads
  <2>6. QED
    BY <2>3, <2>4, <2>5 DEF ShowInv
<1>12. ASSUME NEW t \in Threads, UpdateSends(t)
       PROVE  ShowInv'
  <2>1. /\ op[t] = "send" /\ op' = [op EXCEPT ![t] = "restore"]
        /\ UNCHANGED <<pc, value, owner, brightness, blank>>
    BY <1>12 DEF UpdateSends, OpStep
  <2>2. op'[t] = "restore" /\ \A u \in Threads : u # t => op'[u] = op[u]
    BY <1>2, <2>1
  <2>3. LockInv'
    BY <2>1, <2>2 DEF ShowInv, LockInv
  <2>4. ValueInv'
    BY <2>1, <2>2 DEF ShowInv, ValueInv, Shown
  <2>5. ASSUME pc \in Shows, op'["drm"] # "lock", op'["sysfs"] # "lock", bl_ok'
        PROVE  ddic'.dbv = Shown'
    <3>1. Alive
      BY <1>1, <2>5 DEF ResetInv, PreparedPcs
    <3>2. ddic'.dbv = value[t]
      BY <1>2, <1>12, <2>5, <3>1 DEF UpdateSends, Reaches
    <3>3. \A u \in Threads : op[u] # "lock"
      BY <2>1, <2>2, <2>5 DEF Threads
    <3>4. value[t] = Shown
      BY <2>1, <3>3 DEF ShowInv, ValueInv
    <3>5. QED
      BY <2>1, <3>2, <3>4 DEF Shown
  <2>6. ShowsRequested'
    BY <2>1, <2>5 DEF ShowsRequested
  <2>7. QED
    BY <2>3, <2>4, <2>6 DEF ShowInv
<1>13. ASSUME NEW t \in Threads, UpdateRestores(t)
       PROVE  ShowInv'
  <2>1. /\ op[t] = "restore" /\ op' = [op EXCEPT ![t] = "none"] /\ owner' = "none"
        /\ UNCHANGED <<pc, value, brightness, blank, bl_ok, ddic>>
    BY <1>13 DEF UpdateRestores, OpStep
  <2>2. op'[t] = "none" /\ \A u \in Threads : u # t => op'[u] = op[u]
    BY <1>2, <2>1
  <2>3. owner = t
    BY <2>1 DEF ShowInv, LockInv
  <2>4. LockInv'
    BY <1>3, <2>1, <2>2, <2>3 DEF ShowInv, LockInv
  <2>5. ValueInv'
    BY <2>1, <2>2 DEF ShowInv, ValueInv, Shown
  <2>6. ShowsRequested'
    BY <2>1, <2>2 DEF ShowInv, ShowsRequested, Shown, Threads
  <2>7. QED
    BY <2>4, <2>5, <2>6 DEF ShowInv
<1>14. CASE UNCHANGED vars
  <2>1. UNCHANGED <<pc, op, value, owner, brightness, blank, bl_ok, ddic>>
    BY <1>14 DEF vars, bl
  <2>2. QED
    BY <2>1, ShowKept
<1>15. QED
  BY <1>4, <1>5, <1>6, <1>7, <1>8, <1>9, <1>10, <1>11, <1>12, <1>13, <1>14
     DEF Next, Drm, Backlight

-------------------------------------------------------------------------------
\* Everything the theorems below rest on, step by step.
LEMMA PanelInductive == Spec => [](PowerInv /\ SequenceInv /\ LpmRestored /\ ShowInv)
<1>1. Init => PowerInv /\ SequenceInv /\ LpmRestored /\ ShowInv
  BY PanelInit DEF ShowInv
<1>2. PowerInv /\ SequenceInv /\ LpmRestored /\ ShowInv /\ [Next]_vars
        => (PowerInv /\ SequenceInv /\ LpmRestored /\ ShowInv)'
  BY PowerStep, SequenceStep, LpmStep, ShowStep DEF PowerInv
<1>3. QED
  BY <1>1, <1>2, PTL DEF Spec

\* Every variable keeps its type: a supply is never disabled more often than it
\* was enabled, and elgin_on() never runs past its last command.
THEOREM TypeCorrect == Spec => []TypeOK
<1>1. PowerInv => TypeOK
  BY DEF PowerInv
<1>2. QED
  BY PanelInductive, <1>1, PTL

\* The link mode that elgin_on() relies on is back whenever no operation is
\* under way, however the operations of the two threads overlapped or failed.
THEOREM LpmAlwaysRestored == Spec => []LpmRestored
BY PanelInductive, PTL

\* Each path through prepare and unprepare gives back the supplies it took, and
\* the DDIC is never out of reset without them.
THEOREM PowerSequenced == Spec => [](SuppliesBalanced /\ ReleasedMeansPowered)
<1>1. PowerInv => SuppliesBalanced /\ ReleasedMeansPowered
  BY OutOfResetAlive DEF PowerInv
<1>2. QED
  BY PanelInductive, <1>1, PTL

\* In particular, no error path of elgin_prepare() and no unprepare leaves the reset
\* line released on a DDIC without supplies.
THEOREM NeverReleasedUnpowered == Spec => []ReleasedMeansPowered
BY PowerSequenced, PTL

\* prepare reports success only for a DDIC that has executed all of elgin_on(),
\* in order, since its reset.
THEOREM Initialised == Spec => []PreparedMeansInitialised
<1>1. SequenceInv => PreparedMeansInitialised
  BY DEF SequenceInv
<1>2. QED
  BY PanelInductive, <1>1, PTL

\* No interleaving of the user's stores with the DRM core's updates leaves the
\* panel showing anything but the brightness asked for last.
THEOREM ShowsLastRequest == Spec => []ShowsRequested
<1>1. ShowInv => ShowsRequested
  BY DEF ShowInv
<1>2. QED
  BY PanelInductive, <1>1, PTL
===============================================================================
