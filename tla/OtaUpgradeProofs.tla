--------------------------- MODULE OtaUpgradeProofs ---------------------------
(* Invariants of OtaUpgrade and its refinement of DualFirmware, for any     *)
(* versions and any number of pushes, cuts and faults.                      *)
EXTENDS OtaUpgrade, TLAPS

Power == pc \in {"off", "dead", "restart"} \/ (pc \in {"open", "fwrite"} /\ then = "restart")

(* What the boot code relies on between the boot loader and the restart.    *)
RunsConfigured == ~Power => running = Configured

(* The sector that is not rewritten keeps the latest number; the new one is *)
(* higher and names the other slot, which is complete.                      *)
Rewriting ==
  pc \in {"erase", "entry"} =>
    /\ Whole(Other(running))
    /\ rewrite[2] > Latest /\ (rewrite[2] - 1) % 2 = Other(running)
    /\ Latest = 0 \/ sector[Other(rewrite[1])] = Latest

(* Only a record that has gone back to normal counts beyond the limit.      *)
Counted(i) == i.step # NORMAL_STARTUP => i.retry <= MAX_RETRY

Typed == TypeOK /\ Counted(info) /\ (stepfile \in StepInfo => Counted(stepfile))

(* The sector is rewritten in the last case of doing_ota_upgrade only.      *)
Switching == pc \in {"erase", "entry"} => info.step = CHECK_FLASH_IS_RIGHT

Safe == Bootable /\ RunsConfigured /\ Rewriting

-----------------------------------------------------------------------------
LEMMA ZeroedType == Zeroed \in StepInfo
  BY DEF Zeroed, StepInfo, NORMAL_STARTUP, MAX_RETRY

LEMMA ConfiguredSlot ==
  ASSUME TypeOK
  PROVE  /\ Configured \in Slot /\ Other(Configured) \in Slot
         /\ Other(Configured) # Configured /\ Other(Other(Configured)) = Configured
         /\ Latest \in Nat
<1>1. sector[0] \in Nat /\ sector[1] \in Nat
  BY DEF TypeOK, Slot
<1>2. Latest \in Nat
  BY <1>1 DEF Latest
<1>3. Configured \in Slot
  BY <1>2 DEF Configured, Slot
<1>4. QED
  BY <1>2, <1>3 DEF Other, Slot

(* What does not touch otadata changes neither the latest number nor the    *)
(* slot it names.                                                           *)
LEMMA SameSector ==
  ASSUME UNCHANGED sector
  PROVE  Latest' = Latest /\ Configured' = Configured
  BY DEF Latest, Configured

(* The numbering of a switch: higher than the latest and of the other slot. *)
LEMMA NumberingNames ==
  ASSUME TypeOK, NEW s \in Slot, s # Configured
  PROVE  Numbering(s) \in Nat /\ Numbering(s) > Latest /\ (Numbering(s) - 1) % 2 = s
<1>1. Latest \in Nat
  BY ConfiguredSlot
<1>2. CASE Latest = 0
  BY <1>2 DEF Numbering, Configured, Slot
<1>3. CASE Latest # 0
  <2>1. Latest % 2 # (s + 1) % 2
    BY <1>1, <1>3 DEF Configured, Slot
  <2>2. Numbering(s) = Latest + 1
    BY <1>3, <2>1 DEF Numbering
  <2>3. Latest % 2 = s
    BY <1>1, <2>1 DEF Slot
  <2>4. QED
    BY <1>1, <2>2, <2>3
<1>4. QED
  BY <1>2, <1>3

LEMMA StaleKeepsLatest ==
  ASSUME TypeOK
  PROVE  StaleSector \in Slot /\ (Latest = 0 \/ sector[Other(StaleSector)] = Latest)
<1>1. sector[0] \in Nat /\ sector[1] \in Nat
  BY DEF TypeOK, Slot
<1>2. QED
  BY <1>1 DEF StaleSector, Slot, Latest, Other

(* Erasing a sector that is not the latest one is not seen. *)
LEMMA EraseKeepsLatest ==
  ASSUME TypeOK, NEW s \in Slot, Latest = 0 \/ sector[Other(s)] = Latest,
         sector' = [sector EXCEPT ![s] = 0]
  PROVE  Latest' = Latest /\ Configured' = Configured
<1>1. sector[0] \in Nat /\ sector[1] \in Nat /\ sector'[s] = 0
      /\ sector'[Other(s)] = sector[Other(s)]
  BY DEF TypeOK, Slot, Other
<1>2. CASE s = 0
  BY <1>1, <1>2 DEF Latest, Configured, Other
<1>3. CASE s = 1
  BY <1>1, <1>3 DEF Latest, Configured, Other
<1>4. QED
  BY <1>2, <1>3 DEF Slot

(* Writing a higher number makes it the latest. *)
LEMMA EntryIsLatest ==
  ASSUME TypeOK, NEW s \in Slot, NEW n \in Nat, n > Latest,
         sector' = [sector EXCEPT ![s] = n]
  PROVE  Latest' = n /\ Configured' = (n - 1) % 2
<1>1. sector[0] \in Nat /\ sector[1] \in Nat /\ sector'[s] = n
      /\ sector'[Other(s)] = sector[Other(s)]
  BY DEF TypeOK, Slot, Other
<1>2. sector[0] <= Latest /\ sector[1] <= Latest /\ n > 0
  BY <1>1 DEF Latest
<1>3. Latest' = n
  <2>1. CASE s = 0
    BY <1>1, <1>2, <2>1 DEF Latest, Other
  <2>2. CASE s = 1
    BY <1>1, <1>2, <2>2 DEF Latest, Other
  <2>3. QED
    BY <2>1, <2>2 DEF Slot
<1>4. QED
  BY <1>2, <1>3 DEF Configured

-----------------------------------------------------------------------------
(* Types.                                                                   *)

LEMMA InfoTypes ==
  ASSUME Typed
  PROVE  /\ \A step \in {NORMAL_STARTUP, ALREADY_WRITE_IN_FLASH, CHECK_FLASH_IS_RIGHT} :
              Advanced(step) \in StepInfo /\ Counted(Advanced(step))
         /\ info.step # NORMAL_STARTUP => Retried \in StepInfo /\ Counted(Retried)
         /\ info.retry < MAX_RETRY => CountAttempt(info) \in StepInfo /\ Counted(CountAttempt(info))
         /\ [info EXCEPT !.step = NORMAL_STARTUP] \in StepInfo
         /\ Counted([info EXCEPT !.step = NORMAL_STARTUP])
<1> USE DEF Typed, TypeOK, StepInfo, Counted, NORMAL_STARTUP, DOWNLOAD_BIN_FINISH,
            ALREADY_WRITE_IN_FLASH, CHECK_FLASH_IS_RIGHT, MAX_RETRY
<1>1. ASSUME NEW step \in {0, 2, 4}
      PROVE  Advanced(step) \in StepInfo /\ Counted(Advanced(step))
  BY DEF Advanced
<1>2. ASSUME info.step # 0
      PROVE  Retried \in StepInfo /\ Counted(Retried)
  <2>1. info.retry \in 0..3
    BY <1>2
  <2>2. QED
    BY <1>2, <2>1 DEF Retried
<1>3. info.retry < 3 => CountAttempt(info) \in StepInfo /\ Counted(CountAttempt(info))
  BY DEF CountAttempt
<1>4. [info EXCEPT !.step = 0] \in StepInfo /\ Counted([info EXCEPT !.step = 0])
  OBVIOUS
<1>5. QED
  BY <1>1, <1>2, <1>3, <1>4

LEMMA ZeroedCounted == Counted(Zeroed)
  BY DEF Counted, Zeroed, NORMAL_STARTUP

LEMMA SaveType ==
  ASSUME Typed, NEW i \in StepInfo, Counted(i), NEW place,
         place \in {"restart", "install", "run", "wait"}, Save(i, place)
  PROVE  info' \in StepInfo /\ Counted(info') /\ pc' \in Places
         /\ then' \in {"restart", "install", "run", "wait"}
  BY DEF Save, Places

LEMMA PowerOffType ==
  ASSUME PowerOff
  PROVE  /\ pc' \in Places /\ running' \in Slot /\ info' \in StepInfo /\ Counted(info')
         /\ then' \in {"restart", "install", "run", "wait"} /\ rewrite' \in Slot \X Nat
         /\ load' \in (Firmware \cup {None}) \X {"none", "busy", "done", "failed"}
         /\ reset' \in BOOLEAN
<1>1. info' \in StepInfo /\ Counted(info')
  BY ZeroedType, ZeroedCounted DEF PowerOff
<1>2. QED
  BY <1>1 DEF PowerOff, Places, Slot

LEMMA BoundsType ==
  ASSUME Typed
  PROVE  /\ Fault \/ NoFault => pushes' \in Nat /\ cuts' \in Nat /\ faults' \in Nat
  BY DEF Typed, TypeOK, Fault, NoFault, bounds

LEMMA TypedInit == Init => Typed
<1> SUFFICES ASSUME Init PROVE Typed
  OBVIOUS
<1>1. info \in StepInfo /\ Counted(info)
  BY ZeroedType, ZeroedCounted DEF Init
<1>2. stepfile \notin StepInfo /\ stepfile \in StepInfo \cup {Missing, Empty}
  BY StepFileAssumption DEF Init
<1>3. slots \in [Slot -> Firmware \cup {Scrap}] /\ sector \in [Slot -> Nat]
  BY OtaAssumption DEF Init, Slot
<1>4. QED
  BY <1>1, <1>2, <1>3 DEF Init, Typed, TypeOK, Places, Slot

LEMMA TypedBoot ==
  ASSUME Typed, Switching, Boot
  PROVE  Typed'
<1> USE DEF flash, card, bounds
<1>1. CASE BootLoader
  <2>1. running' \in Slot /\ pc' \in Places
    <3>1. BootSlot \in Slot
      BY ConfiguredSlot DEF Typed, BootSlot, Selected, Configured, Other
    <3>2. QED
      BY <1>1, <3>1 DEF BootLoader, Places, Typed, TypeOK
  <2>2. QED
    BY <1>1, <2>1 DEF BootLoader, Typed, TypeOK
<1>2. CASE ReadStep
  <2>1. /\ info' \in StepInfo /\ Counted(info') /\ pc' \in Places
        /\ then' \in {"restart", "install", "run", "wait"}
    <3>1. CASE Save(Zeroed, "restart")
      BY <3>1, SaveType, ZeroedType, ZeroedCounted
    <3>2. CASE stepfile \in StepInfo /\ info' = stepfile /\ pc' = "doing" /\ UNCHANGED then
      BY <3>2 DEF Typed, TypeOK, Places
    <3>3. QED
      BY <1>2, <3>1, <3>2 DEF ReadStep
  <2>2. pushes' \in Nat /\ cuts' \in Nat /\ faults' \in Nat
    BY <1>2, BoundsType DEF ReadStep
  <2>3. QED
    BY <1>2, <2>1, <2>2 DEF ReadStep, Typed, TypeOK
<1>3. CASE NormalStartup
  <2>1. files' \in [Firmware -> {"none", "part", "image", "bad"}]
    BY <1>3 DEF NormalStartup, Typed, TypeOK
  <2>2. QED
    BY <1>3, <2>1 DEF NormalStartup, Typed, TypeOK, Places, ram
<1>4. CASE DownloadBinFinish
  <2>1. info.retry \in Nat
    BY DEF Typed, TypeOK, StepInfo
  <2>2. /\ info' \in StepInfo /\ Counted(info') /\ pc' \in Places
        /\ then' \in {"restart", "install", "run", "wait"}
    <3>1. CASE info.retry >= MAX_RETRY
      BY <1>4, <3>1, InfoTypes, SaveType DEF DownloadBinFinish
    <3>2. CASE ~(info.retry >= MAX_RETRY)
      <4>1. info.retry < MAX_RETRY
        BY <2>1, <3>2 DEF MAX_RETRY
      <4>2. QED
        BY <1>4, <3>2, <4>1, InfoTypes, SaveType DEF DownloadBinFinish
    <3>3. QED
      BY <3>1, <3>2
  <2>3. QED
    BY <1>4, <2>2 DEF DownloadBinFinish, Typed, TypeOK
<1>5. CASE StartToUpgrade
  <2>1. pushes' \in Nat /\ cuts' \in Nat /\ faults' \in Nat
    BY <1>5, BoundsType DEF StartToUpgrade
  <2>2. slots' \in [Slot -> Firmware \cup {Scrap}]
    BY <1>5 DEF StartToUpgrade, Typed, TypeOK
  <2>3. /\ info' \in StepInfo /\ Counted(info') /\ pc' \in Places
        /\ then' \in {"restart", "install", "run", "wait"} /\ running' \in Slot
        /\ rewrite' \in Slot \X Nat /\ reset' \in BOOLEAN
        /\ load' \in (Firmware \cup {None}) \X {"none", "busy", "done", "failed"}
    <3>1. CASE PowerOff
      BY <3>1, PowerOffType
    <3>2. CASE Save(info, "restart") /\ UNCHANGED <<running, rewrite, load, reset>>
      BY <3>2, SaveType DEF Typed, TypeOK
    <3>3. CASE pc' = "copy" /\ UNCHANGED <<info, then, running, rewrite, load, reset>>
      BY <3>3 DEF Typed, TypeOK, Places
    <3>4. QED
      BY <1>5, <3>1, <3>2, <3>3 DEF StartToUpgrade
  <2>4. QED
    BY <1>5, <2>1, <2>2, <2>3 DEF StartToUpgrade, Typed, TypeOK
<1>6. CASE CopyImage
  <2>1. pushes' \in Nat /\ cuts' \in Nat /\ faults' \in Nat
    BY <1>6, BoundsType DEF CopyImage
  <2>2. slots' \in [Slot -> Firmware \cup {Scrap}]
    <3>1. File(info.file) = "image" => info.file \in Firmware
      BY DEF File
    <3>2. QED
      BY <1>6, <3>1 DEF CopyImage, Typed, TypeOK
  <2>3. /\ info' \in StepInfo /\ Counted(info') /\ pc' \in Places
        /\ then' \in {"restart", "install", "run", "wait"}
    <3>1. CASE Save(Advanced(ALREADY_WRITE_IN_FLASH), "restart")
      BY <3>1, InfoTypes, SaveType
    <3>2. CASE Save(info, "restart")
      BY <3>2, SaveType DEF Typed, TypeOK
    <3>3. QED
      BY <1>6, <3>1, <3>2 DEF CopyImage
  <2>4. QED
    BY <1>6, <2>1, <2>2, <2>3 DEF CopyImage, Typed, TypeOK
<1>7. CASE AlreadyWriteInFlash
  <2>1. pushes' \in Nat /\ cuts' \in Nat /\ faults' \in Nat
    BY <1>7, BoundsType DEF AlreadyWriteInFlash
  <2>2. info.step # NORMAL_STARTUP
    BY <1>7 DEF AlreadyWriteInFlash, ALREADY_WRITE_IN_FLASH, NORMAL_STARTUP
  <2>3. /\ info' \in StepInfo /\ Counted(info') /\ pc' \in Places
        /\ then' \in {"restart", "install", "run", "wait"}
    <3>1. CASE Save(Advanced(CHECK_FLASH_IS_RIGHT), "restart")
      BY <3>1, InfoTypes, SaveType
    <3>2. CASE Save(Retried, "restart")
      BY <2>2, <3>2, InfoTypes, SaveType
    <3>3. QED
      BY <1>7, <3>1, <3>2 DEF AlreadyWriteInFlash
  <2>4. QED
    BY <1>7, <2>1, <2>3 DEF AlreadyWriteInFlash, Typed, TypeOK
<1>8. CASE CheckFlashIsRight
  <2>1. pushes' \in Nat /\ cuts' \in Nat /\ faults' \in Nat
    BY <1>8, BoundsType DEF CheckFlashIsRight
  <2>2. info.step # NORMAL_STARTUP
    BY <1>8 DEF CheckFlashIsRight, CHECK_FLASH_IS_RIGHT, NORMAL_STARTUP
  <2>3. CASE Save(Retried, "restart") /\ UNCHANGED rewrite
    <3>1. /\ info' \in StepInfo /\ Counted(info') /\ pc' \in Places
          /\ then' \in {"restart", "install", "run", "wait"}
      BY <2>2, <2>3, InfoTypes, SaveType
    <3>2. QED
      BY <1>8, <2>1, <2>3, <3>1 DEF CheckFlashIsRight, Typed, TypeOK
  <2>4. CASE /\ Configured = running /\ pc' = "erase"
             /\ rewrite' = <<StaleSector, Numbering(Target)>> /\ UNCHANGED <<info, then>>
    <3>1. Target \in Slot /\ Target # Configured
      BY <2>4, ConfiguredSlot DEF Target, Typed
    <3>2. rewrite' \in Slot \X Nat
      BY <2>4, <3>1, NumberingNames, StaleKeepsLatest DEF Typed
    <3>3. QED
      BY <1>8, <2>1, <2>4, <3>2 DEF CheckFlashIsRight, Typed, TypeOK, Places
  <2>5. QED
    BY <1>8, <2>3, <2>4 DEF CheckFlashIsRight
<1>9. CASE EraseSector
  <2>1. pushes' \in Nat /\ cuts' \in Nat /\ faults' \in Nat
    BY <1>9, BoundsType DEF EraseSector
  <2>2. sector' \in [Slot -> Nat]
    BY <1>9 DEF EraseSector, Typed, TypeOK
  <2>3. info.step # NORMAL_STARTUP
    BY <1>9 DEF EraseSector, Switching, CHECK_FLASH_IS_RIGHT, NORMAL_STARTUP
  <2>4. /\ info' \in StepInfo /\ Counted(info') /\ pc' \in Places
        /\ then' \in {"restart", "install", "run", "wait"}
    <3>1. CASE Save(Retried, "restart")
      BY <2>3, <3>1, InfoTypes, SaveType
    <3>2. CASE pc' = "entry" /\ UNCHANGED <<info, then>>
      BY <3>2 DEF Typed, TypeOK, Places
    <3>3. QED
      BY <1>9, <3>1, <3>2 DEF EraseSector
  <2>5. QED
    BY <1>9, <2>1, <2>2, <2>4 DEF EraseSector, Typed, TypeOK
<1>10. CASE WriteEntry
  <2>1. pushes' \in Nat /\ cuts' \in Nat /\ faults' \in Nat
    BY <1>10, BoundsType DEF WriteEntry
  <2>2. sector' \in [Slot -> Nat]
    BY <1>10 DEF WriteEntry, Typed, TypeOK
  <2>3. info.step # NORMAL_STARTUP
    BY <1>10 DEF WriteEntry, Switching, CHECK_FLASH_IS_RIGHT, NORMAL_STARTUP
  <2>4. /\ info' \in StepInfo /\ Counted(info') /\ pc' \in Places
        /\ then' \in {"restart", "install", "run", "wait"}
    <3>1. CASE Save(Retried, "restart")
      BY <2>3, <3>1, InfoTypes, SaveType
    <3>2. CASE Save(Advanced(NORMAL_STARTUP), "restart")
      BY <3>2, InfoTypes, SaveType
    <3>3. QED
      BY <1>10, <3>1, <3>2 DEF WriteEntry
  <2>5. QED
    BY <1>10, <2>1, <2>2, <2>4 DEF WriteEntry, Typed, TypeOK
<1>11. QED
  BY <1>1, <1>2, <1>3, <1>4, <1>5, <1>6, <1>7, <1>8, <1>9, <1>10 DEF Boot

LEMMA TypedTask ==
  ASSUME Typed, Task
  PROVE  Typed'
<1> USE DEF flash, card, ram, bounds
<1>1. CASE OpenStepFile
  <2>1. pushes' \in Nat /\ cuts' \in Nat /\ faults' \in Nat
    BY <1>1, BoundsType DEF OpenStepFile
  <2>2. pc' \in Places
    BY <1>1 DEF OpenStepFile, AfterFailure, Places, Typed, TypeOK
  <2>3. stepfile' \in StepInfo => stepfile' = stepfile
    BY <1>1, StepFileAssumption DEF OpenStepFile
  <2>4. stepfile' \in StepInfo \cup {Missing, Empty}
    BY <1>1 DEF OpenStepFile, Typed, TypeOK
  <2>5. QED
    BY <1>1, <2>1, <2>2, <2>3, <2>4 DEF OpenStepFile, Typed, TypeOK
<1>2. CASE WriteStepFile
  <2>1. pushes' \in Nat /\ cuts' \in Nat /\ faults' \in Nat
    BY <1>2, BoundsType DEF WriteStepFile
  <2>2. pc' \in Places
    BY <1>2 DEF WriteStepFile, AfterFailure, Places, Typed, TypeOK
  <2>3. stepfile' = info \/ stepfile' = stepfile
    BY <1>2 DEF WriteStepFile
  <2>4. QED
    BY <1>2, <2>1, <2>2, <2>3 DEF WriteStepFile, Typed, TypeOK
<1>3. CASE Restart
  BY <1>3, PowerOffType DEF Restart, Typed, TypeOK
<1>4. CASE TakeFinish
  <2>1. /\ info' \in StepInfo /\ Counted(info') /\ pc' \in Places
        /\ then' \in {"restart", "install", "run", "wait"}
    <3>1. CASE pc' = "discard" /\ UNCHANGED <<info, then>>
      BY <3>1 DEF Typed, TypeOK, Places
    <3>2. CASE Save([step |-> DOWNLOAD_BIN_FINISH, retry |-> 0, before |-> NORMAL_STARTUP,
                     file |-> load[1]], "wait")
      <4> DEFINE i == [step |-> DOWNLOAD_BIN_FINISH, retry |-> 0, before |-> NORMAL_STARTUP,
                       file |-> load[1]]
      <4>1. load[1] \in Firmware \cup {None}
        BY DEF Typed, TypeOK
      <4>2. i \in StepInfo /\ Counted(i)
        BY <4>1 DEF StepInfo, Counted, DOWNLOAD_BIN_FINISH, NORMAL_STARTUP, MAX_RETRY
      <4>3. QED
        BY <3>2, <4>2, SaveType
    <3>3. QED
      BY <1>4, <3>1, <3>2 DEF TakeFinish
  <2>2. QED
    BY <1>4, <2>1 DEF TakeFinish, Typed, TypeOK
<1>5. CASE Discard
  <2>1. stepfile' \notin StepInfo
    BY <1>5, StepFileAssumption DEF Discard
  <2>2. QED
    BY <1>5, <2>1 DEF Discard, Typed, TypeOK, Places
<1>6. CASE ResetRestart
  BY <1>6, PowerOffType DEF ResetRestart, Typed, TypeOK
<1>7. QED
  BY <1>1, <1>2, <1>3, <1>4, <1>5, <1>6 DEF Task

LEMMA TypedRest ==
  ASSUME Typed, (\E v \in Firmware : Push(v)) \/ Receive \/ DownloadEnds \/ ResetKey
                \/ PowerCut \/ UNCHANGED vars
  PROVE  Typed'
<1> USE DEF flash, card, ram, bounds
<1>1. ASSUME NEW v \in Firmware, Push(v) PROVE Typed'
  BY <1>1 DEF Push, Typed, TypeOK
<1>2. CASE Receive
  BY <1>2 DEF Receive, Typed, TypeOK
<1>3. CASE DownloadEnds
  BY <1>3 DEF DownloadEnds, Typed, TypeOK
<1>4. CASE ResetKey
  <2>1. stepfile' \in StepInfo => stepfile' = stepfile
    BY <1>4, StepFileAssumption DEF ResetKey
  <2>2. QED
    BY <1>4, <2>1 DEF ResetKey, Typed, TypeOK
<1>5. CASE PowerCut
  BY <1>5, PowerOffType DEF PowerCut, Typed, TypeOK
<1>6. CASE UNCHANGED vars
  BY <1>6 DEF vars, Typed, TypeOK
<1>7. QED
  BY <1>1, <1>2, <1>3, <1>4, <1>5, <1>6

LEMMA SwitchingStep ==
  ASSUME Typed, Switching, [Next]_vars
  PROVE  Switching'
<1> USE DEF ram, PowerOff, Save
<1>1. CASE Boot
  BY <1>1 DEF Switching, Boot, BootLoader, ReadStep, NormalStartup, DownloadBinFinish,
     StartToUpgrade, CopyImage, AlreadyWriteInFlash, CheckFlashIsRight, EraseSector, WriteEntry
<1>2. CASE Task
  BY <1>2 DEF Switching, Task, OpenStepFile, WriteStepFile, AfterFailure, Restart, TakeFinish,
     Discard, ResetRestart, Typed, TypeOK
<1>3. CASE UNCHANGED <<pc, info>>
  BY <1>3 DEF Switching
<1>4. CASE PowerCut
  BY <1>4 DEF PowerCut, Switching
<1>5. QED
  BY <1>1, <1>2, <1>3, <1>4 DEF Next, Device, Push, Receive, DownloadEnds, ResetKey, vars

-----------------------------------------------------------------------------
(* Safety and the refinement, one step for both.                            *)

DualVars == <<slots[Configured], slots[Other(Configured)]>>
DualStep == [Dual!Next]_DualVars

(* Most steps leave the flash alone. *)
LEMMA FlashSame ==
  ASSUME Bootable, UNCHANGED flash
  PROVE  Bootable' /\ DualStep
<1>1. Configured' = Configured /\ slots' = slots
  BY SameSector DEF flash
<1>2. QED
  BY <1>1 DEF Bootable, Whole, DualStep, DualVars

LEMMA TaskSafe ==
  ASSUME Typed, Safe, Task \/ (\E v \in Firmware : Push(v)) \/ Receive \/ DownloadEnds
                      \/ ResetKey \/ PowerCut \/ UNCHANGED vars
  PROVE  Safe' /\ DualStep
<1> USE DEF ram, PowerOff, Save
<1>1. UNCHANGED flash
  BY DEF Task, OpenStepFile, WriteStepFile, Restart, TakeFinish, Discard, ResetRestart,
     Push, Receive, DownloadEnds, ResetKey, PowerCut, vars
<1>2. pc' \notin {"erase", "entry"} \/ UNCHANGED vars
      \/ (pc' = pc /\ running' = running /\ rewrite' = rewrite)
  BY DEF Task, OpenStepFile, WriteStepFile, AfterFailure, Restart, TakeFinish, Discard,
     ResetRestart, Push, Receive, DownloadEnds, ResetKey, PowerCut, Typed, TypeOK
<1>3. Configured' = Configured /\ Latest' = Latest /\ UNCHANGED <<sector, slots>>
  BY <1>1, SameSector DEF flash
<1>4. Rewriting'
  BY <1>2, <1>3 DEF Safe, Rewriting, Whole, vars
<1>5. RunsConfigured'
  <2>1. Power' \/ (~Power /\ running' = running)
    BY DEF Task, OpenStepFile, WriteStepFile, AfterFailure, Restart, TakeFinish, Discard,
       ResetRestart, Push, Receive, DownloadEnds, ResetKey, PowerCut, vars, Power, Typed, TypeOK
  <2>2. QED
    BY <1>3, <2>1 DEF Safe, RunsConfigured
<1>6. QED
  BY <1>1, <1>4, <1>5, FlashSame DEF Safe

(* The cases of the boot code that leave the flash alone. *)
LEMMA ReadingSafe ==
  ASSUME Typed, Safe, BootLoader \/ ReadStep \/ NormalStartup \/ DownloadBinFinish
                      \/ AlreadyWriteInFlash
  PROVE  Safe' /\ DualStep
<1> USE DEF ram, Save
<1>1. UNCHANGED flash /\ pc' \notin {"erase", "entry"}
  BY DEF BootLoader, ReadStep, NormalStartup, DownloadBinFinish, AlreadyWriteInFlash
<1>2. Configured' = Configured
  BY <1>1, SameSector DEF flash
<1>3. RunsConfigured'
  <2>1. CASE BootLoader
    <3>1. Selected = Configured
      BY DEF Selected, Configured
    <3>2. pc' = "check" /\ running' = Configured
      BY <2>1, <3>1 DEF BootLoader, BootSlot, Safe, Bootable
    <3>3. QED
      BY <1>2, <3>2 DEF RunsConfigured
  <2>2. CASE ReadStep \/ NormalStartup \/ DownloadBinFinish \/ AlreadyWriteInFlash
    <3>1. running' = running /\ ~Power
      BY <2>2 DEF ReadStep, NormalStartup, DownloadBinFinish, AlreadyWriteInFlash, Power
    <3>2. QED
      BY <1>2, <3>1 DEF Safe, RunsConfigured
  <2>3. QED
    BY <2>1, <2>2
<1>4. QED
  BY <1>1, <1>3, FlashSame DEF Safe, Rewriting

(* The target is the slot the device does not run from. *)
LEMMA BesideTarget ==
  ASSUME Typed, Safe, pc \in {"install", "copy", "doing", "erase", "entry"}
  PROVE  /\ running = Configured /\ Target = Other(Configured) /\ Target # Configured
         /\ Target \in Slot /\ Configured \in Slot
<1>1. running = Configured
  BY DEF Safe, RunsConfigured, Power
<1>2. QED
  BY <1>1, ConfiguredSlot DEF Target, Typed

(* Erasing and filling the target. *)
LEMMA InstallSafe ==
  ASSUME Typed, Safe, StartToUpgrade \/ CopyImage
  PROVE  Safe' /\ DualStep
<1> USE DEF Save
<1>1. /\ running = Configured /\ Target = Other(Configured) /\ Target # Configured
      /\ Target \in Slot /\ Configured \in Slot
  BY BesideTarget DEF StartToUpgrade, CopyImage
<1>2. UNCHANGED sector
  BY DEF StartToUpgrade, CopyImage
<1>3. Configured' = Configured
  BY <1>2, SameSector
<1>4. /\ running' = running /\ pc' \notin {"erase", "entry"}
      /\ slots' = slots \/ \E x \in Firmware \cup {Scrap} : slots' = [slots EXCEPT ![Target] = x]
  <2>1. CASE StartToUpgrade
    <3>1. CASE File(info.file) = "none"
      BY <2>1, <3>1 DEF StartToUpgrade
    <3>2. CASE File(info.file) # "none"
      <4>1. slots' = [slots EXCEPT ![Target] = Scrap] /\ running' = running
            /\ pc' \in {"copy", "open"}
        BY <1>1, <2>1, <3>2 DEF StartToUpgrade
      <4>2. QED
        BY <4>1
    <3>3. QED
      BY <3>1, <3>2
  <2>2. CASE CopyImage
    <3>1. File(info.file) = "image" => info.file \in Firmware
      BY DEF File
    <3>2. QED
      BY <2>2, <3>1 DEF CopyImage
  <2>3. QED
    BY <2>1, <2>2
<1>5. slots'[Configured] = slots[Configured]
      /\ (slots' = slots \/ slots'[Target] \in Firmware \cup {Scrap})
  BY <1>1, <1>4 DEF Typed, TypeOK
<1>6. Bootable'
  BY <1>3, <1>5 DEF Safe, Bootable, Whole
<1>7. DualStep
  BY <1>1, <1>3, <1>5 DEF DualStep, DualVars, Dual!Next, Dual!Discard, Dual!Fill, Other
<1>8. QED
  BY <1>1, <1>3, <1>4, <1>6, <1>7 DEF Safe, RunsConfigured, Rewriting

(* Changing the slot: the number is chosen, the stale sector erased, and    *)
(* written, which is the one moment the exchange happens.                   *)
LEMMA SwitchSafe ==
  ASSUME Typed, Safe, CheckFlashIsRight \/ EraseSector \/ WriteEntry
  PROVE  Safe' /\ DualStep
<1> USE DEF Save
<1>1. /\ running = Configured /\ Target = Other(Configured) /\ Target # Configured
      /\ Target \in Slot /\ Configured \in Slot
  BY BesideTarget DEF CheckFlashIsRight, EraseSector, WriteEntry
<1>2. rewrite[1] \in Slot /\ rewrite[2] \in Nat
  BY DEF Typed, TypeOK
<1>3. CASE CheckFlashIsRight
  <2>1. UNCHANGED <<sector, slots, running>> /\ UNCHANGED flash
    BY <1>3 DEF CheckFlashIsRight, flash
  <2>2. Configured' = Configured /\ Latest' = Latest
    BY <2>1, SameSector
  <2>3. pc' = "open" \/ ( /\ pc' = "erase" /\ Whole(Target)
                        /\ rewrite' = <<StaleSector, Numbering(Target)>>)
    BY <1>3 DEF CheckFlashIsRight
  <2>4. Rewriting'
    <3>1. Latest = 0 \/ sector[Other(StaleSector)] = Latest
      BY StaleKeepsLatest DEF Typed
    <3>2. Numbering(Target) > Latest /\ (Numbering(Target) - 1) % 2 = Target
      BY <1>1, NumberingNames DEF Typed
    <3>3. QED
      BY <2>1, <2>2, <2>3, <3>1, <3>2 DEF Rewriting, Whole, Target
  <2>5. QED
    BY <1>1, <2>1, <2>2, <2>4, FlashSame DEF Safe, RunsConfigured
<1>4. CASE EraseSector
  <2>1. Rewriting /\ pc = "erase"
    BY <1>4 DEF Safe, EraseSector
  <2>2. sector' = [sector EXCEPT ![rewrite[1]] = 0] /\ UNCHANGED <<slots, running, rewrite>>
    BY <1>4 DEF EraseSector
  <2>3. Latest' = Latest /\ Configured' = Configured
    BY <1>2, <2>1, <2>2, EraseKeepsLatest DEF Rewriting, Typed
  <2>4. sector'[Other(rewrite[1])] = sector[Other(rewrite[1])]
    BY <1>2, <2>2 DEF Other, Slot, Typed, TypeOK
  <2>5. Rewriting'
    BY <2>1, <2>2, <2>3, <2>4 DEF Rewriting, Whole
  <2>6. Bootable' /\ DualStep
    BY <2>2, <2>3 DEF Safe, Bootable, Whole, DualStep, DualVars
  <2>7. QED
    BY <1>1, <2>2, <2>3, <2>5, <2>6 DEF Safe, RunsConfigured
<1>5. CASE WriteEntry
  <2>1. Rewriting /\ pc = "entry"
    BY <1>5 DEF Safe, WriteEntry
  <2>2. CASE UNCHANGED sector
    <3>1. UNCHANGED flash /\ UNCHANGED running /\ pc' = "open" /\ then' = "restart"
      BY <1>5, <2>2 DEF WriteEntry, flash
    <3>2. QED
      BY <3>1, FlashSame DEF Safe, RunsConfigured, Rewriting, Power
  <2>3. CASE sector' = [sector EXCEPT ![rewrite[1]] = rewrite[2]]
    <3>1. Configured' = Other(Configured)
      BY <1>1, <1>2, <2>1, <2>3, EntryIsLatest DEF Rewriting, Typed
    <3>2. UNCHANGED slots /\ pc' = "open" /\ then' = "restart"
      BY <1>5 DEF WriteEntry
    <3>3. Whole(Other(Configured))
      BY <1>1, <2>1 DEF Rewriting
    <3>4. Bootable'
      BY <3>1, <3>2, <3>3 DEF Bootable, Whole
    <3>5. Other(Configured)' = Configured
      BY <3>1, ConfiguredSlot DEF Other, Typed
    <3>6. DualStep
      BY <3>1, <3>2, <3>3, <3>5 DEF DualStep, DualVars, Dual!Next, Dual!Exchange, Whole
    <3>7. QED
      BY <3>2, <3>4, <3>6 DEF Safe, RunsConfigured, Rewriting, Power
  <2>4. QED
    BY <1>5, <2>2, <2>3 DEF WriteEntry
<1>6. QED
  BY <1>3, <1>4, <1>5

LEMMA StepSafe ==
  ASSUME Typed, Switching, Safe, [Next]_vars
  PROVE  Typed' /\ Switching' /\ Safe' /\ DualStep
<1>1. Switching'
  BY SwitchingStep
<1>2. Typed'
  BY TypedBoot, TypedTask, TypedRest DEF Next, Device
<1>3. Safe' /\ DualStep
  BY TaskSafe, ReadingSafe, InstallSafe, SwitchSafe DEF Next, Device, Boot
<1>4. QED
  BY <1>1, <1>2, <1>3

LEMMA InitSafe == Init => Switching /\ Safe
<1> SUFFICES ASSUME Init PROVE Switching /\ Safe
  OBVIOUS
<1>1. Latest = 0 /\ Configured = 0 /\ slots[0] = Shipped
  BY DEF Init, Latest, Configured, Slot
<1>2. QED
  BY <1>1, OtaAssumption DEF Init, Switching, Safe, Bootable, Whole, RunsConfigured, Rewriting, Power

THEOREM Inductive == Spec => [](Typed /\ Switching /\ Safe)
<1>1. Init => Typed /\ Switching /\ Safe
  BY TypedInit, InitSafe
<1>2. Typed /\ Switching /\ Safe /\ [Next]_vars => (Typed /\ Switching /\ Safe)'
  BY StepSafe
<1>3. QED
  BY <1>1, <1>2, PTL DEF Spec

(* Every variable keeps its type, for any bounds. *)
THEOREM TypeCorrect == Spec => []TypeOK
<1>1. Typed => TypeOK
  BY DEF Typed
<1>2. QED
  BY <1>1, Inductive, PTL

(* The slot the boot loader would select is complete at every step of an    *)
(* update, a cut or a fault included (esp_ota_ops.c, bootloader_utility.c). *)
THEOREM AlwaysBootable == Spec => []Bootable
<1>1. Safe => Bootable
  BY DEF Safe
<1>2. QED
  BY <1>1, Inductive, PTL

(* The assertion of start_to_upgrade holds, and it erases the other slot. *)
THEOREM AlwaysBeside == Spec => []InstallsBeside
<1>1. Typed /\ Safe => InstallsBeside
  BY BesideTarget DEF InstallsBeside
<1>2. QED
  BY <1>1, Inductive, PTL

(* The firmware in force changes only by an exchange of complete images. *)
THEOREM RefinesDual == Spec => ImplementsDual
<1>1. Init => Dual!Init
  <2> SUFFICES ASSUME Init PROVE Dual!Init
    OBVIOUS
  <2>1. Configured = 0 /\ Other(Configured) = 1
    BY DEF Init, Latest, Configured, Slot, Other
  <2>2. slots[0] = Shipped /\ slots[1] = Scrap
    BY DEF Init, Slot
  <2>3. QED
    BY <2>1, <2>2, OtaAssumption DEF Dual!Init
<1>2. Typed /\ Switching /\ Safe /\ [Next]_vars => [Dual!Next]_<<slots[Configured], slots[Other(Configured)]>>
  BY StepSafe DEF DualStep, DualVars
<1>3. QED
  BY <1>1, <1>2, Inductive, PTL DEF Spec, ImplementsDual, Dual!Spec
-----------------------------------------------------------------------------
(* THE CHECKED IMAGE.  A record past the copy names an image that a slot    *)
(* holds; the one record under which a slot is erased is not past it, and   *)
(* neither is what the card says then, since the card said it at the boot   *)
(* or nothing.                                                              *)

Held(i) ==
  /\ i.step # NORMAL_STARTUP => i.before # CHECK_FLASH_IS_RIGHT
  /\ i.step = ALREADY_WRITE_IN_FLASH \/ Ready(i) => \E s \in Slot : slots[s] = i.file

Installing == pc \in {"install", "copy"} \/ (pc \in {"open", "fwrite"} /\ then = "install")

HeldInv ==
  /\ Held(info)
  /\ stepfile \in StepInfo => Held(stepfile)
  /\ pc = "doing" => stepfile = info
  /\ Installing => /\ info.step = DOWNLOAD_BIN_FINISH
                   /\ stepfile \in StepInfo => stepfile.step = DOWNLOAD_BIN_FINISH

(* A record that only counts an attempt, and one that gives up, promise no  *)
(* more than they did.                                                      *)
LEMMA HeldRecords ==
  ASSUME Typed, Held(info)
  PROVE  /\ Held(Zeroed)
         /\ info.step # NORMAL_STARTUP => Held(Retried)
         /\ info.step = DOWNLOAD_BIN_FINISH =>
              Held(CountAttempt(info)) /\ Held([info EXCEPT !.step = NORMAL_STARTUP])
         /\ info.step = ALREADY_WRITE_IN_FLASH => Held(Advanced(CHECK_FLASH_IS_RIGHT))
         /\ info.step = CHECK_FLASH_IS_RIGHT => Held(Advanced(NORMAL_STARTUP))
<1> USE DEF Typed, TypeOK, StepInfo, Held, Ready, NORMAL_STARTUP, DOWNLOAD_BIN_FINISH,
            ALREADY_WRITE_IN_FLASH, CHECK_FLASH_IS_RIGHT
<1>1. Held(Zeroed)
  BY DEF Zeroed
<1>2. info.step # NORMAL_STARTUP => Held(Retried)
  BY DEF Retried
<1>3. info.step = DOWNLOAD_BIN_FINISH => Held(CountAttempt(info))
  BY DEF CountAttempt
<1>4. info.step = DOWNLOAD_BIN_FINISH => Held([info EXCEPT !.step = NORMAL_STARTUP])
  OBVIOUS
<1>5. info.step = ALREADY_WRITE_IN_FLASH => Held(Advanced(CHECK_FLASH_IS_RIGHT))
  BY DEF Advanced
<1>6. info.step = CHECK_FLASH_IS_RIGHT => Held(Advanced(NORMAL_STARTUP))
  BY DEF Advanced
<1>7. QED
  BY <1>1, <1>2, <1>3, <1>4, <1>5, <1>6

(* Saving such a record for a restart, the slots and the card as they are.  *)
LEMMA SaveHeld ==
  ASSUME HeldInv, NEW i, Held(i), Save(i, "restart"), UNCHANGED <<slots, stepfile>>
  PROVE  HeldInv'
  BY DEF HeldInv, Held, Installing, Save

(* A memory that is gone promises nothing. *)
LEMMA PowerOffHeld ==
  ASSUME HeldInv, PowerOff, UNCHANGED slots, stepfile' \in StepInfo => stepfile' = stepfile
  PROVE  HeldInv'
<1>1. Held(Zeroed)'
  BY DEF Held, Ready, Zeroed, NORMAL_STARTUP, ALREADY_WRITE_IN_FLASH, CHECK_FLASH_IS_RIGHT
<1>2. info' = Zeroed /\ pc' = "off"
  BY DEF PowerOff
<1>3. Held(info)'
  BY <1>1, <1>2 DEF Held
<1>4. QED
  BY <1>2, <1>3 DEF HeldInv, Held, Installing

(* Erasing the target and filling it: under a record that is not past the   *)
(* copy, and neither is what the card says.                                 *)
LEMMA InstallHeld ==
  ASSUME Typed, HeldInv, StartToUpgrade \/ CopyImage
  PROVE  HeldInv'
<1> USE DEF card
<1>1. Installing /\ info.step = DOWNLOAD_BIN_FINISH /\ info.before # CHECK_FLASH_IS_RIGHT
      /\ (stepfile \in StepInfo => stepfile.step = DOWNLOAD_BIN_FINISH)
      /\ stepfile' = stepfile
  BY DEF StartToUpgrade, CopyImage, HeldInv, Installing, Held,
     DOWNLOAD_BIN_FINISH, NORMAL_STARTUP
<1>2. stepfile \in StepInfo => Held(stepfile)'
  BY <1>1 DEF HeldInv, Held, Ready, DOWNLOAD_BIN_FINISH, NORMAL_STARTUP,
     ALREADY_WRITE_IN_FLASH, CHECK_FLASH_IS_RIGHT
<1>3. CASE UNCHANGED info /\ (pc' = "copy" \/ (pc' = "open" /\ then' = "restart"))
  <2>1. Held(info)'
    BY <1>1, <1>3 DEF Held, Ready, DOWNLOAD_BIN_FINISH, NORMAL_STARTUP,
       ALREADY_WRITE_IN_FLASH, CHECK_FLASH_IS_RIGHT
  <2>2. QED
    BY <1>1, <1>2, <1>3, <2>1 DEF HeldInv, Installing
<1>4. CASE PowerOff /\ UNCHANGED slots
  BY <1>1, <1>4, PowerOffHeld
<1>5. CASE CopyImage /\ Copied /\ Save(Advanced(ALREADY_WRITE_IN_FLASH), "restart")
           /\ slots' = [slots EXCEPT ![Target] =
                          IF File(info.file) = "image" THEN info.file ELSE Scrap]
  <2>1. Target \in Slot /\ slots'[Target] = info.file
    BY <1>5 DEF Copied, Target, Other, Slot, Typed, TypeOK
  <2>2. info' = Advanced(ALREADY_WRITE_IN_FLASH) /\ pc' = "open" /\ then' = "restart"
    BY <1>5 DEF Save
  <2>3. info'.file = info.file /\ info'.before = DOWNLOAD_BIN_FINISH
    BY <1>1, <2>2 DEF Advanced
  <2>4. Held(info)'
    BY <2>1, <2>3 DEF Held, DOWNLOAD_BIN_FINISH, CHECK_FLASH_IS_RIGHT
  <2>5. QED
    BY <1>1, <1>2, <2>2, <2>4 DEF HeldInv, Installing
<1>6. QED
  <2>1. CASE StartToUpgrade
    BY <2>1, <1>3, <1>4 DEF StartToUpgrade, Save
  <2>2. CASE CopyImage
    BY <2>2, <1>3, <1>5 DEF CopyImage, Save
  <2>3. QED
    BY <2>1, <2>2

LEMMA SwitchHeld ==
  ASSUME Typed, Switching, HeldInv, EraseSector \/ WriteEntry
  PROVE  HeldInv'
<1> USE DEF card
<1>1. info.step = CHECK_FLASH_IS_RIGHT /\ Held(info)
  BY DEF Switching, EraseSector, WriteEntry, HeldInv
<1>2. Held(Retried) /\ Held(Advanced(NORMAL_STARTUP))
  BY <1>1, HeldRecords DEF CHECK_FLASH_IS_RIGHT, NORMAL_STARTUP
<1>3. UNCHANGED <<slots, stepfile>>
  BY DEF EraseSector, WriteEntry
<1>4. CASE Save(Retried, "restart") \/ Save(Advanced(NORMAL_STARTUP), "restart")
  BY <1>2, <1>3, <1>4, SaveHeld
<1>5. CASE pc' = "entry" /\ UNCHANGED <<info, then>>
  BY <1>3, <1>5 DEF HeldInv, Held, Installing
<1>6. QED
  BY <1>4, <1>5 DEF EraseSector, WriteEntry

LEMMA BootHeld ==
  ASSUME Typed, Switching, HeldInv, Boot
  PROVE  HeldInv'
<1> USE DEF card, flash
<1>1. Held(info) /\ (stepfile \in StepInfo => Held(stepfile))
  BY DEF HeldInv
<1>2. CASE BootLoader
  BY <1>2 DEF BootLoader, HeldInv, Held, Installing
<1>3. CASE ReadStep
  <2>1. CASE Save(Zeroed, "restart")
    BY <1>1, <1>3, <2>1, HeldRecords, SaveHeld DEF ReadStep
  <2>2. CASE stepfile \in StepInfo /\ info' = stepfile /\ pc' = "doing"
    BY <1>3, <2>2 DEF ReadStep, HeldInv, Held, Installing
  <2>3. QED
    BY <1>3, <2>1, <2>2 DEF ReadStep
<1>4. CASE NormalStartup
  BY <1>4 DEF NormalStartup, HeldInv, Held, Installing, ram
<1>5. CASE DownloadBinFinish
  <2>1. info.step = DOWNLOAD_BIN_FINISH /\ stepfile = info /\ UNCHANGED <<slots, stepfile>>
    BY <1>5 DEF DownloadBinFinish, HeldInv
  <2>2. CASE Save([info EXCEPT !.step = NORMAL_STARTUP], "run")
    <3>1. Held([info EXCEPT !.step = NORMAL_STARTUP])
      BY <1>1, <2>1, HeldRecords
    <3>2. QED
      BY <2>1, <2>2, <3>1 DEF HeldInv, Held, Installing, Save
  <2>3. CASE Save(CountAttempt(info), "install")
    <3>1. Held(CountAttempt(info)) /\ CountAttempt(info).step = DOWNLOAD_BIN_FINISH
      BY <1>1, <2>1, HeldRecords DEF CountAttempt, Typed, TypeOK, StepInfo
    <3>2. QED
      BY <2>1, <2>3, <3>1 DEF HeldInv, Held, Installing, Save
  <2>4. QED
    BY <1>5, <2>2, <2>3 DEF DownloadBinFinish
<1>6. CASE StartToUpgrade \/ CopyImage
  BY <1>6, InstallHeld
<1>7. CASE AlreadyWriteInFlash
  <2>1. Held(Retried) /\ Held(Advanced(CHECK_FLASH_IS_RIGHT))
    BY <1>1, <1>7, HeldRecords DEF AlreadyWriteInFlash, ALREADY_WRITE_IN_FLASH, NORMAL_STARTUP
  <2>2. Save(Retried, "restart") \/ Save(Advanced(CHECK_FLASH_IS_RIGHT), "restart")
    BY <1>7 DEF AlreadyWriteInFlash
  <2>3. QED
    BY <1>7, <2>1, <2>2, SaveHeld DEF AlreadyWriteInFlash
<1>8. CASE CheckFlashIsRight
  <2>1. CASE Save(Retried, "restart")
    <3>1. Held(Retried)
      BY <1>1, <1>8, HeldRecords DEF CheckFlashIsRight, CHECK_FLASH_IS_RIGHT, NORMAL_STARTUP
    <3>2. QED
      BY <1>8, <2>1, <3>1, SaveHeld DEF CheckFlashIsRight
  <2>2. CASE pc' = "erase" /\ UNCHANGED <<info, then>>
    BY <1>8, <2>2 DEF CheckFlashIsRight, HeldInv, Held, Installing
  <2>3. QED
    BY <1>8, <2>1, <2>2 DEF CheckFlashIsRight
<1>9. QED
  BY <1>2, <1>3, <1>4, <1>5, <1>6, <1>7, <1>8, SwitchHeld DEF Boot

LEMMA TaskHeld ==
  ASSUME Typed, HeldInv, Task
  PROVE  HeldInv'
<1> USE DEF card, flash, ram
<1>1. CASE OpenStepFile
  <2>1. stepfile' \in StepInfo => stepfile' = stepfile
    BY <1>1, StepFileAssumption DEF OpenStepFile
  <2>2. Installing' => Installing
    BY <1>1 DEF OpenStepFile, AfterFailure, Installing, Typed, TypeOK
  <2>3. pc' # "doing" /\ UNCHANGED <<slots, info>>
    BY <1>1 DEF OpenStepFile, AfterFailure, Typed, TypeOK
  <2>4. QED
    BY <2>1, <2>2, <2>3 DEF HeldInv, Held
<1>2. CASE WriteStepFile
  <2>1. stepfile' = info \/ stepfile' = stepfile
    BY <1>2 DEF WriteStepFile
  <2>2. Installing' => Installing
    BY <1>2 DEF WriteStepFile, AfterFailure, Installing, Typed, TypeOK
  <2>3. pc' # "doing" /\ UNCHANGED <<slots, info>>
    BY <1>2 DEF WriteStepFile, AfterFailure, Typed, TypeOK
  <2>4. QED
    BY <2>1, <2>2, <2>3 DEF HeldInv, Held
<1>3. CASE Restart \/ ResetRestart
  BY <1>3, PowerOffHeld DEF Restart, ResetRestart
<1>4. CASE TakeFinish
  <2>1. UNCHANGED <<slots, stepfile>> /\ ~Installing' /\ pc' # "doing"
    BY <1>4 DEF TakeFinish, Save, Installing
  <2>2. Held(info)'
    <3>1. CASE UNCHANGED info
      BY <2>1, <3>1 DEF HeldInv, Held
    <3>2. CASE info' = [step |-> DOWNLOAD_BIN_FINISH, retry |-> 0,
                        before |-> NORMAL_STARTUP, file |-> load[1]]
      BY <3>2 DEF Held, Ready, DOWNLOAD_BIN_FINISH, NORMAL_STARTUP,
         ALREADY_WRITE_IN_FLASH, CHECK_FLASH_IS_RIGHT
    <3>3. QED
      BY <1>4, <3>1, <3>2 DEF TakeFinish, Save
  <2>3. QED
    BY <2>1, <2>2 DEF HeldInv, Held
<1>5. CASE Discard
  <2>1. stepfile' \notin StepInfo
    BY <1>5, StepFileAssumption DEF Discard
  <2>2. QED
    BY <1>5, <2>1 DEF Discard, HeldInv, Held, Installing
<1>6. QED
  BY <1>1, <1>2, <1>3, <1>4, <1>5 DEF Task

LEMMA RestHeld ==
  ASSUME Typed, HeldInv, (\E v \in Firmware : Push(v)) \/ Receive \/ DownloadEnds \/ ResetKey
                         \/ PowerCut \/ UNCHANGED vars
  PROVE  HeldInv'
<1> USE DEF card, flash, ram
<1>1. CASE UNCHANGED <<slots, stepfile, pc, then, info>>
  BY <1>1 DEF HeldInv, Held, Installing
<1>2. CASE ResetKey
  <2>1. stepfile' \in StepInfo => stepfile' = stepfile
    BY <1>2, StepFileAssumption DEF ResetKey
  <2>2. UNCHANGED <<slots, pc, then, info>> /\ pc # "doing"
    BY <1>2 DEF ResetKey, Up
  <2>3. QED
    BY <2>1, <2>2 DEF HeldInv, Held, Installing
<1>3. CASE PowerCut
  BY <1>3, PowerOffHeld DEF PowerCut
<1>4. QED
  BY <1>1, <1>2, <1>3 DEF Push, Receive, DownloadEnds, vars

(* Once the step file says that the flash is right, or that the change is   *)
(* made, a slot holds the image it names, whatever was cut off, retried or  *)
(* pushed since (the switch of doing_ota_upgrade and its set_upgrade_file). *)
THEOREM CheckedHolds == Spec => []CheckedIsThere
<1>1. Init => HeldInv
  BY StepFileAssumption DEF Init, HeldInv, Held, Ready, Installing, Zeroed, NORMAL_STARTUP,
     ALREADY_WRITE_IN_FLASH, CHECK_FLASH_IS_RIGHT
<1>2. Typed /\ Switching /\ HeldInv /\ [Next]_vars => HeldInv'
  BY BootHeld, TaskHeld, RestHeld DEF Next, Device
<1>3. HeldInv => CheckedIsThere
  BY DEF HeldInv, Held, CheckedIsThere
<1>4. QED
  BY <1>1, <1>2, <1>3, Inductive, PTL DEF Spec
=============================================================================
