------------------------------ MODULE OtaUpgrade ------------------------------
(***************************************************************************)
(* The over-the-air update across restarts: app/ota.c (ota_update_task and *)
(* doing_ota_upgrade), the boot code that calls it (init/init.c), the reset *)
(* key that interrupts it (bsp/restore.c), and the two-slot selection they *)
(* rely on (esp_ota_ops.c in the application, bootloader_utility.c before  *)
(* it).  Flash and card survive a power cut, which may come at every step; *)
(* everything else is lost.                                                *)
(*                                                                         *)
(* External: the download of the image (modelled by DownloadServer), here  *)
(* the end it reports, and the FAT of the card: a file opened for writing  *)
(* is empty until it is closed.                                            *)
(*                                                                         *)
(* A suffixed name (Target_FirstSlot) is the definition after it with a    *)
(* slip in it, kept to show which property would notice.                   *)
(***************************************************************************)
EXTENDS Naturals

CONSTANTS
  Firmware,    (* the versions there are; a complete image of each          *)
  Shipped,     (* the version the device leaves the factory with            *)
  Scrap,       (* a slot that holds no complete image                       *)
  None, Missing, Empty,
  MaxPushes,   (* bound: images pushed in one behaviour                     *)
  MaxCuts,     (* bound: power cuts                                         *)
  MaxFaults    (* bound: failed reads, writes and erases of card and flash  *)

ASSUME OtaAssumption ==
  /\ Shipped \in Firmware /\ Scrap \notin Firmware /\ None \notin Firmware
  /\ MaxPushes \in Nat /\ MaxCuts \in Nat /\ MaxFaults \in Nat

(* upgrade_step and its limit, ota.h. *)
NORMAL_STARTUP         == 0
DOWNLOAD_BIN_FINISH    == 1
ALREADY_WRITE_IN_FLASH == 2
CHECK_FLASH_IS_RIGHT   == 4
MAX_RETRY              == 3

(* upgrade_step_info_t; the size of the file stands in its image. *)
StepInfo == [step : {NORMAL_STARTUP, DOWNLOAD_BIN_FINISH,
                     ALREADY_WRITE_IN_FLASH, CHECK_FLASH_IS_RIGHT},
             retry : 0..MAX_RETRY + 1,
             before : {NORMAL_STARTUP, DOWNLOAD_BIN_FINISH,
                       ALREADY_WRITE_IN_FLASH, CHECK_FLASH_IS_RIGHT},
             file : Firmware \cup {None}]
Zeroed == [step |-> NORMAL_STARTUP, retry |-> 0, before |-> NORMAL_STARTUP, file |-> None]

ASSUME StepFileAssumption ==
  Missing # Empty /\ Missing \notin StepInfo /\ Empty \notin StepInfo

VARIABLES
  sector,    (* otadata: the sequence number of each sector, 0 if not valid *)
  slots,     (* ota_0 and ota_1: a complete image or Scrap                  *)
  stepfile,  (* UPGRADE_STEP_FILE_NAME: StepInfo, Empty or Missing          *)
  files,     (* the image file of each version: "none" | "part" | "image" | "bad" *)
  pc,        (* where boot code or ota_update_task is, see Places           *)
  running,   (* the slot the running firmware was loaded from               *)
  info,      (* step_info                                                   *)
  then,      (* where set_upgrade_file returns to                           *)
  rewrite,   (* the sector being rewritten and its new number               *)
  load,      (* the download: <<version, "none" | "busy" | "done" | "failed">> *)
  reset,     (* restore_task has unlinked the step file                     *)
  pushes, cuts, faults

flash == <<sector, slots>>
card  == <<stepfile, files>>
ram   == <<running, info, then, rewrite, load, reset>>
bounds == <<pushes, cuts, faults>>
vars == <<flash, card, pc, ram, bounds>>

Places == {"off", "dead", "check", "doing", "install", "copy", "erase", "entry",
           "open", "fwrite", "restart", "run", "wait", "discard"}

-----------------------------------------------------------------------------
(* TWO SLOTS.  The newest sequence number names the slot; it is computed    *)
(* alike by the boot loader and by esp_ota_get_boot_partition.              *)
Slot == {0, 1}
Other(s) == 1 - s
Whole(s) == slots[s] # Scrap

Latest == IF sector[0] >= sector[1] THEN sector[0] ELSE sector[1]

Configured == IF Latest = 0 THEN 0 ELSE (Latest - 1) % 2

(* bootloader_utility_load_boot_image: the selected slot if it verifies,    *)
(* else the other one (backwards, then forwards).                           *)
Selected_OffByOne == Latest % 2
Selected == IF Latest = 0 THEN 0 ELSE (Latest - 1) % 2
BootSlot == IF Whole(Selected) THEN Selected ELSE Other(Selected)

(* esp_ota_get_next_update_partition(NULL) *)
Target_FirstSlot == 0
Target == Other(running)

(* esp_rewrite_ota_data: the sector to rewrite, and the least number not    *)
(* below the latest that names the slot.                                    *)
StaleSector == IF sector[0] > 0 /\ sector[0] >= sector[1] THEN 1 ELSE 0
Numbering(s) ==
  IF Latest = 0 THEN s + 1
  ELSE IF Latest % 2 = (s + 1) % 2 THEN Latest ELSE Latest + 1

-----------------------------------------------------------------------------
Init ==
  /\ sector = [s \in Slot |-> 0] /\ slots = [s \in Slot |-> IF s = 0 THEN Shipped ELSE Scrap]
  /\ stepfile = Missing /\ files = [v \in Firmware |-> "none"]
  /\ pc = "off" /\ running = 0 /\ info = Zeroed /\ then = "restart"
  /\ rewrite = <<0, 0>> /\ load = <<None, "none">> /\ reset = FALSE
  /\ pushes = 0 /\ cuts = 0 /\ faults = 0

Fault == faults < MaxFaults /\ faults' = faults + 1 /\ UNCHANGED <<pushes, cuts>>
NoFault == UNCHANGED bounds

(* esp_restart, a reset, a cut: the memory is gone. *)
PowerOff ==
  /\ pc' = "off" /\ running' = 0 /\ info' = Zeroed /\ then' = "restart"
  /\ rewrite' = <<0, 0>> /\ load' = <<None, "none">> /\ reset' = FALSE

(* set_upgrade_file is called, to go on at place afterwards. *)
Save(i, place) == info' = i /\ then' = place /\ pc' = "open"

-----------------------------------------------------------------------------
(* SAVING THE STEP: set_upgrade_file.  Only ota_update_task looks at what   *)
(* it returns.                                                              *)
AfterFailure == IF then = "wait" THEN "discard" ELSE then

OpenStepFile ==
  /\ pc = "open"
  /\ \/ stepfile' = Empty /\ pc' = "fwrite" /\ NoFault
     \/ pc' = AfterFailure /\ Fault /\ UNCHANGED stepfile
  /\ UNCHANGED <<flash, files, ram>>

WriteStepFile ==
  /\ pc = "fwrite"
  /\ \/ stepfile' = info /\ pc' = then /\ NoFault
     \/ pc' = AfterFailure /\ Fault /\ UNCHANGED stepfile
  /\ UNCHANGED <<flash, files, ram>>

Restart == pc \in {"restart", "wait"} /\ PowerOff /\ UNCHANGED <<flash, card, bounds>>

-----------------------------------------------------------------------------
(* BOOT: the boot loader, then pre_system_check_and_init.                   *)
BootLoader ==
  /\ pc = "off"
  /\ IF Whole(BootSlot) THEN running' = BootSlot /\ pc' = "check"
                        ELSE pc' = "dead" /\ UNCHANGED running
  /\ UNCHANGED <<flash, card, info, then, rewrite, load, reset, bounds>>

(* get_upgrade_step; without a step a normal one is saved, and again from   *)
(* the start.                                                               *)
ReadStep ==
  /\ pc = "check"
  /\ \/ stepfile \in StepInfo /\ info' = stepfile /\ pc' = "doing" /\ NoFault /\ UNCHANGED then
     \/ stepfile \notin StepInfo /\ Save(Zeroed, "restart") /\ NoFault
     \/ stepfile \in StepInfo /\ Save(Zeroed, "restart") /\ Fault
  /\ UNCHANGED <<flash, card, running, rewrite, load, reset>>

(* doing_ota_upgrade, a case of its switch each. *)
NormalStartup ==
  /\ pc = "doing" /\ info.step = NORMAL_STARTUP
  /\ pc' = "run"
  /\ files' = [v \in Firmware |->
                 IF info.before = CHECK_FLASH_IS_RIGHT /\ v = info.file THEN "none" ELSE files[v]]
  /\ UNCHANGED <<flash, stepfile, ram, bounds>>

CountAttempt_Uncounted(i) == i
CountAttempt(i) == [i EXCEPT !.retry = @ + 1]

DownloadBinFinish ==
  /\ pc = "doing" /\ info.step = DOWNLOAD_BIN_FINISH
  /\ IF info.retry >= MAX_RETRY
       THEN Save([info EXCEPT !.step = NORMAL_STARTUP], "run")
       ELSE Save(CountAttempt(info), "install")
  /\ UNCHANGED <<flash, card, running, rewrite, load, reset, bounds>>

(* What fopen finds; an empty name opens nothing. *)
File(v) == IF v \in Firmware THEN files[v] ELSE "none"

Advanced(step) == [step |-> step, retry |-> 0, before |-> info.step, file |-> info.file]
Retried ==
  [step |-> IF info.retry >= MAX_RETRY THEN NORMAL_STARTUP ELSE info.step,
   retry |-> info.retry + 1, before |-> info.before, file |-> info.file]

(* start_to_upgrade: an unreadable file, assert(configured == running), and *)
(* esp_ota_begin, which erases the target.                                  *)
StartToUpgrade ==
  /\ pc = "install"
  /\ IF File(info.file) = "none"
       THEN Save(info, "restart") /\ NoFault /\ UNCHANGED <<slots, running, rewrite, load, reset>>
     ELSE IF Configured # running
       THEN PowerOff /\ NoFault /\ UNCHANGED slots
     ELSE /\ slots' = [slots EXCEPT ![Target] = Scrap]
          /\ \/ pc' = "copy" /\ NoFault /\ UNCHANGED <<info, then>>
             \/ Save(info, "restart") /\ Fault
          /\ UNCHANGED <<running, rewrite, load, reset>>
  /\ UNCHANGED <<sector, card>>

(* esp_ota_write, the size and esp_ota_end, which verifies what was written. *)
Copied_Unverified == TRUE
Copied == File(info.file) = "image"

CopyImage ==
  /\ pc = "copy"
  /\ \/ Copied /\ NoFault
        /\ slots' = [slots EXCEPT ![Target] =
                       IF File(info.file) = "image" THEN info.file ELSE Scrap]
        /\ Save(Advanced(ALREADY_WRITE_IN_FLASH), "restart")
     \/ ~Copied /\ NoFault /\ UNCHANGED slots /\ Save(info, "restart")
     \/ Copied /\ Fault /\ UNCHANGED slots /\ Save(info, "restart")
  /\ UNCHANGED <<sector, card, running, rewrite, load, reset>>

(* check_write_in_flase_error compares with strncmp, which ends at the first *)
(* zero byte: another content than the file's may pass.                     *)
AlreadyWriteInFlash ==
  /\ pc = "doing" /\ info.step = ALREADY_WRITE_IN_FLASH
  /\ IF File(info.file) = "image" /\ slots[Target] = info.file
       THEN \/ Save(Advanced(CHECK_FLASH_IS_RIGHT), "restart") /\ NoFault
            \/ Save(Retried, "restart") /\ Fault
       ELSE \E passes \in {File(info.file) # "none", FALSE} :
              /\ Save(IF passes THEN Advanced(CHECK_FLASH_IS_RIGHT) ELSE Retried, "restart")
              /\ NoFault
  /\ UNCHANGED <<flash, card, running, rewrite, load, reset>>

(* change_boot_partition up to the erasure of the sector: it must run from  *)
(* the configured slot and the other one must verify.                       *)
CheckFlashIsRight ==
  /\ pc = "doing" /\ info.step = CHECK_FLASH_IS_RIGHT
  /\ IF Configured = running /\ Whole(Target)
       THEN \/ /\ pc' = "erase" /\ rewrite' = <<StaleSector, Numbering(Target)>>
               /\ NoFault /\ UNCHANGED <<info, then>>
            \/ Save(Retried, "restart") /\ Fault /\ UNCHANGED rewrite
       ELSE Save(Retried, "restart") /\ NoFault /\ UNCHANGED rewrite
  /\ UNCHANGED <<flash, card, running, load, reset>>

(* rewrite_ota_seq: erase, then write.  A cut in the write leaves an entry  *)
(* whose checksum is wrong, as good as an erased one.                       *)
EraseSector ==
  /\ pc = "erase"
  /\ sector' = [sector EXCEPT ![rewrite[1]] = 0]
  /\ \/ pc' = "entry" /\ NoFault /\ UNCHANGED <<info, then>>
     \/ Save(Retried, "restart") /\ Fault
  /\ UNCHANGED <<slots, card, running, rewrite, load, reset>>

WriteEntry ==
  /\ pc = "entry"
  /\ \/ sector' = [sector EXCEPT ![rewrite[1]] = rewrite[2]] /\ NoFault
        /\ Save(Advanced(NORMAL_STARTUP), "restart")
     \/ Save(Retried, "restart") /\ Fault /\ UNCHANGED sector
  /\ UNCHANGED <<slots, card, running, rewrite, load, reset>>

-----------------------------------------------------------------------------
(* THE RUNNING DEVICE: ota_update_task, the download, the reset key.        *)

(* GET_OTA_VERSION; while is_upgrade is set a push is dropped. *)
Push(v) ==
  /\ pc = "run" /\ load[2] = "none" /\ pushes < MaxPushes
  /\ pushes' = pushes + 1
  /\ files' = [files EXCEPT ![v] = "none"]
  /\ load' = <<v, "busy">>
  /\ UNCHANGED <<flash, stepfile, pc, running, info, then, rewrite, reset, cuts, faults>>

(* The server writes the file and calls ota_download_callback: what it      *)
(* fetched need not be an image, and a failure leaves part of it.           *)
Receive ==
  /\ load[2] = "busy" /\ files[load[1]] = "none"
  /\ files' = [files EXCEPT ![load[1]] = "part"]
  /\ UNCHANGED <<flash, stepfile, pc, ram, bounds>>

DownloadEnds ==
  /\ load[2] = "busy"
  /\ \/ \E got \in {"image", "bad"} : files' = [files EXCEPT ![load[1]] = got]
        /\ load' = <<load[1], "done">>
     \/ load' = <<load[1], "failed">> /\ UNCHANGED files
  /\ UNCHANGED <<flash, stepfile, pc, running, info, then, rewrite, reset, bounds>>

(* FINISH_OTA_FILE_DOWNLOAD *)
TakeFinish ==
  /\ pc = "run"
  /\ \/ load[2] = "done"
        /\ Save([step |-> DOWNLOAD_BIN_FINISH, retry |-> 0, before |-> NORMAL_STARTUP,
                 file |-> load[1]], "wait")
     \/ load[2] = "failed" /\ pc' = "discard" /\ UNCHANGED <<info, then>>
  /\ UNCHANGED <<flash, card, running, rewrite, load, reset, bounds>>

(* delete_all_upgrade_file, and is_upgrade = false *)
Discard ==
  /\ pc = "discard"
  /\ files' = [files EXCEPT ![load[1]] = "none"] /\ stepfile' = Missing
  /\ load' = <<None, "none">> /\ pc' = "run"
  /\ UNCHANGED <<flash, running, info, then, rewrite, reset, bounds>>

(* The other tasks run once the boot code is through. *)
Up == pc \in {"run", "wait", "discard"} \/ (pc \in {"open", "fwrite"} /\ then = "wait")

(* restore_task on a long press of the reset key; the card refuses to       *)
(* unlink a file that is open.                                              *)
ResetKey ==
  /\ Up /\ ~reset
  /\ reset' = TRUE
  /\ stepfile' = IF pc = "fwrite" THEN stepfile ELSE Missing
  /\ UNCHANGED <<flash, files, pc, running, info, then, rewrite, load, bounds>>

ResetRestart == Up /\ reset /\ PowerOff /\ UNCHANGED <<flash, card, bounds>>

PowerCut ==
  /\ pc \notin {"off", "dead"} /\ cuts < MaxCuts
  /\ cuts' = cuts + 1 /\ PowerOff
  /\ UNCHANGED <<flash, card, pushes, faults>>

-----------------------------------------------------------------------------
Boot == BootLoader \/ ReadStep \/ NormalStartup \/ DownloadBinFinish \/ StartToUpgrade
        \/ CopyImage \/ AlreadyWriteInFlash \/ CheckFlashIsRight \/ EraseSector \/ WriteEntry
Task == OpenStepFile \/ WriteStepFile \/ Restart \/ TakeFinish \/ Discard \/ ResetRestart
Device == Boot \/ Task

Next ==
  \/ Device
  \/ \E v \in Firmware : Push(v)
  \/ Receive \/ DownloadEnds \/ ResetKey \/ PowerCut

Spec == Init /\ [][Next]_vars

(* The device goes on as long as it has power. *)
FairSpec == Spec /\ WF_vars(Device)

-----------------------------------------------------------------------------
TypeOK ==
  /\ sector \in [Slot -> Nat] /\ slots \in [Slot -> Firmware \cup {Scrap}]
  /\ stepfile \in StepInfo \cup {Missing, Empty}
  /\ files \in [Firmware -> {"none", "part", "image", "bad"}]
  /\ pc \in Places /\ running \in Slot /\ info \in StepInfo
  /\ then \in {"restart", "install", "run", "wait"}
  /\ rewrite \in Slot \X Nat
  /\ load \in (Firmware \cup {None}) \X {"none", "busy", "done", "failed"}
  /\ reset \in BOOLEAN
  /\ pushes \in Nat /\ cuts \in Nat /\ faults \in Nat

(* At every moment, a half-done erasure or rewriting included, the slot the *)
(* boot loader would select holds a complete image: no cut needs its        *)
(* fallback, which may not find one (start_to_upgrade, rewrite_ota_seq).    *)
Bootable == Whole(Configured)

(* assert(configured == running) of start_to_upgrade never stops the device, *)
(* nor does an update erase the firmware it runs from.                      *)
InstallsBeside == pc \in {"install", "copy"} => running = Configured /\ Target # running

(* Once the step file says that the flash is right, or that the change is   *)
(* made, the image it names is complete in a slot, whatever was cut off,    *)
(* retried or pushed since.                                                 *)
Ready(i) ==
  \/ i.step = CHECK_FLASH_IS_RIGHT
  \/ i.step = NORMAL_STARTUP /\ i.before = CHECK_FLASH_IS_RIGHT
CheckedIsThere ==
  stepfile \in StepInfo /\ Ready(stepfile) => \E s \in Slot : slots[s] = stepfile.file

(* Cuts and faults included, the firmware in force changes only by an       *)
(* exchange of two complete images (the rewriting of otadata is atomic).    *)
Dual == INSTANCE DualFirmware
          WITH active <- slots[Configured], spare <- slots[Other(Configured)]
ImplementsDual == Dual!Spec

(* However an update ends (an image that never verifies, failed saves, cuts) *)
(* the device is up again: no chain of restarts is endless.                 *)
ComesUp == pc = "off" ~> pc = "run"

(* "upgrade is succese" (ota.c:389): a boot that says so runs the image.    *)
(* Not so after a cut between the two statements of a switch (README, 6).   *)
SuccessIsTrue ==
  pc = "doing" /\ info.step = NORMAL_STARTUP /\ info.before = CHECK_FLASH_IS_RIGHT
    => slots[running] = info.file
=============================================================================
