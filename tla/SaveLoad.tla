------------------------------- MODULE SaveLoad -------------------------------
(***************************************************************************)
(* The save and load operations of the plugin: FreezeSave, FreezeLoad and  *)
(* their failure paths (fatsave.c), the system-event handler               *)
(* ProcessSignals (utils.c) and the one-way kernel overwrite ApplyHandoff  *)
(* (apply.S), together with the firmware's suspend and resume, the         *)
(* running game, the Memory Stick and the loss of power.                   *)
(*                                                                         *)
(* The difficulty is that a LOAD rolls back the memory the plugin itself   *)
(* lives in: after ApplyHandoff the menu thread is back inside the         *)
(* FreezeSave call that took the snapshot.  Everything a snapshot contains *)
(* is therefore one record, kernel; everything it does not contain (game   *)
(* memory, the card, the RTC alarm, the firmware's power phase) is a       *)
(* variable of its own.                                                    *)
(*                                                                         *)
(* Abstractions.  A state of the game is a token: running replaces the     *)
(* token in every part of memory at once.  User RAM is three cells: mid is *)
(* the staging slot of the kernel snapshot, high the place of the          *)
(* ApplyHandoff blob, low the rest.  A section of a save file holds one    *)
(* such cell; Junk is content that no complete write produced.  The CRC is *)
(* a perfect hash: the value of the sections it covers.  Freezing is one   *)
(* step here.  Panels, timing figures and preview images are left out.     *)
(***************************************************************************)
EXTENDS Naturals

CONSTANTS
  Paths,       \* save files of the running game
  Gens,        \* tokens: the states a running game can be in
  Bases,       \* kernel addresses the plugin may be loaded at on a boot
  Junk,        \* content of a torn, rotten or never written section
  Blob,        \* the ApplyHandoff code copied into game RAM
  NoFile,      \* the file does not exist
  Outside,     \* a header address that is outside the kernel window
  Zero,        \* CRC word of a file that was not certified
  SlowResume   \* may the menu thread run before RESUME_COMPLETED is handled?

ASSUME ConstantsAssumption ==
  /\ Paths # {} /\ Gens # {} /\ Bases # {}
  /\ SlowResume \in BOOLEAN
  /\ {Junk, Blob} \cap Gens = {} /\ Junk # Blob
  /\ Outside \notin Bases

VARIABLES
  kernel,   \* kernel RAM: the plugin's globals, the menu thread, the game's
            \* thread contexts.  A snapshot is a value of this variable.
  ram,      \* user RAM: ram.low, ram.mid, ram.high
  vram,     \* video RAM
  files,    \* files[p]: the save file p on the Memory Stick
  power,    \* "on", "locking" (POWER_LOCK seen), "asleep", "waking"
  request,  \* a suspend was requested and not yet begun
  alarm     \* the RTC alarm is set; kept by the RTC, not by kernel RAM

vars == <<kernel, ram, vram, files, power, request, alarm>>

-----------------------------------------------------------------------------
\* The points of the menu thread between which something else can happen.
SavePoints  == {"sv_open", "sv_volmem", "sv_freeze", "sv_header", "sv_ram",
                "sv_vram", "sv_contexts"}
\* Points reached by a save, and again by the LOAD of the snapshot it took.
TailPoints  == {"sv_wait", "sv_kernel", "restore", "prompt", "finish_crc", "close"}
LoadPoints  == {"ld_open", "ld_volmem", "ld_freeze", "ld_verify", "ld_stage",
                "ld_arm", "ld_wait"}
Points      == {"idle"} \cup SavePoints \cup TailPoints \cup LoadPoints

Kernel == [
  pc         : Points,         \* where the menu thread is
  path       : Paths,          \* argument of the operation
  base       : Bases,          \* where the plugin, hence g_op_mode, sits
  game       : Gens,           \* token held by the game's thread contexts
  frozen     : BOOLEAN,        \* the game's threads are suspended
  owed       : BOOLEAN,        \* game told SUSPENDING, not yet RESUMING
  hold       : BOOLEAN,        \* g_st_op_hold
  op_mode    : {0, 1},         \* g_op_mode: 0 SAVE, 1 LOAD
  sleep_mode : {0, 9, 10},     \* g_sleep_mode: action at PHASE0_0
  sleep_arm  : {0, 1, 2},      \* g_sleep_arm: RTC auto-wake
  resumed    : BOOLEAN,        \* g_resumed
  io_ok      : BOOLEAN,        \* every write of this save was complete
  crc_active : BOOLEAN,        \* background CRC still to be stamped
  was_load   : BOOLEAN ]       \* this tail is the end of a LOAD

\* A kernel is captured only in the armed wait for the suspend.
Snapshot == {k \in Kernel : k.pc = "sv_wait" /\ k.sleep_mode = 9 /\ ~k.resumed}

Cell == Gens \cup {Junk, Blob} \cup Snapshot

Body == [ram : Cell, vram : Cell, kern : Cell]

File == [hdr  : BOOLEAN,              \* header words 0..6 are there
         addr : Bases \cup {Outside}, \* words 9, 10, 12: save-time addresses
         kpos : BOOLEAN,              \* word 7: kernel section was located
         crc  : {Zero} \cup Body,     \* word 8
         body : Body]                 \* everything after the header

\* The values that stand for something else are told from what they replace.
ASSUME SentinelsAssumption ==
  /\ Zero \notin Body
  /\ NoFile \notin File
  /\ \A c \in Gens \cup {Junk, Blob} : c \notin Kernel
  /\ Junk \notin [path : Paths, state : Gens]

TypeOK ==
  /\ kernel \in Kernel
  /\ ram \in [low : Cell, mid : Cell, high : Cell]
  /\ vram \in Cell
  /\ files \in [Paths -> File \cup {NoFile}]
  /\ power \in {"on", "locking", "asleep", "waking"}
  /\ request \in BOOLEAN
  /\ alarm \in BOOLEAN

-----------------------------------------------------------------------------
NoBody    == [ram |-> Junk, vram |-> Junk, kern |-> Junk]
EmptyFile == [hdr |-> FALSE, addr |-> Outside, kpos |-> FALSE, crc |-> Zero,
              body |-> NoBody]

\* What crc32_file_after_header and the header checks of FreezeLoad accept.
Verifies(f) == f # NoFile /\ f.hdr /\ f.kpos /\ f.crc = f.body

AllRam(c) == [low |-> c, mid |-> c, high |-> c]

\* Kernel RAM after module_start in a freshly booted system.
Booted(p, b, g) ==
  [pc |-> "idle", path |-> p, base |-> b, game |-> g, frozen |-> FALSE,
   owed |-> FALSE, hold |-> FALSE, op_mode |-> 0, sleep_mode |-> 0,
   sleep_arm |-> 0, resumed |-> FALSE, io_ok |-> TRUE, crc_active |-> FALSE,
   was_load |-> FALSE]

Init ==
  /\ \E p \in Paths, b \in Bases, g \in Gens :
        kernel = Booted(p, b, g) /\ ram = AllRam(g) /\ vram = g
  /\ files = [p \in Paths |-> NoFile]
  /\ power = "on"
  /\ request = FALSE
  /\ alarm = FALSE

\* The menu thread is scheduled.  It does not run while the system sleeps; it
\* runs between the wake-up and RESUME_COMPLETED only if SlowResume.
MenuRuns == power # "asleep" /\ (power = "waking" => SlowResume)

At(l) == MenuRuns /\ kernel.pc = l

TheFile    == files[kernel.path]
SetFile(f) == files' = [files EXCEPT ![kernel.path] = f]
Memory     == <<ram, vram>>
Firmware   == <<power, request, alarm>>

(***************************************************************************)
(* op_abort: give the game back.  It is told RESUMING if it was told       *)
(* SUSPENDING; a SAVE passes its path and the file is removed.             *)
(***************************************************************************)
Aborted == [kernel EXCEPT !.pc = "idle", !.frozen = FALSE, !.hold = FALSE,
                          !.owed = FALSE]

AbortSave == kernel' = Aborted /\ SetFile(NoFile) /\ UNCHANGED <<Memory, Firmware>>
AbortLoad == kernel' = Aborted /\ UNCHANGED <<files, Memory, Firmware>>

(***************************************************************************)
(* The game and the browser.                                               *)
(***************************************************************************)
GameRuns == ~kernel.frozen /\ power # "asleep"

\* The running game computes a new state everywhere in its memory.
Play(g) ==
  /\ GameRuns
  /\ kernel' = [kernel EXCEPT !.game = g]
  /\ ram' = AllRam(g)
  /\ vram' = g
  /\ UNCHANGED <<files, Firmware>>

\* The browser is reached only through the running game's pad reads.
BrowserReady == At("idle") /\ ~kernel.frozen

\* Locals of a fresh FreezeSave / FreezeLoad call.
Called(p, l) == [kernel EXCEPT !.pc = l, !.path = p, !.hold = TRUE,
                   !.io_ok = TRUE, !.crc_active = FALSE, !.was_load = FALSE]

ChooseSave(p) ==
  /\ BrowserReady
  /\ kernel' = Called(p, "sv_open")
  /\ UNCHANGED <<files, Memory, Firmware>>

ChooseLoad(p) ==
  /\ BrowserReady
  /\ files[p] # NoFile
  /\ kernel' = Called(p, "ld_open")
  /\ UNCHANGED <<files, Memory, Firmware>>

ChooseDelete(p) ==
  /\ BrowserReady
  /\ files[p] # NoFile
  /\ files' = [files EXCEPT ![p] = NoFile]
  /\ UNCHANGED <<kernel, Memory, Firmware>>

(***************************************************************************)
(* Steps SAVE and LOAD share.                                              *)
(***************************************************************************)

\* cooperative_volmem_release: a game that holds volatile memory is told
\* SUSPENDING; it lets go, or the operation is aborted.
VolmemReleased(from, to) ==
  /\ At(from)
  /\ \E locked \in BOOLEAN :
        kernel' = [kernel EXCEPT !.pc = to, !.owed = locked]
  /\ UNCHANGED <<files, Memory, Firmware>>

\* The quiescent-point freeze loop: all game threads are suspended.
Frozen(from, to) ==
  /\ At(from)
  /\ kernel' = [kernel EXCEPT !.pc = to, !.frozen = TRUE]
  /\ UNCHANGED <<files, Memory, Firmware>>

(***************************************************************************)
(* FreezeSave up to the suspend.                                           *)
(***************************************************************************)
SaveOpen ==
  /\ At("sv_open")
  /\ \/ /\ kernel' = [kernel EXCEPT !.pc = "sv_volmem"]
        /\ IF TheFile = NoFile THEN SetFile(EmptyFile) ELSE UNCHANGED files
     \/ /\ kernel' = [kernel EXCEPT !.pc = "idle"]      \* return -1
        /\ UNCHANGED files
  /\ UNCHANGED <<Memory, Firmware>>

SaveVolmem ==
  \/ VolmemReleased("sv_volmem", "sv_freeze")
  \/ At("sv_volmem") /\ AbortSave                       \* 5 s timeout

SaveFreeze ==
  \/ Frozen("sv_freeze", "sv_header")
  \/ At("sv_freeze") /\ AbortSave                       \* 1000 polls failed

\* A write is complete, or short: io_ok is cleared and the save goes on.
Written(to)    == kernel' = [kernel EXCEPT !.pc = to]
WriteShort(to) == kernel' = [kernel EXCEPT !.pc = to, !.io_ok = FALSE]

SaveHeader ==
  /\ At("sv_header")
  /\ \/ Written("sv_ram") /\ SetFile([TheFile EXCEPT
            !.hdr = TRUE, !.kpos = FALSE, !.crc = Zero, !.addr = kernel.base])
     \/ WriteShort("sv_ram") /\ UNCHANGED files
  /\ UNCHANGED <<Memory, Firmware>>

\* save_region_records / write_region_direct of the 24 MB of game RAM.
SaveRam ==
  /\ At("sv_ram")
  /\ \/ Written("sv_vram") /\ SetFile([TheFile EXCEPT !.body.ram = ram.mid])
     \/ WriteShort("sv_vram") /\ SetFile([TheFile EXCEPT !.body.ram = Junk])
  /\ UNCHANGED <<Memory, Firmware>>

SaveVram ==
  /\ At("sv_vram")
  /\ \/ Written("sv_contexts") /\ SetFile([TheFile EXCEPT !.body.vram = vram])
     \/ WriteShort("sv_contexts") /\ SetFile([TheFile EXCEPT !.body.vram = Junk])
  /\ UNCHANGED <<Memory, Firmware>>

\* GE and thread contexts (never read back), then gate 1: a short write so far
\* aborts; otherwise close the file, arm the capture and request the suspend.
SaveContexts ==
  /\ At("sv_contexts")
  /\ \/ AbortSave                                  \* short now or earlier
     \/ /\ kernel.io_ok
        /\ kernel' = [kernel EXCEPT !.pc = "sv_wait", !.op_mode = 0,
                        !.resumed = FALSE, !.sleep_mode = 9, !.sleep_arm = 1]
        /\ request' = TRUE
        /\ UNCHANGED <<files, Memory, power, alarm>>

(***************************************************************************)
(* The tail of FreezeSave: run by the save itself, and run again by the    *)
(* snapshot that a LOAD applied (op_mode = 1).                             *)
(***************************************************************************)

\* Variant: the resumed tail does not look at op_mode.
ResumedAsSave ==
  /\ At("sv_wait")
  /\ kernel.resumed
  /\ TheFile # NoFile
  /\ kernel' = [kernel EXCEPT !.resumed = FALSE, !.pc = "sv_kernel"]
  /\ UNCHANGED <<files, Memory, Firmware>>

\* wait_for_resume saw g_resumed; the file is reopened, for writing by a SAVE
\* and read-only by a LOAD.  Failing that the game is left frozen.
Resumed ==
  /\ At("sv_wait")
  /\ kernel.resumed
  /\ \/ kernel' = [kernel EXCEPT !.resumed = FALSE, !.pc = "idle"]
     \/ /\ TheFile # NoFile
        /\ kernel' = [kernel EXCEPT !.resumed = FALSE,
                        !.pc = IF kernel.op_mode = 0 THEN "sv_kernel" ELSE "restore"]
  /\ UNCHANGED <<files, Memory, Firmware>>

\* Variants: the capture stays armed; wait_for_resume has no bound.
SaveTimeoutArmed ==
  /\ At("sv_wait")
  /\ ~kernel.resumed
  /\ kernel' = [Aborted EXCEPT !.sleep_arm = 0]
  /\ SetFile(NoFile)
  /\ UNCHANGED <<Memory, Firmware>>

SaveTimeoutNever == FALSE

\* wait_for_resume gave up: disarm and abort.
SaveTimeout ==
  /\ At("sv_wait")
  /\ ~kernel.resumed
  /\ kernel' = [Aborted EXCEPT !.sleep_arm = 0, !.sleep_mode = 0]
  /\ SetFile(NoFile)
  /\ UNCHANGED <<Memory, Firmware>>

\* Variant: gate 2 is missing.
SaveKernelUngated ==
  /\ At("sv_kernel")
  /\ kernel' = [kernel EXCEPT !.pc = "restore", !.crc_active = TRUE]
  /\ \E kern \in {ram.mid, Junk} :
        SetFile([TheFile EXCEPT !.body.kern = kern, !.kpos = TRUE])
  /\ UNCHANGED <<Memory, Firmware>>

\* The staged snapshot goes to the card and its position into the header.
\* Gate 2: the CRC is left pending only if every write was complete.
SaveKernel ==
  /\ At("sv_kernel")
  /\ \/ /\ kernel' = [kernel EXCEPT !.pc = "restore", !.crc_active = kernel.io_ok]
        /\ SetFile([TheFile EXCEPT !.body.kern = ram.mid, !.kpos = TRUE])
     \/ /\ kernel' = [kernel EXCEPT !.pc = "restore", !.io_ok = FALSE,
                                    !.crc_active = FALSE]
        /\ \E kpos \in BOOLEAN :
              SetFile([TheFile EXCEPT !.body.kern = Junk, !.kpos = kpos])
  /\ UNCHANGED <<Memory, Firmware>>

\* Variant: only a LOAD restores game memory.
RestoreMemoryOfLoad ==
  /\ At("restore")
  /\ IF kernel.op_mode = 1
     THEN ram' = AllRam(TheFile.body.ram) /\ vram' = TheFile.body.vram
     ELSE UNCHANGED Memory
  /\ kernel' = [kernel EXCEPT !.pc = "prompt", !.op_mode = 0,
                              !.was_load = (kernel.op_mode = 1)]
  /\ UNCHANGED <<files, Firmware>>

\* Game RAM and VRAM are read back from the file, in a SAVE as in a LOAD.
RestoreMemory ==
  /\ At("restore")
  /\ \/ /\ ram' = AllRam(TheFile.body.ram)
        /\ vram' = TheFile.body.vram
        /\ kernel' = [kernel EXCEPT !.pc = "prompt", !.op_mode = 0,
                                    !.was_load = (kernel.op_mode = 1)]
     \/ /\ ram' = AllRam(Junk)                          \* read error
        /\ vram' = Junk
        /\ kernel' = [kernel EXCEPT !.pc = "idle", !.op_mode = 0,
                                    !.crc_active = FALSE]
  /\ UNCHANGED <<files, Firmware>>

\* bg_crc_step at the end of the file: stamp header word 8.  A read error cuts
\* the hash short (it never matches); a short write clears io_ok.
StampCrc ==
  /\ At("prompt") \/ At("finish_crc")
  /\ kernel.crc_active
  /\ LET next == [kernel EXCEPT !.crc_active = FALSE,
                    !.pc = IF @ = "finish_crc" THEN "close" ELSE @]
     IN \/ kernel' = next /\ SetFile([TheFile EXCEPT !.crc = TheFile.body])
        \/ kernel' = next /\ UNCHANGED files
        \/ kernel' = [next EXCEPT !.io_ok = FALSE] /\ UNCHANGED files
  /\ UNCHANGED <<Memory, Firmware>>

\* X pressed: the game resumes, even with the CRC still to be finished.
PressX ==
  /\ At("prompt")
  /\ kernel' = [kernel EXCEPT !.hold = FALSE, !.frozen = FALSE,
                  !.pc = IF kernel.crc_active THEN "finish_crc" ELSE "close"]
  /\ UNCHANGED <<files, Memory, Firmware>>

\* Close the file; one that was not written completely is removed.
SaveClose ==
  /\ At("close")
  /\ kernel' = [kernel EXCEPT !.pc = "idle"]
  /\ IF kernel.io_ok THEN UNCHANGED files ELSE SetFile(NoFile)
  /\ UNCHANGED <<Memory, Firmware>>

(***************************************************************************)
(* FreezeLoad.                                                             *)
(***************************************************************************)
LoadOpen ==
  /\ At("ld_open")
  /\ \E opened \in BOOLEAN :
        kernel' = [kernel EXCEPT !.pc = IF opened THEN "ld_volmem" ELSE "idle"]
  /\ UNCHANGED <<files, Memory, Firmware>>

LoadVolmem ==
  \/ VolmemReleased("ld_volmem", "ld_freeze")
  \/ At("ld_volmem") /\ AbortLoad

LoadFreeze ==
  \/ Frozen("ld_freeze", "ld_verify")
  \/ At("ld_freeze") /\ AbortLoad

\* Variant: the header is checked, the CRC is not.
LoadVerifyHeader ==
  /\ At("ld_verify")
  /\ \/ /\ TheFile # NoFile /\ TheFile.hdr /\ TheFile.kpos
        /\ kernel' = [kernel EXCEPT !.pc = "ld_stage"]
        /\ UNCHANGED <<files, Memory, Firmware>>
     \/ AbortLoad

\* Header, CRC over the whole file and kernel position are checked before
\* anything is staged.  A read error makes a good file fail the check too.
LoadVerify ==
  /\ At("ld_verify")
  /\ \/ /\ Verifies(TheFile)
        /\ kernel' = [kernel EXCEPT !.pc = "ld_stage"]
        /\ UNCHANGED <<files, Memory, Firmware>>
     \/ AbortLoad

\* Variant: the flag is not patched.
PatchNoFlag(image, addr) == image

\* The LOAD flag is patched into the staged snapshot at the address the header
\* names.  Where that is not the snapshot's own &g_op_mode the flag stays 0.
PatchLoadFlag(image, addr) ==
  IF image \in Kernel /\ image.base = addr
  THEN [image EXCEPT !.op_mode = 1] ELSE image

\* The snapshot is read into ram.mid, the apply routine into ram.high.
LoadStage ==
  /\ At("ld_stage")
  /\ \/ /\ ram' = [ram EXCEPT !.mid = Junk]             \* short read
        /\ kernel' = [kernel EXCEPT !.pc = "idle"]
     \/ /\ TheFile.addr = Outside
        /\ ram' = [ram EXCEPT !.mid = TheFile.body.kern, !.high = Blob]
        /\ kernel' = [kernel EXCEPT !.pc = "idle", !.op_mode = 1]
     \/ /\ TheFile.addr # Outside
        /\ ram' = [ram EXCEPT !.mid = PatchLoadFlag(TheFile.body.kern, TheFile.addr),
                              !.high = Blob]
        /\ kernel' = [kernel EXCEPT !.pc = "ld_arm", !.op_mode = 1]
  /\ UNCHANGED <<files, vram, Firmware>>

LoadArm ==
  /\ At("ld_arm")
  /\ kernel' = [kernel EXCEPT !.pc = "ld_wait", !.resumed = FALSE,
                              !.sleep_mode = 10, !.sleep_arm = 1]
  /\ request' = TRUE
  /\ UNCHANGED <<files, Memory, power, alarm>>

\* Still running after the budget: disarm, drop the alarm, leave it frozen.
LoadTimeout ==
  /\ At("ld_wait")
  /\ kernel' = [kernel EXCEPT !.pc = "idle", !.sleep_arm = 0, !.sleep_mode = 0]
  /\ alarm' = FALSE
  /\ UNCHANGED <<files, Memory, power, request>>

(***************************************************************************)
(* The firmware, and ProcessSignals at each of its events.                 *)
(***************************************************************************)

\* The user slides the power switch.
PowerSwitch ==
  /\ power = "on"
  /\ ~request
  /\ request' = TRUE
  /\ UNCHANGED <<kernel, files, Memory, power, alarm>>

\* POWER_LOCK_PHASE1: an armed operation sets the auto-wake alarm.
PowerLock ==
  /\ power = "on"
  /\ request
  /\ power' = "locking"
  /\ request' = FALSE
  /\ IF kernel.sleep_arm = 1
     THEN alarm' = TRUE /\ kernel' = [kernel EXCEPT !.sleep_arm = 2]
     ELSE UNCHANGED <<alarm, kernel>>
  /\ UNCHANGED <<files, Memory>>

\* A driver vetoes the suspend, before or after the lock.
Veto ==
  /\ power = "locking" \/ (power = "on" /\ request)
  /\ power' = "on"
  /\ request' = FALSE
  /\ UNCHANGED <<kernel, files, Memory, alarm>>

\* Variant: every sleep captures unless a LOAD is armed.
Phase0Captures ==
  /\ power = "locking"
  /\ power' = "asleep"
  /\ kernel.sleep_mode # 10
  /\ ram' = [ram EXCEPT !.mid = kernel]
  /\ kernel' = [kernel EXCEPT !.sleep_mode = 0]
  /\ UNCHANGED <<vram, files, request, alarm>>

\* PHASE0_0, the last event of the descent: capture (9), apply (10) or nothing.
Phase0 ==
  /\ power = "locking"
  /\ power' = "asleep"
  /\ \/ /\ kernel.sleep_mode = 9
        /\ ram' = [ram EXCEPT !.mid = kernel]
        /\ kernel' = [kernel EXCEPT !.sleep_mode = 0]
     \/ /\ kernel.sleep_mode = 10
        /\ ram.high = Blob /\ ram.mid \in Kernel
        /\ kernel' = ram.mid
        /\ UNCHANGED ram
     \/ /\ kernel.sleep_mode = 0
        /\ UNCHANGED <<kernel, ram>>
  /\ UNCHANGED <<vram, files, request, alarm>>

\* The alarm, or the user, wakes the system.
AlarmWake ==
  /\ power = "asleep" /\ alarm
  /\ power' = "waking"
  /\ UNCHANGED <<kernel, files, Memory, request, alarm>>

UserWake ==
  /\ power = "asleep"
  /\ power' = "waking"
  /\ UNCHANGED <<kernel, files, Memory, request, alarm>>

\* RESUME_COMPLETED; the firmware also tells the game RESUMING.
ResumeCompleted ==
  /\ power = "waking"
  /\ power' = "on"
  /\ alarm' = FALSE
  /\ kernel' = [kernel EXCEPT !.sleep_arm = 0, !.sleep_mode = 0,
                              !.resumed = TRUE, !.owed = FALSE]
  /\ UNCHANGED <<files, Memory, request>>

(***************************************************************************)
(* The environment.                                                        *)
(***************************************************************************)

\* Power is lost at any point and the game is started afresh.
PowerLoss ==
  /\ \E b \in Bases, g \in Gens :
        /\ kernel' = Booted(kernel.path, b, g)
        /\ ram' = AllRam(g)
        /\ vram' = g
  /\ power' = "on"
  /\ request' = FALSE
  /\ alarm' = FALSE
  /\ UNCHANGED files

\* A file is damaged on the card while no operation uses it.
Rot(p) ==
  /\ kernel.pc = "idle"
  /\ files[p] # NoFile
  /\ \/ files' = [files EXCEPT ![p].body.ram = Junk]
     \/ files' = [files EXCEPT ![p].body.kern = Junk]
     \/ files' = [files EXCEPT ![p].addr = Outside]
  /\ UNCHANGED <<kernel, Memory, Firmware>>

-----------------------------------------------------------------------------
Save == SaveOpen \/ SaveVolmem \/ SaveFreeze \/ SaveHeader \/ SaveRam
          \/ SaveVram \/ SaveContexts
Tail == Resumed \/ SaveTimeout \/ SaveKernel \/ RestoreMemory \/ StampCrc
          \/ PressX \/ SaveClose
Load == LoadOpen \/ LoadVolmem \/ LoadFreeze \/ LoadVerify \/ LoadStage
          \/ LoadArm \/ LoadTimeout
Power == PowerSwitch \/ PowerLock \/ Veto \/ Phase0 \/ AlarmWake \/ UserWake
          \/ ResumeCompleted
User == \/ \E g \in Gens : Play(g)
        \/ \E p \in Paths : ChooseSave(p) \/ ChooseLoad(p) \/ ChooseDelete(p)
Environment == PowerLoss \/ \E p \in Paths : Rot(p)

Next == Save \/ Tail \/ Load \/ Power \/ User \/ Environment

Spec == Init /\ [][Next]_vars

\* A runnable menu thread is scheduled again after every sleep; the firmware
\* goes on with a descent or gives it up, the alarm wakes a sleeping system and
\* a resume completes.  The user owes nothing: neither X, nor a wake-up.
MenuThread == Save \/ Load \/ Resumed \/ SaveTimeout \/ SaveKernel
                \/ RestoreMemory \/ StampCrc \/ SaveClose

Fairness == /\ SF_vars(MenuThread)
            /\ WF_vars(PowerLock \/ Veto)
            /\ WF_vars(Phase0 \/ Veto)
            /\ WF_vars(AlarmWake)
            /\ WF_vars(ResumeCompleted)

FairSpec == Spec /\ Fairness

-----------------------------------------------------------------------------
(***************************************************************************)
(* Properties.                                                             *)
(***************************************************************************)

\* A game that runs finds one state of itself everywhere: its threads, all of
\* its RAM (staging slot and blob place included) and VRAM agree.  This is what
\* the freeze before the capture, the restore before every resume and the
\* frozen failures of FreezeSave and FreezeLoad are for.
RunningConsistent ==
  ~kernel.frozen => ram = AllRam(kernel.game) /\ vram = kernel.game

\* A file a LOAD would accept is one complete save of one game state: RAM, VRAM
\* and the threads in the kernel snapshot agree, the snapshot resumes inside the
\* save of this very file, and the header addresses the snapshot's own flag.
\* It covers in-place overwriting, short writes, power loss and rot.
AcceptedIsComplete ==
  \A p \in Paths : Verifies(files[p]) =>
    LET b == files[p].body
    IN /\ b.ram \in Gens /\ b.vram = b.ram
       /\ b.kern \in Kernel
       /\ b.kern.game = b.ram
       /\ b.kern.pc = "sv_wait" /\ b.kern.path = p /\ b.kern.frozen
       /\ files[p].addr \in {b.kern.base, Outside}

\* A LOAD never writes or removes a save file, from FreezeLoad's open to the end
\* of the save-time tail it re-enters ("must NEVER touch the savegame").
Loading == \/ kernel.pc \in LoadPoints
           \/ kernel.pc \in TailPoints /\ (kernel.op_mode = 1 \/ kernel.was_load)

LoadLeavesFiles == [][Loading => UNCHANGED files]_vars

\* Between operations nothing of the last one is armed or owed: the next sleep of
\* a running game must neither capture, apply nor wake by itself, and a game
\* told SUSPENDING has been told RESUMING.
NothingLeftArmed ==
  kernel.pc = "idle" /\ ~kernel.frozen =>
    kernel.sleep_mode = 0 /\ kernel.sleep_arm = 0 /\ ~kernel.owed

\* No operation hangs: it returns, or stands at its prompt for the user's X, or
\* the system was put to sleep with no alarm to wake it.  Every wait of the code
\* is bounded (1000 polls, 20 attempts, 5 s), in a LOAD's second life too.
OperationReturns ==
  kernel.pc # "idle" ~> \/ kernel.pc \in {"idle", "prompt"}
                        \/ power = "asleep" /\ ~alarm

\* The kernel is overwritten only by a complete snapshot that knows it is loaded.
ApplyIsSafe ==
  kernel.sleep_mode = 10 =>
    ram.high = Blob /\ ram.mid \in Kernel /\ ram.mid.op_mode = 1

\* The operations keep the promise of SaveStates.  The state of a running game
\* is the one its whole memory agrees on, the state of a slot that of a file a
\* LOAD goes through with.
StateSeen == IF kernel.frozen \/ (ram = AllRam(kernel.game) /\ vram = kernel.game)
             THEN kernel.game ELSE Junk

Abstract == INSTANCE SaveStates WITH
  Empty   <- Junk,
  running <- ~kernel.frozen,
  game    <- StateSeen,
  slot    <- [p \in Paths |-> IF Verifies(files[p]) /\ files[p].addr # Outside
                              THEN files[p].body.ram ELSE Junk],
  pending <- IF kernel.crc_active
             THEN [path |-> kernel.path, state |-> TheFile.body.ram] ELSE Junk

KeepsPromise == Abstract!Spec

-----------------------------------------------------------------------------
(***************************************************************************)
(* What comments of the code say and the code does not do.                 *)
(***************************************************************************)

\* "delete the empty file": an abort before the first write removes only a file
\* no LOAD would accept.  The file was opened in place, so it may be a good save.
AbortKeepsGoodSave ==
  [][kernel.pc \in {"sv_volmem", "sv_freeze"} /\ TheFile # NoFile
       /\ files'[kernel.path] = NoFile => ~Verifies(TheFile)]_vars

\* "Held =1 for the DURATION of a save/load op": a game that runs outside any
\* operation has its gamma correction back.
HoldEndsWithOperation ==
  kernel.pc = "idle" /\ ~kernel.frozen => ~kernel.hold
=============================================================================
