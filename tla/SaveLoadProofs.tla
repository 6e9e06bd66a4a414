---------------------------- MODULE SaveLoadProofs ----------------------------
(* Theorems about SaveLoad, for every value of its constants. *)
EXTENDS SaveLoad, TLAPS

-----------------------------------------------------------------------------
(* The type invariant, with the two facts that make it inductive. *)

\* Points at which the save file of the operation is used and so exists.
FilePoints == {"sv_volmem", "sv_freeze", "sv_header", "sv_ram", "sv_vram",
               "sv_contexts", "sv_kernel", "restore", "prompt", "finish_crc",
               "ld_stage"}

FileIsThere == kernel.pc \in FilePoints => TheFile # NoFile

\* A capture is armed only in the wait of FreezeSave.
CaptureInWait == kernel.sleep_mode = 9 => kernel.pc = "sv_wait" /\ ~kernel.resumed

TypeInv == TypeOK /\ FileIsThere /\ CaptureInWait

LEMMA PointNames ==
  /\ "idle" \in Points
  /\ "sv_open" \in Points /\ "sv_volmem" \in Points /\ "sv_freeze" \in Points
  /\ "sv_header" \in Points /\ "sv_ram" \in Points /\ "sv_vram" \in Points
  /\ "sv_contexts" \in Points /\ "sv_wait" \in Points /\ "sv_kernel" \in Points
  /\ "restore" \in Points /\ "prompt" \in Points /\ "finish_crc" \in Points
  /\ "close" \in Points
  /\ "ld_open" \in Points /\ "ld_volmem" \in Points /\ "ld_freeze" \in Points
  /\ "ld_verify" \in Points /\ "ld_stage" \in Points /\ "ld_arm" \in Points
  /\ "ld_wait" \in Points
  BY DEF Points, SavePoints, TailPoints, LoadPoints

LEMMA TypeInit == Init => TypeInv
<1>. SUFFICES ASSUME Init PROVE TypeInv
  OBVIOUS
<1>1. PICK p \in Paths, b \in Bases, g \in Gens :
         kernel = Booted(p, b, g) /\ ram = AllRam(g) /\ vram = g
  BY DEF Init
<1>2. kernel \in Kernel /\ kernel.pc = "idle" /\ kernel.sleep_mode = 0
  BY <1>1 DEF Booted, Kernel, Points
<1>3. ram \in [low : Cell, mid : Cell, high : Cell] /\ vram \in Cell
  BY <1>1 DEF AllRam, Cell
<1>4. /\ files \in [Paths -> File \cup {NoFile}]
      /\ power \in {"on", "locking", "asleep", "waking"}
      /\ request \in BOOLEAN /\ alarm \in BOOLEAN
  BY DEF Init
<1>5. TypeOK
  BY <1>2, <1>3, <1>4 DEF TypeOK
<1>6. FileIsThere /\ CaptureInWait
  BY <1>2 DEF FileIsThere, CaptureInWait, FilePoints
<1>. QED
  BY <1>5, <1>6 DEF TypeInv

Files == [Paths -> File \cup {NoFile}]

\* One save file is replaced.
LEMMA SetFileType ==
  ASSUME files \in Files, kernel \in Kernel, NEW f \in File \cup {NoFile}, SetFile(f)
  PROVE  files' \in Files /\ files'[kernel.path] = f
<1>1. kernel.path \in Paths
  BY DEF Kernel
<1>. QED
  BY <1>1 DEF Files, SetFile

LEMMA UpdateFileType ==
  ASSUME files \in Files, kernel \in Kernel, NEW f \in File, SetFile(f)
  PROVE  files' \in Files /\ files'[kernel.path] # NoFile
  BY SetFileType, SentinelsAssumption

\* The updates of a save file made by FreezeSave.
LEMMA FileUpdates ==
  ASSUME NEW f \in File
  PROVE  /\ \A b \in Bases :
              [f EXCEPT !.hdr = TRUE, !.kpos = FALSE, !.crc = Zero, !.addr = b] \in File
         /\ \A c \in Cell :
              [f EXCEPT !.body.ram = c] \in File /\ [f EXCEPT !.body.vram = c] \in File
         /\ \A c \in Cell, k \in BOOLEAN :
              [f EXCEPT !.body.kern = c, !.kpos = k] \in File
         /\ [f EXCEPT !.crc = f.body] \in File
<1>. USE DEF File, Body
<1>1. \A b \in Bases :
         [f EXCEPT !.hdr = TRUE, !.kpos = FALSE, !.crc = Zero, !.addr = b] \in File
  OBVIOUS
<1>2. \A c \in Cell :
         [f EXCEPT !.body.ram = c] \in File /\ [f EXCEPT !.body.vram = c] \in File
  OBVIOUS
<1>3. \A c \in Cell, k \in BOOLEAN : [f EXCEPT !.body.kern = c, !.kpos = k] \in File
  OBVIOUS
<1>4. [f EXCEPT !.crc = f.body] \in File
  OBVIOUS
<1>. QED
  BY <1>1, <1>2, <1>3, <1>4

LEMMA SpecialFiles == EmptyFile \in File /\ EmptyFile # NoFile
<1>1. EmptyFile \in File
  BY DEF EmptyFile, NoBody, File, Body, Cell
<1>. QED
  BY <1>1, SentinelsAssumption

\* The updates of the kernel record that change several fields.
LEMMA KernelUpdates ==
  ASSUME NEW k \in Kernel
  PROVE  /\ [k EXCEPT !.pc = "sv_wait", !.op_mode = 0, !.resumed = FALSE,
                      !.sleep_mode = 9, !.sleep_arm = 1] \in Kernel
         /\ [k EXCEPT !.pc = "ld_wait", !.resumed = FALSE,
                      !.sleep_mode = 10, !.sleep_arm = 1] \in Kernel
         /\ [k EXCEPT !.pc = "idle", !.frozen = FALSE, !.hold = FALSE,
                      !.owed = FALSE] \in Kernel
  BY PointNames DEF Kernel

\* Giving up an operation.
LEMMA AbortType ==
  ASSUME TypeInv, AbortSave \/ AbortLoad, kernel.pc # "sv_wait"
  PROVE  TypeInv'
<1>1. kernel \in Kernel /\ files \in Files
  BY DEF TypeInv, TypeOK, Files
<1>2. kernel' = [kernel EXCEPT !.pc = "idle", !.frozen = FALSE, !.hold = FALSE,
                               !.owed = FALSE]
  BY DEF AbortSave, AbortLoad, Aborted
<1>4. kernel' \in Kernel
  BY <1>1, <1>2, KernelUpdates
<1>5. kernel'.pc = "idle" /\ kernel'.sleep_mode = kernel.sleep_mode
  BY <1>1, <1>2 DEF Kernel
<1>3. files' \in Files
  BY <1>1, SetFileType DEF AbortSave, AbortLoad
<1>. QED
  BY <1>1, <1>3, <1>4, <1>5 DEF AbortSave, AbortLoad, TypeInv, TypeOK, Files, Memory, Firmware,
     FileIsThere, FilePoints, CaptureInWait

\* A step of the menu thread that leaves alone what arms a capture.
LEMMA StepType ==
  ASSUME TypeInv,
         kernel' \in Kernel, kernel'.path = kernel.path,
         kernel'.sleep_mode = kernel.sleep_mode, kernel.pc # "sv_wait",
         kernel'.pc \in FilePoints => files'[kernel.path] # NoFile,
         files' \in Files,
         ram' \in [low : Cell, mid : Cell, high : Cell], vram' \in Cell,
         UNCHANGED <<power, request, alarm>>
  PROVE  TypeInv'
  BY DEF TypeInv, TypeOK, Files, FileIsThere, TheFile, CaptureInWait

\* A step to a point that uses no file, with no capture armed.
LEMMA RestType ==
  ASSUME TypeInv,
         kernel' \in Kernel, kernel'.pc \notin FilePoints, kernel'.sleep_mode # 9,
         files' \in Files,
         ram' \in [low : Cell, mid : Cell, high : Cell], vram' \in Cell,
         power' \in {"on", "locking", "asleep", "waking"},
         request' \in BOOLEAN, alarm' \in BOOLEAN
  PROVE  TypeInv'
  BY DEF TypeInv, TypeOK, Files, FileIsThere, CaptureInWait

\* A step of the firmware or the game: the menu thread stays where it is.
LEMMA OtherType ==
  ASSUME TypeInv,
         kernel' \in Kernel, kernel'.path = kernel.path, kernel'.pc = kernel.pc,
         kernel'.sleep_mode = 9
           => kernel.sleep_mode = 9 /\ kernel'.resumed = kernel.resumed,
         ram' \in [low : Cell, mid : Cell, high : Cell], vram' \in Cell,
         UNCHANGED files,
         power' \in {"on", "locking", "asleep", "waking"},
         request' \in BOOLEAN, alarm' \in BOOLEAN
  PROVE  TypeInv'
  BY DEF TypeInv, TypeOK, FileIsThere, TheFile, CaptureInWait

LEMMA TypeStep == TypeInv /\ [Next]_vars => TypeInv'
<1>. SUFFICES ASSUME TypeInv, [Next]_vars PROVE TypeInv'
  OBVIOUS
<1>. USE PointNames DEF Memory, Firmware
<1>1. /\ kernel \in Kernel /\ files \in Files /\ vram \in Cell
      /\ ram \in [low : Cell, mid : Cell, high : Cell]
      /\ request \in BOOLEAN /\ alarm \in BOOLEAN
      /\ power \in {"on", "locking", "asleep", "waking"}
      /\ kernel.pc \in FilePoints => TheFile # NoFile
      /\ kernel.sleep_mode = 9 => kernel.pc = "sv_wait" /\ ~kernel.resumed
  BY DEF TypeInv, TypeOK, Files, FileIsThere, CaptureInWait
<1>2. kernel.path \in Paths /\ kernel.base \in Bases /\ TheFile \in File \cup {NoFile}
  BY <1>1 DEF Kernel, Files, TheFile
<1>a. CASE SaveOpen
  <2>1. kernel' \in Kernel /\ kernel'.path = kernel.path
        /\ kernel'.sleep_mode = kernel.sleep_mode
        /\ kernel.pc = "sv_open" /\ kernel'.pc \in {"sv_volmem", "idle"}
    BY <1>a, <1>1 DEF SaveOpen, At, Kernel
  <2>2. files' \in Files /\ (kernel'.pc = "sv_volmem" => files'[kernel.path] # NoFile)
    BY <1>a, <1>1, <2>1, SetFileType, SpecialFiles DEF SaveOpen, TheFile, Kernel
  <2>. QED
    BY <1>a, <1>1, <2>1, <2>2, StepType DEF SaveOpen, FilePoints
<1>b. ASSUME NEW from \in {"sv_volmem", "ld_volmem", "sv_freeze", "ld_freeze"},
             NEW to \in {"sv_freeze", "ld_freeze", "sv_header", "ld_verify"},
             to \in FilePoints => from \in FilePoints,
             VolmemReleased(from, to) \/ Frozen(from, to)
      PROVE  TypeInv'
  <2>0. to \in Points
    OBVIOUS
  <2>1. kernel' \in Kernel
    <3>1. /\ \A locked \in BOOLEAN : [kernel EXCEPT !.pc = to, !.owed = locked] \in Kernel
          /\ [kernel EXCEPT !.pc = to, !.frozen = TRUE] \in Kernel
      BY <1>1, <2>0 DEF Kernel
    <3>. QED
      BY ONLY <1>b, <3>1 DEF VolmemReleased, Frozen
  <2>2. /\ kernel'.path = kernel.path /\ kernel'.sleep_mode = kernel.sleep_mode
        /\ kernel.pc = from /\ kernel'.pc = to
    BY <1>b, <1>1 DEF VolmemReleased, Frozen, At, Kernel
  <2>. QED
    BY <1>b, <1>1, <2>1, <2>2, StepType DEF VolmemReleased, Frozen, TheFile
<1>c. CASE SaveVolmem
  BY <1>c, <1>b, AbortType DEF SaveVolmem, At, FilePoints
<1>d. CASE SaveFreeze
  BY <1>d, <1>b, AbortType DEF SaveFreeze, At, FilePoints
<1>e. ASSUME NEW to \in {"sv_ram", "sv_vram", "sv_contexts"},
             Written(to) \/ WriteShort(to)
      PROVE  /\ kernel' \in Kernel /\ kernel'.path = kernel.path
             /\ kernel'.sleep_mode = kernel.sleep_mode /\ kernel'.pc = to
  <2>0. to \in Points
    OBVIOUS
  <2>1. kernel' \in Kernel
    <3>1. /\ [kernel EXCEPT !.pc = to] \in Kernel
          /\ [kernel EXCEPT !.pc = to, !.io_ok = FALSE] \in Kernel
      BY <1>1, <2>0 DEF Kernel
    <3>. QED
      BY ONLY <1>e, <3>1 DEF Written, WriteShort
  <2>2. /\ kernel'.path = kernel.path
        /\ kernel'.sleep_mode = kernel.sleep_mode /\ kernel'.pc = to
    BY <1>e, <1>1 DEF Written, WriteShort, Kernel
  <2>. QED
    BY <2>1, <2>2
<1>f. CASE SaveHeader
  <2>1. kernel.pc = "sv_header" /\ TheFile \in File
    BY <1>f, <1>1, <1>2 DEF SaveHeader, At, FilePoints
  <2>2. files' \in Files /\ files'[kernel.path] # NoFile
    <3>1. [TheFile EXCEPT !.hdr = TRUE, !.kpos = FALSE, !.crc = Zero,
                          !.addr = kernel.base] \in File
      BY <1>2, <2>1, FileUpdates
    <3>. QED
      BY <1>f, <1>1, <2>1, <3>1, UpdateFileType, SentinelsAssumption DEF SaveHeader, TheFile
  <2>. QED
    BY <1>f, <1>1, <1>e, <2>1, <2>2, StepType DEF SaveHeader
<1>g. CASE SaveRam
  <2>1. kernel.pc = "sv_ram" /\ TheFile \in File /\ ram.mid \in Cell /\ Junk \in Cell
    BY <1>g, <1>1, <1>2 DEF SaveRam, At, FilePoints, Cell
  <2>2. files' \in Files /\ files'[kernel.path] # NoFile
    <3>1. /\ [TheFile EXCEPT !.body.ram = ram.mid] \in File
          /\ [TheFile EXCEPT !.body.ram = Junk] \in File
      BY <1>1, <2>1, FileUpdates
    <3>. QED
      BY <1>g, <1>1, <3>1, UpdateFileType DEF SaveRam
  <2>. QED
    BY <1>g, <1>1, <1>e, <2>1, <2>2, StepType DEF SaveRam
<1>h. CASE SaveVram
  <2>1. kernel.pc = "sv_vram" /\ TheFile \in File /\ Junk \in Cell
    BY <1>h, <1>1, <1>2 DEF SaveVram, At, FilePoints, Cell
  <2>2. files' \in Files /\ files'[kernel.path] # NoFile
    <3>1. /\ [TheFile EXCEPT !.body.vram = vram] \in File
          /\ [TheFile EXCEPT !.body.vram = Junk] \in File
      BY <1>1, <2>1, FileUpdates
    <3>. QED
      BY <1>h, <1>1, <3>1, UpdateFileType DEF SaveVram
  <2>. QED
    BY <1>h, <1>1, <1>e, <2>1, <2>2, StepType DEF SaveVram
<1>i. CASE SaveContexts
  <2>1. CASE AbortSave
    BY <1>i, <2>1, AbortType DEF SaveContexts, At
  <2>2. CASE ~AbortSave
    <3>1. kernel' = [kernel EXCEPT !.pc = "sv_wait", !.op_mode = 0, !.resumed = FALSE,
                                   !.sleep_mode = 9, !.sleep_arm = 1]
      BY <1>i, <2>2 DEF SaveContexts
    <3>2. kernel' \in Kernel
      BY <1>1, <3>1, KernelUpdates
    <3>3. kernel'.pc = "sv_wait" /\ ~kernel'.resumed
      BY <1>1, <3>1 DEF Kernel
    <3>. QED
      BY <1>i, <1>1, <2>2, <3>2, <3>3 DEF SaveContexts, TypeInv, TypeOK, Files, FileIsThere,
         FilePoints, CaptureInWait
  <2>. QED
    BY <2>1, <2>2
<1>j. CASE Resumed
  <2>0. PICK l \in {"idle", "sv_kernel", "restore"} :
           kernel' = [kernel EXCEPT !.resumed = FALSE, !.pc = l]
    BY <1>j DEF Resumed
  <2>1. kernel' \in Kernel
    BY <1>1, <2>0 DEF Kernel
  <2>2. kernel'.path = kernel.path /\ kernel'.sleep_mode # 9
    BY <1>j, <1>1 DEF Resumed, At, Kernel
  <2>3. kernel'.pc \in FilePoints => TheFile # NoFile
    <3>1. TheFile = NoFile => kernel'.pc = "idle"
      BY <1>j, <1>1 DEF Resumed, Kernel
    <3>. QED
      BY <3>1 DEF FilePoints
  <2>. QED
    BY <1>j, <1>1, <2>1, <2>2, <2>3 DEF Resumed, TypeInv, TypeOK, FileIsThere, TheFile, CaptureInWait
<1>k. CASE SaveTimeout
  <2>1. kernel' \in Kernel /\ kernel'.pc = "idle" /\ kernel'.sleep_mode = 0
    BY <1>k, <1>1 DEF SaveTimeout, Aborted, Kernel
  <2>2. files' \in Files
    BY <1>k, <1>1, SetFileType DEF SaveTimeout
  <2>. QED
    BY <1>k, <1>1, <2>1, <2>2 DEF SaveTimeout, TypeInv, TypeOK, Files, FileIsThere,
       FilePoints, CaptureInWait
<1>l. CASE SaveKernel
  <2>1. kernel.pc = "sv_kernel" /\ TheFile \in File /\ ram.mid \in Cell /\ Junk \in Cell
    BY <1>l, <1>1, <1>2 DEF SaveKernel, At, FilePoints, Cell
  <2>2. files' \in Files /\ files'[kernel.path] # NoFile
    <3>1. \A c \in Cell, k \in BOOLEAN :
             [TheFile EXCEPT !.body.kern = c, !.kpos = k] \in File
      BY <1>2, <2>1, FileUpdates
    <3>. QED
      BY <1>l, <1>1, <2>1, <3>1, UpdateFileType DEF SaveKernel
  <2>3. kernel' \in Kernel
    <3>1. kernel.io_ok \in BOOLEAN
      BY <1>1 DEF Kernel
    <3>2. /\ [kernel EXCEPT !.pc = "restore", !.crc_active = kernel.io_ok] \in Kernel
          /\ [kernel EXCEPT !.pc = "restore", !.io_ok = FALSE,
                            !.crc_active = FALSE] \in Kernel
      BY <1>1, <3>1, PointNames DEF Kernel
    <3>. QED
      BY <1>l, <3>2 DEF SaveKernel
  <2>4. kernel'.path = kernel.path /\ kernel'.sleep_mode = kernel.sleep_mode
    BY <1>l, <1>1 DEF SaveKernel, Kernel
  <2>. QED
    BY <1>l, <1>1, <2>1, <2>2, <2>3, <2>4, StepType DEF SaveKernel
<1>m. CASE RestoreMemory
  <2>1. kernel.pc = "restore" /\ TheFile \in File /\ Junk \in Cell
    BY <1>m, <1>1, <1>2 DEF RestoreMemory, At, FilePoints, Cell
  <2>2. TheFile.body.ram \in Cell /\ TheFile.body.vram \in Cell
    BY <2>1 DEF File, Body
  <2>3. ram' \in [low : Cell, mid : Cell, high : Cell] /\ vram' \in Cell
    BY <1>m, <2>1, <2>2 DEF RestoreMemory, AllRam
  <2>4. kernel' \in Kernel
    <3>1. /\ \A b \in BOOLEAN :
                [kernel EXCEPT !.pc = "prompt", !.op_mode = 0, !.was_load = b] \in Kernel
          /\ [kernel EXCEPT !.pc = "idle", !.op_mode = 0, !.crc_active = FALSE] \in Kernel
      BY <1>1, PointNames DEF Kernel
    <3>. QED
      BY <1>m, <3>1 DEF RestoreMemory
  <2>5. kernel'.path = kernel.path /\ kernel'.sleep_mode = kernel.sleep_mode
    BY <1>m, <1>1 DEF RestoreMemory, Kernel
  <2>. QED
    BY <1>m, <1>1, <2>1, <2>3, <2>4, <2>5, StepType DEF RestoreMemory, TheFile, FilePoints
<1>n. CASE StampCrc
  <2>1. kernel.pc \in {"prompt", "finish_crc"} /\ TheFile \in File
    BY <1>n, <1>1, <1>2 DEF StampCrc, At, FilePoints
  <2>2. files' \in Files /\ files'[kernel.path] # NoFile
    <3>1. [TheFile EXCEPT !.crc = TheFile.body] \in File
      BY <2>1, FileUpdates
    <3>2. (UNCHANGED files) => files' \in Files /\ files'[kernel.path] # NoFile
      BY <1>1, <2>1, SentinelsAssumption DEF TheFile
    <3>. QED
      BY <1>n, <1>1, <3>1, <3>2, UpdateFileType DEF StampCrc
  <2>3. kernel' \in Kernel
    <3> DEFINE next == [kernel EXCEPT !.crc_active = FALSE,
                         !.pc = IF @ = "finish_crc" THEN "close" ELSE @]
    <3>1. \A l \in Points : [kernel EXCEPT !.crc_active = FALSE, !.pc = l] \in Kernel
      BY <1>1 DEF Kernel
    <3>2. kernel.pc \in Points
      BY <1>1 DEF Kernel
    <3>3. next \in Kernel
      BY <3>1, <3>2, PointNames
    <3>4. [next EXCEPT !.io_ok = FALSE] \in Kernel
      <4>1. \A k \in Kernel : [k EXCEPT !.io_ok = FALSE] \in Kernel
        BY DEF Kernel
      <4>. HIDE DEF next
      <4>. QED
        BY <3>3, <4>1
    <3>5. kernel' \in {next, [next EXCEPT !.io_ok = FALSE]}
      BY <1>n DEF StampCrc
    <3>. QED
      BY <3>3, <3>4, <3>5
  <2>4. kernel'.path = kernel.path /\ kernel'.sleep_mode = kernel.sleep_mode
    BY <1>n, <1>1, ZenonT(30) DEF StampCrc, Kernel
  <2>. QED
    BY <1>n, <1>1, <2>1, <2>2, <2>3, <2>4, StepType DEF StampCrc
<1>o. CASE PressX
  <2>1. kernel' \in Kernel
    BY <1>o, <1>1 DEF PressX, Kernel
  <2>2. /\ kernel'.path = kernel.path /\ kernel.pc = "prompt"
        /\ kernel'.sleep_mode = kernel.sleep_mode
    BY <1>o, <1>1 DEF PressX, At, Kernel
  <2>. QED
    BY <1>o, <1>1, <2>1, <2>2, StepType DEF PressX, TheFile, FilePoints
<1>p. CASE SaveClose
  <2>1. kernel' \in Kernel /\ kernel'.path = kernel.path /\ kernel'.pc = "idle"
        /\ kernel.pc = "close" /\ kernel'.sleep_mode = kernel.sleep_mode
    BY <1>p, <1>1 DEF SaveClose, At, Kernel
  <2>2. files' \in Files
    BY <1>p, <1>1, SetFileType DEF SaveClose
  <2>. QED
    BY <1>p, <1>1, <2>1, <2>2, StepType DEF SaveClose, FilePoints
<1>q. CASE LoadOpen
  <2>1. kernel' \in Kernel /\ kernel'.path = kernel.path /\ kernel.pc = "ld_open"
        /\ kernel'.pc \in {"ld_volmem", "idle"} /\ kernel'.sleep_mode = kernel.sleep_mode
    BY <1>q, <1>1 DEF LoadOpen, At, Kernel
  <2>. QED
    BY <1>q, <1>1, <2>1, StepType DEF LoadOpen, FilePoints
<1>r. CASE LoadVolmem
  BY <1>r, <1>b, AbortType DEF LoadVolmem, At, FilePoints
<1>s. CASE LoadFreeze
  BY <1>s, <1>b, AbortType DEF LoadFreeze, At, FilePoints
<1>t. CASE LoadVerify
  <2>1. CASE AbortLoad
    BY <1>t, <2>1, AbortType DEF LoadVerify, At
  <2>2. CASE ~AbortLoad
    <3>1. kernel' \in Kernel /\ kernel'.path = kernel.path /\ kernel.pc = "ld_verify"
          /\ kernel'.sleep_mode = kernel.sleep_mode /\ TheFile # NoFile
      BY <1>t, <2>2, <1>1 DEF LoadVerify, Verifies, At, Kernel
    <3>. QED
      BY <1>t, <2>2, <1>1, <3>1, StepType DEF LoadVerify, TheFile
  <2>. QED
    BY <2>1, <2>2
<1>u. CASE LoadStage
  <2>1. kernel.pc = "ld_stage" /\ TheFile \in File /\ Junk \in Cell /\ Blob \in Cell
    BY <1>u, <1>1, <1>2 DEF LoadStage, At, FilePoints, Cell
  <2>2. TheFile.body.kern \in Cell
    BY <2>1 DEF File, Body
  <2>3. PatchLoadFlag(TheFile.body.kern, TheFile.addr) \in Cell
    BY <2>2, SentinelsAssumption DEF PatchLoadFlag, Cell, Snapshot, Kernel
  <2>4. ram' \in [low : Cell, mid : Cell, high : Cell]
    BY <1>u, <1>1, <2>1, <2>2, <2>3 DEF LoadStage
  <2>6. kernel' \in Kernel
    <3>1. /\ [kernel EXCEPT !.pc = "idle"] \in Kernel
          /\ [kernel EXCEPT !.pc = "idle", !.op_mode = 1] \in Kernel
          /\ [kernel EXCEPT !.pc = "ld_arm", !.op_mode = 1] \in Kernel
      BY <1>1, PointNames DEF Kernel
    <3>. QED
      BY <1>u, <3>1 DEF LoadStage
  <2>5. /\ kernel' \in Kernel /\ kernel'.path = kernel.path
        /\ kernel'.pc \in {"idle", "ld_arm"} /\ kernel'.sleep_mode = kernel.sleep_mode
    BY <1>u, <1>1, <2>6 DEF LoadStage, Kernel
  <2>. QED
    BY <1>u, <1>1, <2>1, <2>4, <2>5, StepType DEF LoadStage, FilePoints
<1>v. CASE LoadArm
  <2>1. kernel' \in Kernel
    BY <1>v, <1>1, KernelUpdates DEF LoadArm
  <2>2. kernel'.pc = "ld_wait" /\ kernel'.sleep_mode = 10
    BY <1>v, <1>1 DEF LoadArm, Kernel
  <2>. QED
    BY <1>v, <1>1, <2>1, <2>2 DEF LoadArm, TypeInv, TypeOK, FileIsThere, FilePoints, CaptureInWait
<1>w. CASE LoadTimeout
  <2>1. kernel' \in Kernel /\ kernel'.pc = "idle" /\ kernel'.sleep_mode = 0
    BY <1>w, <1>1 DEF LoadTimeout, Kernel
  <2>. QED
    <3>1. alarm' \in BOOLEAN
      BY <1>w DEF LoadTimeout
    <3>. QED
      BY <1>w, <1>1, <2>1, <3>1, RestType DEF LoadTimeout, FilePoints
<1>x. CASE Power
  <2>1. CASE PowerSwitch \/ Veto \/ AlarmWake \/ UserWake
    BY <2>1, <1>1, OtherType DEF PowerSwitch, Veto, AlarmWake, UserWake
  <2>2. CASE PowerLock
    <3>1. /\ kernel' \in Kernel /\ kernel'.path = kernel.path /\ kernel'.pc = kernel.pc
          /\ kernel'.sleep_mode = kernel.sleep_mode /\ kernel'.resumed = kernel.resumed
      BY <2>2, <1>1 DEF PowerLock, Kernel
    <3>. QED
      BY <2>2, <1>1, <3>1, OtherType DEF PowerLock
  <2>3. CASE Phase0
    <3>1. CASE kernel.sleep_mode = 9
      <4>1. kernel \in Cell
        BY <3>1, <1>1 DEF Cell, Snapshot
      <4>2. /\ kernel' \in Kernel /\ kernel'.path = kernel.path /\ kernel'.pc = "sv_wait"
            /\ kernel'.sleep_mode = 0
        BY <2>3, <3>1, <1>1 DEF Phase0, Kernel
      <4>3. ram' \in [low : Cell, mid : Cell, high : Cell]
        BY <2>3, <3>1, <1>1, <4>1 DEF Phase0
      <4>. QED
        BY <2>3, <4>2, <4>3 DEF Phase0, TypeInv, TypeOK, FileIsThere, FilePoints,
           CaptureInWait
    <3>2. CASE kernel.sleep_mode = 10
      <4>1. kernel' \in Snapshot
        BY <2>3, <3>2, <1>1, SentinelsAssumption DEF Phase0, Cell
      <4>. QED
        BY <2>3, <3>2, <4>1 DEF Phase0, TypeInv, TypeOK, FileIsThere, FilePoints,
           CaptureInWait, Snapshot
    <3>3. CASE kernel.sleep_mode = 0
      BY <2>3, <3>3 DEF Phase0, TypeInv, TypeOK, FileIsThere, TheFile, CaptureInWait
    <3>. QED
      BY <2>3, <3>1, <3>2, <3>3 DEF Phase0
  <2>4. CASE ResumeCompleted
    <3>1. /\ kernel' \in Kernel /\ kernel'.path = kernel.path /\ kernel'.pc = kernel.pc
          /\ kernel'.sleep_mode = 0
      BY <2>4, <1>1 DEF ResumeCompleted, Kernel
    <3>. QED
      <4>1. alarm' \in BOOLEAN
        BY <2>4 DEF ResumeCompleted
      <4>. QED
        BY <2>4, <1>1, <3>1, <4>1, OtherType DEF ResumeCompleted
  <2>. QED
    BY <1>x, <2>1, <2>2, <2>3, <2>4 DEF Power
<1>y. CASE User
  <2>1. ASSUME NEW g \in Gens, Play(g) PROVE TypeInv'
    <3>1. /\ kernel' \in Kernel /\ kernel'.path = kernel.path /\ kernel'.pc = kernel.pc
          /\ kernel'.sleep_mode = kernel.sleep_mode /\ kernel'.resumed = kernel.resumed
      BY <2>1, <1>1 DEF Play, Kernel
    <3>2. ram' \in [low : Cell, mid : Cell, high : Cell] /\ vram' \in Cell
      BY <2>1 DEF Play, AllRam, Cell
    <3>. QED
      BY <2>1, <3>1, <3>2 DEF Play, TypeInv, TypeOK, FileIsThere, TheFile, CaptureInWait
  <2>2. ASSUME NEW p \in Paths, ChooseSave(p) \/ ChooseLoad(p) PROVE TypeInv'
    <3>1. kernel' \in Kernel
      <4>1. [kernel EXCEPT !.pc = "sv_open", !.path = p, !.hold = TRUE, !.io_ok = TRUE,
                           !.crc_active = FALSE, !.was_load = FALSE] \in Kernel
        BY <1>1, <2>2 DEF Kernel
      <4>2. [kernel EXCEPT !.pc = "ld_open", !.path = p, !.hold = TRUE, !.io_ok = TRUE,
                           !.crc_active = FALSE, !.was_load = FALSE] \in Kernel
        BY <1>1, <2>2 DEF Kernel
      <4>. QED
        BY <2>2, <4>1, <4>2 DEF ChooseSave, ChooseLoad, Called
    <3>2. /\ kernel'.pc \in {"sv_open", "ld_open"}
          /\ kernel'.sleep_mode = kernel.sleep_mode /\ kernel.pc = "idle"
      BY <2>2, <1>1 DEF ChooseSave, ChooseLoad, Called, BrowserReady, At, Kernel
    <3>. QED
      BY <2>2, <1>1, <3>1, <3>2, RestType DEF ChooseSave, ChooseLoad, FilePoints
  <2>3. ASSUME NEW p \in Paths, ChooseDelete(p) PROVE TypeInv'
    <3>1. files' \in Files /\ kernel' = kernel /\ kernel.pc = "idle"
      BY <2>3, <1>1 DEF ChooseDelete, BrowserReady, At, Files
    <3>. QED
      BY <2>3, <1>1, <3>1, StepType DEF ChooseDelete, FilePoints
  <2>. QED
    BY <1>y, <2>1, <2>2, <2>3 DEF User
<1>z. CASE Environment
  <2>1. CASE PowerLoss
    <3>1. PICK b \in Bases, g \in Gens :
             kernel' = Booted(kernel.path, b, g) /\ ram' = AllRam(g) /\ vram' = g
      BY <2>1 DEF PowerLoss
    <3>2. kernel' \in Kernel /\ kernel'.pc = "idle" /\ kernel'.sleep_mode = 0
      BY <3>1, <1>2 DEF Booted, Kernel
    <3>3. ram' \in [low : Cell, mid : Cell, high : Cell] /\ vram' \in Cell
      BY <3>1 DEF AllRam, Cell
    <3>. QED
      <4>1. alarm' \in BOOLEAN /\ request' \in BOOLEAN
        BY <2>1 DEF PowerLoss
      <4>. QED
        BY <2>1, <1>1, <3>2, <3>3, <4>1, RestType DEF PowerLoss, FilePoints
  <2>2. ASSUME NEW p \in Paths, Rot(p) PROVE TypeInv'
    <3>1. files[p] \in File /\ kernel.pc = "idle" /\ kernel' = kernel
      BY <2>2, <1>1 DEF Rot, Files
    <3>2. /\ [files[p] EXCEPT !.body.ram = Junk] \in File
          /\ [files[p] EXCEPT !.body.kern = Junk] \in File
          /\ [files[p] EXCEPT !.addr = Outside] \in File
      BY <3>1 DEF File, Body, Cell
    <3>3. files' \in Files
      BY <2>2, <1>1, <3>2 DEF Rot, Files
    <3>. QED
      BY <2>2, <1>1, <3>1, <3>3, StepType DEF Rot, FilePoints
  <2>. QED
    BY <1>z, <2>1, <2>2 DEF Environment
<1>9. CASE UNCHANGED vars
  BY <1>9 DEF vars, TypeInv, TypeOK, FileIsThere, TheFile, CaptureInWait
<1>. QED
  BY <1>9, <1>a, <1>c, <1>d, <1>f, <1>g, <1>h, <1>i, <1>j, <1>k, <1>l, <1>m, <1>n, <1>o,
     <1>p, <1>q, <1>r, <1>s, <1>t, <1>u, <1>v, <1>w, <1>x, <1>y, <1>z
     DEF Next, Save, Tail, Load

\* Every variable keeps its type: the firmware only ever captures the armed wait
\* of FreezeSave, and a save file is used only while it exists.
THEOREM TypeCorrect == Spec => []TypeOK
<1>1. Init => TypeInv
  BY TypeInit
<1>2. TypeInv /\ [Next]_vars => TypeInv'
  BY TypeStep
<1>3. TypeInv => TypeOK
  BY DEF TypeInv
<1>. QED
  BY <1>1, <1>2, <1>3, PTL DEF Spec

-----------------------------------------------------------------------------
(***************************************************************************)
(* Consistency of the running game and completeness of certified files,    *)
(* when RESUME_COMPLETED is handled before the menu thread runs again.     *)
(* The invariant follows a game state along its whole way: from memory     *)
(* into the sections of the file (Sections), by the capture into the       *)
(* staging slot (Captured) and the file (CrcPending, Certified), and back  *)
(* to memory through a LOAD (Verified, Staged, Sections again).            *)
(***************************************************************************)

Awake  == power \in {"on", "locking"}
Agrees == ram = AllRam(kernel.game) /\ vram = kernel.game

\* Where the game is frozen, and where it runs.
Suspended == {"sv_header", "sv_ram", "sv_vram", "sv_contexts", "sv_wait", "sv_kernel",
              "restore", "prompt", "ld_verify", "ld_stage", "ld_arm", "ld_wait"}
Running   == {"sv_open", "sv_volmem", "sv_freeze", "finish_crc", "close",
              "ld_open", "ld_volmem", "ld_freeze"}

FrozenWhere == /\ kernel.pc \in Suspended => kernel.frozen
               /\ kernel.pc \in Running => ~kernel.frozen

\* The wait of a SAVE that has not slept yet; the wait after the sleep.
BeforeSleep == kernel.pc = "sv_wait" /\ Awake /\ ~kernel.resumed
AfterSleep  == kernel.pc = "sv_wait" /\ ~BeforeSleep

WaitArmed == /\ BeforeSleep => kernel.sleep_mode = 9 /\ kernel.op_mode = 0
             /\ kernel.sleep_mode = 10 => kernel.pc = "ld_wait"

\* Game memory is untouched until the capture and whole after the restore.
Untouched == {"sv_header", "sv_ram", "sv_vram", "sv_contexts", "prompt",
              "ld_verify", "ld_stage"}

Intact == ~kernel.frozen \/ kernel.pc \in Untouched \/ BeforeSleep => Agrees

\* A snapshot that a LOAD of p can return to the state g from.
Image(k, p, g) == k \in Snapshot /\ k.path = p /\ k.game = g /\ k.frozen /\ ~k.crc_active

\* The sections already in the file of a save, or of the save a LOAD re-enters.
RamWritten  == TheFile # NoFile /\ TheFile.body.ram = kernel.game
VramWritten == TheFile # NoFile /\ TheFile.body.vram = kernel.game
HeaderDone  == TheFile # NoFile /\ TheFile.crc = Zero /\ TheFile.addr = kernel.base
Saving      == kernel.pc \in {"sv_wait", "sv_kernel"} /\ kernel.op_mode = 0

Sections ==
  /\ kernel.pc \in {"sv_ram", "sv_vram", "sv_contexts"} /\ kernel.io_ok => HeaderDone
  /\ kernel.pc \in {"sv_vram", "sv_contexts"} /\ kernel.io_ok => RamWritten
  /\ kernel.pc = "sv_contexts" /\ kernel.io_ok => VramWritten
  /\ kernel.pc \in {"sv_wait", "sv_kernel", "restore"} => RamWritten /\ VramWritten
  /\ Saving => HeaderDone
  /\ kernel.pc = "sv_kernel" => kernel.op_mode = 0

Captured ==
  Saving /\ ~BeforeSleep =>
    /\ Image(ram.mid, kernel.path, kernel.game)
    /\ ram.mid.base = kernel.base /\ ram.mid.op_mode = 0

Complete(b, p) == b.ram \in Gens /\ b.vram = b.ram /\ Image(b.kern, p, b.ram)
                    /\ b.kern.op_mode = 0

CrcPending ==
  kernel.crc_active =>
    /\ kernel.pc \in {"restore", "prompt", "finish_crc"}
    /\ TheFile # NoFile
    /\ Complete(TheFile.body, kernel.path)
    /\ TheFile.addr = TheFile.body.kern.base

Certified ==
  \A p \in Paths : files[p] # NoFile /\ files[p].crc # Zero =>
    /\ Complete(files[p].crc, p)
    /\ files[p].addr \in {files[p].crc.kern.base, Outside}

Verified == kernel.pc = "ld_stage" => Verifies(TheFile)

Staged ==
  kernel.pc \in {"ld_arm", "ld_wait"} =>
    /\ TheFile # NoFile
    /\ TheFile.body.vram = TheFile.body.ram
    /\ Image(ram.mid, kernel.path, TheFile.body.ram)
    /\ ram.mid.op_mode = 1
    /\ ram.high = Blob

SafeInv == FrozenWhere /\ WaitArmed /\ Intact /\ Sections /\ Captured /\ CrcPending
             /\ Certified /\ Verified /\ Staged

LEMMA SafeInit == Init => SafeInv
<1>. SUFFICES ASSUME Init PROVE SafeInv
  OBVIOUS
<1>1. PICK p \in Paths, b \in Bases, g \in Gens :
         kernel = Booted(p, b, g) /\ ram = AllRam(g) /\ vram = g
  BY DEF Init
<1>2. /\ kernel.pc = "idle" /\ ~kernel.frozen /\ kernel.sleep_mode = 0 /\ ~kernel.crc_active
      /\ kernel.game = g
  BY <1>1 DEF Booted
<1>3. \A q \in Paths : files[q] = NoFile
  BY DEF Init
<1>. QED
  BY <1>1, <1>2, <1>3 DEF SafeInv, FrozenWhere, WaitArmed, BeforeSleep, Intact, Agrees,
     Sections, Saving, Captured, CrcPending, Certified, Verified, Staged, Suspended, Running,
     Untouched

\* Replacing the save file of the operation keeps the certified files good.
LEMMA CertifiedFile ==
  ASSUME files \in Files, kernel.path \in Paths, Certified,
         NEW f, SetFile(f),
         \/ f = NoFile
         \/ f.crc = Zero
         \/ TheFile # NoFile /\ f.crc = TheFile.crc /\ f.addr = TheFile.addr
         \/ Complete(f.crc, kernel.path) /\ f.addr \in {f.crc.kern.base, Outside}
  PROVE  Certified'
<1>1. \A p \in Paths : files'[p] = IF p = kernel.path THEN f ELSE files[p]
  BY DEF SetFile, Files
<1>. QED
  BY <1>1 DEF Certified, TheFile

\* The fields of the kernel record that a plain step of the menu thread keeps.
Kept == /\ kernel'.path = kernel.path /\ kernel'.base = kernel.base
        /\ kernel'.game = kernel.game /\ kernel'.frozen = kernel.frozen
        /\ kernel'.op_mode = kernel.op_mode /\ kernel'.sleep_mode = kernel.sleep_mode
        /\ kernel'.resumed = kernel.resumed /\ kernel'.crc_active = kernel.crc_active

\* Giving up where memory is untouched and nothing is armed.
LEMMA AbortSafe ==
  ASSUME TypeInv, SafeInv, AbortSave \/ AbortLoad, kernel.pc # "ld_wait",
         kernel.frozen => kernel.pc \in Untouched, ~kernel.crc_active
  PROVE  SafeInv'
<1>1. kernel \in Kernel /\ files \in Files /\ kernel.path \in Paths
  BY DEF TypeInv, TypeOK, Files, Kernel
<1>2. /\ kernel'.pc = "idle" /\ ~kernel'.frozen /\ kernel'.game = kernel.game
      /\ kernel'.sleep_mode = kernel.sleep_mode /\ kernel'.crc_active = kernel.crc_active
  BY <1>1 DEF AbortSave, AbortLoad, Aborted, Kernel
<1>3. Certified'
  BY <1>1, CertifiedFile DEF AbortSave, AbortLoad, SafeInv, Certified
<1>4. Agrees'
  BY <1>2 DEF AbortSave, AbortLoad, Memory, SafeInv, Intact, Agrees
<1>. QED
  BY <1>2, <1>3, <1>4 DEF SafeInv, FrozenWhere, WaitArmed, BeforeSleep, Intact, Sections, Saving, Captured,
     CrcPending, Verified, Staged, Suspended, Running, Untouched

LEMMA SafeStep == ~SlowResume /\ TypeInv /\ TypeInv' /\ SafeInv /\ [Next]_vars => SafeInv'
<1>. SUFFICES ASSUME ~SlowResume, TypeInv, TypeInv', SafeInv, [Next]_vars PROVE SafeInv'
  OBVIOUS
<1>. USE DEF Memory, Firmware
<1>1. /\ kernel \in Kernel /\ files \in Files
      /\ kernel.pc \in FilePoints => TheFile # NoFile
      /\ kernel.sleep_mode = 9 => kernel.pc = "sv_wait" /\ ~kernel.resumed
  BY DEF TypeInv, TypeOK, Files, FileIsThere, CaptureInWait
<1>2. /\ kernel.path \in Paths /\ kernel.base \in Bases /\ kernel.game \in Gens
      /\ TheFile \in File \cup {NoFile}
  BY <1>1 DEF Kernel, Files, TheFile
<1>3. \A l : At(l) => Awake /\ kernel.pc = l
  BY DEF At, MenuRuns, Awake, TypeInv, TypeOK
<1>4. /\ kernel.crc_active => kernel.pc \in {"restore", "prompt", "finish_crc"}
      /\ kernel.sleep_mode = 10 => kernel.pc = "ld_wait"
  BY DEF SafeInv, CrcPending, WaitArmed
<1>a. CASE SaveOpen
  <2>1. /\ kernel.pc = "sv_open" /\ kernel'.pc \in {"sv_volmem", "idle"} /\ Kept
    BY <1>a, <1>1, <1>3 DEF SaveOpen, Kept, Kernel
  <2>2. Certified'
    BY <1>a, <1>1, <1>2, CertifiedFile DEF SaveOpen, SafeInv, EmptyFile, Certified
  <2>. QED
    BY <1>a, <1>1, <1>4, <2>1, <2>2 DEF SaveOpen, Kept, SafeInv, FrozenWhere, WaitArmed, BeforeSleep, Intact,
     Agrees, Sections, Saving, Captured, CrcPending, Verified, Staged, Suspended, Running, Untouched
<1>b. ASSUME NEW from \in {"sv_volmem", "ld_volmem"}, NEW to \in {"sv_freeze", "ld_freeze"},
             VolmemReleased(from, to)
      PROVE  SafeInv'
  <2>1. kernel.pc = from /\ kernel'.pc = to /\ Kept
    BY <1>b, <1>1, <1>3 DEF VolmemReleased, Kept, Kernel
  <2>. QED
    BY <1>b, <1>1, <1>4, <2>1 DEF VolmemReleased, Kept, SafeInv, FrozenWhere, WaitArmed,
       BeforeSleep, Intact, Agrees, Sections, Saving, Captured, CrcPending, Verified, Staged,
       Suspended, Running, Untouched, Certified
<1>c. CASE SaveVolmem
  <2>1. CASE AbortSave /\ At("sv_volmem")
    BY <2>1, <1>3, <1>4, AbortSafe DEF SafeInv, FrozenWhere, Running
  <2>. QED
    BY <1>c, <1>b, <2>1 DEF SaveVolmem
<1>d. ASSUME NEW from \in {"sv_freeze", "ld_freeze"}, NEW to \in {"sv_header", "ld_verify"},
             Frozen(from, to)
      PROVE  SafeInv'
  <2>1. /\ kernel.pc = from /\ kernel'.pc = to /\ kernel'.frozen
        /\ kernel'.path = kernel.path /\ kernel'.game = kernel.game
        /\ kernel'.op_mode = kernel.op_mode /\ kernel'.sleep_mode = kernel.sleep_mode
        /\ kernel'.crc_active = kernel.crc_active
    BY <1>d, <1>1, <1>3 DEF Frozen, Kernel
  <2>. QED
    BY <1>d, <1>1, <1>4, <2>1 DEF Frozen, SafeInv, FrozenWhere, WaitArmed,
       BeforeSleep, Intact, Agrees, Sections, Saving, Captured, CrcPending, Verified, Staged,
       Suspended, Running, Untouched, Certified
<1>e. CASE SaveFreeze
  <2>1. CASE AbortSave /\ At("sv_freeze")
    BY <2>1, <1>3, <1>4, AbortSafe DEF SafeInv, FrozenWhere, Running
  <2>. QED
    BY <1>e, <1>d, <2>1 DEF SaveFreeze
<1>f. CASE SaveHeader
  <2>1. kernel.pc = "sv_header" /\ TheFile \in File
    BY <1>f, <1>1, <1>2, <1>3 DEF SaveHeader, FilePoints
  <2>2. kernel'.pc = "sv_ram" /\ Kept
    BY <1>f, <1>1 DEF SaveHeader, Written, WriteShort, Kept, Kernel
  <2>3. kernel'.io_ok => HeaderDone'
    <3>. DEFINE F == [TheFile EXCEPT !.hdr = TRUE, !.kpos = FALSE, !.crc = Zero,
                                     !.addr = kernel.base]
    <3>1. kernel'.io_ok => SetFile(F)
      BY <1>f, <1>1 DEF SaveHeader, WriteShort, Kernel
    <3>2. F \in File
      BY <1>2, <2>1, FileUpdates
    <3>3. F.crc = Zero /\ F.addr = kernel.base
      BY <2>1 DEF File, Body
    <3>. HIDE DEF F
    <3>4. ASSUME SetFile(F) PROVE TheFile' = F
      BY <1>1, <2>2, <3>2, <3>4, SetFileType DEF TheFile, Kept
    <3>. QED
      BY <2>2, <3>1, <3>2, <3>3, <3>4, SentinelsAssumption DEF HeaderDone, Kept
  <2>4. Certified'
    <3>. DEFINE F == [TheFile EXCEPT !.hdr = TRUE, !.kpos = FALSE, !.crc = Zero,
                                     !.addr = kernel.base]
    <3>1. F.crc = Zero
      BY <2>1 DEF File, Body
    <3>2. SetFile(F) \/ UNCHANGED files
      BY <1>f DEF SaveHeader
    <3>. HIDE DEF F
    <3>. QED
      BY <1>1, <1>2, <3>1, <3>2, CertifiedFile DEF SafeInv, Certified
  <2>. QED
    BY <1>f, <1>1, <1>4, <2>1, <2>2, <2>3, <2>4 DEF SaveHeader, Kept, SafeInv, FrozenWhere, WaitArmed,
       BeforeSleep, Intact, Agrees, Sections, Saving, Captured, CrcPending, Verified, Staged,
       Suspended, Running, Untouched
<1>g. CASE SaveRam
  <2>1. kernel.pc = "sv_ram" /\ TheFile \in File /\ ram.mid = kernel.game
    BY <1>g, <1>1, <1>2, <1>3 DEF SaveRam, FilePoints, SafeInv, Intact, Untouched, Agrees, AllRam
  <2>2. kernel'.pc = "sv_vram" /\ Kept /\ (kernel'.io_ok => kernel.io_ok)
    BY <1>g, <1>1 DEF SaveRam, Written, WriteShort, Kept, Kernel
  <2>3. PICK c \in {ram.mid, Junk} : /\ SetFile([TheFile EXCEPT !.body.ram = c])
                                     /\ kernel'.io_ok => c = ram.mid
    BY <1>g, <1>1 DEF SaveRam, WriteShort, Kernel
  <2>. DEFINE F == [TheFile EXCEPT !.body.ram = c]
  <2>4. F \in File
    BY <1>2, <2>1, <2>3, FileUpdates DEF Cell
  <2>5. F.crc = TheFile.crc /\ F.addr = TheFile.addr /\ F.body.ram = c
    BY <2>1 DEF File, Body
  <2>6. SetFile(F)
    BY <2>3
  <2>. HIDE DEF F
  <2>7. TheFile' = F
    BY <1>1, <2>2, <2>4, <2>6, SetFileType DEF TheFile, Kept
  <2>8. kernel'.io_ok => HeaderDone' /\ RamWritten'
    BY <2>1, <2>2, <2>3, <2>4, <2>5, <2>7, SentinelsAssumption
       DEF SafeInv, Sections, HeaderDone, RamWritten, Kept
  <2>9. Certified'
    BY <1>1, <1>2, <2>1, <2>5, <2>6, CertifiedFile, SentinelsAssumption DEF SafeInv
  <2>. QED
    BY <1>g, <1>1, <1>4, <2>1, <2>2, <2>8, <2>9 DEF SaveRam, Kept, SafeInv, FrozenWhere, WaitArmed,
       BeforeSleep, Intact, Agrees, Sections, Saving, Captured, CrcPending, Verified, Staged,
       Suspended, Running, Untouched
<1>h. CASE SaveVram
  <2>1. kernel.pc = "sv_vram" /\ TheFile \in File /\ vram = kernel.game
    BY <1>h, <1>1, <1>2, <1>3 DEF SaveVram, FilePoints, SafeInv, Intact, Untouched, Agrees
  <2>2. kernel'.pc = "sv_contexts" /\ Kept /\ (kernel'.io_ok => kernel.io_ok)
    BY <1>h, <1>1 DEF SaveVram, Written, WriteShort, Kept, Kernel
  <2>3. PICK c \in {vram, Junk} : /\ SetFile([TheFile EXCEPT !.body.vram = c])
                                  /\ kernel'.io_ok => c = vram
    BY <1>h, <1>1 DEF SaveVram, WriteShort, Kernel
  <2>. DEFINE F == [TheFile EXCEPT !.body.vram = c]
  <2>4. F \in File
    <3>1. c \in Cell
      BY <2>3 DEF TypeInv, TypeOK, Cell
    <3>. QED
      BY <2>1, <3>1, FileUpdates
  <2>5. /\ F.crc = TheFile.crc /\ F.addr = TheFile.addr
        /\ F.body.ram = TheFile.body.ram /\ F.body.vram = c
    BY <2>1 DEF File, Body
  <2>6. SetFile(F)
    BY <2>3
  <2>. HIDE DEF F
  <2>7. TheFile' = F
    BY <1>1, <2>2, <2>4, <2>6, SetFileType DEF TheFile, Kept
  <2>8. kernel'.io_ok => HeaderDone' /\ RamWritten' /\ VramWritten'
    BY <2>1, <2>2, <2>3, <2>4, <2>5, <2>7, SentinelsAssumption
       DEF SafeInv, Sections, HeaderDone, RamWritten, VramWritten, Kept
  <2>9. Certified'
    BY <1>1, <1>2, <2>1, <2>5, <2>6, CertifiedFile, SentinelsAssumption DEF SafeInv
  <2>. QED
    BY <1>h, <1>1, <1>4, <2>1, <2>2, <2>8, <2>9 DEF SaveVram, Kept, SafeInv, FrozenWhere, WaitArmed,
       BeforeSleep, Intact, Agrees, Sections, Saving, Captured, CrcPending, Verified, Staged,
       Suspended, Running, Untouched
<1>i. CASE SaveContexts
  <2>0. kernel.pc = "sv_contexts"
    BY <1>i, <1>3 DEF SaveContexts
  <2>1. CASE AbortSave
    BY <2>0, <2>1, <1>4, AbortSafe DEF Untouched
  <2>2. CASE ~AbortSave
    <3>1. /\ kernel.io_ok
          /\ kernel'.pc = "sv_wait" /\ kernel'.op_mode = 0 /\ ~kernel'.resumed
          /\ kernel'.sleep_mode = 9 /\ kernel'.crc_active = kernel.crc_active
          /\ kernel'.frozen = kernel.frozen /\ kernel'.path = kernel.path
      BY <1>i, <1>1, <2>2 DEF SaveContexts, Kernel
    <3>2. kernel'.base = kernel.base /\ kernel'.game = kernel.game
      BY <1>i, <1>1, <2>2 DEF SaveContexts, Kernel
    <3>3. Awake'
      BY <1>i, <1>3, <2>2 DEF SaveContexts, Awake
    <3>4. HeaderDone' /\ RamWritten' /\ VramWritten'
      BY <1>i, <2>0, <2>2, <3>1, <3>2
         DEF SaveContexts, SafeInv, Sections, HeaderDone, RamWritten, VramWritten, TheFile
    <3>. QED
      BY <1>i, <1>1, <1>4, <2>0, <2>2, <3>1, <3>2, <3>3, <3>4 DEF SaveContexts, SafeInv, FrozenWhere, WaitArmed,
       BeforeSleep, Intact, Agrees, Sections, Saving, Captured, CrcPending, Verified, Staged,
       Suspended, Running, Untouched, Certified
  <2>. QED
    BY <2>1, <2>2
<1>j. CASE Resumed
  <2>1. kernel.pc = "sv_wait" /\ kernel.resumed
    BY <1>j, <1>3 DEF Resumed
  <2>2. PICK l \in {"idle", "sv_kernel", "restore"} :
           /\ kernel' = [kernel EXCEPT !.resumed = FALSE, !.pc = l]
           /\ l = "sv_kernel" => kernel.op_mode = 0
    BY <1>j DEF Resumed
  <2>3. /\ kernel'.pc = l /\ kernel'.op_mode = kernel.op_mode
        /\ kernel'.path = kernel.path /\ kernel'.base = kernel.base
        /\ kernel'.game = kernel.game /\ kernel'.frozen = kernel.frozen
        /\ kernel'.sleep_mode = kernel.sleep_mode
        /\ kernel'.crc_active = kernel.crc_active
    BY <1>1, <2>2 DEF Kernel
  <2>4. /\ RamWritten' /\ VramWritten'
        /\ kernel.op_mode = 0 => HeaderDone'
    BY <1>j, <2>1, <2>3 DEF Resumed, SafeInv, Sections, Saving, RamWritten, VramWritten,
       HeaderDone, TheFile
  <2>5. l = "sv_kernel" => Captured'
    BY <1>j, <2>1, <2>2, <2>3 DEF Resumed, SafeInv, Captured, Saving, BeforeSleep
  <2>. QED
    BY <1>j, <1>4, <2>1, <2>2, <2>3, <2>4, <2>5 DEF Resumed, SafeInv, FrozenWhere, WaitArmed,
       BeforeSleep, Intact, Agrees, Sections, Saving, Captured, CrcPending, Verified, Staged,
       Suspended, Running, Untouched, Certified
<1>k. CASE SaveTimeout
  <2>1. BeforeSleep
    BY <1>k, <1>3 DEF SaveTimeout, BeforeSleep
  <2>2. /\ kernel'.pc = "idle" /\ kernel'.game = kernel.game
        /\ kernel'.sleep_mode = 0 /\ kernel'.crc_active = kernel.crc_active
    BY <1>k, <1>1 DEF SaveTimeout, Aborted, Kernel
  <2>3. Certified'
    BY <1>k, <1>1, <1>2, CertifiedFile DEF SaveTimeout, SafeInv
  <2>4. Agrees'
    BY <1>k, <2>1, <2>2 DEF SaveTimeout, SafeInv, Intact, Agrees
  <2>. QED
    BY <1>4, <2>1, <2>2, <2>3, <2>4 DEF SafeInv, FrozenWhere, WaitArmed,
       BeforeSleep, Intact, Agrees, Sections, Saving, Captured, CrcPending, Verified, Staged,
       Suspended, Running, Untouched
<1>l. CASE SaveKernel
  <2>1. /\ kernel.pc = "sv_kernel" /\ TheFile \in File /\ kernel.op_mode = 0
        /\ TheFile.body.ram = kernel.game /\ TheFile.body.vram = kernel.game
        /\ TheFile.crc = Zero /\ TheFile.addr = kernel.base
        /\ Image(ram.mid, kernel.path, kernel.game)
        /\ ram.mid.base = kernel.base /\ ram.mid.op_mode = 0
    BY <1>l, <1>1, <1>2, <1>3 DEF SaveKernel, FilePoints, SafeInv, Sections, Saving, RamWritten,
       VramWritten, HeaderDone, Captured, BeforeSleep
  <2>2. /\ kernel'.pc = "restore" /\ kernel'.op_mode = kernel.op_mode
        /\ kernel'.path = kernel.path /\ kernel'.base = kernel.base
        /\ kernel'.game = kernel.game /\ kernel'.frozen = kernel.frozen
        /\ kernel'.sleep_mode = kernel.sleep_mode
    BY <1>l, <1>1 DEF SaveKernel, Kernel
  <2>3. PICK c \in {ram.mid, Junk}, k \in BOOLEAN :
           /\ SetFile([TheFile EXCEPT !.body.kern = c, !.kpos = k])
           /\ kernel'.crc_active => c = ram.mid
    BY <1>l, <1>1 DEF SaveKernel, Kernel
  <2>. DEFINE F == [TheFile EXCEPT !.body.kern = c, !.kpos = k]
  <2>4. F \in File
    <3>1. c \in Cell
      BY <2>3 DEF TypeInv, TypeOK, Cell
    <3>. QED
      BY <2>1, <3>1, FileUpdates
  <2>5. /\ F.crc = TheFile.crc /\ F.addr = TheFile.addr /\ F.body.kern = c
        /\ F.body.ram = TheFile.body.ram /\ F.body.vram = TheFile.body.vram
    BY <2>1 DEF File, Body
  <2>6. SetFile(F)
    BY <2>3
  <2>. HIDE DEF F
  <2>7. TheFile' = F
    BY <1>1, <2>2, <2>4, <2>6, SetFileType DEF TheFile
  <2>8. /\ RamWritten' /\ VramWritten'
        /\ CrcPending'
    BY <1>2, <2>1, <2>2, <2>3, <2>4, <2>5, <2>7, SentinelsAssumption
       DEF RamWritten, VramWritten, CrcPending, Complete
  <2>9. Certified'
    BY <1>1, <1>2, <2>1, <2>5, <2>6, CertifiedFile DEF SafeInv
  <2>. QED
    BY <1>4, <2>1, <2>2, <2>8, <2>9 DEF SafeInv, FrozenWhere, WaitArmed,
       BeforeSleep, Intact, Agrees, Sections, Saving, Captured, CrcPending, Verified, Staged,
       Suspended, Running, Untouched
<1>m. CASE RestoreMemory
  <2>1. /\ kernel.pc = "restore"
        /\ TheFile.body.ram = kernel.game /\ TheFile.body.vram = kernel.game
    BY <1>m, <1>3 DEF RestoreMemory, SafeInv, Sections, RamWritten, VramWritten
  <2>2. /\ kernel'.pc \in {"prompt", "idle"}
        /\ kernel'.path = kernel.path
        /\ kernel'.game = kernel.game /\ kernel'.frozen = kernel.frozen
        /\ kernel'.sleep_mode = kernel.sleep_mode
        /\ kernel'.crc_active => kernel.crc_active /\ kernel'.pc = "prompt"
    BY <1>m, <1>1 DEF RestoreMemory, Kernel
  <2>3. kernel'.pc = "prompt" => Agrees'
    <3>1. \/ ram' = AllRam(TheFile.body.ram) /\ vram' = TheFile.body.vram
          \/ kernel' = [kernel EXCEPT !.pc = "idle", !.op_mode = 0, !.crc_active = FALSE]
      BY <1>m DEF RestoreMemory
    <3>2. kernel' = [kernel EXCEPT !.pc = "idle", !.op_mode = 0, !.crc_active = FALSE]
            => kernel'.pc = "idle"
      BY <1>1 DEF Kernel
    <3>. QED
      BY <2>1, <2>2, <3>1, <3>2 DEF Agrees
  <2>4. CrcPending' /\ Certified'
    BY <1>m, <2>1, <2>2 DEF RestoreMemory, SafeInv, CrcPending, Certified, TheFile
  <2>. QED
    BY <1>4, <2>1, <2>2, <2>3, <2>4 DEF SafeInv, FrozenWhere, WaitArmed,
       BeforeSleep, Intact, Agrees, Sections, Saving, Captured, CrcPending, Verified, Staged,
       Suspended, Running, Untouched
<1>n. CASE StampCrc
  <2>1. /\ kernel.pc \in {"prompt", "finish_crc"} /\ TheFile \in File /\ kernel.crc_active
        /\ Complete(TheFile.body, kernel.path) /\ TheFile.addr = TheFile.body.kern.base
    BY <1>n, <1>1, <1>2, <1>3 DEF StampCrc, FilePoints, SafeInv, CrcPending
  <2>2. /\ kernel'.pc \in {kernel.pc, "close"} /\ (kernel'.pc = "close" => kernel.pc = "finish_crc")
        /\ ~kernel'.crc_active
        /\ kernel'.path = kernel.path /\ kernel'.game = kernel.game
        /\ kernel'.frozen = kernel.frozen /\ kernel'.sleep_mode = kernel.sleep_mode
    <3>. DEFINE l == IF kernel.pc = "finish_crc" THEN "close" ELSE kernel.pc
    <3>1. \/ kernel' = [kernel EXCEPT !.crc_active = FALSE, !.pc = l]
          \/ kernel' = [[kernel EXCEPT !.crc_active = FALSE, !.pc = l] EXCEPT !.io_ok = FALSE]
      BY <1>n DEF StampCrc
    <3>2. l \in {kernel.pc, "close"} /\ (l = "close" => kernel.pc = "finish_crc")
      BY <2>1
    <3>. HIDE DEF l
    <3>. QED
      BY <1>1, <3>1, <3>2 DEF Kernel
  <2>3. Certified'
    <3>. DEFINE F == [TheFile EXCEPT !.crc = TheFile.body]
    <3>1. F.crc = TheFile.body /\ F.addr = TheFile.addr
      BY <2>1 DEF File, Body
    <3>2. SetFile(F) \/ UNCHANGED files
      BY <1>n DEF StampCrc
    <3>. HIDE DEF F
    <3>. QED
      BY <1>1, <1>2, <2>1, <3>1, <3>2, CertifiedFile DEF SafeInv, Certified
  <2>. QED
    BY <1>n, <1>4, <2>1, <2>2, <2>3 DEF StampCrc, SafeInv, FrozenWhere, WaitArmed,
       BeforeSleep, Intact, Agrees, Sections, Saving, Captured, CrcPending, Verified, Staged,
       Suspended, Running, Untouched
<1>o. CASE PressX
  <2>1. /\ kernel.pc = "prompt" /\ kernel'.pc \in {"finish_crc", "close"}
        /\ kernel'.path = kernel.path /\ kernel'.game = kernel.game /\ ~kernel'.frozen
        /\ kernel'.sleep_mode = kernel.sleep_mode
        /\ kernel'.crc_active = kernel.crc_active
        /\ kernel'.crc_active => kernel'.pc = "finish_crc"
    BY <1>o, <1>1, <1>3 DEF PressX, Kernel
  <2>. QED
    BY <1>o, <1>4, <2>1 DEF PressX, TheFile, Certified, SafeInv, FrozenWhere, WaitArmed,
       BeforeSleep, Intact, Agrees, Sections, Saving, Captured, CrcPending, Verified, Staged,
       Suspended, Running, Untouched
<1>p. CASE SaveClose
  <2>1. /\ kernel.pc = "close" /\ kernel'.pc = "idle" /\ Kept
    BY <1>p, <1>1, <1>3 DEF SaveClose, Kept, Kernel
  <2>2. Certified'
    BY <1>p, <1>1, <1>2, CertifiedFile DEF SaveClose, SafeInv, Certified
  <2>. QED
    BY <1>p, <1>4, <2>1, <2>2 DEF SaveClose, Kept, SafeInv, FrozenWhere, WaitArmed,
       BeforeSleep, Intact, Agrees, Sections, Saving, Captured, CrcPending, Verified, Staged,
       Suspended, Running, Untouched
<1>q. CASE LoadOpen
  <2>1. /\ kernel.pc = "ld_open" /\ kernel'.pc \in {"ld_volmem", "idle"} /\ Kept
    BY <1>q, <1>1, <1>3 DEF LoadOpen, Kept, Kernel
  <2>. QED
    BY <1>q, <1>4, <2>1 DEF LoadOpen, Kept, Certified, SafeInv, FrozenWhere, WaitArmed,
       BeforeSleep, Intact, Agrees, Sections, Saving, Captured, CrcPending, Verified, Staged,
       Suspended, Running, Untouched
<1>r. CASE LoadVolmem
  <2>1. CASE AbortLoad /\ At("ld_volmem")
    BY <2>1, <1>3, <1>4, AbortSafe DEF SafeInv, FrozenWhere, Running
  <2>. QED
    BY <1>r, <1>b, <2>1 DEF LoadVolmem
<1>s. CASE LoadFreeze
  <2>1. CASE AbortLoad /\ At("ld_freeze")
    BY <2>1, <1>3, <1>4, AbortSafe DEF SafeInv, FrozenWhere, Running
  <2>. QED
    BY <1>s, <1>d, <2>1 DEF LoadFreeze
<1>t. CASE LoadVerify
  <2>0. kernel.pc = "ld_verify"
    BY <1>t, <1>3 DEF LoadVerify
  <2>1. CASE AbortLoad
    BY <2>0, <2>1, <1>4, AbortSafe DEF Untouched
  <2>2. CASE ~AbortLoad
    <3>1. kernel'.pc = "ld_stage" /\ Kept
      BY <1>t, <1>1, <2>2 DEF LoadVerify, Kept, Kernel
    <3>. QED
      BY <1>t, <1>4, <2>0, <2>2, <3>1 DEF LoadVerify, Kept, TheFile, Certified, SafeInv, FrozenWhere, WaitArmed,
       BeforeSleep, Intact, Agrees, Sections, Saving, Captured, CrcPending, Verified, Staged,
       Suspended, Running, Untouched
  <2>. QED
    BY <2>1, <2>2
<1>u. CASE LoadStage
  <2>1. /\ kernel.pc = "ld_stage" /\ TheFile \in File
        /\ Complete(TheFile.body, kernel.path)
        /\ TheFile.addr \in {TheFile.body.kern.base, Outside}
    <3>1. kernel.pc = "ld_stage" /\ TheFile \in File
      BY <1>u, <1>1, <1>2, <1>3 DEF LoadStage, FilePoints
    <3>2. TheFile.crc = TheFile.body
      BY <3>1 DEF SafeInv, Verified, Verifies
    <3>3. TheFile.crc # Zero
      BY <3>1, <3>2, SentinelsAssumption DEF File
    <3>. QED
      BY <1>2, <3>1, <3>2, <3>3, SentinelsAssumption DEF SafeInv, Certified, TheFile
  <2>2. /\ kernel'.pc \in {"idle", "ld_arm"} /\ kernel'.path = kernel.path
        /\ kernel'.frozen = kernel.frozen /\ kernel'.sleep_mode = kernel.sleep_mode
        /\ kernel'.crc_active = kernel.crc_active
    BY <1>u, <1>1 DEF LoadStage, Kernel
  <2>3. ASSUME kernel'.pc = "ld_arm" PROVE Staged'
    <3>1. /\ TheFile.addr # Outside
          /\ ram' = [ram EXCEPT !.mid = PatchLoadFlag(TheFile.body.kern, TheFile.addr),
                                !.high = Blob]
      BY <1>u, <1>1, <2>3 DEF LoadStage, Kernel
    <3>2. /\ ram'.mid = PatchLoadFlag(TheFile.body.kern, TheFile.addr)
          /\ ram'.high = Blob
      BY <3>1 DEF TypeInv, TypeOK
    <3>3. /\ TheFile.body.kern \in Kernel /\ TheFile.body.kern \in Snapshot
          /\ TheFile.body.kern.base = TheFile.addr
      BY <2>1, <3>1 DEF Complete, Image, Snapshot
    <3>4. ram'.mid = [TheFile.body.kern EXCEPT !.op_mode = 1]
      BY <3>2, <3>3 DEF PatchLoadFlag
    <3>5. Image(ram'.mid, kernel.path, TheFile.body.ram) /\ ram'.mid.op_mode = 1
      BY <2>1, <3>3, <3>4 DEF Complete, Image, Snapshot, Kernel
    <3>6. TheFile' = TheFile
      BY <1>u, <2>2 DEF LoadStage, TheFile
    <3>. QED
      BY <2>1, <2>2, <3>2, <3>5, <3>6, SentinelsAssumption DEF Staged, Complete
  <2>. QED
    BY <1>u, <1>4, <2>1, <2>2, <2>3 DEF LoadStage, Certified, SafeInv, FrozenWhere, WaitArmed,
       BeforeSleep, Intact, Agrees, Sections, Saving, Captured, CrcPending, Verified, Staged,
       Suspended, Running, Untouched
<1>v. CASE LoadArm
  <2>1. /\ kernel.pc = "ld_arm" /\ kernel'.pc = "ld_wait" /\ kernel'.path = kernel.path
        /\ kernel'.frozen = kernel.frozen
        /\ kernel'.crc_active = kernel.crc_active
    BY <1>v, <1>1, <1>3 DEF LoadArm, Kernel
  <2>. QED
    BY <1>v, <1>4, <2>1 DEF LoadArm, TheFile, Certified, SafeInv, FrozenWhere, WaitArmed,
       BeforeSleep, Intact, Agrees, Sections, Saving, Captured, CrcPending, Verified, Staged,
       Suspended, Running, Untouched
<1>w. CASE LoadTimeout
  <2>1. /\ kernel.pc = "ld_wait" /\ kernel'.pc = "idle" /\ kernel'.sleep_mode = 0
        /\ kernel'.frozen = kernel.frozen /\ kernel'.crc_active = kernel.crc_active
    BY <1>w, <1>1, <1>3 DEF LoadTimeout, Kernel
  <2>. QED
    BY <1>w, <1>4, <2>1 DEF LoadTimeout, Certified, SafeInv, FrozenWhere, WaitArmed,
       BeforeSleep, Intact, Agrees, Sections, Saving, Captured, CrcPending, Verified, Staged,
       Suspended, Running, Untouched
<1>x. CASE Power
  <2>1. CASE PowerSwitch \/ AlarmWake \/ UserWake
    <3>1. kernel' = kernel /\ (Awake' <=> Awake)
      BY <2>1 DEF PowerSwitch, AlarmWake, UserWake, Awake
    <3>. QED
      BY <2>1, <3>1 DEF PowerSwitch, AlarmWake, UserWake, SafeInv, FrozenWhere, WaitArmed,
       BeforeSleep, Intact, Agrees, Sections, Saving, Captured, CrcPending, Verified, Staged,
       Suspended, Running, Untouched, Awake, RamWritten, VramWritten,
         HeaderDone, TheFile, Certified
  <2>2. CASE Veto
    <3>1. kernel' = kernel /\ Awake /\ Awake'
      BY <2>2 DEF Veto, Awake
    <3>. QED
      BY <2>2, <3>1 DEF Veto, SafeInv, FrozenWhere, WaitArmed,
       BeforeSleep, Intact, Agrees, Sections, Saving, Captured, CrcPending, Verified, Staged,
       Suspended, Running, Untouched, RamWritten, VramWritten, HeaderDone, TheFile, Certified
  <2>3. CASE PowerLock
    <3>1. /\ Kept /\ kernel'.pc = kernel.pc /\ kernel'.io_ok = kernel.io_ok
          /\ Awake /\ Awake'
      BY <2>3, <1>1 DEF PowerLock, Kept, Kernel, Awake
    <3>. QED
      BY <2>3, <3>1 DEF PowerLock, Kept, SafeInv, FrozenWhere, WaitArmed,
       BeforeSleep, Intact, Agrees, Sections, Saving, Captured, CrcPending, Verified, Staged,
       Suspended, Running, Untouched, RamWritten, VramWritten, HeaderDone, TheFile,
         Certified
  <2>4. CASE Phase0
    <3>0. Awake /\ ~Awake'
      BY <2>4 DEF Phase0, Awake
    <3>1. CASE kernel.sleep_mode = 9
      <4>1. /\ kernel.pc = "sv_wait" /\ BeforeSleep /\ kernel.op_mode = 0 /\ kernel.frozen
            /\ ~kernel.crc_active /\ kernel \in Snapshot
        BY <1>1, <1>4, <3>0, <3>1
           DEF SafeInv, FrozenWhere, Suspended, WaitArmed, BeforeSleep, Snapshot
      <4>2. /\ kernel'.pc = "sv_wait" /\ kernel'.path = kernel.path
            /\ kernel'.base = kernel.base /\ kernel'.game = kernel.game
            /\ kernel'.frozen = kernel.frozen /\ kernel'.op_mode = kernel.op_mode
            /\ kernel'.sleep_mode = 0 /\ kernel'.crc_active = kernel.crc_active
        <5>1. kernel' = [kernel EXCEPT !.sleep_mode = 0]
          BY <2>4, <3>1 DEF Phase0
        <5>. QED
          BY <1>1, <4>1, <5>1 DEF Kernel
      <4>3. ram'.mid = kernel
        BY <2>4, <3>1 DEF Phase0, TypeInv, TypeOK
      <4>4. Captured'
        BY <4>1, <4>2, <4>3 DEF Captured, Image
      <4>5. UNCHANGED files
        BY <2>4 DEF Phase0
      <4>. QED
        BY <3>0, <4>1, <4>2, <4>4, <4>5 DEF SafeInv, FrozenWhere, WaitArmed,
       BeforeSleep, Intact, Agrees, Sections, Saving, Captured, CrcPending, Verified, Staged,
       Suspended, Running, Untouched, RamWritten, VramWritten, HeaderDone,
           TheFile, Certified
    <3>2. CASE kernel.sleep_mode = 10
      <4>1. kernel.pc = "ld_wait"
        BY <3>2, <1>4
      <4>2. kernel' = ram.mid /\ UNCHANGED files
        BY <2>4, <3>2 DEF Phase0
      <4>3. /\ kernel'.pc = "sv_wait" /\ kernel'.path = kernel.path /\ kernel'.frozen
            /\ kernel'.op_mode = 1 /\ ~kernel'.crc_active /\ kernel'.sleep_mode = 9
            /\ TheFile # NoFile
            /\ TheFile.body.ram = kernel'.game /\ TheFile.body.vram = kernel'.game
        BY <4>1, <4>2 DEF SafeInv, Staged, Image, Snapshot
      <4>4. TheFile' = TheFile
        BY <4>2, <4>3 DEF TheFile
      <4>. QED
        BY <3>0, <4>2, <4>3, <4>4 DEF SafeInv, FrozenWhere, WaitArmed,
       BeforeSleep, Intact, Agrees, Sections, Saving, Captured, CrcPending, Verified, Staged,
       Suspended, Running, Untouched, RamWritten, VramWritten, Certified
    <3>3. CASE kernel.sleep_mode = 0
      <4>1. kernel' = kernel /\ ~BeforeSleep /\ UNCHANGED <<files, ram, vram>>
        BY <2>4, <3>3 DEF Phase0, SafeInv, WaitArmed
      <4>. QED
        BY <3>0, <4>1 DEF SafeInv, FrozenWhere, WaitArmed,
       BeforeSleep, Intact, Agrees, Sections, Saving, Captured, CrcPending, Verified, Staged,
       Suspended, Running, Untouched, RamWritten, VramWritten, HeaderDone, TheFile, Certified
    <3>. QED
      BY <2>4, <3>1, <3>2, <3>3 DEF Phase0
  <2>5. CASE ResumeCompleted
    <3>1. /\ kernel'.pc = kernel.pc /\ kernel'.io_ok = kernel.io_ok
          /\ kernel'.path = kernel.path /\ kernel'.base = kernel.base
          /\ kernel'.game = kernel.game /\ kernel'.frozen = kernel.frozen
          /\ kernel'.op_mode = kernel.op_mode /\ kernel'.sleep_mode = 0
          /\ kernel'.crc_active = kernel.crc_active /\ kernel'.resumed
      BY <2>5, <1>1 DEF ResumeCompleted, Kernel
    <3>2. ~Awake
      BY <2>5 DEF ResumeCompleted, Awake
    <3>. QED
      BY <2>5, <3>1, <3>2 DEF ResumeCompleted, SafeInv, FrozenWhere, WaitArmed,
       BeforeSleep, Intact, Agrees, Sections, Saving, Captured, CrcPending, Verified, Staged,
       Suspended, Running, Untouched, RamWritten, VramWritten, HeaderDone,
         TheFile, Certified
  <2>. QED
    BY <1>x, <2>1, <2>2, <2>3, <2>4, <2>5 DEF Power
<1>y. CASE User
  <2>1. ASSUME NEW g \in Gens, Play(g) PROVE SafeInv'
    <3>1. /\ kernel'.pc = kernel.pc /\ kernel'.path = kernel.path
          /\ kernel'.game = g /\ kernel'.frozen = kernel.frozen /\ ~kernel.frozen
          /\ kernel'.sleep_mode = kernel.sleep_mode
          /\ kernel'.crc_active = kernel.crc_active
      BY <2>1, <1>1 DEF Play, GameRuns, Kernel
    <3>2. Agrees'
      BY <2>1, <3>1 DEF Play, Agrees
    <3>3. kernel.pc \notin Suspended
      BY <3>1 DEF SafeInv, FrozenWhere
    <3>. QED
      BY <2>1, <3>1, <3>2, <3>3 DEF Play, SafeInv, FrozenWhere, WaitArmed,
       BeforeSleep, Intact, Agrees, Sections, Saving, Captured, CrcPending, Verified, Staged,
       Suspended, Running, Untouched, TheFile, Certified
  <2>2. ASSUME NEW p \in Paths, ChooseSave(p) \/ ChooseLoad(p) PROVE SafeInv'
    <3>1. /\ kernel.pc = "idle" /\ ~kernel.frozen
          /\ kernel'.pc \in {"sv_open", "ld_open"}
          /\ kernel'.game = kernel.game /\ kernel'.frozen = kernel.frozen
          /\ kernel'.sleep_mode = kernel.sleep_mode /\ ~kernel'.crc_active
      BY <2>2, <1>1, <1>3 DEF ChooseSave, ChooseLoad, Called, BrowserReady, Kernel
    <3>. QED
      BY <2>2, <1>4, <3>1 DEF ChooseSave, ChooseLoad, Certified, SafeInv, FrozenWhere, WaitArmed,
       BeforeSleep, Intact, Agrees, Sections, Saving, Captured, CrcPending, Verified, Staged,
       Suspended, Running, Untouched
  <2>3. ASSUME NEW p \in Paths, ChooseDelete(p) PROVE SafeInv'
    <3>1. kernel.pc = "idle" /\ kernel' = kernel
      BY <2>3, <1>3 DEF ChooseDelete, BrowserReady
    <3>2. Certified'
      BY <2>3, <1>1 DEF ChooseDelete, Files, SafeInv, Certified
    <3>. QED
      BY <2>3, <1>4, <3>1, <3>2 DEF ChooseDelete, SafeInv, FrozenWhere, WaitArmed,
       BeforeSleep, Intact, Agrees, Sections, Saving, Captured, CrcPending, Verified, Staged,
       Suspended, Running, Untouched
  <2>. QED
    BY <1>y, <2>1, <2>2, <2>3 DEF User
<1>z. CASE Environment
  <2>1. CASE PowerLoss
    <3>1. PICK b \in Bases, g \in Gens :
             kernel' = Booted(kernel.path, b, g) /\ ram' = AllRam(g) /\ vram' = g
      BY <2>1 DEF PowerLoss
    <3>2. /\ kernel'.pc = "idle" /\ kernel'.sleep_mode = 0 /\ ~kernel'.crc_active
          /\ kernel'.game = g
      BY <3>1 DEF Booted
    <3>3. UNCHANGED files
      BY <2>1 DEF PowerLoss
    <3>. QED
      BY <3>1, <3>2, <3>3 DEF SafeInv, FrozenWhere, WaitArmed,
       BeforeSleep, Intact, Agrees, Sections, Saving, Captured, CrcPending, Verified, Staged,
       Suspended, Running, Untouched, Certified
  <2>2. ASSUME NEW p \in Paths, Rot(p) PROVE SafeInv'
    <3>1. kernel.pc = "idle" /\ kernel' = kernel /\ UNCHANGED <<ram, vram, power>>
      BY <2>2 DEF Rot
    <3>2. files[p] \in File
      BY <2>2, <1>1 DEF Rot, Files
    <3>3. /\ \A q \in Paths \ {p} : files'[q] = files[q]
          /\ files'[p].crc = files[p].crc /\ files'[p].addr \in {files[p].addr, Outside}
      BY <2>2, <1>1, <3>2 DEF Rot, Files, File
    <3>4. Certified'
      BY <2>2, <3>3 DEF Rot, SafeInv, Certified
    <3>. QED
      BY <1>4, <3>1, <3>4 DEF SafeInv, FrozenWhere, WaitArmed,
       BeforeSleep, Intact, Agrees, Sections, Saving, Captured, CrcPending, Verified, Staged,
       Suspended, Running, Untouched
  <2>. QED
    BY <1>z, <2>1, <2>2 DEF Environment
<1>9. CASE UNCHANGED vars
  BY <1>9 DEF vars, SafeInv, FrozenWhere, WaitArmed,
       BeforeSleep, Intact, Agrees, Sections, Saving, Captured, CrcPending, Verified, Staged,
       Suspended, Running, Untouched, Awake, RamWritten, VramWritten, HeaderDone, TheFile, Certified
<1>. QED
  BY <1>9, <1>a, <1>c, <1>e, <1>f, <1>g, <1>h, <1>i, <1>j, <1>k, <1>l, <1>m, <1>n, <1>o,
     <1>p, <1>q, <1>r, <1>s, <1>t, <1>u, <1>v, <1>w, <1>x, <1>y, <1>z
     DEF Next, Save, Tail, Load

LEMMA SafeInvImplies ==
  ASSUME TypeInv, SafeInv
  PROVE  RunningConsistent /\ AcceptedIsComplete /\ ApplyIsSafe
<1>1. RunningConsistent
  BY DEF SafeInv, Intact, Agrees, RunningConsistent
<1>2. AcceptedIsComplete
  <2>. SUFFICES ASSUME NEW p \in Paths, Verifies(files[p])
                PROVE  /\ files[p].crc = files[p].body
                       /\ Complete(files[p].crc, p)
                       /\ files[p].addr \in {files[p].crc.kern.base, Outside}
    BY DEF AcceptedIsComplete, Complete, Image, Snapshot
  <2>1. files[p] \in File /\ files[p].crc = files[p].body
    BY DEF TypeInv, TypeOK, Verifies
  <2>2. files[p].crc # Zero
    BY <2>1, SentinelsAssumption DEF File
  <2>. QED
    BY <2>1, <2>2, SentinelsAssumption DEF SafeInv, Certified
<1>3. ApplyIsSafe
  BY DEF SafeInv, WaitArmed, Staged, Image, Snapshot, ApplyIsSafe
<1>. QED
  BY <1>1, <1>2, <1>3

LEMMA Safety ==
  ASSUME ~SlowResume
  PROVE  Spec => [](TypeInv /\ SafeInv)
<1>1. Init => TypeInv /\ SafeInv
  BY TypeInit, SafeInit
<1>2. TypeInv /\ SafeInv /\ [Next]_vars => TypeInv' /\ SafeInv'
  BY TypeStep, SafeStep
<1>. QED
  BY <1>1, <1>2, PTL DEF Spec

\* If RESUME_COMPLETED is handled before the menu thread runs again, a running
\* game finds one state of itself everywhere, whatever was saved and loaded.
THEOREM RunningStaysConsistent ==
  ASSUME ~SlowResume
  PROVE  Spec => []RunningConsistent
<1>1. TypeInv /\ SafeInv => RunningConsistent
  BY SafeInvImplies
<1>. QED
  BY <1>1, Safety, PTL

\* Under the same condition a file that a LOAD accepts is one complete save.
THEOREM AcceptedStaysComplete ==
  ASSUME ~SlowResume
  PROVE  Spec => []AcceptedIsComplete
<1>1. TypeInv /\ SafeInv => AcceptedIsComplete
  BY SafeInvImplies
<1>. QED
  BY <1>1, Safety, PTL

\* And the kernel is overwritten only by a snapshot that knows it is loaded.
THEOREM ApplyStaysSafe ==
  ASSUME ~SlowResume
  PROVE  Spec => []ApplyIsSafe
<1>1. TypeInv /\ SafeInv => ApplyIsSafe
  BY SafeInvImplies
<1>. QED
  BY <1>1, Safety, PTL
-----------------------------------------------------------------------------
(* What an operation leaves behind. *)

\* The auto-wake is armed only in the two waits, and by a SAVE only before it slept.
ArmWhere == kernel.sleep_arm # 0 =>
              kernel.pc = "ld_wait" \/ (kernel.pc = "sv_wait" /\ ~kernel.resumed)

\* The game is still owed its RESUMING from the volatile memory on until the sleep.
OwedPoints == {"sv_freeze", "sv_header", "sv_ram", "sv_vram", "sv_contexts", "sv_wait",
               "ld_freeze", "ld_verify", "ld_stage", "ld_arm", "ld_wait", "idle"}

OwedWhere == kernel.owed => /\ kernel.pc \in OwedPoints
                            /\ kernel.pc = "sv_wait" => ~kernel.resumed
                            /\ kernel.pc = "idle" => kernel.frozen

EndInv == ArmWhere /\ OwedWhere

LEMMA EndInit == Init => EndInv
BY DEF Init, EndInv, ArmWhere, OwedWhere, Booted

LEMMA EndStep ==
  ASSUME ~SlowResume, TypeInv, SafeInv, EndInv, [Next]_vars
  PROVE  EndInv'
<1>. USE DEF EndInv, ArmWhere, OwedWhere, OwedPoints
<1>1. /\ kernel \in Kernel
      /\ kernel.pc \in Suspended => kernel.frozen
      /\ kernel.sleep_mode = 9 => kernel.pc = "sv_wait" /\ ~kernel.resumed
      /\ kernel.sleep_mode = 10 => kernel.pc = "ld_wait"
  BY DEF TypeInv, TypeOK, CaptureInWait, SafeInv, FrozenWhere, WaitArmed
<1>2. \A l : At(l) => kernel.pc = l
  BY DEF At
<1>a. CASE Save
  <2>1. CASE SaveOpen
    BY <2>1, <1>1, <1>2 DEF SaveOpen, Kernel
  <2>2. CASE SaveVolmem
    BY <2>2, <1>1, <1>2 DEF SaveVolmem, VolmemReleased, AbortSave, Aborted, Kernel
  <2>3. CASE SaveFreeze
    BY <2>3, <1>1, <1>2 DEF SaveFreeze, Frozen, AbortSave, Aborted, Kernel
  <2>4. CASE SaveHeader
    BY <2>4, <1>1, <1>2 DEF SaveHeader, Written, WriteShort, Kernel
  <2>5. CASE SaveRam
    BY <2>5, <1>1, <1>2, Zenon DEF SaveRam, Written, WriteShort, Kernel
  <2>6. CASE SaveVram
    BY <2>6, <1>1, <1>2 DEF SaveVram, Written, WriteShort, Kernel
  <2>7. CASE SaveContexts
    <3>1. CASE AbortSave
      BY <2>7, <3>1, <1>1, <1>2 DEF SaveContexts, AbortSave, Aborted, Kernel
    <3>2. CASE ~AbortSave
      <4>1. kernel' = [kernel EXCEPT !.pc = "sv_wait", !.op_mode = 0,
                        !.resumed = FALSE, !.sleep_mode = 9, !.sleep_arm = 1]
        BY <2>7, <3>2 DEF SaveContexts
      <4>2. kernel'.pc = "sv_wait" /\ ~kernel'.resumed
        BY <4>1, <1>1 DEF Kernel
      <4>. QED
        BY <4>2
    <3>. QED
      BY <3>1, <3>2
  <2>. QED
    BY <1>a, <2>1, <2>2, <2>3, <2>4, <2>5, <2>6, <2>7 DEF Save
<1>b. CASE Tail
  <2>1. CASE Resumed
    BY <2>1, <1>1, <1>2 DEF Resumed, Kernel
  <2>2. CASE SaveTimeout
    BY <2>2, <1>1, <1>2 DEF SaveTimeout, Aborted, Kernel
  <2>3. CASE SaveKernel
    BY <2>3, <1>1, <1>2 DEF SaveKernel, Kernel
  <2>4. CASE RestoreMemory
    BY <2>4, <1>1, <1>2 DEF RestoreMemory, Kernel
  <2>5. CASE StampCrc
    BY <2>5, <1>1, <1>2 DEF StampCrc, Kernel
  <2>6. CASE PressX
    BY <2>6, <1>1, <1>2 DEF PressX, Kernel
  <2>7. CASE SaveClose
    BY <2>7, <1>1, <1>2 DEF SaveClose, Kernel
  <2>. QED
    BY <1>b, <2>1, <2>2, <2>3, <2>4, <2>5, <2>6, <2>7 DEF Tail
<1>c. CASE Load
  <2>1. CASE LoadOpen
    BY <2>1, <1>1, <1>2 DEF LoadOpen, Suspended, Kernel
  <2>2. CASE LoadVolmem
    BY <2>2, <1>1, <1>2 DEF LoadVolmem, VolmemReleased, AbortLoad, Aborted, Suspended, Kernel
  <2>3. CASE LoadFreeze
    BY <2>3, <1>1, <1>2 DEF LoadFreeze, Frozen, AbortLoad, Aborted, Suspended, Kernel
  <2>4. CASE LoadVerify
    BY <2>4, <1>1, <1>2 DEF LoadVerify, AbortLoad, Aborted, Suspended, Kernel
  <2>5. CASE LoadStage
    <3>1. kernel.pc = "ld_stage" /\ kernel.frozen
      BY <2>5, <1>1, <1>2 DEF LoadStage, Suspended
    <3>2. /\ kernel'.pc \in {"idle", "ld_arm"} /\ kernel'.frozen = kernel.frozen
          /\ kernel'.sleep_arm = kernel.sleep_arm
      BY <2>5, <1>1 DEF LoadStage, Kernel
    <3>. QED
      BY <3>1, <3>2
  <2>6. CASE LoadArm
    BY <2>6, <1>1, <1>2 DEF LoadArm, Suspended, Kernel
  <2>7. CASE LoadTimeout
    BY <2>7, <1>1, <1>2 DEF LoadTimeout, Suspended, Kernel
  <2>. QED
    BY <1>c, <2>1, <2>2, <2>3, <2>4, <2>5, <2>6, <2>7 DEF Load
<1>d. CASE Phase0
  <2>1. CASE kernel.sleep_mode = 10
    <3>1. kernel' = ram.mid
      BY <1>d, <2>1 DEF Phase0
    <3>2. ram.mid \in Snapshot /\ ram.mid.frozen
      BY <2>1, <1>1 DEF SafeInv, Staged, Image
    <3>. QED
      BY <3>1, <3>2 DEF Snapshot
  <2>. QED
    BY <1>d, <1>1, <2>1 DEF Phase0, Kernel
<1>e. CASE Power /\ ~Phase0
  <2>1. CASE PowerSwitch \/ PowerLock \/ Veto
    BY <2>1, <1>1 DEF PowerSwitch, PowerLock, Veto, Kernel
  <2>2. CASE AlarmWake \/ UserWake
    BY <2>2, <1>1 DEF AlarmWake, UserWake, Kernel
  <2>3. CASE ResumeCompleted
    BY <2>3, <1>1 DEF ResumeCompleted, Kernel
  <2>. QED
    BY <1>e, <2>1, <2>2, <2>3 DEF Power
<1>f. CASE User
  <2>1. ASSUME NEW g \in Gens, Play(g) PROVE kernel' = [kernel EXCEPT !.game = g] /\ ~kernel.frozen
    BY <2>1 DEF Play, GameRuns
  <2>2. ASSUME NEW p \in Paths, ChooseSave(p) \/ ChooseLoad(p) \/ ChooseDelete(p)
        PROVE  /\ kernel.pc = "idle" /\ ~kernel.frozen
               /\ kernel' \in {Called(p, "sv_open"), Called(p, "ld_open"), kernel}
    BY <2>2, <1>2 DEF ChooseSave, ChooseLoad, ChooseDelete, BrowserReady
  <2>3. ASSUME NEW g \in Gens, Play(g) PROVE EndInv'
    BY <2>1, <2>3, <1>1 DEF Suspended, Kernel
  <2>4. ASSUME NEW p \in Paths, ChooseSave(p) \/ ChooseLoad(p) \/ ChooseDelete(p) PROVE EndInv'
    <3>1. /\ kernel'.pc \in {"sv_open", "ld_open", "idle"}
          /\ kernel'.owed = kernel.owed /\ kernel'.sleep_arm = kernel.sleep_arm
          /\ kernel'.frozen = kernel.frozen
      <4>1. \A l \in Points : /\ Called(p, l).pc = l /\ Called(p, l).owed = kernel.owed
                              /\ Called(p, l).sleep_arm = kernel.sleep_arm
                              /\ Called(p, l).frozen = kernel.frozen
        BY <1>1 DEF Called, Kernel
      <4>. QED
        BY <2>2, <2>4, <4>1, PointNames
    <3>. QED
      BY <2>2, <2>4, <3>1, <1>1 DEF Suspended
  <2>. QED
    BY <1>f, <2>3, <2>4 DEF User
<1>g. CASE Environment
  BY <1>g, <1>1 DEF Environment, PowerLoss, Rot, Booted
<1>h. CASE UNCHANGED vars
  BY <1>h DEF vars
<1>. QED
  BY <1>a, <1>b, <1>c, <1>d, <1>e, <1>f, <1>g, <1>h DEF Next

\* Between operations nothing of the last one is armed or owed, on every way out of a SAVE
\* or LOAD (op_abort, wait_for_resume, RESUME_COMPLETED in ProcessSignals).
THEOREM NothingStaysArmed ==
  ASSUME ~SlowResume
  PROVE  Spec => []NothingLeftArmed
<1>1. TypeInv /\ SafeInv /\ EndInv => NothingLeftArmed
  BY DEF TypeInv, TypeOK, Kernel, CaptureInWait, SafeInv, WaitArmed, EndInv, ArmWhere, OwedWhere,
     NothingLeftArmed
<1>2. (TypeInv /\ SafeInv) /\ EndInv /\ [Next]_vars => EndInv'
  BY EndStep
<1>. QED
  BY <1>1, <1>2, EndInit, Safety, PTL DEF Spec
-----------------------------------------------------------------------------
(* A LOAD leaves every save file alone. *)

\* A snapshot is taken in the wait of a SAVE that wrote everything, so the LOAD that
\* brings it back closes its file as one that needs no removal.
Whole(c) == c \in Kernel => c.pc = "sv_wait" /\ c.io_ok /\ ~c.was_load

MemoryWhole == Whole(ram.low) /\ Whole(ram.mid) /\ Whole(ram.high) /\ Whole(vram)

FilesWhole == \A p \in Paths : files[p] # NoFile =>
                Whole(files[p].body.ram) /\ Whole(files[p].body.vram)
                  /\ Whole(files[p].body.kern)

\* Once a LOAD is back in the tail it has neither a CRC to stamp nor a file to remove.
BackPoints == {"prompt", "finish_crc", "close", "idle"}

BackInv ==
  /\ kernel.pc = "sv_wait" => kernel.io_ok
  /\ kernel.was_load => kernel.pc \in BackPoints /\ (kernel.pc # "idle" => kernel.io_ok)
                          /\ ~kernel.crc_active
  /\ kernel.op_mode = 1 => kernel.pc \in {"ld_arm", "ld_wait", "sv_wait", "restore"}
                             \/ (kernel.pc = "idle" /\ kernel.frozen)
  /\ kernel.op_mode = 1 /\ kernel.pc = "restore" => kernel.io_ok /\ ~kernel.crc_active

LoadInv == MemoryWhole /\ FilesWhole /\ BackInv

LEMMA TokensWhole == \A c \in Gens \cup {Junk, Blob} : Whole(c)
BY SentinelsAssumption DEF Whole

LEMMA LoadInit == Init => LoadInv
<1>. SUFFICES ASSUME Init PROVE LoadInv
  OBVIOUS
<1>1. PICK p \in Paths, b \in Bases, g \in Gens :
         kernel = Booted(p, b, g) /\ ram = AllRam(g) /\ vram = g
  BY DEF Init
<1>2. MemoryWhole
  BY <1>1, TokensWhole DEF MemoryWhole, AllRam
<1>3. FilesWhole
  BY DEF Init, FilesWhole
<1>. QED
  BY <1>1, <1>2, <1>3 DEF LoadInv, BackInv, Booted

\* Replacing the file of the operation by one of whole sections.
LEMMA FileWhole ==
  ASSUME TypeInv, FilesWhole, NEW f,
         SetFile(f),
         f = NoFile \/ (Whole(f.body.ram) /\ Whole(f.body.vram) /\ Whole(f.body.kern))
  PROVE  FilesWhole'
<1>1. \A p \in Paths : files'[p] = IF p = kernel.path THEN f ELSE files[p]
  BY DEF SetFile, TypeInv, TypeOK
<1>. QED
  BY <1>1 DEF FilesWhole

\* What is written into a section is whole; what the game or the card puts there too.
LEMMA FilesStep ==
  ASSUME TypeInv, MemoryWhole, FilesWhole, [Next]_vars
  PROVE  FilesWhole'
<1>1. kernel \in Kernel /\ kernel.path \in Paths /\ files \in Files
  BY DEF TypeInv, TypeOK, Files, Kernel
<1>2. TheFile \in File \cup {NoFile}
  BY <1>1 DEF Files, TheFile
<1>3. \A l : At(l) => kernel.pc = l
  BY DEF At
<1>4. kernel.pc \in FilePoints => TheFile \in File
  BY <1>2 DEF TypeInv, FileIsThere
<1>5. TheFile # NoFile => Whole(TheFile.body.ram) /\ Whole(TheFile.body.vram)
                            /\ Whole(TheFile.body.kern)
  BY <1>1 DEF FilesWhole, TheFile
<1>6. Whole(Junk)
  BY TokensWhole
<1>7. ASSUME UNCHANGED files PROVE FilesWhole'
  BY <1>7 DEF FilesWhole
<1>8. ASSUME SetFile(NoFile) PROVE FilesWhole'
  BY <1>8, FileWhole
<1>a. CASE SaveOpen
  <2>1. CASE SetFile(EmptyFile)
    BY <2>1, <1>6, FileWhole DEF EmptyFile, NoBody
  <2>. QED
    BY <1>a, <1>7, <2>1 DEF SaveOpen
<1>b. CASE SaveHeader
  <2>. DEFINE F == [TheFile EXCEPT !.hdr = TRUE, !.kpos = FALSE, !.crc = Zero,
                                   !.addr = kernel.base]
  <2>1. TheFile \in File
    BY <1>b, <1>3, <1>4 DEF SaveHeader, FilePoints
  <2>2. F.body = TheFile.body
    BY <2>1 DEF File
  <2>3. SetFile(F) \/ UNCHANGED files
    BY <1>b DEF SaveHeader
  <2>. HIDE DEF F
  <2>4. CASE SetFile(F)
    BY <2>1, <2>2, <2>4, <1>5, FileWhole, SentinelsAssumption
  <2>. QED
    BY <2>3, <2>4, <1>7
<1>c. CASE SaveRam
  <2>1. TheFile \in File
    BY <1>c, <1>3, <1>4 DEF SaveRam, FilePoints
  <2>2. PICK c \in {ram.mid, Junk} : SetFile([TheFile EXCEPT !.body.ram = c])
    BY <1>c DEF SaveRam
  <2>. DEFINE F == [TheFile EXCEPT !.body.ram = c]
  <2>3. F.body.ram = c /\ F.body.vram = TheFile.body.vram /\ F.body.kern = TheFile.body.kern
    BY <2>1 DEF File, Body
  <2>4. Whole(c)
    BY <1>6 DEF MemoryWhole
  <2>5. SetFile(F)
    BY <2>2
  <2>. HIDE DEF F
  <2>. QED
    BY <2>1, <2>3, <2>4, <2>5, <1>5, FileWhole, SentinelsAssumption
<1>d. CASE SaveVram
  <2>1. TheFile \in File
    BY <1>d, <1>3, <1>4 DEF SaveVram, FilePoints
  <2>2. PICK c \in {vram, Junk} : SetFile([TheFile EXCEPT !.body.vram = c])
    BY <1>d DEF SaveVram
  <2>. DEFINE F == [TheFile EXCEPT !.body.vram = c]
  <2>3. F.body.ram = TheFile.body.ram /\ F.body.vram = c /\ F.body.kern = TheFile.body.kern
    BY <2>1 DEF File, Body
  <2>4. Whole(c)
    BY <1>6 DEF MemoryWhole
  <2>5. SetFile(F)
    BY <2>2
  <2>. HIDE DEF F
  <2>. QED
    BY <2>1, <2>3, <2>4, <2>5, <1>5, FileWhole, SentinelsAssumption
<1>e. CASE SaveKernel
  <2>1. TheFile \in File
    BY <1>e, <1>3, <1>4 DEF SaveKernel, FilePoints
  <2>2. PICK c \in {ram.mid, Junk}, k \in BOOLEAN :
           SetFile([TheFile EXCEPT !.body.kern = c, !.kpos = k])
    BY <1>e DEF SaveKernel
  <2>. DEFINE F == [TheFile EXCEPT !.body.kern = c, !.kpos = k]
  <2>3. F.body.ram = TheFile.body.ram /\ F.body.vram = TheFile.body.vram /\ F.body.kern = c
    BY <2>1 DEF File, Body
  <2>4. Whole(c)
    BY <1>6 DEF MemoryWhole
  <2>5. SetFile(F)
    BY <2>2
  <2>. HIDE DEF F
  <2>. QED
    BY <2>1, <2>3, <2>4, <2>5, <1>5, FileWhole, SentinelsAssumption
<1>f. CASE StampCrc
  <2>. DEFINE F == [TheFile EXCEPT !.crc = TheFile.body]
  <2>1. TheFile \in File \/ UNCHANGED files \/ files' = files
    BY <1>f, <1>3, <1>4 DEF StampCrc, FilePoints
  <2>2. TheFile \in File => F.body = TheFile.body
    BY DEF File
  <2>3. SetFile(F) \/ UNCHANGED files
    BY <1>f DEF StampCrc
  <2>. HIDE DEF F
  <2>4. CASE SetFile(F) /\ TheFile \in File
    BY <2>2, <2>4, <1>5, FileWhole, SentinelsAssumption
  <2>. QED
    BY <2>1, <2>3, <2>4, <1>7
<1>g. CASE SaveVolmem \/ SaveFreeze \/ SaveContexts \/ SaveTimeout \/ SaveClose
  BY <1>g, <1>7, <1>8 DEF SaveVolmem, SaveFreeze, SaveContexts, SaveTimeout, SaveClose,
     VolmemReleased, Frozen, AbortSave
<1>h. CASE Load \/ Resumed \/ RestoreMemory \/ PressX \/ Power
  BY <1>h, <1>7 DEF Load, LoadOpen, LoadVolmem, LoadFreeze, LoadVerify, LoadStage, LoadArm,
     LoadTimeout, VolmemReleased, Frozen, AbortLoad, Resumed, RestoreMemory, PressX, Power,
     PowerSwitch, PowerLock, Veto, Phase0, AlarmWake, UserWake, ResumeCompleted
<1>i. CASE User
  <2>1. ASSUME NEW p \in Paths, ChooseDelete(p) PROVE FilesWhole'
    BY <2>1, <1>1 DEF ChooseDelete, FilesWhole, Files
  <2>. QED
    BY <1>i, <1>7, <2>1 DEF User, Play, ChooseSave, ChooseLoad
<1>j. ASSUME NEW p \in Paths, Rot(p) PROVE FilesWhole'
  <2>1. files[p] \in File /\ files[p] # NoFile
    BY <1>j, <1>1 DEF Rot, Files
  <2>2. ASSUME NEW f, files' = [files EXCEPT ![p] = f],
               f.body.ram \in {files[p].body.ram, Junk}, f.body.vram = files[p].body.vram,
               f.body.kern \in {files[p].body.kern, Junk}
        PROVE  FilesWhole'
    BY <2>1, <2>2, <1>1, <1>6 DEF FilesWhole, Files
  <2>. DEFINE R == [files[p] EXCEPT !.body.ram = Junk]
              K == [files[p] EXCEPT !.body.kern = Junk]
              A == [files[p] EXCEPT !.addr = Outside]
  <2>3. /\ R.body.ram = Junk /\ R.body.vram = files[p].body.vram
        /\ R.body.kern = files[p].body.kern
        /\ K.body.kern = Junk /\ K.body.vram = files[p].body.vram
        /\ K.body.ram = files[p].body.ram
        /\ A.body = files[p].body
    BY <2>1 DEF File, Body
  <2>4. \/ files' = [files EXCEPT ![p] = R]
        \/ files' = [files EXCEPT ![p] = K]
        \/ files' = [files EXCEPT ![p] = A]
    BY <1>j DEF Rot
  <2>. HIDE DEF R, K, A
  <2>. QED
    BY <2>2, <2>3, <2>4
<1>k. CASE PowerLoss \/ UNCHANGED vars
  BY <1>k, <1>7 DEF PowerLoss, vars
<1>. QED
  BY <1>a, <1>b, <1>c, <1>d, <1>e, <1>f, <1>g, <1>h, <1>i, <1>j, <1>k
     DEF Next, Save, Tail, User, Environment

\* A cell of memory gets a token, a section of a file, or the kernel while a SAVE waits.
LEMMA MemoryStep ==
  ASSUME TypeInv, LoadInv, [Next]_vars
  PROVE  MemoryWhole'
<1>1. kernel \in Kernel /\ ram \in [low : Cell, mid : Cell, high : Cell]
  BY DEF TypeInv, TypeOK
<1>2. \A l : At(l) => kernel.pc = l
  BY DEF At
<1>3. kernel.pc \in FilePoints => TheFile # NoFile
  BY DEF TypeInv, FileIsThere
<1>4. TheFile # NoFile => Whole(TheFile.body.ram) /\ Whole(TheFile.body.vram)
                            /\ Whole(TheFile.body.kern)
  BY <1>1 DEF LoadInv, FilesWhole, TheFile, Kernel
<1>5. \A c \in Gens \cup {Junk, Blob} : Whole(c)
  BY TokensWhole
<1>6. MemoryWhole
  BY DEF LoadInv
<1>7. ASSUME UNCHANGED Memory PROVE MemoryWhole'
  BY <1>6, <1>7 DEF Memory, MemoryWhole
<1>8. ASSUME NEW c, NEW v, ram' = AllRam(c), vram' = v, Whole(c), Whole(v) PROVE MemoryWhole'
  BY <1>8 DEF MemoryWhole, AllRam
<1>a. CASE RestoreMemory
  BY <1>a, <1>2, <1>3, <1>4, <1>5, <1>8 DEF RestoreMemory, FilePoints
<1>b. CASE LoadStage
  <2>1. TheFile # NoFile
    BY <1>b, <1>2, <1>3 DEF LoadStage, FilePoints
  <2>2. ASSUME NEW c, Whole(c) PROVE Whole(PatchLoadFlag(c, TheFile.addr))
    BY <2>2 DEF Whole, PatchLoadFlag, Kernel
  <2>3. PICK c, b : /\ ram' = [ram EXCEPT !.mid = c, !.high = b]
                    /\ Whole(c) /\ (b = Blob \/ b = ram.high)
    <3>1. CASE ram' = [ram EXCEPT !.mid = Junk]
      <4>1. ram' = [ram EXCEPT !.mid = Junk, !.high = ram.high]
        BY <3>1, <1>1
      <4>. QED
        BY <4>1, <1>5
    <3>2. CASE ram' = [ram EXCEPT !.mid = TheFile.body.kern, !.high = Blob]
      BY <3>2, <2>1, <1>4
    <3>3. CASE ram' = [ram EXCEPT !.mid = PatchLoadFlag(TheFile.body.kern, TheFile.addr),
                                  !.high = Blob]
      BY <3>3, <2>1, <2>2, <1>4
    <3>. QED
      BY <1>b, <3>1, <3>2, <3>3 DEF LoadStage
  <2>4. vram' = vram
    BY <1>b DEF LoadStage
  <2>. QED
    BY <2>3, <2>4, <1>1, <1>5, <1>6 DEF MemoryWhole
<1>c. CASE Phase0
  <2>1. CASE ram' = [ram EXCEPT !.mid = kernel] /\ kernel.sleep_mode = 9
    <3>1. kernel.pc = "sv_wait"
      BY <2>1 DEF TypeInv, CaptureInWait
    <3>2. Whole(kernel)
      BY <3>1 DEF Whole, LoadInv, BackInv, BackPoints, TailPoints
    <3>. QED
      BY <1>c, <2>1, <3>2, <1>1, <1>6 DEF Phase0, MemoryWhole
  <2>. QED
    BY <1>c, <1>6, <2>1 DEF Phase0, MemoryWhole
<1>d. CASE Save
  BY <1>d, <1>7 DEF Save, SaveOpen, SaveVolmem, SaveFreeze, SaveHeader, SaveRam, SaveVram,
     SaveContexts, VolmemReleased, Frozen, AbortSave
<1>e. CASE Tail /\ ~RestoreMemory
  BY <1>e, <1>7 DEF Tail, Resumed, SaveTimeout, SaveKernel, StampCrc, PressX, SaveClose
<1>f. CASE Load /\ ~LoadStage
  BY <1>f, <1>7 DEF Load, LoadOpen, LoadVolmem, LoadFreeze, LoadVerify, LoadArm, LoadTimeout,
     VolmemReleased, Frozen, AbortLoad
<1>g. CASE Power /\ ~Phase0
  BY <1>g, <1>7 DEF Power, PowerSwitch, PowerLock, Veto, AlarmWake, UserWake, ResumeCompleted
<1>h. CASE User
  BY <1>h, <1>5, <1>7, <1>8 DEF User, Play, ChooseSave, ChooseLoad, ChooseDelete
<1>i. CASE Environment
  BY <1>i, <1>5, <1>7, <1>8 DEF Environment, PowerLoss, Rot
<1>j. CASE UNCHANGED vars
  BY <1>j, <1>7 DEF vars, Memory
<1>. QED
  BY <1>a, <1>b, <1>c, <1>d, <1>e, <1>f, <1>g, <1>h, <1>i, <1>j DEF Next

\* The kernel a LOAD brings back waits for its resume as the SAVE did.
LEMMA BackStep ==
  ASSUME ~SlowResume, TypeInv, SafeInv, LoadInv, [Next]_vars
  PROVE  BackInv'
<1>. USE DEF BackInv, BackPoints, TailPoints
<1>1. /\ kernel \in Kernel /\ BackInv
      /\ kernel.crc_active => kernel.pc \in {"restore", "prompt", "finish_crc"}
      /\ kernel.sleep_mode = 10 => kernel.pc = "ld_wait"
      /\ kernel.sleep_mode = 9 => kernel.pc = "sv_wait"
      /\ kernel.pc \in Suspended => kernel.frozen
      /\ kernel.pc = "sv_kernel" => kernel.op_mode = 0
  BY DEF TypeInv, TypeOK, LoadInv, SafeInv, CrcPending, WaitArmed, CaptureInWait, FrozenWhere,
     Sections
<1>2. \A l : At(l) => kernel.pc = l
  BY DEF At
<1>a. CASE Save
  <2>1. CASE SaveOpen
    BY <2>1, <1>1, <1>2 DEF SaveOpen, Kernel
  <2>2. CASE SaveVolmem
    BY <2>2, <1>1, <1>2 DEF SaveVolmem, VolmemReleased, AbortSave, Aborted, Kernel
  <2>3. CASE SaveFreeze
    BY <2>3, <1>1, <1>2 DEF SaveFreeze, Frozen, AbortSave, Aborted, Kernel
  <2>4. CASE SaveHeader
    BY <2>4, <1>1, <1>2 DEF SaveHeader, Written, WriteShort, Kernel
  <2>5. CASE SaveRam
    BY <2>5, <1>1, <1>2 DEF SaveRam, Written, WriteShort, Kernel
  <2>6. CASE SaveVram
    BY <2>6, <1>1, <1>2 DEF SaveVram, Written, WriteShort, Kernel
  <2>7. CASE SaveContexts
    <3>1. CASE AbortSave
      BY <2>7, <3>1, <1>1, <1>2 DEF SaveContexts, AbortSave, Aborted, Kernel
    <3>2. CASE ~AbortSave
      <4>1. kernel' = [kernel EXCEPT !.pc = "sv_wait", !.op_mode = 0,
                        !.resumed = FALSE, !.sleep_mode = 9, !.sleep_arm = 1]
        BY <2>7, <3>2 DEF SaveContexts
      <4>2. kernel.pc = "sv_contexts" /\ kernel.io_ok
        BY <2>7, <3>2, <1>2 DEF SaveContexts
      <4>3. /\ kernel'.pc = "sv_wait" /\ kernel'.was_load = kernel.was_load
            /\ kernel'.io_ok = kernel.io_ok /\ kernel'.crc_active = kernel.crc_active
        BY <4>1, <1>1 DEF Kernel
      <4>. QED
        BY <4>2, <4>3, <1>1
    <3>. QED
      BY <3>1, <3>2
  <2>. QED
    BY <1>a, <2>1, <2>2, <2>3, <2>4, <2>5, <2>6, <2>7 DEF Save
<1>b. CASE Tail /\ ~SaveTimeout
  <2>1. CASE Resumed
    <3>1. /\ kernel.pc = "sv_wait" /\ ~kernel.was_load /\ kernel.io_ok /\ ~kernel.crc_active
          /\ kernel.frozen
      BY <2>1, <1>1, <1>2 DEF Resumed, Suspended
    <3>2. /\ kernel'.was_load = kernel.was_load /\ kernel'.io_ok = kernel.io_ok
          /\ kernel'.crc_active = kernel.crc_active /\ kernel'.frozen = kernel.frozen
          /\ kernel'.op_mode = kernel.op_mode
      <4>1. \E l \in Points : kernel' = [kernel EXCEPT !.resumed = FALSE, !.pc = l]
        BY <2>1, PointNames DEF Resumed
      <4>. QED
        BY <4>1, <1>1 DEF Kernel
    <3>3. kernel'.pc = "idle" \/ kernel'.pc = IF kernel.op_mode = 0 THEN "sv_kernel" ELSE "restore"
      BY <2>1, <1>1 DEF Resumed, Kernel
    <3>4. kernel.op_mode \in {0, 1}
      BY <1>1 DEF Kernel
    <3>. QED
      BY <3>1, <3>2, <3>3, <3>4
  <2>2. CASE SaveKernel
    <3>1. kernel.pc = "sv_kernel" /\ kernel.op_mode = 0 /\ ~kernel.was_load
      BY <2>2, <1>1, <1>2 DEF SaveKernel
    <3>2. kernel'.pc = "restore" /\ kernel'.op_mode = 0 /\ kernel'.was_load = kernel.was_load
      BY <2>2, <1>1, <3>1 DEF SaveKernel, Kernel
    <3>. QED
      BY <3>1, <3>2
  <2>3. CASE RestoreMemory
    <3>1. kernel.pc = "restore" /\ ~kernel.was_load
      BY <2>3, <1>1, <1>2 DEF RestoreMemory
    <3>2. /\ kernel'.op_mode = 0 /\ kernel'.pc \in {"prompt", "idle"}
          /\ kernel'.io_ok = kernel.io_ok
          /\ kernel'.pc = "idle" => ~kernel'.crc_active /\ kernel'.was_load = kernel.was_load
          /\ kernel'.pc = "prompt" => /\ kernel'.crc_active = kernel.crc_active
                                      /\ kernel'.was_load <=> kernel.op_mode = 1
      BY <2>3, <1>1 DEF RestoreMemory, Kernel
    <3>. QED
      BY <3>1, <3>2, <1>1
  <2>4. CASE StampCrc
    BY <2>4, <1>1, <1>2, Zenon DEF StampCrc, Kernel
  <2>5. CASE PressX \/ SaveClose
    BY <2>5, <1>1, <1>2 DEF PressX, SaveClose, Kernel
  <2>. QED
    BY <1>b, <2>1, <2>2, <2>3, <2>4, <2>5 DEF Tail
<1>c. CASE SaveTimeout
  <2>1. kernel.pc = "sv_wait" /\ BeforeSleep
    BY <1>c DEF SaveTimeout, At, MenuRuns, BeforeSleep, Awake, TypeInv, TypeOK
  <2>2. kernel.op_mode = 0
    BY <2>1 DEF SafeInv, WaitArmed
  <2>. QED
    BY <1>c, <1>1, <2>1, <2>2 DEF SaveTimeout, Aborted, Kernel
<1>d. CASE Load
  <2>1. CASE LoadOpen
    BY <2>1, <1>1, <1>2 DEF LoadOpen, Suspended, Kernel
  <2>2. CASE LoadVolmem
    BY <2>2, <1>1, <1>2 DEF LoadVolmem, VolmemReleased, AbortLoad, Aborted, Suspended, Kernel
  <2>3. CASE LoadFreeze
    BY <2>3, <1>1, <1>2 DEF LoadFreeze, Frozen, AbortLoad, Aborted, Suspended, Kernel
  <2>4. CASE LoadVerify
    BY <2>4, <1>1, <1>2 DEF LoadVerify, AbortLoad, Aborted, Suspended, Kernel
  <2>5. CASE LoadStage
    BY <2>5, <1>1, <1>2 DEF LoadStage, Suspended, Kernel
  <2>6. CASE LoadArm
    BY <2>6, <1>1, <1>2 DEF LoadArm, Suspended, Kernel
  <2>7. CASE LoadTimeout
    BY <2>7, <1>1, <1>2 DEF LoadTimeout, Suspended, Kernel
  <2>. QED
    BY <1>d, <2>1, <2>2, <2>3, <2>4, <2>5, <2>6, <2>7 DEF Load
<1>e. CASE Phase0
  <2>1. CASE kernel.sleep_mode = 10
    <3>1. kernel' = ram.mid
      BY <1>e, <2>1 DEF Phase0
    <3>2. ram.mid \in Snapshot /\ ~ram.mid.crc_active
      BY <2>1, <1>1 DEF SafeInv, Staged, Image
    <3>3. ram.mid.pc = "sv_wait" /\ ram.mid.io_ok /\ ~ram.mid.was_load
      BY <3>2 DEF LoadInv, MemoryWhole, Whole, Snapshot
    <3>. QED
      BY <3>1, <3>2, <3>3
  <2>. QED
    BY <1>e, <1>1, <2>1 DEF Phase0, Kernel
<1>f. CASE Power /\ ~Phase0
  <2>1. CASE PowerSwitch \/ PowerLock \/ Veto
    BY <2>1, <1>1 DEF PowerSwitch, PowerLock, Veto, Kernel
  <2>2. CASE AlarmWake \/ UserWake
    BY <2>2, <1>1 DEF AlarmWake, UserWake, Kernel
  <2>3. CASE ResumeCompleted
    BY <2>3, <1>1 DEF ResumeCompleted, Kernel
  <2>. QED
    BY <1>f, <2>1, <2>2, <2>3 DEF Power
<1>g. CASE User
  <2>1. ASSUME NEW g \in Gens, Play(g) PROVE kernel' = [kernel EXCEPT !.game = g] /\ ~kernel.frozen
    BY <2>1 DEF Play, GameRuns
  <2>2. ASSUME NEW p \in Paths, ChooseSave(p) \/ ChooseLoad(p) \/ ChooseDelete(p)
        PROVE  /\ kernel.pc = "idle" /\ ~kernel.frozen
               /\ kernel' \in {Called(p, "sv_open"), Called(p, "ld_open"), kernel}
    BY <2>2, <1>2 DEF ChooseSave, ChooseLoad, ChooseDelete, BrowserReady
  <2>3. ASSUME NEW g \in Gens, Play(g) PROVE BackInv'
    BY <2>1, <2>3, <1>1 DEF Suspended, Kernel
  <2>4. ASSUME NEW p \in Paths, ChooseSave(p) \/ ChooseLoad(p) \/ ChooseDelete(p) PROVE BackInv'
    BY <2>2, <2>4, <1>1 DEF Called, Suspended, Kernel
  <2>. QED
    BY <1>g, <2>3, <2>4 DEF User
<1>h. CASE Environment
  BY <1>h, <1>1 DEF Environment, PowerLoss, Rot, Booted
<1>i. CASE UNCHANGED vars
  BY <1>i, <1>1 DEF vars
<1>. QED
  BY <1>a, <1>b, <1>c, <1>d, <1>e, <1>f, <1>g, <1>h, <1>i DEF Next

\* From the open of a LOAD to the end of the tail it re-enters no step touches a file.
LEMMA LoadingKeepsFiles ==
  ASSUME ~SlowResume, TypeInv, SafeInv, LoadInv, [Next]_vars, Loading
  PROVE  UNCHANGED files
<1>1. /\ kernel \in Kernel /\ BackInv
      /\ kernel.pc = "sv_kernel" => kernel.op_mode = 0
      /\ BeforeSleep => kernel.op_mode = 0
  BY DEF TypeInv, TypeOK, LoadInv, SafeInv, Sections, WaitArmed
<1>2. \A l : At(l) => kernel.pc = l
  BY DEF At
<1>3. kernel.pc \in LoadPoints \cup TailPoints
  BY DEF Loading
<1>a. CASE Save
  BY <1>a, <1>2, <1>3 DEF Save, SaveOpen, SaveVolmem, SaveFreeze, SaveHeader, SaveRam, SaveVram,
     SaveContexts, VolmemReleased, Frozen, LoadPoints, TailPoints
<1>b. CASE SaveTimeout
  <2>1. kernel.pc = "sv_wait" /\ BeforeSleep
    BY <1>b DEF SaveTimeout, At, MenuRuns, BeforeSleep, Awake, TypeInv, TypeOK
  <2>. QED
    BY <2>1, <1>1 DEF Loading, LoadPoints, BackInv, BackPoints, TailPoints
<1>c. CASE SaveKernel \/ StampCrc \/ SaveClose
  BY <1>c, <1>1, <1>2 DEF SaveKernel, StampCrc, SaveClose, Loading, LoadPoints, BackInv,
     BackPoints, TailPoints
<1>d. CASE Resumed \/ RestoreMemory \/ PressX
  BY <1>d DEF Resumed, RestoreMemory, PressX
<1>e. CASE Load \/ Power
  BY <1>e DEF Load, LoadOpen, LoadVolmem, LoadFreeze, LoadVerify, LoadStage, LoadArm, LoadTimeout,
     VolmemReleased, Frozen, AbortLoad, Power, PowerSwitch, PowerLock, Veto, Phase0, AlarmWake,
     UserWake, ResumeCompleted
<1>f. CASE User \/ Environment
  BY <1>f, <1>2, <1>3 DEF User, Play, ChooseSave, ChooseLoad, ChooseDelete, BrowserReady,
     Environment, PowerLoss, Rot, LoadPoints, TailPoints
<1>g. CASE UNCHANGED vars
  BY <1>g DEF vars
<1>. QED
  BY <1>a, <1>b, <1>c, <1>d, <1>e, <1>f, <1>g DEF Next, Tail

\* A LOAD "must NEVER touch the savegame" (fatsave.c), from FreezeLoad's open to the end of
\* the FreezeSave it wakes up in.
THEOREM LoadsLeaveFiles ==
  ASSUME ~SlowResume
  PROVE  Spec => LoadLeavesFiles
<1>1. (TypeInv /\ SafeInv) /\ LoadInv /\ [Next]_vars => LoadInv'
  BY FilesStep, MemoryStep, BackStep DEF LoadInv
<1>2. (TypeInv /\ SafeInv) /\ LoadInv /\ [Next]_vars => [Loading => UNCHANGED files]_vars
  BY LoadingKeepsFiles
<1>. QED
  BY <1>1, <1>2, LoadInit, Safety, PTL DEF Spec, LoadLeavesFiles
-----------------------------------------------------------------------------
(* SaveLoad implements SaveStates, for any number of slots and game        *)
(* states: every step of the operations, the firmware, the game and the    *)
(* card is a step of the abstract game and its slots, or none.             *)

\* What the abstract variables are (the substitution of Abstract).
Slots == [p \in Paths |-> IF Verifies(files[p]) /\ files[p].addr # Outside
                          THEN files[p].body.ram ELSE Junk]

Pending == IF kernel.crc_active
           THEN [path |-> kernel.path, state |-> TheFile.body.ram] ELSE Junk

\* The slot a LOAD has checked is still there when it overwrites the kernel.
StillThere == kernel.pc \in {"ld_arm", "ld_wait"} =>
                Verifies(TheFile) /\ TheFile.addr # Outside

-----------------------------------------------------------------------------
(* Steps of SaveStates, in terms of the state of SaveLoad. *)

SameGame  == kernel'.frozen = kernel.frozen /\ kernel'.game = kernel.game
SameSlots == Slots' = Slots
SamePend  == Pending' = Pending

Seen == StateSeen = kernel.game

\* The state of the game that shows is the one its threads hold: a running game agrees.
LEMMA GameShows == SafeInv => Seen
BY DEF SafeInv, Intact, Agrees, StateSeen, Seen

LEMMA ShowsStutter ==
  ASSUME Seen, Seen', SameGame, SameSlots, SamePend
  PROVE  UNCHANGED Abstract!svars
BY DEF Abstract!svars, Seen, SameGame, SameSlots, SamePend, Slots, Pending

LEMMA ShowsPlay ==
  ASSUME Seen, Seen', ~kernel.frozen, ~kernel'.frozen, kernel'.game \in Gens, SameSlots, SamePend
  PROVE  Abstract!Play
BY DEF Abstract!Play, Seen, SameSlots, SamePend, Slots, Pending

LEMMA ShowsStop ==
  ASSUME Seen, Seen', ~kernel.frozen, kernel'.frozen, kernel'.game = kernel.game,
         SameSlots, SamePend
  PROVE  Abstract!Stop
BY DEF Abstract!Stop, Seen, SameSlots, SamePend, Slots, Pending

LEMMA ShowsContinue ==
  ASSUME Seen, Seen', kernel.frozen, ~kernel'.frozen, kernel'.game = kernel.game,
         SameSlots, SamePend
  PROVE  Abstract!Continue
BY DEF Abstract!Continue, Seen, SameSlots, SamePend, Slots, Pending

LEMMA ShowsOffer ==
  ASSUME Seen, Seen', kernel.frozen, SameGame, SameSlots, NEW p \in Paths, Slots[p] = Junk,
         Pending' = [path |-> p, state |-> kernel.game]
  PROVE  Abstract!Offer(p)
BY DEF Abstract!Offer, Seen, SameGame, SameSlots, Slots, Pending

LEMMA ShowsCommit ==
  ASSUME Seen, Seen', SameGame, Pending # Junk, Pending' = Junk,
         Slots' = [Slots EXCEPT ![Pending.path] = Pending.state]
  PROVE  Abstract!Commit
BY DEF Abstract!Commit, Seen, SameGame, Slots, Pending

LEMMA ShowsForget ==
  ASSUME Seen, Seen', SameGame, SameSlots, Pending # Junk, Pending' = Junk
  PROVE  Abstract!Forget
BY DEF Abstract!Forget, Seen, SameGame, SameSlots, Slots, Pending

LEMMA ShowsStore ==
  ASSUME Seen, Seen', kernel.frozen, SameGame, SamePend, NEW p \in Paths, Slots[p] = Junk,
         Slots' = [Slots EXCEPT ![p] = kernel.game]
  PROVE  Abstract!Store(p)
BY DEF Abstract!Store, Seen, SameGame, SamePend, Slots, Pending

LEMMA ShowsLose ==
  ASSUME Seen, Seen', SameGame, SamePend,
         NEW p \in Paths, Slots' = [Slots EXCEPT ![p] = Junk]
  PROVE  Abstract!Lose(p)
BY DEF Abstract!Lose, Seen, SameGame, SamePend, Slots, Pending

LEMMA ShowsAbort ==
  ASSUME Seen, Seen', ~kernel'.frozen, kernel'.game = kernel.game, SamePend,
         NEW p \in Paths, Slots' = [Slots EXCEPT ![p] = Junk]
  PROVE  Abstract!Abort(p)
BY DEF Abstract!Abort, Seen, SamePend, Slots, Pending

LEMMA ShowsRecall ==
  ASSUME Seen, Seen', kernel.frozen, kernel'.frozen, SameSlots, SamePend,
         NEW p \in Paths, Slots[p] # Junk, kernel'.game = Slots[p]
  PROVE  Abstract!Recall(p)
BY DEF Abstract!Recall, Seen, SameSlots, SamePend, Slots, Pending

LEMMA ShowsRestart ==
  ASSUME Seen', ~kernel'.frozen, kernel'.game \in Gens, SameSlots, Pending' = Junk
  PROVE  Abstract!Restart
BY DEF Abstract!Restart, Seen, SameSlots, Slots, Pending

-----------------------------------------------------------------------------
(* What a change of a file does to its slot. *)

Offered(f) == IF Verifies(f) /\ f.addr # Outside THEN f.body.ram ELSE Junk

LEMMA SlotIs == \A p \in Paths : Slots[p] = Offered(files[p])
BY DEF Slots, Offered

LEMMA SlotsKept == UNCHANGED files => SameSlots
BY DEF SameSlots, Slots, Verifies

LEMMA SlotSet ==
  ASSUME files \in Files, NEW p \in Paths, NEW f, files' = [files EXCEPT ![p] = f]
  PROVE  Slots' = [Slots EXCEPT ![p] = Offered(f)]
<1>1. \A q \in Paths : files'[q] = IF q = p THEN f ELSE files[q]
  BY DEF Files
<1>2. Slots' = [q \in Paths |-> Offered(files'[q])]
  BY DEF Slots, Offered, Verifies
<1>3. Slots = [q \in Paths |-> Offered(files[q])]
  BY DEF Slots, Offered
<1>. QED
  BY <1>1, <1>2, <1>3

\* A file whose CRC word is blank or stale offers nothing.
LEMMA BlankOffersNothing ==
  \A f : f = NoFile \/ (f \in File /\ f.crc = Zero) => Offered(f) = Junk
BY SentinelsAssumption DEF Offered, Verifies, File

LEMMA NothingPending == ~kernel.crc_active /\ ~kernel'.crc_active => SamePend
BY DEF SamePend, Pending

\* A stopped game is saved into the file: its slot keeps what it has, loses it, or, if the
\* sections complete what an old CRC word stands for, holds the state of the game.
LEMMA FileShows ==
  ASSUME TypeInv, Seen, Seen', SameGame, SamePend, kernel.path \in Paths,
         NEW f, SetFile(f),
         \/ Offered(f) = Junk
         \/ Offered(f) = Offered(TheFile)
         \/ kernel.frozen /\ Offered(f) = kernel.game /\ Offered(TheFile) = Junk
  PROVE  [Abstract!Next]_Abstract!svars
<1>1. Slots' = [Slots EXCEPT ![kernel.path] = Offered(f)]
  BY SlotSet DEF TypeInv, TypeOK, Files, SetFile
<1>2. Slots[kernel.path] = Offered(TheFile)
  BY SlotIs DEF TheFile
<1>3. CASE Offered(f) = Junk
  BY <1>1, <1>3, ShowsLose DEF Abstract!Next
<1>4. CASE Offered(f) = Offered(TheFile)
  <2>1. SameSlots
    BY <1>1, <1>2, <1>4 DEF SameSlots, Slots
  <2>. QED
    BY <2>1, ShowsStutter
<1>5. CASE kernel.frozen /\ Offered(f) = kernel.game /\ Offered(TheFile) = Junk
  BY <1>1, <1>2, <1>5, ShowsStore DEF Abstract!Next
<1>. QED
  BY <1>3, <1>4, <1>5

-----------------------------------------------------------------------------
(* The steps of SaveLoad. *)

LEMMA StillInit == Init => StillThere
BY DEF Init, Booted, StillThere

LEMMA StillStep ==
  ASSUME ~SlowResume, TypeInv, SafeInv, LoadInv, StillThere, [Next]_vars
  PROVE  StillThere'
<1>. SUFFICES ASSUME kernel'.pc \in {"ld_arm", "ld_wait"}
              PROVE  Verifies(TheFile)' /\ (TheFile.addr # Outside)'
  BY DEF StillThere
<1>1. kernel \in Kernel
  BY DEF TypeInv, TypeOK
<1>2. \A l : At(l) => kernel.pc = l
  BY DEF At
<1>3. /\ kernel.pc \in {"ld_arm", "ld_wait"} \/ LoadStage
      /\ kernel'.path = kernel.path
  <2>1. CASE Save
    <3>1. CASE SaveOpen
      BY <3>1, <1>1, <1>2 DEF SaveOpen, Kernel
    <3>2. CASE SaveVolmem
      BY <3>2, <1>1, <1>2 DEF SaveVolmem, VolmemReleased, AbortSave, Aborted, Kernel
    <3>3. CASE SaveFreeze
      BY <3>3, <1>1, <1>2 DEF SaveFreeze, Frozen, AbortSave, Aborted, Kernel
    <3>4. CASE SaveHeader
      BY <3>4, <1>1, <1>2 DEF SaveHeader, Written, WriteShort, Kernel
    <3>5. CASE SaveRam
      BY <3>5, <1>1, <1>2 DEF SaveRam, Written, WriteShort, Kernel
    <3>6. CASE SaveVram
      BY <3>6, <1>1, <1>2 DEF SaveVram, Written, WriteShort, Kernel
    <3>7. CASE SaveContexts
      BY <3>7, <1>1, <1>2 DEF SaveContexts, Written, WriteShort, AbortSave, Aborted, Kernel
    <3>. QED
      BY <2>1, <3>1, <3>2, <3>3, <3>4, <3>5, <3>6, <3>7 DEF Save
  <2>8. CASE Tail
    <3>1. CASE Resumed
      BY <3>1, <1>1, <1>2 DEF Resumed, Kernel
    <3>2. CASE SaveTimeout
      BY <3>2, <1>1, <1>2 DEF SaveTimeout, Aborted, Kernel
    <3>3. CASE SaveKernel
      BY <3>3, <1>1, <1>2 DEF SaveKernel, Kernel
    <3>4. CASE RestoreMemory
      BY <3>4, <1>1, <1>2 DEF RestoreMemory, Kernel
    <3>5. CASE StampCrc
      BY <3>5, <1>1, <1>2 DEF StampCrc, Kernel
    <3>6. CASE PressX
      BY <3>6, <1>1, <1>2 DEF PressX, Kernel
    <3>7. CASE SaveClose
      BY <3>7, <1>1, <1>2 DEF SaveClose, Kernel
    <3>. QED
      BY <2>8, <3>1, <3>2, <3>3, <3>4, <3>5, <3>6, <3>7 DEF Tail
  <2>2. CASE Load
    <3>1. CASE LoadOpen
      BY <3>1, <1>1, <1>2 DEF LoadOpen, Kernel
    <3>2. CASE LoadVolmem
      BY <3>2, <1>1, <1>2 DEF LoadVolmem, VolmemReleased, AbortLoad, Aborted, Kernel
    <3>3. CASE LoadFreeze
      BY <3>3, <1>1, <1>2 DEF LoadFreeze, Frozen, AbortLoad, Aborted, Kernel
    <3>4. CASE LoadVerify
      BY <3>4, <1>1, <1>2 DEF LoadVerify, AbortLoad, Aborted, Kernel
    <3>5. CASE LoadStage
      BY <3>5, <1>1, <1>2 DEF LoadStage, Kernel
    <3>6. CASE LoadArm
      BY <3>6, <1>1, <1>2 DEF LoadArm, Kernel
    <3>7. CASE LoadTimeout
      BY <3>7, <1>1, <1>2 DEF LoadTimeout, Kernel
    <3>. QED
      BY <2>2, <3>1, <3>2, <3>3, <3>4, <3>5, <3>6, <3>7 DEF Load
  <2>3. CASE Phase0
    <3>1. CASE kernel.sleep_mode = 10
      <4>1. kernel' = ram.mid
        BY <2>3, <3>1 DEF Phase0
      <4>2. ram.mid.pc = "sv_wait"
        BY <3>1 DEF SafeInv, WaitArmed, Staged, Image, Snapshot
      <4>. QED
        BY <4>1, <4>2
    <3>. QED
      BY <2>3, <3>1, <1>1 DEF Phase0, Kernel
  <2>4. CASE Power /\ ~Phase0
    BY <2>4, <1>1 DEF Power, PowerSwitch, PowerLock, Veto, AlarmWake, UserWake, ResumeCompleted,
       Kernel
  <2>5. CASE User
    <3>1. CASE \E g \in Gens : Play(g)
      BY <2>5, <3>1, <1>1 DEF Play, Kernel
    <3>2. CASE \E p \in Paths : ChooseSave(p) \/ ChooseLoad(p)
      BY <3>2, <1>1 DEF ChooseSave, ChooseLoad, Called, Kernel
    <3>3. CASE \E p \in Paths : ChooseDelete(p)
      BY <3>3, <1>2 DEF ChooseDelete, BrowserReady
    <3>. QED
      BY <2>5, <3>1, <3>2, <3>3 DEF User
  <2>7. CASE Environment
    BY <2>7, <1>1 DEF Environment, PowerLoss, Rot, Booted
  <2>6. CASE UNCHANGED vars
    BY <2>6 DEF vars
  <2>. QED
    BY <2>1, <2>2, <2>3, <2>4, <2>5, <2>6, <2>7, <2>8 DEF Next
<1>4. kernel.pc \in {"ld_stage", "ld_arm", "ld_wait"}
  BY <1>2, <1>3 DEF LoadStage
<1>5. UNCHANGED files
  BY <1>4, LoadingKeepsFiles DEF Loading, LoadPoints
<1>6. TheFile' = TheFile
  BY <1>3, <1>5 DEF TheFile
<1>7. Verifies(TheFile) /\ TheFile.addr # Outside
  <2>1. CASE LoadStage
    <3>1. kernel.pc = "ld_stage"
      BY <2>1, <1>2 DEF LoadStage
    <3>2. /\ [kernel EXCEPT !.pc = "idle"].pc = "idle"
          /\ [kernel EXCEPT !.pc = "idle", !.op_mode = 1].pc = "idle"
      BY <1>1 DEF Kernel
    <3>3. TheFile.addr # Outside
      BY <2>1, <3>2 DEF LoadStage
    <3>. QED
      BY <3>1, <3>3 DEF SafeInv, Verified
  <2>. QED
    BY <1>3, <2>1 DEF StillThere
<1>. QED
  BY <1>6, <1>7 DEF Verifies

\* Giving up a SAVE loses its slot and lets the game go on; giving up a LOAD loses nothing.
LEMMA AbortSaveShows ==
  ASSUME TypeInv, Seen, Seen', AbortSave, ~kernel.crc_active
  PROVE  Abstract!Next
<1>1. kernel \in Kernel /\ kernel.path \in Paths /\ files \in Files
  BY DEF TypeInv, TypeOK, Files, Kernel
<1>2. ~kernel'.frozen /\ kernel'.game = kernel.game /\ ~kernel'.crc_active
  BY <1>1 DEF AbortSave, Aborted, Kernel
<1>3. Slots' = [Slots EXCEPT ![kernel.path] = Junk]
  <2>1. Offered(NoFile) = Junk
    BY BlankOffersNothing
  <2>2. files' = [files EXCEPT ![kernel.path] = NoFile]
    BY DEF AbortSave, SetFile
  <2>3. Slots' = [Slots EXCEPT ![kernel.path] = Offered(NoFile)]
    BY <1>1, <2>2, SlotSet
  <2>. QED
    BY <2>1, <2>3
<1>. QED
  BY <1>1, <1>2, <1>3, NothingPending, ShowsAbort DEF Abstract!Next

LEMMA AbortLoadShows ==
  ASSUME TypeInv, Seen, Seen', AbortLoad, ~kernel.crc_active
  PROVE  [Abstract!Next]_Abstract!svars
<1>1. kernel \in Kernel
  BY DEF TypeInv, TypeOK
<1>2. kernel'.frozen = FALSE /\ kernel'.game = kernel.game /\ ~kernel'.crc_active
  BY <1>1 DEF AbortLoad, Aborted, Kernel
<1>3. SameSlots /\ SamePend
  BY <1>2, SlotsKept, NothingPending DEF AbortLoad
<1>4. CASE kernel.frozen
  BY <1>2, <1>3, <1>4, ShowsContinue DEF Abstract!Next
<1>5. CASE ~kernel.frozen
  <2>1. SameGame
    BY <1>1, <1>2, <1>5 DEF SameGame, Kernel, TypeInv, TypeOK
  <2>. QED
    BY <1>3, <2>1, ShowsStutter
<1>. QED
  BY <1>4, <1>5

\* Freezing the game for an operation.
LEMMA FreezeShows ==
  ASSUME TypeInv, Seen, Seen', NEW from, NEW to, Frozen(from, to), ~kernel.crc_active,
         ~kernel.frozen
  PROVE  Abstract!Next
<1>1. kernel \in Kernel
  BY DEF TypeInv, TypeOK
<1>2. kernel'.frozen /\ kernel'.game = kernel.game /\ ~kernel'.crc_active
  BY <1>1 DEF Frozen, Kernel
<1>3. SameSlots /\ SamePend
  BY <1>2, SlotsKept, NothingPending DEF Frozen
<1>. QED
  BY <1>2, <1>3, ShowsStop DEF Abstract!Next

\* A step that shows nothing.
LEMMA QuietShows ==
  ASSUME Seen, Seen', SameGame, UNCHANGED files,
         \/ ~kernel.crc_active /\ ~kernel'.crc_active
         \/ kernel'.crc_active = kernel.crc_active /\ kernel'.path = kernel.path
  PROVE  [Abstract!Next]_Abstract!svars
<1>1. SameSlots
  BY SlotsKept
<1>2. SamePend
  BY NothingPending DEF SamePend, Pending, TheFile
<1>. QED
  BY <1>1, <1>2, ShowsStutter

\* The steps of a SAVE up to the wait.
LEMMA SaveShows ==
  ASSUME TypeInv, SafeInv, Seen, Seen', Save
  PROVE  [Abstract!Next]_Abstract!svars
<1>1. kernel \in Kernel /\ kernel.path \in Paths /\ files \in Files
  BY DEF TypeInv, TypeOK, Files, Kernel
<1>2. \A l : At(l) => kernel.pc = l
  BY DEF At
<1>3. /\ kernel.pc \in SavePoints => ~kernel.crc_active
      /\ kernel.pc \in Suspended => kernel.frozen
      /\ kernel.pc \in Running => ~kernel.frozen
  BY DEF SafeInv, CrcPending, FrozenWhere, SavePoints
<1>4. kernel.pc \in FilePoints => TheFile \in File /\ TheFile # NoFile
  BY <1>1 DEF TypeInv, FileIsThere, TheFile, Files
<1>5. TheFile # NoFile /\ TheFile.crc # Zero => Complete(TheFile.crc, kernel.path)
  BY <1>1 DEF SafeInv, Certified, TheFile
<1>a. CASE SaveOpen
  <2>1. SameGame /\ kernel'.crc_active = kernel.crc_active /\ kernel'.path = kernel.path
        /\ kernel.pc = "sv_open"
    BY <1>a, <1>1, <1>2 DEF SaveOpen, SameGame, Kernel
  <2>2. SamePend
    BY <2>1, <1>3, NothingPending DEF SavePoints
  <2>3. CASE UNCHANGED files
    BY <2>1, <2>3, QuietShows
  <2>4. CASE SetFile(EmptyFile)
    <3>1. Offered(EmptyFile) = Junk
      BY DEF Offered, Verifies, EmptyFile
    <3>. QED
      BY <1>1, <2>1, <2>2, <2>4, <3>1, FileShows
  <2>. QED
    BY <1>a, <2>3, <2>4 DEF SaveOpen
<1>b. CASE SaveVolmem
  <2>1. kernel.pc = "sv_volmem" /\ ~kernel.crc_active
    BY <1>b, <1>2, <1>3 DEF SaveVolmem, VolmemReleased, SavePoints
  <2>2. CASE VolmemReleased("sv_volmem", "sv_freeze")
    <3>1. SameGame /\ kernel'.crc_active = kernel.crc_active /\ kernel'.path = kernel.path
      BY <2>2, <1>1 DEF VolmemReleased, SameGame, Kernel
    <3>. QED
      BY <2>2, <3>1, QuietShows DEF VolmemReleased
  <2>. QED
    BY <1>b, <2>1, <2>2, AbortSaveShows DEF SaveVolmem
<1>c. CASE SaveFreeze
  <2>1. kernel.pc = "sv_freeze" /\ ~kernel.crc_active /\ ~kernel.frozen
    BY <1>c, <1>2, <1>3 DEF SaveFreeze, Frozen, SavePoints, Running
  <2>. QED
    BY <1>c, <2>1, FreezeShows, AbortSaveShows DEF SaveFreeze
<1>d. CASE SaveHeader
  <2>. DEFINE F == [TheFile EXCEPT !.hdr = TRUE, !.kpos = FALSE, !.crc = Zero,
                                   !.addr = kernel.base]
  <2>1. kernel.pc = "sv_header" /\ TheFile \in File
    BY <1>d, <1>2, <1>4 DEF SaveHeader, FilePoints
  <2>2. SameGame /\ kernel'.crc_active = kernel.crc_active /\ kernel'.path = kernel.path
    BY <1>d, <1>1 DEF SaveHeader, Written, WriteShort, SameGame, Kernel
  <2>3. SamePend
    BY <2>1, <2>2, <1>3, NothingPending DEF SavePoints
  <2>4. F \in File /\ F.crc = Zero
    BY <1>1, <2>1, FileUpdates DEF File, Body, Kernel
  <2>5. SetFile(F) \/ UNCHANGED files
    BY <1>d DEF SaveHeader
  <2>. HIDE DEF F
  <2>6. CASE SetFile(F)
    BY <1>1, <2>2, <2>3, <2>4, <2>6, BlankOffersNothing, FileShows
  <2>. QED
    BY <2>2, <2>5, <2>6, QuietShows
<1>e. CASE SaveRam
  <2>1. kernel.pc = "sv_ram" /\ TheFile \in File /\ TheFile # NoFile /\ kernel.frozen
    BY <1>e, <1>2, <1>3, <1>4 DEF SaveRam, FilePoints, Suspended
  <2>2. SameGame /\ kernel'.crc_active = kernel.crc_active /\ kernel'.path = kernel.path
    BY <1>e, <1>1 DEF SaveRam, Written, WriteShort, SameGame, Kernel
  <2>3. SamePend
    BY <2>1, <2>2, <1>3, NothingPending DEF SavePoints
  <2>4. PICK c \in {ram.mid, Junk} : SetFile([TheFile EXCEPT !.body.ram = c])
    BY <1>e DEF SaveRam
  <2>. DEFINE F == [TheFile EXCEPT !.body.ram = c]
  <2>5. /\ F.body.ram = c /\ F.crc = TheFile.crc /\ F.addr = TheFile.addr
        /\ F.hdr = TheFile.hdr /\ F.kpos = TheFile.kpos
        /\ TheFile.body.ram = c => F = TheFile
    BY <2>1 DEF File, Body
  <2>6. SetFile(F)
    BY <2>4
  <2>7. c = Junk \/ c = kernel.game
    BY <2>1 DEF SafeInv, Intact, Untouched, Agrees, AllRam
  <2>. HIDE DEF F
  <2>8. Offered(F) = Junk \/ Offered(F) = Offered(TheFile)
          \/ (Offered(F) = kernel.game /\ Offered(TheFile) = Junk)
    <3>1. CASE TheFile.body.ram = c
      BY <2>5, <3>1
    <3>2. CASE TheFile.body.ram # c /\ F.crc = F.body
      BY <2>1, <2>5, <2>7, <3>2 DEF Offered, Verifies
    <3>3. CASE F.crc # F.body
      BY <3>3 DEF Offered, Verifies
    <3>. QED
      BY <3>1, <3>2, <3>3
  <2>. QED
    BY <1>1, <2>1, <2>2, <2>3, <2>6, <2>8, FileShows
<1>f. CASE SaveVram
  <2>1. kernel.pc = "sv_vram" /\ TheFile \in File /\ TheFile # NoFile /\ kernel.frozen
    BY <1>f, <1>2, <1>3, <1>4 DEF SaveVram, FilePoints, Suspended
  <2>2. SameGame /\ kernel'.crc_active = kernel.crc_active /\ kernel'.path = kernel.path
    BY <1>f, <1>1 DEF SaveVram, Written, WriteShort, SameGame, Kernel
  <2>3. SamePend
    BY <2>1, <2>2, <1>3, NothingPending DEF SavePoints
  <2>4. PICK c \in {vram, Junk} : SetFile([TheFile EXCEPT !.body.vram = c])
    BY <1>f DEF SaveVram
  <2>. DEFINE F == [TheFile EXCEPT !.body.vram = c]
  <2>5. /\ F.body.vram = c /\ F.crc = TheFile.crc /\ F.addr = TheFile.addr
        /\ F.body.ram = TheFile.body.ram
        /\ F.hdr = TheFile.hdr /\ F.kpos = TheFile.kpos
        /\ TheFile.body.vram = c => F = TheFile
        /\ F.body \in Body \/ c \notin Cell
    BY <2>1 DEF File, Body
  <2>6. SetFile(F)
    BY <2>4
  <2>7. (c = Junk \/ c = kernel.game) /\ c \in Cell
    BY <2>1, <1>1 DEF SafeInv, Intact, Untouched, Agrees, AllRam, Cell, Kernel
  <2>. HIDE DEF F
  <2>8. Offered(F) = Junk \/ Offered(F) = Offered(TheFile)
          \/ (Offered(F) = kernel.game /\ Offered(TheFile) = Junk)
    <3>1. CASE TheFile.body.vram = c
      BY <2>5, <3>1
    <3>2. CASE TheFile.body.vram # c /\ F.crc = F.body
      <4>1. TheFile.crc # Zero /\ TheFile.crc # TheFile.body
        BY <2>5, <2>7, <3>2, SentinelsAssumption
      <4>2. F.body.ram = F.body.vram /\ F.body.ram \in Gens
        BY <1>5, <2>1, <2>5, <3>2, <4>1 DEF Complete
      <4>3. c = kernel.game
        BY <2>5, <2>7, <4>2, ConstantsAssumption
      <4>. QED
        BY <2>5, <4>1, <4>2, <4>3 DEF Offered, Verifies
    <3>3. CASE F.crc # F.body
      BY <3>3 DEF Offered, Verifies
    <3>. QED
      BY <3>1, <3>2, <3>3
  <2>. QED
    BY <1>1, <2>1, <2>2, <2>3, <2>6, <2>8, FileShows
<1>g. CASE SaveContexts
  <2>1. kernel.pc = "sv_contexts" /\ ~kernel.crc_active
    BY <1>g, <1>2, <1>3 DEF SaveContexts, SavePoints
  <2>2. CASE ~AbortSave
    <3>1. SameGame /\ kernel'.crc_active = kernel.crc_active /\ kernel'.path = kernel.path
          /\ UNCHANGED files
      BY <1>g, <2>2, <1>1 DEF SaveContexts, SameGame, Kernel
    <3>. QED
      BY <3>1, QuietShows
  <2>. QED
    BY <2>1, <2>2, AbortSaveShows
<1>. QED
  BY <1>a, <1>b, <1>c, <1>d, <1>e, <1>f, <1>g DEF Save

\* The tail of a SAVE, and of the LOAD that re-enters it.
LEMMA TailShows ==
  ASSUME ~SlowResume, TypeInv, TypeInv', SafeInv, SafeInv', Seen, Seen', Tail
  PROVE  [Abstract!Next]_Abstract!svars
<1>1. kernel \in Kernel /\ kernel.path \in Paths /\ files \in Files
  BY DEF TypeInv, TypeOK, Files, Kernel
<1>2. \A l : At(l) => kernel.pc = l
  BY DEF At
<1>3. /\ kernel.crc_active => /\ kernel.pc \in {"restore", "prompt", "finish_crc"}
                              /\ TheFile # NoFile /\ TheFile.body.ram \in Gens
                              /\ TheFile.addr \in Bases
      /\ kernel.pc \in Suspended => kernel.frozen
  BY DEF SafeInv, CrcPending, Complete, Image, Snapshot, Kernel, FrozenWhere
<1>4. kernel.pc \in FilePoints => TheFile \in File /\ TheFile # NoFile
  BY <1>1 DEF TypeInv, FileIsThere, TheFile, Files
<1>5. kernel.crc_active => Pending # Junk
  BY <1>1, <1>3, SentinelsAssumption DEF Pending
<1>6. kernel.crc_active = FALSE \/ kernel.crc_active = TRUE
  BY <1>1 DEF Kernel
<1>a. CASE Resumed
  <2>1. kernel.pc = "sv_wait" /\ ~kernel.crc_active
    BY <1>a, <1>2, <1>3 DEF Resumed
  <2>2. SameGame /\ kernel'.crc_active = kernel.crc_active /\ UNCHANGED files
    BY <1>a, <1>1 DEF Resumed, SameGame, Kernel
  <2>. QED
    BY <2>1, <2>2, QuietShows
<1>b. CASE SaveTimeout
  <2>1. kernel.pc = "sv_wait" /\ ~kernel.crc_active
    BY <1>b, <1>2, <1>3 DEF SaveTimeout
  <2>2. ~kernel'.frozen /\ kernel'.game = kernel.game /\ kernel'.crc_active = kernel.crc_active
    BY <1>b, <1>1 DEF SaveTimeout, Aborted, Kernel
  <2>3. files' = [files EXCEPT ![kernel.path] = NoFile]
    BY <1>b DEF SaveTimeout, SetFile
  <2>4. Slots' = [Slots EXCEPT ![kernel.path] = Offered(NoFile)]
    BY <1>1, <2>3, SlotSet
  <2>5. Offered(NoFile) = Junk
    BY BlankOffersNothing
  <2>. QED
    BY <1>1, <2>1, <2>2, <2>4, <2>5, NothingPending, ShowsAbort DEF Abstract!Next
<1>c. CASE SaveKernel
  <2>1. /\ kernel.pc = "sv_kernel" /\ ~kernel.crc_active /\ kernel.frozen
        /\ TheFile \in File /\ TheFile # NoFile
    BY <1>c, <1>2, <1>3, <1>4 DEF SaveKernel, FilePoints, Suspended
  <2>2. SameGame /\ kernel'.path = kernel.path
    BY <1>c, <1>1 DEF SaveKernel, SameGame, Kernel
  <2>3. TheFile.crc = Zero /\ TheFile.body.ram = kernel.game
    BY <2>1 DEF SafeInv, Sections, Saving, HeaderDone, RamWritten
  <2>4. PICK c \in {ram.mid, Junk}, k \in BOOLEAN :
           SetFile([TheFile EXCEPT !.body.kern = c, !.kpos = k])
    BY <1>c DEF SaveKernel
  <2>. DEFINE F == [TheFile EXCEPT !.body.kern = c, !.kpos = k]
  <2>5. F.crc = Zero /\ F.body.ram = kernel.game
    BY <2>1, <2>3 DEF File, Body
  <2>6. F \in File
    <3>1. c \in Cell
      BY DEF TypeInv, TypeOK, Cell
    <3>. QED
      BY <2>1, <3>1, FileUpdates
  <2>7. SetFile(F)
    BY <2>4
  <2>. HIDE DEF F
  <2>8. Offered(F) = Junk /\ Offered(TheFile) = Junk
    BY <2>1, <2>3, <2>5, <2>6, BlankOffersNothing
  <2>9. files' = [files EXCEPT ![kernel.path] = F]
    BY <2>7 DEF SetFile
  <2>10. SameSlots /\ Slots[kernel.path] = Junk
    <3>1. Slots' = [Slots EXCEPT ![kernel.path] = Offered(F)]
      BY <1>1, <2>9, SlotSet
    <3>2. Slots[kernel.path] = Offered(TheFile)
      BY <1>1, SlotIs DEF TheFile
    <3>. QED
      BY <2>8, <3>1, <3>2 DEF SameSlots, Slots
  <2>11. CASE ~kernel'.crc_active
    BY <2>1, <2>2, <2>10, <2>11, NothingPending, ShowsStutter
  <2>12. CASE kernel'.crc_active
    <3>1. TheFile' = F
      BY <1>1, <2>2, <2>9 DEF TheFile, Files
    <3>2. Pending' = [path |-> kernel.path, state |-> kernel.game]
      BY <2>2, <2>5, <2>12, <3>1 DEF Pending
    <3>. QED
      BY <1>1, <2>1, <2>2, <2>10, <3>2, ShowsOffer DEF Abstract!Next
  <2>. QED
    BY <2>11, <2>12
<1>d. CASE RestoreMemory
  <2>1. SameGame /\ kernel'.path = kernel.path /\ UNCHANGED files
        /\ (kernel'.crc_active = kernel.crc_active \/ kernel'.crc_active = FALSE)
    BY <1>d, <1>1 DEF RestoreMemory, SameGame, Kernel
  <2>2. CASE kernel'.crc_active = kernel.crc_active
    BY <2>1, <2>2, QuietShows
  <2>3. CASE kernel'.crc_active = FALSE /\ kernel.crc_active
    <3>1. Pending' = Junk
      BY <2>3 DEF Pending
    <3>. QED
      BY <2>1, <2>3, <3>1, <1>5, SlotsKept, ShowsForget DEF Abstract!Next
  <2>. QED
    BY <1>6, <2>1, <2>2, <2>3
<1>e. CASE StampCrc
  <2>. DEFINE F == [TheFile EXCEPT !.crc = TheFile.body]
  <2>1. /\ kernel.crc_active /\ TheFile \in File /\ TheFile # NoFile
    BY <1>e, <1>2, <1>4 DEF StampCrc, FilePoints
  <2>2. SameGame /\ ~kernel'.crc_active
    BY <1>e, <1>1 DEF StampCrc, SameGame, Kernel
  <2>3. Pending' = Junk
    BY <2>2 DEF Pending
  <2>4. UNCHANGED files \/ SetFile(F)
    BY <1>e DEF StampCrc
  <2>5. /\ F.crc = TheFile.body /\ F.body = TheFile.body /\ F.addr = TheFile.addr
        /\ F.hdr = TheFile.hdr /\ F.kpos = TheFile.kpos
    BY <2>1 DEF File
  <2>6. F \in File
    BY <2>1, FileUpdates
  <2>. HIDE DEF F
  <2>7. CASE UNCHANGED files
    BY <2>1, <2>2, <2>3, <2>7, <1>5, SlotsKept, ShowsForget DEF Abstract!Next
  <2>8. CASE SetFile(F)
    <3>1. Slots' = [Slots EXCEPT ![kernel.path] = Offered(F)]
      BY <1>1, <2>8, SlotSet DEF SetFile
    <3>2. Slots[kernel.path] = Offered(TheFile)
      BY <1>1, SlotIs DEF TheFile
    <3>3. F # NoFile /\ TheFile.addr # Outside
      BY <1>3, <2>1, <2>6, SentinelsAssumption, ConstantsAssumption
    <3>4. CASE TheFile.hdr /\ TheFile.kpos
      <4>1. Offered(F) = TheFile.body.ram
        BY <2>5, <3>3, <3>4 DEF Offered, Verifies
      <4>2. Pending.path = kernel.path /\ Pending.state = TheFile.body.ram
        BY <2>1 DEF Pending
      <4>. QED
        BY <2>1, <2>2, <2>3, <3>1, <4>1, <4>2, <1>5, ShowsCommit DEF Abstract!Next
    <3>5. CASE ~(TheFile.hdr /\ TheFile.kpos)
      <4>1. Offered(F) = Junk /\ Offered(TheFile) = Junk
        BY <2>5, <3>5 DEF Offered, Verifies
      <4>2. SameSlots
        BY <3>1, <3>2, <4>1 DEF SameSlots, Slots
      <4>. QED
        BY <2>1, <2>2, <2>3, <4>2, <1>5, ShowsForget DEF Abstract!Next
    <3>. QED
      BY <3>4, <3>5
  <2>. QED
    BY <2>4, <2>7, <2>8
<1>f. CASE PressX
  <2>1. kernel.frozen /\ ~kernel'.frozen /\ kernel'.game = kernel.game
        /\ kernel'.crc_active = kernel.crc_active /\ kernel'.path = kernel.path
    BY <1>f, <1>1, <1>2, <1>3 DEF PressX, Suspended, Kernel
  <2>2. UNCHANGED files
    BY <1>f DEF PressX
  <2>3. SamePend
    BY <2>1, <2>2 DEF SamePend, Pending, TheFile
  <2>. QED
    BY <2>1, <2>2, <2>3, SlotsKept, ShowsContinue DEF Abstract!Next
<1>g. CASE SaveClose
  <2>1. kernel.pc = "close" /\ ~kernel.crc_active
    BY <1>g, <1>2, <1>3 DEF SaveClose
  <2>2. SameGame /\ kernel'.crc_active = kernel.crc_active
    BY <1>g, <1>1 DEF SaveClose, SameGame, Kernel
  <2>3. CASE UNCHANGED files
    BY <2>1, <2>2, <2>3, QuietShows
  <2>4. CASE SetFile(NoFile)
    <3>1. Offered(NoFile) = Junk
      BY BlankOffersNothing
    <3>. QED
      BY <1>1, <2>1, <2>2, <2>4, <3>1, NothingPending, FileShows
  <2>. QED
    BY <1>g, <2>3, <2>4 DEF SaveClose
<1>. QED
  BY <1>a, <1>b, <1>c, <1>d, <1>e, <1>f, <1>g DEF Tail

\* The steps of a LOAD up to the sleep: its slot is only read.
LEMMA LoadShows ==
  ASSUME TypeInv, SafeInv, Seen, Seen', Load
  PROVE  [Abstract!Next]_Abstract!svars
<1>1. kernel \in Kernel
  BY DEF TypeInv, TypeOK
<1>2. \A l : At(l) => kernel.pc = l
  BY DEF At
<1>3. /\ kernel.pc \in LoadPoints => ~kernel.crc_active
      /\ kernel.pc \in Running => ~kernel.frozen
  BY DEF SafeInv, CrcPending, FrozenWhere, LoadPoints
<1>4. kernel.pc \in LoadPoints
  BY <1>2 DEF Load, LoadOpen, LoadVolmem, LoadFreeze, LoadVerify, LoadStage, LoadArm, LoadTimeout,
     VolmemReleased, Frozen, LoadPoints
<1>5. ~kernel.crc_active
  BY <1>3, <1>4
<1>a. CASE AbortLoad
  BY <1>a, <1>5, AbortLoadShows
<1>b. CASE Frozen("ld_freeze", "ld_verify")
  <2>1. ~kernel.frozen
    BY <1>b, <1>2, <1>3 DEF Frozen, Running
  <2>. QED
    BY <1>b, <1>5, <2>1, FreezeShows
<1>c. CASE ~AbortLoad /\ ~Frozen("ld_freeze", "ld_verify")
  <2>1. SameGame /\ kernel'.crc_active = kernel.crc_active
    <3>1. CASE LoadOpen \/ LoadVolmem \/ LoadFreeze
      BY <1>c, <3>1, <1>1 DEF LoadOpen, LoadVolmem, LoadFreeze, VolmemReleased, SameGame, Kernel
    <3>2. CASE LoadVerify \/ LoadArm \/ LoadTimeout
      BY <1>c, <3>2, <1>1 DEF LoadVerify, LoadArm, LoadTimeout, SameGame, Kernel
    <3>3. CASE LoadStage
      BY <3>3, <1>1 DEF LoadStage, SameGame, Kernel
    <3>. QED
      BY <3>1, <3>2, <3>3 DEF Load
  <2>2. UNCHANGED files
    BY <1>c DEF Load, LoadOpen, LoadVolmem, LoadFreeze, LoadVerify, LoadStage, LoadArm,
       LoadTimeout, VolmemReleased
  <2>. QED
    BY <1>5, <2>1, <2>2, QuietShows
<1>. QED
  BY <1>a, <1>b, <1>c

\* A sleep shows nothing, but where a LOAD overwrites the kernel it recalls the slot.
LEMMA PowerShows ==
  ASSUME TypeInv, SafeInv, StillThere, Seen, Seen', Power
  PROVE  [Abstract!Next]_Abstract!svars
<1>1. kernel \in Kernel /\ kernel.path \in Paths
  BY DEF TypeInv, TypeOK, Kernel
<1>2. UNCHANGED files
  BY DEF Power, PowerSwitch, PowerLock, Veto, Phase0, AlarmWake, UserWake, ResumeCompleted
<1>a. CASE Phase0 /\ kernel.sleep_mode = 10
  <2>1. kernel.pc = "ld_wait"
    BY <1>a DEF SafeInv, WaitArmed
  <2>2. kernel.frozen /\ ~kernel.crc_active
    BY <2>1 DEF SafeInv, FrozenWhere, Suspended, CrcPending
  <2>3. kernel' = ram.mid
    BY <1>a DEF Phase0
  <2>4. Image(ram.mid, kernel.path, TheFile.body.ram)
    BY <2>1 DEF SafeInv, Staged
  <2>5. /\ kernel'.frozen /\ ~kernel'.crc_active /\ kernel'.game = TheFile.body.ram
        /\ kernel'.game \in Gens
    BY <2>3, <2>4 DEF Image, Snapshot, Kernel
  <2>6. Slots[kernel.path] = TheFile.body.ram
    BY <1>1, <2>1, SlotIs DEF StillThere, Offered, TheFile
  <2>7. TheFile.body.ram # Junk
    BY <2>5, ConstantsAssumption
  <2>. QED
    BY <1>1, <1>2, <2>2, <2>5, <2>6, <2>7, SlotsKept, NothingPending, ShowsRecall
       DEF Abstract!Next
<1>b. CASE ~(Phase0 /\ kernel.sleep_mode = 10)
  <2>1. SameGame /\ kernel'.crc_active = kernel.crc_active /\ kernel'.path = kernel.path
    BY <1>b, <1>1 DEF Power, PowerSwitch, PowerLock, Veto, Phase0, AlarmWake, UserWake,
       ResumeCompleted, SameGame, Kernel
  <2>. QED
    BY <1>2, <2>1, QuietShows
<1>. QED
  BY <1>a, <1>b

\* The game plays; the browser starts an operation or removes a slot.
LEMMA UserShows ==
  ASSUME TypeInv, TypeInv', SafeInv, Seen, Seen', User
  PROVE  [Abstract!Next]_Abstract!svars
<1>1. kernel \in Kernel /\ files \in Files
  BY DEF TypeInv, TypeOK, Files
<1>2. kernel.pc = "idle" => ~kernel.crc_active
  BY DEF SafeInv, CrcPending
<1>a. CASE \E g \in Gens : Play(g)
  <2>1. /\ ~kernel.frozen /\ ~kernel'.frozen /\ kernel'.game \in Gens
        /\ kernel'.crc_active = kernel.crc_active /\ kernel'.path = kernel.path
        /\ UNCHANGED files
    BY <1>a, <1>1 DEF Play, GameRuns, Kernel
  <2>2. SamePend
    BY <2>1 DEF SamePend, Pending, TheFile
  <2>. QED
    BY <2>1, <2>2, SlotsKept, ShowsPlay DEF Abstract!Next
<1>b. CASE \E p \in Paths : ChooseSave(p) \/ ChooseLoad(p)
  <2>1. ~kernel.crc_active
    BY <1>b, <1>2 DEF ChooseSave, ChooseLoad, BrowserReady, At
  <2>2. SameGame /\ ~kernel'.crc_active /\ UNCHANGED files
    BY <1>b, <1>1 DEF ChooseSave, ChooseLoad, Called, SameGame, Kernel
  <2>. QED
    BY <2>1, <2>2, QuietShows
<1>c. ASSUME NEW p \in Paths, ChooseDelete(p) PROVE Abstract!Next
  <2>1. SameGame /\ SamePend
    BY <1>c, <1>2, NothingPending DEF ChooseDelete, BrowserReady, At, SameGame
  <2>2. Slots' = [Slots EXCEPT ![p] = Offered(NoFile)]
    BY <1>c, <1>1, SlotSet DEF ChooseDelete
  <2>3. Offered(NoFile) = Junk
    BY BlankOffersNothing
  <2>. QED
    BY <2>1, <2>2, <2>3, ShowsLose DEF Abstract!Next
<1>. QED
  BY <1>a, <1>b, <1>c DEF User

\* Damage on the card, and a new start: what is damaged no longer matches its CRC.
LEMMA EnvironmentShows ==
  ASSUME TypeInv, SafeInv, Seen, Seen', Environment
  PROVE  [Abstract!Next]_Abstract!svars
<1>1. kernel \in Kernel /\ files \in Files
  BY DEF TypeInv, TypeOK, Files
<1>a. CASE PowerLoss
  <2>1. ~kernel'.frozen /\ kernel'.game \in Gens /\ ~kernel'.crc_active
    BY <1>a DEF PowerLoss, Booted
  <2>2. SameSlots /\ Pending' = Junk
    BY <1>a, <2>1, SlotsKept DEF PowerLoss, Pending
  <2>. QED
    BY <2>1, <2>2, ShowsRestart DEF Abstract!Next
<1>b. ASSUME NEW p \in Paths, Rot(p) PROVE [Abstract!Next]_Abstract!svars
  <2>1. files[p] \in File /\ files[p] # NoFile /\ kernel' = kernel /\ kernel.pc = "idle"
    BY <1>b, <1>1 DEF Rot, Files
  <2>2. SameGame /\ SamePend
    BY <2>1, NothingPending DEF SameGame, SafeInv, CrcPending
  <2>3. files[p].crc # Zero => /\ files[p].crc.ram \in Gens
                               /\ files[p].crc.kern \in Kernel
    BY <2>1 DEF SafeInv, Certified, Complete, Image, Snapshot
  <2>4. ASSUME NEW f, files' = [files EXCEPT ![p] = f], Offered(f) = Junk
        PROVE  Abstract!Next
    BY <1>1, <2>2, <2>4, SlotSet, ShowsLose DEF Abstract!Next
  <2>. DEFINE R == [files[p] EXCEPT !.body.ram = Junk]
              K == [files[p] EXCEPT !.body.kern = Junk]
              A == [files[p] EXCEPT !.addr = Outside]
  <2>5. /\ R \in File /\ R.crc = files[p].crc /\ R.body.ram = Junk
        /\ K \in File /\ K.crc = files[p].crc /\ K.body.kern = Junk
        /\ A.addr = Outside
    <3>1. Junk \in Cell
      BY DEF Cell
    <3>. QED
      BY <2>1, <3>1 DEF File, Body
  <2>6. \/ files' = [files EXCEPT ![p] = R]
        \/ files' = [files EXCEPT ![p] = K]
        \/ files' = [files EXCEPT ![p] = A]
    BY <1>b DEF Rot
  <2>. HIDE DEF R, K, A
  <2>7. Offered(A) = Junk
    BY <2>5 DEF Offered
  <2>8. Offered(R) = Junk
    <3>1. R.crc = Zero \/ R.crc # R.body
      BY <2>3, <2>5, ConstantsAssumption
    <3>. QED
      BY <2>5, <3>1, BlankOffersNothing DEF Offered, Verifies
  <2>9. Offered(K) = Junk
    <3>1. K.crc = Zero \/ K.crc # K.body
      BY <2>3, <2>5, SentinelsAssumption
    <3>. QED
      BY <2>5, <3>1, BlankOffersNothing DEF Offered, Verifies
  <2>. QED
    BY <2>4, <2>6, <2>7, <2>8, <2>9
<1>. QED
  BY <1>a, <1>b DEF Environment

-----------------------------------------------------------------------------
\* Every state SaveLoad starts in is one SaveStates starts in.
LEMMA PromiseInit == Init => Abstract!Init
<1>. SUFFICES ASSUME Init PROVE Abstract!Init
  OBVIOUS
<1>1. PICK p \in Paths, b \in Bases, g \in Gens :
         kernel = Booted(p, b, g) /\ ram = AllRam(g) /\ vram = g
  BY DEF Init
<1>2. ~kernel.frozen /\ kernel.game = g /\ ~kernel.crc_active
  BY <1>1 DEF Booted
<1>3. StateSeen \in Gens
  BY <1>1, <1>2 DEF StateSeen
<1>4. Slots = [q \in Paths |-> Junk]
  BY DEF Init, Slots, Verifies
<1>5. Pending = Junk
  BY <1>2 DEF Pending
<1>. QED
  BY <1>2, <1>3, <1>4, <1>5 DEF Abstract!Init, Slots, Pending

LEMMA PromiseStep ==
  ASSUME ~SlowResume, TypeInv, TypeInv', SafeInv, SafeInv', StillThere, [Next]_vars
  PROVE  [Abstract!Next]_Abstract!svars
<1>1. Seen /\ Seen'
  BY GameShows DEF SafeInv, Intact, Agrees, StateSeen, Seen
<1>2. CASE UNCHANGED vars
  BY <1>1, <1>2, QuietShows DEF vars, SameGame
<1>. QED
  BY <1>1, <1>2, SaveShows, TailShows, LoadShows, PowerShows, UserShows, EnvironmentShows DEF Next

\* The operations keep the promise of SaveStates: FreezeSave, FreezeLoad, the sleeps and the
\* kernel overwrite are, to the game and its slots, a save of the state the game was stopped
\* in and a load of the state a slot holds.
THEOREM ImplementsSaveStates ==
  ASSUME ~SlowResume
  PROVE  Spec => KeepsPromise
<1>1. (TypeInv /\ SafeInv) /\ LoadInv /\ StillThere /\ [Next]_vars => LoadInv' /\ StillThere'
  BY FilesStep, MemoryStep, BackStep, StillStep DEF LoadInv
<1>2. (TypeInv /\ SafeInv) /\ (TypeInv /\ SafeInv)' /\ StillThere /\ [Next]_vars
        => [Abstract!Next]_Abstract!svars
  BY PromiseStep
<1>. QED
  BY <1>1, <1>2, LoadInit, StillInit, PromiseInit, Safety, PTL
     DEF Spec, KeepsPromise, Abstract!Spec
=============================================================================
