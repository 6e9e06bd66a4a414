----------------------------- MODULE GameSideProofs ----------------------------
(***************************************************************************)
(* Proofs about the threads of the game's side: the charge gate of the     *)
(* overlay, the video skipper's stubs, the frame limit, the menu thread,   *)
(* the cheats, the pad; at the end, the types of all of them.              *)
(***************************************************************************)
EXTENDS MCGameSide, CheatDbProofs, SequenceTheorems

-----------------------------------------------------------------------------
(* The charge gate: the charger is never left forbidding and follows the     *)
(* threshold, for any thresholds and percentages, whether or not threads can *)
(* be created and whenever the menu thread runs.                             *)

\* What the plugin believes it told the firmware is what the firmware does.
Told == broughtBack \/ (forbidden <=> sent = 1)

\* A thread that has decided to leave has permitted charging.
LeavesPermitted == poller \in {"none", "leave"} => ~forbidden \/ broughtBack

GateInv == forbidden \in BOOLEAN /\ Told /\ LeavesPermitted

LEMMA WantIsBit == Want \in {0, 1}
BY DEF Want

LEMMA InitGate == OverlayInit => GateInv
<1> SUFFICES ASSUME OverlayInit PROVE GateInv
  OBVIOUS
<1>1. sent # 1 /\ forbidden = FALSE
  BY DEF OverlayInit
<1> QED
  BY <1>1, Zenon DEF GateInv, Told, LeavesPermitted

\* No step of the two threads, the page, a save or a load breaks it.
LEMMA GateStep ==
  GateInv /\ [OverlayNext]_overlayVars => GateInv' /\ (NoneForbidden' /\ GateFollows)
<1> SUFFICES ASSUME GateInv, [OverlayNext]_overlayVars
             PROVE  GateInv' /\ (NoneForbidden' /\ GateFollows)
  OBVIOUS
<1> USE DEF GateInv, Told, LeavesPermitted, NoneForbidden, GateFollows
<1>1. CASE PollLooks
  <2>1. CASE Wanted
    BY <1>1, <2>1 DEF PollLooks
  <2>2. CASE ~Wanted /\ sent = 1
    <3>1. forbidden' = FALSE /\ sent' # 1
      BY <1>1, <2>2 DEF PollLooks, LeavePermitting
    <3>2. poller' = "leave" /\ broughtBack' = broughtBack
      BY <1>1, <2>2 DEF PollLooks
    <3> QED
      BY <3>1, <3>2
  <2>3. CASE ~Wanted /\ sent # 1
    <3>1. (forbidden' <=> forbidden) /\ forbidden' \in BOOLEAN /\ sent' = sent
      BY <1>1, <2>3 DEF PollLooks, LeavePermitting
    <3>2. poller' = "leave" /\ (broughtBack' <=> broughtBack)
      BY <1>1, <2>3 DEF PollLooks
    <3>3. ~forbidden \/ broughtBack
      BY <2>3
    <3> QED
      BY <2>3, <3>1, <3>2, <3>3, Zenon
  <2> QED
    BY <2>1, <2>2, <2>3
<1>2. CASE PollLeaves
  BY <1>2 DEF PollLeaves
<1>3. CASE PollReads
  BY <1>3 DEF PollReads
<1>4. CASE PollGates
  <2>1. CASE Want = sent
    BY <1>4, <2>1 DEF PollGates
  <2>2. CASE Want # sent
    <3>1. forbidden' = (Want = 1) /\ sent' = Want
      BY <1>4, <2>2 DEF PollGates
    <3>2. poller' = "sleep" /\ broughtBack' = broughtBack
      BY <1>4 DEF PollGates
    <3> QED
      BY <3>1, <3>2
  <2> QED
    BY <2>1, <2>2
<1>5. CASE PollWakes
  BY <1>5 DEF PollWakes
<1>6. CASE DrawLooks \/ DrawLeaves \/ DrawWaits
  BY <1>6 DEF DrawLooks, DrawLeaves, DrawWaits
<1>7. CASE SetOverlay
  BY <1>7 DEF SetOverlay, EnsurePoll
<1>8. CASE SetThreshold
  BY <1>8 DEF SetThreshold, EnsurePoll
<1>9. CASE Snapshot
  BY <1>9 DEF Snapshot
<1>10. CASE LoadBack
  BY <1>10 DEF LoadBack
<1>11. CASE UNCHANGED overlayVars
  BY <1>11 DEF overlayVars
<1> QED
  BY <1>1, <1>2, <1>3, <1>4, <1>5, <1>6, <1>7, <1>8, <1>9, <1>10, <1>11 DEF OverlayNext

\* The charger does what the poll thread last worked out, and the thread is gone only while
\* charging is permitted (sysstats.c:340-410), until a load brings back what was told before.
THEOREM ChargingFollows == OverlaySpec => ChargerFollows
<1>1. GateInv /\ [OverlayNext]_overlayVars => GateInv'
  BY GateStep
<1>2. GateInv /\ [OverlayNext]_overlayVars => [NoneForbidden' /\ GateFollows]_overlayVars
  BY GateStep
<1> QED
  BY InitGate, <1>1, <1>2, PTL DEF OverlaySpec, ChargerFollows
-----------------------------------------------------------------------------
(* The video skipper: a stub stands only where the skipper's own pointers say *)
(* one is, so that whoever ends it knows what to put back.                    *)

\* The watcher acts on a poll only below the cap.
BelowCap == watcher \in {"fire", "create"} => elapsed < Cap

\* A module is loaded at one place at most, and at one while the hook handles its load.
OnePlace ==
  /\ \A s, t \in Slots : mem[s].owner = mem[t].owner => s = t \/ mem[s].owner = "none"
  /\ hook = "patch" => Loaded("mpeg") # {}

\* The watcher ends with nothing patched; after that only the late hook patches.
DoneDown == watcher = "done" => ~patched /\ (createPatched => "late" \in touched)

\* A stub is where its pointer says, in the library it was saved from, and marked as patched:
\* what both ends of its life, the watcher's and a module's load, take back.
StubWhere(s) ==
  /\ mem[s].words # "alien"
  /\ mem[s].words = "skip" => /\ mem[s].owner = "player" /\ vsaved = "player"
                              /\ statusFn = s /\ patched
  /\ mem[s].words = "fail" => /\ mem[s].owner = "mpeg" /\ csaved = "mpeg"
                              /\ createFn = s /\ createPatched

VideoInv ==
  /\ VideoTypeOK /\ BelowCap /\ OnePlace /\ DoneDown
  /\ "stale" \notin touched => \A s \in Slots : StubWhere(s)

LEMMA NoSlotIsNone == NoSlot \notin Slots
BY DEF Slots, NoSlot

\* Every step keeps the types.
LEMMA VideoTypeStep ==
  ASSUME VideoTypeOK, BelowCap, OnePlace, [VideoNext]_videoVars
  PROVE  VideoTypeOK'
<1> DEFINE Mem == [Slots -> [owner : Owners, words : {"own", "skip", "fail", "alien"}]]
<1>p. \A s \in Slots, o \in Owners, w \in {"own", "skip", "fail", "alien"} :
        /\ [mem EXCEPT ![s] = [owner |-> o, words |-> w]] \in Mem
        /\ [mem EXCEPT ![s].words = w] \in Mem
  BY DEF VideoTypeOK
<1>o. \A s \in Slots : mem[s].owner \in Owners
  BY DEF VideoTypeOK
<1>r. \A s \in Slots, o \in Owners : [mem EXCEPT ![s] = Restored(s, o)] \in Mem
  BY <1>o DEF VideoTypeOK, Restored
<1>e. Empty.owner \in Owners /\ Empty = [owner |-> "none", words |-> "own"]
  BY DEF Empty, Owners
<1>. USE VideoAssumption, NoSlotIsNone DEF VideoTypeOK
<1>1. ASSUME NEW s \in Slots, NEW m \in Modules, LoadModule(s, m)
      PROVE  VideoTypeOK'
  <2>. DEFINE laid == [mem EXCEPT ![s] = [owner |-> m, words |-> "own"]]
  <2>1. laid \in Mem
    BY <1>p DEF Owners
  <2>2. \A t \in Slots, w \in {"own", "alien"} : [laid EXCEPT ![t].words = w] \in Mem
    BY <2>1
  <2>. HIDE DEF laid
  <2>3. mem' \in Mem
    <3>1. CASE m = "other"
      BY <1>1, <2>1, <3>1 DEF LoadModule, laid
    <3>2. CASE m = "player"
      <4>1. \/ mem' = laid
            \/ /\ createFn \in Slots
               /\ mem' = [laid EXCEPT
                              ![createFn].words = IF csaved = "mpeg" THEN "own" ELSE "alien"]
        BY <1>1, <3>2 DEF LoadModule, laid
      <4>2. createFn \in Slots =>
              [laid EXCEPT ![createFn].words = IF csaved = "mpeg" THEN "own" ELSE "alien"] \in Mem
        BY <2>2
      <4>. QED
        BY <2>1, <4>1, <4>2
    <3>3. CASE m = "mpeg"
      BY <1>1, <2>1, <3>3 DEF LoadModule, laid
    <3>. QED
      BY <3>1, <3>2, <3>3 DEF Modules
  <2>4. /\ statusFn' \in Slots \cup {NoSlot} /\ createPatched' \in BOOLEAN
        /\ hook' \in {"idle", "patch"}
        /\ createFn' = createFn /\ csaved' = csaved
    <3>1. CASE m = "other"
      BY <1>1, <3>1 DEF LoadModule, mpeg
    <3>2. CASE m = "player"
      BY <1>1, <3>2 DEF LoadModule
    <3>3. CASE m = "mpeg"
      BY <1>1, <3>3 DEF LoadModule
    <3>. QED
      BY <3>1, <3>2, <3>3 DEF Modules
  <2>. QED
    BY <1>1, <2>3, <2>4 DEF LoadModule, capture
<1>2. ASSUME NEW s \in Slots, UnloadModule(s) PROVE VideoTypeOK'
  BY <1>2, <1>p, <1>e DEF UnloadModule, capture, psmf, mpeg
<1>3. ASSUME NEW s \in Slots \cup {NoSlot}, PatchCreate(s)
      PROVE  mem' \in Mem /\ createPatched' \in BOOLEAN /\ csaved' \in Owners
  <2>1. CASE s = NoSlot \/ createPatched
    BY <1>3, <2>1 DEF PatchCreate
  <2>2. CASE ~(s = NoSlot \/ createPatched)
    <3>1. s \in Slots /\ mem' = [mem EXCEPT ![s].words = "fail"]
          /\ csaved' = mem[s].owner /\ createPatched' = TRUE
      BY <1>3, <2>2 DEF PatchCreate
    <3>. QED
      BY <1>p, <1>o, <3>1
  <2>. QED
    BY <2>1, <2>2
<1>4. CASE ProbePatch
  <2>. DEFINE s == CHOOSE x \in Loaded("mpeg") : TRUE
  <2>1. s \in Slots
    BY <1>4 DEF ProbePatch, OnePlace, Loaded
  <2>. HIDE DEF s
  <2>2. createFn' = s /\ PatchCreate(s)
    BY <1>4 DEF ProbePatch, s
  <2>3. touched' \subseteq {"stale", "late"}
    BY <1>4 DEF ProbePatch
  <2>. QED
    BY <1>3, <1>4, <2>1, <2>2, <2>3 DEF ProbePatch, capture, psmf
<1>5. CASE Hold
  BY <1>5 DEF Hold, psmf, mpeg
<1>6. CASE StartWatcher
  BY <1>6 DEF StartWatcher, psmf, mpeg
<1>7. CASE PollCapture
  <2>1. \A n \in 0 .. Cap : Clipped(n - Reaction) \in 0 .. Cap
    BY DEF Clipped
  <2>2. mode' \in {"capture", "timed"} /\ ms' \in 0 .. Cap /\ watcher' \in {"closing", "fire"}
        /\ window' \in BOOLEAN /\ injecting' \in BOOLEAN
    <3>1. CASE ~heldOnce' /\ elapsed >= Grace
      BY <1>7, <3>1 DEF PollCapture
    <3>2. CASE heldOnce' /\ ~held
      BY <1>7, <2>1, <3>2 DEF PollCapture
    <3>3. CASE ~(~heldOnce' /\ elapsed >= Grace) /\ ~(heldOnce' /\ ~held)
      BY <1>7, <3>3 DEF PollCapture
    <3>. QED
      BY <3>1, <3>2, <3>3
  <2>. QED
    BY <1>7, <2>2 DEF PollCapture, psmf, mpeg
<1>8. CASE PollTimed
  BY <1>8 DEF PollTimed, capture, psmf, mpeg
<1>9. CASE PollCapped
  BY <1>9 DEF PollCapped, capture, psmf, mpeg
<1>10. CASE Fire
  <2>1. elapsed + 1 \in 0 .. Cap
    BY <1>10 DEF Fire, BelowCap
  <2>2. CASE window /\ statusFn # NoSlot /\ ~patched
    <3>1. statusFn \in Slots /\ vsaved' = mem[statusFn].owner /\ patched' = TRUE
          /\ mem' = [mem EXCEPT ![statusFn].words = "skip"]
      BY <1>10, <2>2 DEF Fire
    <3>2. touched' \subseteq {"stale", "late"}
      BY <1>10, <2>2 DEF Fire
    <3>3. /\ NextPoll
          /\ UNCHANGED <<injecting, mode, ms, held, heldOnce, window, statusFn, mpeg, hook>>
      BY <1>10, <2>2 DEF Fire
    <3>. QED
      BY <1>p, <1>o, <2>1, <3>1, <3>2, <3>3 DEF NextPoll, mpeg
  <2>3. CASE window /\ statusFn = NoSlot
    BY <1>10, <2>1, <2>3 DEF Fire, NextPoll, mpeg
  <2>4. CASE ~window \/ (statusFn # NoSlot /\ patched)
    BY <1>10, <2>1, <2>4 DEF Fire, NextPoll, mpeg
  <2>. QED
    BY <2>2, <2>3, <2>4
<1>11. CASE FireCreate
  <2>1. createFn' \in Slots \cup {NoSlot} /\ PatchCreate(createFn')
    BY <1>11 DEF FireCreate, Loaded
  <2>. QED
    BY <1>3, <1>11, <2>1 DEF FireCreate, NextPoll, psmf, BelowCap
<1>12. CASE EndWatcher
  <2>1. mem' \in Mem
    <3>1. \A f \in Slots \cup {NoSlot}, st \in {"skip", "fail"}, o \in Owners,
             n \in {"player", "mpeg"}, b \in BOOLEAN :
             GivenBack(f, st, o, n, b) => mem' \in Mem
      BY <1>r DEF GivenBack
    <3>2. CASE window \/ injecting
      BY <1>12, <3>2 DEF EndWatcher
    <3>3. CASE ~(window \/ injecting) /\ patched
      BY <1>12, <3>1, <3>3 DEF EndWatcher
    <3>4. CASE ~(window \/ injecting) /\ ~patched
      BY <1>12, <3>1, <3>4 DEF EndWatcher
    <3>. QED
      BY <3>2, <3>3, <3>4
  <2>2. /\ {window', injecting', patched', createPatched'} \subseteq BOOLEAN
        /\ watcher' \in {"closing", "done"}
    BY <1>12 DEF EndWatcher
  <2>. QED
    BY <1>12, <2>1, <2>2 DEF EndWatcher, capture
<1>13. CASE UNCHANGED videoVars
  BY <1>13 DEF videoVars, capture, psmf, mpeg
<1>. QED
  BY <1>1, <1>2, <1>4, <1>5, <1>6, <1>7, <1>8, <1>9, <1>10, <1>11, <1>12, <1>13 DEF VideoNext

\* What the guarded write-back leaves of a place: its stub is gone, the rest stays.
LEMMA GivenBackLeaves ==
  ASSUME VideoTypeOK, NEW fn \in Slots \cup {NoSlot}, NEW stub, NEW o, NEW name,
         NEW was \in BOOLEAN,
         GivenBack(fn, stub, o, name, was)
  PROVE  \A s \in Slots :
           /\ mem'[s].owner = mem[s].owner
           /\ \/ mem'[s] = mem[s] /\ ~(fn = s /\ was /\ mem[s].words = stub /\ mem[s].owner = name)
              \/ /\ fn = s /\ was /\ mem[s].words = stub /\ mem[s].owner = name
                 /\ mem'[s].words = IF o = name THEN "own" ELSE "alien"
<1>1. \A s \in Slots : mem[s] = [owner |-> mem[s].owner, words |-> mem[s].words]
  BY DEF VideoTypeOK
<1>2. CASE fn # NoSlot /\ was /\ mem[fn].words = stub /\ mem[fn].owner = name
  <2>1. fn \in Slots /\ mem' = [mem EXCEPT ![fn] = Restored(fn, o)]
    BY <1>2 DEF GivenBack
  <2>2. \A s \in Slots : mem'[s] = IF s = fn THEN Restored(fn, o) ELSE mem[s]
    BY <2>1 DEF VideoTypeOK
  <2>3. Restored(fn, o) = [owner |-> mem[fn].owner, words |-> IF o = name THEN "own" ELSE "alien"]
    <3>1. mem[fn] \in [owner : Owners, words : {"own", "skip", "fail", "alien"}]
      BY <2>1 DEF VideoTypeOK
    <3>. QED
      BY <1>2, <3>1 DEF Restored
  <2>. QED
    BY <1>2, <2>1, <2>2, <2>3
<1>3. CASE ~(fn # NoSlot /\ was /\ mem[fn].words = stub /\ mem[fn].owner = name)
  <2>1. mem' = mem
    BY <1>3 DEF GivenBack
  <2>. QED
    BY <1>3, <2>1, NoSlotIsNone
<1>. QED
  BY <1>2, <1>3

\* What a patch of sceMpegCreate leaves of a place.
LEMMA PatchLeaves ==
  ASSUME VideoTypeOK, NEW fn \in Slots \cup {NoSlot}, PatchCreate(fn)
  PROVE  \/ /\ fn = NoSlot \/ createPatched
            /\ mem' = mem /\ createPatched' = createPatched /\ csaved' = csaved
         \/ /\ fn \in Slots /\ ~createPatched /\ csaved' = mem[fn].owner /\ createPatched'
            /\ \A s \in Slots : /\ mem'[s].owner = mem[s].owner
                                /\ mem'[s].words = IF s = fn THEN "fail" ELSE mem[s].words
<1>1. CASE fn = NoSlot \/ createPatched
  BY <1>1 DEF PatchCreate
<1>2. CASE ~(fn = NoSlot \/ createPatched)
  <2>1. fn \in Slots /\ mem' = [mem EXCEPT ![fn].words = "fail"]
        /\ csaved' = mem[fn].owner /\ createPatched' = TRUE
    BY <1>2 DEF PatchCreate
  <2>2. \A s \in Slots : /\ mem'[s].owner = mem[s].owner
                         /\ mem'[s].words = IF s = fn THEN "fail" ELSE mem[s].words
    BY <2>1 DEF VideoTypeOK
  <2>. QED
    BY <1>2, <2>1, <2>2
<1>. QED
  BY <1>1, <1>2

\* The places themselves: below the cap, and one place for a module.
LEMMA VideoPlaceStep ==
  ASSUME VideoTypeOK, BelowCap, OnePlace, [VideoNext]_videoVars
  PROVE  BelowCap' /\ OnePlace'
<1>. USE NoSlotIsNone DEF BelowCap, OnePlace, Loaded
<1>1. ASSUME NEW s \in Slots, NEW m \in Modules, LoadModule(s, m)
      PROVE  BelowCap' /\ OnePlace'
  <2>1. \A t \in Slots : mem'[t].owner = IF t = s THEN m ELSE mem[t].owner
    <3>. DEFINE laid == [mem EXCEPT ![s] = [owner |-> m, words |-> "own"]]
    <3>1. \A t \in Slots : laid[t].owner = IF t = s THEN m ELSE mem[t].owner
      BY DEF VideoTypeOK
    <3>2. \A c, t \in Slots :
            [laid EXCEPT ![c].words = IF csaved = "mpeg" THEN "own" ELSE "alien"][t].owner
              = laid[t].owner
      BY DEF VideoTypeOK
    <3>3. \/ mem' = laid
          \/ /\ createFn \in Slots
             /\ mem' = [laid EXCEPT
                              ![createFn].words = IF csaved = "mpeg" THEN "own" ELSE "alien"]
      <4>1. CASE m = "player"
        BY <1>1, <4>1 DEF LoadModule, laid, VideoTypeOK
      <4>2. CASE m = "other"
        BY <1>1, <4>2 DEF LoadModule, laid
      <4>3. CASE m = "mpeg"
        BY <1>1, <4>3 DEF LoadModule, laid
      <4>. QED
        BY <4>1, <4>2, <4>3 DEF Modules
    <3>4. CASE mem' = laid
      BY <3>1, <3>4
    <3>5. CASE /\ createFn \in Slots
               /\ mem' = [laid EXCEPT
                              ![createFn].words = IF csaved = "mpeg" THEN "own" ELSE "alien"]
      <4>. HIDE DEF laid
      <4>1. \A t \in Slots : mem'[t].owner = laid[t].owner
        BY <3>2, <3>5
      <4>. QED
        BY <3>1, <4>1
    <3>. QED
      BY <3>3, <3>4, <3>5
  <2>2. mem[s].owner = "none" /\ \A t \in Slots : mem[t].owner # m
    BY <1>1 DEF LoadModule
  <2>3. hook = "idle" /\ (hook' = "patch" => m = "mpeg")
    BY <1>1 DEF LoadModule, Modules
  <2>4. watcher' = watcher /\ elapsed' = elapsed
    BY <1>1 DEF LoadModule, capture
  <2>. QED
    BY <2>1, <2>2, <2>3, <2>4
<1>2. ASSUME NEW s \in Slots, UnloadModule(s) PROVE BelowCap' /\ OnePlace'
  <2>1. \A t \in Slots : mem'[t].owner = IF t = s THEN "none" ELSE mem[t].owner
    BY <1>2 DEF UnloadModule, Empty, VideoTypeOK
  <2>2. hook' = "idle" /\ watcher' = watcher /\ elapsed' = elapsed
    BY <1>2 DEF UnloadModule, capture
  <2>. QED
    BY <2>1, <2>2
<1>3. CASE ProbePatch
  <2>. DEFINE s == CHOOSE x \in Loaded("mpeg") : TRUE
  <2>1. s \in Slots
    BY <1>3 DEF ProbePatch
  <2>. HIDE DEF s
  <2>2. PatchCreate(s) /\ hook' = "idle" /\ UNCHANGED capture /\ UNCHANGED watcher
    BY <1>3 DEF ProbePatch, s
  <2>3. \A t \in Slots : mem'[t].owner = mem[t].owner
    BY <2>1, <2>2, PatchLeaves
  <2>. QED
    BY <2>2, <2>3 DEF capture
<1>4. CASE Hold
  BY <1>4 DEF Hold
<1>5. CASE StartWatcher
  BY <1>5 DEF StartWatcher
<1>6. CASE PollCapture
  BY <1>6 DEF PollCapture
<1>7. CASE PollTimed
  BY <1>7 DEF PollTimed, capture
<1>8. CASE PollCapped
  BY <1>8 DEF PollCapped, capture
<1>9. CASE Fire
  <2>1. hook' = hook /\ \A t \in Slots : mem'[t].owner = mem[t].owner
    BY <1>9 DEF Fire, VideoTypeOK
  <2>2. watcher' \in {"poll", "create"} /\ (watcher' = "create" => elapsed' = elapsed)
    BY <1>9 DEF Fire, NextPoll
  <2>. QED
    BY <1>9, <2>1, <2>2 DEF Fire
<1>10. CASE FireCreate
  <2>1. /\ createFn' \in Slots \cup {NoSlot} /\ PatchCreate(createFn')
        /\ hook' = hook /\ watcher' = "poll"
    BY <1>10 DEF FireCreate, NextPoll
  <2>2. \A t \in Slots : mem'[t].owner = mem[t].owner
    BY <2>1, PatchLeaves
  <2>. QED
    BY <2>1, <2>2
<1>11. CASE EndWatcher
  <2>1. \A t \in Slots : mem'[t].owner = mem[t].owner
    <3>1. CASE window \/ injecting
      BY <1>11, <3>1 DEF EndWatcher
    <3>2. CASE ~(window \/ injecting) /\ patched
      <4>1. GivenBack(statusFn, "skip", vsaved, "player", patched)
        BY <1>11, <3>2 DEF EndWatcher
      <4>. QED
        BY <4>1, GivenBackLeaves DEF VideoTypeOK
    <3>3. CASE ~(window \/ injecting) /\ ~patched
      <4>1. GivenBack(createFn, "fail", csaved, "mpeg", createPatched)
        BY <1>11, <3>3 DEF EndWatcher
      <4>. QED
        BY <4>1, GivenBackLeaves DEF VideoTypeOK
    <3>. QED
      BY <3>1, <3>2, <3>3
  <2>2. hook' = hook /\ watcher' \in {"closing", "done"}
    BY <1>11 DEF EndWatcher
  <2>. QED
    BY <2>1, <2>2
<1>12. CASE UNCHANGED videoVars
  BY <1>12 DEF videoVars, capture, psmf, mpeg
<1>. QED
  BY <1>1, <1>2, <1>3, <1>4, <1>5, <1>6, <1>7, <1>8, <1>9, <1>10, <1>11, <1>12 DEF VideoNext

\* A place's stub stays where its pointer says.
LEMMA VideoStubStep ==
  ASSUME VideoInv, [VideoNext]_videoVars, "stale" \notin touched'
  PROVE  \A s \in Slots : StubWhere(s)'
<1>. USE NoSlotIsNone DEF VideoInv, StubWhere
<1>s. \A s \in Slots : StubWhere(s)
  BY DEF VideoNext, LoadModule, ProbePatch, UnloadModule, Hold, StartWatcher, PollCapture,
         PollTimed,
     PollCapped, Fire, FireCreate, EndWatcher, videoVars
<1>t. \A s \in Slots : mem[s] \in [owner : Owners, words : {"own", "skip", "fail", "alien"}]
  BY DEF VideoTypeOK
<1>1. ASSUME NEW s \in Slots, NEW m \in Modules, LoadModule(s, m)
      PROVE  \A t \in Slots : StubWhere(t)'
  <2>. DEFINE laid == [mem EXCEPT ![s] = [owner |-> m, words |-> "own"]]
  <2>0. laid \in [Slots -> [owner : Owners, words : {"own", "skip", "fail", "alien"}]]
    BY DEF VideoTypeOK, Owners
  <2>1. \A t \in Slots : laid[t] = IF t = s THEN [owner |-> m, words |-> "own"] ELSE mem[t]
    BY DEF VideoTypeOK
  <2>. HIDE DEF laid
  <2>2. vsaved' = vsaved /\ patched' = patched /\ createFn' = createFn /\ csaved' = csaved
    BY <1>1 DEF LoadModule, mpeg, Modules
  <2>3. \A t \in Slots : mem[t].owner # m
    BY <1>1 DEF LoadModule, Loaded
  <2>4. CASE m = "other"
    <3>1. mem' = laid /\ statusFn' = statusFn /\ createPatched' = createPatched
      BY <1>1, <2>4 DEF LoadModule, mpeg, laid
    <3>. QED
      BY <1>s, <2>1, <2>2, <3>1
  <2>5. CASE m = "mpeg"
    <3>1. mem' = laid /\ statusFn' = statusFn
      BY <1>1, <2>5 DEF LoadModule, laid
    <3>. QED
      BY <1>s, <2>1, <2>2, <2>3, <2>5, <3>1
  <2>6. CASE m = "player"
    <3>1. statusFn' = s
      BY <1>1, <2>6 DEF LoadModule
    <3>2. \A t \in Slots : \/ mem'[t] = laid[t] /\ laid[t].words # "fail"
                           \/ t # s /\ mem'[t].words = "own"
      <4>1. CASE createFn # NoSlot /\ createPatched /\ laid[createFn].words = "fail"
                 /\ laid[createFn].owner = "mpeg"
        <5>1. createFn \in Slots /\ createFn # s
          BY <2>1, <4>1 DEF VideoTypeOK
        <5>2. csaved = "mpeg"
          BY <1>s, <2>1, <4>1, <5>1
        <5>3. mem' = [laid EXCEPT ![createFn].words = "own"]
          BY <1>1, <2>6, <4>1, <5>2 DEF LoadModule, laid
        <5>4. \A t \in Slots : t # createFn => mem'[t] = laid[t] /\ laid[t].words # "fail"
          <6>1. \A t \in Slots : t # createFn => mem'[t] = laid[t]
            BY <2>0, <5>3
          <6>2. \A t \in Slots : t # createFn => laid[t].words # "fail"
            BY <1>s, <2>1
          <6>. QED
            BY <6>1, <6>2
        <5>5. mem'[createFn].words = "own"
          BY <2>0, <5>1, <5>3
        <5>. QED
          BY <5>1, <5>4, <5>5
      <4>2. CASE ~(createFn # NoSlot /\ createPatched /\ laid[createFn].words = "fail"
                   /\ laid[createFn].owner = "mpeg")
        <5>1. mem' = laid
          BY <1>1, <2>6, <4>2 DEF LoadModule, laid
        <5>2. \A t \in Slots : laid[t].words = "fail" => t # s /\ laid[t] = mem[t]
          BY <2>1
        <5>3. \A t \in Slots :
                mem[t].words = "fail" => createFn = t /\ createPatched /\ mem[t].owner = "mpeg"
          BY <1>s
        <5>4. \A t \in Slots : laid[t].words # "fail"
          BY <4>2, <5>2, <5>3
        <5>. QED
          BY <5>1, <5>4
      <4>. QED
        BY <4>1, <4>2
    <3>3. ASSUME NEW t \in Slots PROVE StubWhere(t)'
      <4>1. CASE t = s
        BY <2>1, <3>2, <4>1
      <4>2. CASE t # s /\ mem'[t].words = "own"
        BY <4>2
      <4>3. CASE t # s /\ mem'[t] = mem[t] /\ mem[t].words # "fail"
        BY <1>s, <2>2, <2>3, <2>6, <4>3
      <4>. QED
        BY <2>1, <3>2, <4>1, <4>2, <4>3
    <3>. QED
      BY <3>3
  <2>. QED
    BY <2>4, <2>5, <2>6 DEF Modules
<1>2. ASSUME NEW s \in Slots, UnloadModule(s) PROVE \A t \in Slots : StubWhere(t)'
  <2>1. \A t \in Slots : mem'[t] = IF t = s THEN [owner |-> "none", words |-> "own"] ELSE mem[t]
    BY <1>2 DEF UnloadModule, Empty, VideoTypeOK
  <2>2. UNCHANGED <<vsaved, statusFn, patched, csaved, createFn, createPatched>>
    BY <1>2 DEF UnloadModule, psmf, mpeg
  <2>. QED
    BY <1>s, <2>1, <2>2
<1>3. ASSUME NEW fn \in Slots \cup {NoSlot}, PatchCreate(fn), createFn' = fn, UNCHANGED psmf,
             fn # NoSlot => mem[fn].owner = "mpeg",
             fn = NoSlot => Loaded("mpeg") = {}
      PROVE  \A t \in Slots : StubWhere(t)'
  <2>1. CASE fn = NoSlot \/ createPatched
    <3>1. mem' = mem /\ createPatched' = createPatched /\ csaved' = csaved
      BY <1>3, <2>1, PatchLeaves
    <3>2. \A t \in Slots : mem[t].words = "fail" => fn = t
      BY <1>s, <1>3 DEF OnePlace, Loaded
    <3>. QED
      BY <1>s, <1>3, <3>1, <3>2 DEF psmf
  <2>2. CASE ~(fn = NoSlot \/ createPatched)
    <3>1. /\ fn \in Slots /\ csaved' = mem[fn].owner /\ createPatched'
          /\ \A s \in Slots : /\ mem'[s].owner = mem[s].owner
                              /\ mem'[s].words = IF s = fn THEN "fail" ELSE mem[s].words
      BY <1>3, <2>2, PatchLeaves
    <3>2. \A t \in Slots : mem[t].words # "fail"
      BY <1>s, <2>2
    <3>. QED
      BY <1>s, <1>3, <3>1, <3>2 DEF psmf
  <2>. QED
    BY <2>1, <2>2
<1>4. CASE ProbePatch
  <2>. DEFINE s == CHOOSE x \in Loaded("mpeg") : TRUE
  <2>1. s \in Slots /\ mem[s].owner = "mpeg"
    BY <1>4 DEF ProbePatch, OnePlace, Loaded
  <2>. HIDE DEF s
  <2>2. createFn' = s /\ PatchCreate(s) /\ UNCHANGED psmf
    BY <1>4 DEF ProbePatch, s
  <2>. QED
    BY <1>3, <2>1, <2>2
<1>5. CASE Hold
  BY <1>s, <1>5 DEF Hold, psmf, mpeg
<1>6. CASE StartWatcher
  BY <1>s, <1>6 DEF StartWatcher, psmf, mpeg
<1>7. CASE PollCapture
  BY <1>s, <1>7 DEF PollCapture, psmf, mpeg
<1>8. CASE PollTimed
  BY <1>s, <1>8 DEF PollTimed, psmf, mpeg
<1>9. CASE PollCapped
  BY <1>s, <1>9 DEF PollCapped, psmf, mpeg
<1>10. CASE Fire
  <2>1. UNCHANGED <<statusFn, csaved, createFn, createPatched>>
    BY <1>10 DEF Fire, mpeg
  <2>2. CASE window /\ statusFn # NoSlot /\ ~patched
    <3>1. statusFn \in Slots /\ vsaved' = mem[statusFn].owner /\ patched' = TRUE
          /\ mem' = [mem EXCEPT ![statusFn].words = "skip"]
          /\ mem[statusFn].owner = "player"
      BY <1>10, <2>2 DEF Fire, VideoTypeOK
    <3>2. \A t \in Slots : /\ mem'[t].owner = mem[t].owner
                           /\ mem'[t].words = IF t = statusFn THEN "skip" ELSE mem[t].words
      BY <3>1 DEF VideoTypeOK
    <3>. QED
      BY <1>s, <2>1, <2>2, <3>1, <3>2
  <2>3. CASE ~(window /\ statusFn # NoSlot /\ ~patched)
    <3>1. mem' = mem /\ patched' = patched /\ vsaved' = vsaved
      BY <1>10, <2>3 DEF Fire
    <3>. QED
      BY <1>s, <2>1, <3>1
  <2>. QED
    BY <2>2, <2>3
<1>11. CASE FireCreate
  <2>1. createFn' \in Slots \cup {NoSlot} /\ PatchCreate(createFn') /\ UNCHANGED psmf
    BY <1>11 DEF FireCreate, Loaded
  <2>2. /\ createFn' # NoSlot => mem[createFn'].owner = "mpeg"
        /\ createFn' = NoSlot => Loaded("mpeg") = {}
    BY <1>11 DEF FireCreate, Loaded
  <2>. QED
    BY <1>3, <2>1, <2>2
<1>12. CASE EndWatcher
  <2>1. UNCHANGED <<statusFn, vsaved, createFn, csaved>>
    BY <1>12 DEF EndWatcher
  <2>2. CASE window \/ injecting
    <3>1. UNCHANGED <<mem, patched, createPatched>>
      BY <1>12, <2>2 DEF EndWatcher
    <3>. QED
      BY <1>s, <2>1, <3>1
  <2>3. CASE ~(window \/ injecting) /\ patched
    <3>1. GivenBack(statusFn, "skip", vsaved, "player", patched) /\ createPatched' = createPatched
      BY <1>12, <2>3 DEF EndWatcher
    <3>0. statusFn \in Slots \cup {NoSlot} /\ patched \in BOOLEAN
      BY DEF VideoTypeOK
    <3>2. \A s \in Slots :
            /\ mem'[s].owner = mem[s].owner
            /\ \/ mem'[s] = mem[s]
                  /\ ~(statusFn = s /\ patched /\ mem[s].words = "skip" /\ mem[s].owner = "player")
               \/ /\ mem[s].words = "skip"
                  /\ mem'[s].words = IF vsaved = "player" THEN "own" ELSE "alien"
      BY <3>0, <3>1, GivenBackLeaves
    <3>. QED
      BY <1>s, <2>1, <2>3, <3>1, <3>2
  <2>4. CASE ~(window \/ injecting) /\ ~patched
    <3>1. GivenBack(createFn, "fail", csaved, "mpeg", createPatched) /\ patched' = patched
      BY <1>12, <2>4 DEF EndWatcher
    <3>2. \A s \in Slots :
            /\ mem'[s].owner = mem[s].owner
            /\ \/ mem'[s] = mem[s]
                  /\ ~(/\ createFn = s /\ createPatched
                       /\ mem[s].words = "fail" /\ mem[s].owner = "mpeg")
               \/ /\ mem[s].words = "fail"
                  /\ mem'[s].words = IF csaved = "mpeg" THEN "own" ELSE "alien"
      BY <3>1, GivenBackLeaves DEF VideoTypeOK
    <3>. QED
      BY <1>s, <2>1, <3>1, <3>2
  <2>. QED
    BY <2>2, <2>3, <2>4
<1>13. CASE UNCHANGED videoVars
  BY <1>s, <1>13 DEF videoVars, psmf, mpeg
<1>. QED
  BY <1>1, <1>2, <1>4, <1>5, <1>6, <1>7, <1>8, <1>9, <1>10, <1>11, <1>12, <1>13 DEF VideoNext

\* The watcher's end is final, but for the late hook.
LEMMA VideoDoneStep == VideoInv /\ [VideoNext]_videoVars => DoneDown'
<1>. SUFFICES ASSUME VideoInv, [VideoNext]_videoVars PROVE DoneDown'
  OBVIOUS
<1>. USE DEF VideoInv, DoneDown
<1>1. ASSUME NEW s \in Slots, NEW m \in Modules, LoadModule(s, m) PROVE DoneDown'
  <2>1. createPatched' => createPatched
    BY <1>1 DEF LoadModule, Modules, mpeg
  <2>. QED
    BY <1>1, <2>1 DEF LoadModule
<1>2. ASSUME NEW s \in Slots, UnloadModule(s) PROVE DoneDown'
  BY <1>2 DEF UnloadModule, psmf, mpeg
<1>3. CASE ProbePatch
  BY <1>3 DEF ProbePatch, psmf, Alive
<1>4. CASE Hold
  BY <1>4 DEF Hold, psmf, mpeg
<1>5. CASE StartWatcher
  BY <1>5 DEF StartWatcher
<1>6. CASE PollCapture
  BY <1>6 DEF PollCapture
<1>7. CASE PollTimed
  BY <1>7 DEF PollTimed
<1>8. CASE PollCapped
  BY <1>8 DEF PollCapped
<1>9. CASE Fire
  BY <1>9 DEF Fire, NextPoll
<1>10. CASE FireCreate
  BY <1>10 DEF FireCreate, NextPoll
<1>11. CASE EndWatcher
  BY <1>11 DEF EndWatcher
<1>12. CASE UNCHANGED videoVars
  BY <1>12 DEF videoVars, psmf, mpeg
<1>. QED
  BY <1>1, <1>2, <1>3, <1>4, <1>5, <1>6, <1>7, <1>8, <1>9, <1>10, <1>11, <1>12 DEF VideoNext

\* No stub is in place before the game loads one.
LEMMA VideoBegins == VideoInit => VideoInv
<1>. SUFFICES ASSUME VideoInit PROVE VideoInv
  OBVIOUS
<1>1. \A s \in Slots : mem[s].owner = "none" /\ mem[s].words = "own"
  BY DEF VideoInit, Empty
<1>2. mem \in [Slots -> [owner : Owners, words : {"own", "skip", "fail", "alien"}]]
  BY DEF VideoInit, Empty, Owners
<1>3. ms \in 0 .. Cap
  BY VideoAssumption DEF VideoInit
<1>4. VideoTypeOK
  <2>1. mode \in {"capture", "timed"} /\ elapsed \in 0 .. Cap /\ watcher = "none" /\ hook = "idle"
    BY VideoAssumption DEF VideoInit
  <2>2. {held, heldOnce, window, injecting, patched, createPatched} \subseteq BOOLEAN
    BY DEF VideoInit
  <2>3. /\ statusFn = NoSlot /\ createFn = NoSlot /\ vsaved = "none" /\ csaved = "none"
        /\ touched = {}
    BY DEF VideoInit
  <2>. QED
    BY <1>2, <1>3, <2>1, <2>2, <2>3, Zenon DEF VideoTypeOK, Owners
<1>5. BelowCap /\ OnePlace /\ DoneDown /\ \A s \in Slots : StubWhere(s)
  BY <1>1 DEF VideoInit, BelowCap, OnePlace, DoneDown, StubWhere
<1>. QED
  BY <1>4, <1>5 DEF VideoInv

LEMMA VideoStep == VideoInv /\ [VideoNext]_videoVars => VideoInv'
BY VideoTypeStep, VideoPlaceStep, VideoStubStep, VideoDoneStep DEF VideoInv

\* Across loads and unloads the stubs are taken back where they were put, and only there
\* (videoskip.c:205, 415), for any cap, reaction and grace.
THEOREM StubsStayOwn == VideoSpec => []StubsAreOwn
<1>1. VideoInv => StubsAreOwn
  BY DEF VideoInv, VideoTypeOK, StubsAreOwn, NoStubLeft, OthersIntact, StubWhere, DoneDown
<1>. QED
  BY <1>1, VideoBegins, VideoStep, PTL DEF VideoSpec

-----------------------------------------------------------------------------
(* The frame limit: arithmetic with a counter that wraps, then the pacing.   *)

\* Division with a positive divisor, as the provers need it spelt out.
LEMMA Divides ==
  ASSUME NEW w \in Nat \ {0}, NEW n \in Int
  PROVE  \E d \in Int, s \in 0 .. w - 1 : n = s + w * d /\ n % w = s
<1>1. n % w = n - w * (n \div w)
  OBVIOUS
<1>2. n \div w \in Int /\ n % w \in 0 .. w - 1
  OBVIOUS
<1>3. w * (n \div w) \in Int
  BY <1>2
<1>4. n = (n % w) + w * (n \div w)
  BY <1>1, <1>2, <1>3
<1>. HIDE <1>1
<1>. WITNESS n \div w \in Int, n % w \in 0 .. w - 1
<1>. QED
  BY <1>4

\* Two multiples are a divisor apart at least, or the same.
LEMMA MultiplesApart ==
  ASSUME NEW w \in Nat \ {0}, NEW q \in Int, NEW d \in Int
  PROVE  /\ w * q \in Int /\ w * d \in Int /\ w * q + w * d = w * (q + d)
         /\ q > d => w * q >= w * d + w
         /\ q < d => w * q <= w * d - w
<1>1. w * q \in Int /\ w * d \in Int /\ w * (q - d) \in Int /\ w * (q - d) = w * q - w * d
      /\ w * q + w * d = w * (q + d)
  OBVIOUS
<1>2. q - d >= 1 => w * (q - d) >= w
  OBVIOUS
<1>3. q - d <= -1 => w * (q - d) <= -w
  OBVIOUS
<1>. QED
  BY <1>1, <1>2, <1>3

LEMMA RestIsUnique ==
  ASSUME NEW w \in Nat \ {0}, NEW q \in Int, NEW r \in 0 .. w - 1, NEW n \in Int, n = r + w * q
  PROVE  n % w = r
<1>1. PICK d \in Int, s \in 0 .. w - 1 : n = s + w * d /\ n % w = s
  BY Divides
<1>2. /\ w * q \in Int /\ w * d \in Int
      /\ q > d => w * q >= w * d + w
      /\ q < d => w * q <= w * d - w
  BY <1>1, MultiplesApart
<1>3. q = d
  BY <1>1, <1>2
<1>. QED
  BY <1>1, <1>2, <1>3

\* What a wrapping counter shows to have passed is no more than what has.
LEMMA ElapsedAtMost ==
  ASSUME NEW w \in Nat \ {0}, NEW a \in Nat, NEW t \in Nat, a <= t
  PROVE  ((t % w) - (a % w)) % w \in 0 .. t - a
<1>0. a \in Int /\ t \in Int
  OBVIOUS
<1>1. PICK qt \in Int, rt \in 0 .. w - 1 : t = rt + w * qt /\ t % w = rt
  BY <1>0, Divides
<1>2. PICK qa \in Int, ra \in 0 .. w - 1 : a = ra + w * qa /\ a % w = ra
  BY <1>0, Divides
<1>3. /\ w * qt \in Int /\ w * qa \in Int
      /\ qt > qa => w * qt >= w * qa + w
      /\ qt < qa => w * qt <= w * qa - w
  BY <1>1, <1>2, MultiplesApart
<1>4. CASE rt >= ra
  <2>1. rt - ra = (rt - ra) + w * 0 /\ rt - ra \in 0 .. w - 1
    BY <1>4
  <2>2. (rt - ra) % w = rt - ra
    BY <2>1, RestIsUnique
  <2>3. rt - ra <= t - a
    BY <1>1, <1>2, <1>3
  <2>. QED
    BY <1>1, <1>2, <1>4, <2>2, <2>3
<1>5. CASE rt < ra
  <2>1. rt - ra = (rt - ra + w) + w * (-1) /\ rt - ra + w \in 0 .. w - 1
    BY <1>5
  <2>2. (rt - ra) % w = rt - ra + w
    BY <2>1, RestIsUnique
  <2>3. qt # qa
    BY <1>1, <1>2, <1>5
  <2>4. rt - ra + w <= t - a
    BY <1>1, <1>2, <1>3, <2>3
  <2>. QED
    BY <1>1, <1>2, <1>5, <2>1, <2>2, <2>4
<1>. QED
  BY <1>4, <1>5

\* A step on the counter's grid is a step on the clock's.
LEMMA CounterSteps ==
  ASSUME NEW w \in Nat \ {0}, NEW a \in Nat, NEW p \in Nat
  PROVE  ((a % w) + p) % w = (a + p) % w
<1>0. a \in Int
  OBVIOUS
<1>1. PICK q \in Int, r \in 0 .. w - 1 : a = r + w * q /\ a % w = r
  BY <1>0, Divides
<1>2. PICK d \in Int, s \in 0 .. w - 1 : r + p = s + w * d /\ (r + p) % w = s
  BY Divides
<1>3. w * q \in Int /\ w * d \in Int /\ w * q + w * d = w * (q + d)
  BY MultiplesApart
<1>4. a + p = s + w * (q + d)
  BY <1>1, <1>2, <1>3
<1>5. (a + p) % w = s
  <2>. DEFINE n == a + p
              k == q + d
  <2>1. n \in Int /\ k \in Int /\ n = s + w * k
    BY <1>4
  <2>. HIDE DEF n, k
  <2>2. n % w = s
    BY <2>1, RestIsUnique
  <2>. QED
    BY <2>2 DEF n
<1>. QED
  BY <1>1, <1>2, <1>5

-----------------------------------------------------------------------------
(* The frame limiter, when one thread queues the lists and presents.  The   *)
(* anchor is a point of the grid as the counter shows it; the point itself   *)
(* is not behind the history's `due`, and a sleep ends no sooner than the     *)
(* next point.                                                               *)

PaceTypes ==
  /\ PaceTypeOK
  /\ time \in Nat /\ limit \in Periods /\ due \in Int
  /\ owed \in BOOLEAN /\ presented \in BOOLEAN /\ browsing \in BOOLEAN
  /\ sleeper \in [Sites -> Int]

\* The point of the grid the anchor stands for.
GridPoint(a) ==
  /\ a % CounterWrap = anchor /\ due <= a /\ a <= time
  /\ \A s \in Sites : sleeper[s] # -1 => a + period <= sleeper[s]

HasGrid == anchor # 0 => \E a \in Nat : GridPoint(a)

\* One site sleeps, for a frame that is owed and not slept for yet.
OneSleeps ==
  /\ \A s, t \in Sites : sleeper[s] # -1 /\ sleeper[t] # -1 => s = t
  /\ \A s \in Sites : sleeper[s] # -1 => anchor # 0 /\ owed
  /\ owed => slept = 0
  /\ slept \in 0 .. 1

PaceInv == PaceTypes /\ HasGrid /\ OneSleeps /\ CapHolds

\* The first half of a frame: passed, refused or put to sleep, nothing breaks.
LEMMA PaceKeeps ==
  ASSUME PaceInv, NEW site \in Sites, NEW losses \in 0 .. LatchAt, Pace(site, losses),
         \A s \in Sites : sleeper[s] = -1,
         period' \in Periods \cup {0}, time' = time, slept' = 0
  PROVE  /\ anchor' \in 0 .. CounterWrap - 1 /\ refused' \in 0 .. LatchAt
         /\ due' \in Int /\ owed' \in BOOLEAN /\ sleeper' \in [Sites -> Int]
         /\ HasGrid' /\ OneSleeps' /\ CapHolds'
<1>0. /\ time \in Nat /\ CounterWrap \in Nat \ {0} /\ period \in Nat /\ due \in Int
      /\ LatchAt \in Nat
      /\ anchor \in 0 .. CounterWrap - 1 /\ refused \in 0 .. LatchAt /\ slept \in 0 .. 1
      /\ due <= time /\ sleeper \in [Sites -> Int]
  BY PaceAssumption DEF PaceInv, PaceTypes, PaceTypeOK, OneSleeps, CapHolds
<1>i. HasGrid /\ OneSleeps
  BY DEF PaceInv
<1>p. PICK p \in Periods \cup {0} : period' = p
  OBVIOUS
<1>. DEFINE waited == (Counter - anchor) % CounterWrap
            passes  == anchor = 0 \/ waited >= p
<1>1. /\ time \in Nat /\ CounterWrap \in Nat \ {0} /\ p \in Nat /\ due \in Int
      /\ LatchAt \in Nat /\ time' = time /\ slept' = 0 /\ period' = p
  BY <1>0, <1>p, PaceAssumption
<1>2. Counter \in 0 .. CounterWrap - 1 /\ Counter = time % CounterWrap
  BY <1>1 DEF Counter
<1>3. ASSUME NEW a \in Nat, GridPoint(a) PROVE waited \in 0 .. time - a
  <2>1. a <= time /\ anchor = a % CounterWrap
    BY <1>3 DEF GridPoint
  <2>. QED
    BY <1>1, <1>2, <2>1, ElapsedAtMost
<1>. HIDE DEF waited
<1>4. CASE passes /\ anchor' = Counter /\ owed' = FALSE /\ refused' = losses
           /\ due' = (IF anchor = 0 THEN time ELSE due + p) /\ sleeper' = sleeper
  <2>1. due' \in Int /\ due' <= time
    <3>1. CASE anchor = 0
      BY <1>1, <1>4, <3>1
    <3>2. CASE anchor # 0
      <4>1. PICK a \in Nat : GridPoint(a)
        BY <1>i, <3>2 DEF HasGrid
      <4>2. waited \in 0 .. time - a /\ due <= a
        BY <1>3, <4>1 DEF GridPoint
      <4>3. waited >= p /\ due' = due + p
        BY <1>4, <3>2
      <4>. QED
        BY <1>1, <4>1, <4>2, <4>3
    <3>. QED
      BY <3>1, <3>2
  <2>2. HasGrid'
    <3>1. GridPoint(time)'
      <4>1. \A s \in Sites : sleeper'[s] = -1
        BY <1>4
      <4>2. time % CounterWrap = anchor' /\ due' <= time /\ time <= time'
        BY <1>1, <1>2, <1>4, <2>1
      <4>. QED
        BY <4>1, <4>2 DEF GridPoint
    <3>. QED
      BY <1>1, <3>1 DEF HasGrid
  <2>3. OneSleeps' /\ CapHolds'
    <3>1. \A s \in Sites : sleeper'[s] = -1
      BY <1>4
    <3>2. due' <= time' /\ slept' \in 0 .. 1 /\ (owed' => slept' = 0)
      BY <1>1, <2>1
    <3>. QED
      BY <3>1, <3>2 DEF OneSleeps, CapHolds
  <2>. QED
    BY <1>0, <1>2, <1>4, <2>1, <2>2, <2>3
<1>5. CASE ~passes /\ Refusal(site, losses) /\ owed' = TRUE /\ due' = due /\ sleeper' = sleeper
  <2>1. anchor' = anchor /\ refused' \in 0 .. LatchAt
    BY <1>0, <1>5 DEF Refusal
  <2>2. HasGrid'
    <3>1. \A a \in Nat : GridPoint(a) => GridPoint(a)'
      BY <1>1, <1>5, <2>1 DEF GridPoint
    <3>. QED
      BY <1>i, <2>1, <3>1 DEF HasGrid
  <2>3. OneSleeps' /\ CapHolds'
    BY <1>0, <1>1, <1>5 DEF OneSleeps, CapHolds
  <2>. QED
    BY <1>0, <1>5, <2>1, <2>2, <2>3
<1>6. CASE /\ ~passes /\ sleeper' = [sleeper EXCEPT ![site] = time + p - waited]
           /\ owed' = TRUE /\ refused' = losses /\ anchor' = anchor /\ due' = due
  <2>1. anchor # 0 /\ waited < p
    <3>1. waited \in Int
      BY <1>0, <1>1, <1>2 DEF waited
    <3>. QED
      BY <1>1, <1>6, <3>1
  <2>2. PICK a \in Nat : GridPoint(a)
    BY <1>i, <2>1 DEF HasGrid
  <2>3. waited \in 0 .. time - a
    BY <1>3, <2>2
  <2>4. time + p - waited \in Int /\ time + p - waited # -1
        /\ a + p <= time + p - waited
    BY <1>1, <2>1, <2>2, <2>3
  <2>5. \A s \in Sites : sleeper'[s] = IF s = site THEN time + p - waited ELSE -1
    BY <1>0, <1>6
  <2>6. GridPoint(a)'
    BY <1>1, <1>6, <2>2, <2>4, <2>5 DEF GridPoint
  <2>7. HasGrid'
    BY <2>2, <2>6 DEF HasGrid
  <2>8. OneSleeps' /\ CapHolds'
    <3>1. \A s \in Sites : sleeper'[s] # -1 => s = site
      BY <2>5
    <3>2. anchor' # 0 /\ owed'
      BY <1>6, <2>1
    <3>. QED
      BY <1>0, <1>1, <1>6, <3>1, <3>2 DEF OneSleeps, CapHolds
  <2>9. sleeper' \in [Sites -> Int]
    BY <1>0, <1>6, <2>4
  <2>. QED
    BY <1>0, <1>6, <2>7, <2>8, <2>9
<1>. QED
  BY <1>4, <1>5, <1>6, <1>p DEF Pace, waited

\* The second half: the grid moves by the period it was slept for.
LEMMA AwakesKeeps ==
  ASSUME PaceInv, NEW site \in Sites, Awakes(site)
  PROVE  PaceInv'
<1>1. /\ time \in Nat /\ CounterWrap \in Nat \ {0} /\ period \in Nat /\ due \in Int
      /\ LatchAt \in Nat
      /\ anchor \in 0 .. CounterWrap - 1 /\ refused \in 0 .. LatchAt /\ slept \in 0 .. 1
      /\ due <= time /\ sleeper \in [Sites -> Int]
  BY PaceAssumption DEF PaceInv, PaceTypes, PaceTypeOK, OneSleeps, CapHolds
<1>i. HasGrid /\ OneSleeps
  BY DEF PaceInv
<1>2. /\ sleeper[site] # -1 /\ time >= sleeper[site]
      /\ sleeper' = [sleeper EXCEPT ![site] = -1]
      /\ owed' = FALSE /\ anchor' = (anchor + period) % CounterWrap
      /\ due' = (IF due = -1 THEN -1 ELSE due + period) /\ slept' = slept + 1
      /\ UNCHANGED <<time, limit, period, presented, probe, browsing>>
  BY DEF Awakes
<1>3. refused' \in 0 .. LatchAt
  BY <1>1 DEF Awakes
<1>4. anchor # 0 /\ owed /\ slept = 0 /\ \A s \in Sites : sleeper[s] # -1 => s = site
  BY <1>i, <1>1, <1>2 DEF OneSleeps
<1>5. PICK a \in Nat : GridPoint(a)
  BY <1>i, <1>4 DEF HasGrid
<1>6. a % CounterWrap = anchor /\ due <= a /\ a + period <= time
  <2>1. a % CounterWrap = anchor /\ due <= a /\ a + period <= sleeper[site]
    BY <1>2, <1>5 DEF GridPoint
  <2>. QED
    BY <1>1, <1>2, <1>5, <2>1
<1>7. a + period \in Nat /\ due' \in Int /\ due' <= a + period
  BY <1>1, <1>2, <1>5, <1>6
<1>8. \A s \in Sites : sleeper'[s] = -1
  BY <1>1, <1>2, <1>4
<1>9. anchor' = (a + period) % CounterWrap
  BY <1>1, <1>2, <1>5, <1>6, CounterSteps
<1>10. anchor' \in 0 .. CounterWrap - 1
  BY <1>1, <1>7, <1>9
<1>11. HasGrid'
  <2>1. PICK point \in Nat : point = a + period
    BY <1>7
  <2>2. GridPoint(point)'
    BY <1>2, <1>6, <1>7, <1>8, <1>9, <2>1 DEF GridPoint
  <2>. QED
    BY <2>1, <2>2 DEF HasGrid
<1>12. OneSleeps' /\ CapHolds'
  <2>1. due' <= time'
    BY <1>1, <1>2, <1>6, <1>7
  <2>. QED
    BY <1>1, <1>2, <1>4, <1>8, <2>1 DEF OneSleeps, CapHolds
<1>13. sleeper' \in [Sites -> Int]
  BY <1>1, <1>2
<1>14. PaceTypes'
  <2>1. /\ limit \in Periods /\ presented \in BOOLEAN /\ browsing \in BOOLEAN
        /\ probe \in 0 .. ReprobeEvery - 1 /\ period \in Periods \cup {0}
    BY DEF PaceInv, PaceTypes, PaceTypeOK
  <2>. QED
    BY <1>1, <1>2, <1>3, <1>7, <1>10, <1>13, <2>1 DEF PaceTypes, PaceTypeOK
<1>. QED
  BY <1>11, <1>12, <1>14 DEF PaceInv

\* Every step of the limiter, the game, the menu and the clock.
LEMMA PaceStep ==
  ASSUME ~TwoThreads, PaceInv, [PaceNext]_paceVars
  PROVE  PaceInv'
<1>. USE PaceAssumption DEF PaceInv, PaceTypes, PaceTypeOK, CapHolds
<1>1. CASE \E site \in Sites : Awakes(site)
  BY <1>1, AwakesKeeps
<1>2. CASE ListInMenu
  <2>1. \A s \in Sites : sleeper[s] = -1
    BY <1>2 DEF ListInMenu, Free, Awake
  <2>2. anchor' = 0 /\ owed' = FALSE /\ due' = -1 /\ sleeper' = sleeper /\ time' = time
        /\ slept' = slept
    BY <1>2 DEF ListInMenu
  <2>3. HasGrid' /\ OneSleeps' /\ CapHolds'
    BY <2>1, <2>2 DEF HasGrid, OneSleeps
  <2>4. UNCHANGED <<limit, period, refused, probe, browsing>> /\ presented' = FALSE
    BY <1>2 DEF ListInMenu
  <2>5. PaceTypes'
    <3>1. anchor' \in 0 .. CounterWrap - 1
      BY <2>2
    <3>2. /\ time' \in Nat /\ limit' \in Periods /\ due' \in Int /\ sleeper' \in [Sites -> Int]
          /\ refused' \in 0 .. LatchAt /\ probe' \in 0 .. ReprobeEvery - 1
          /\ period' \in Periods \cup {0}
      BY <2>2, <2>4
    <3>3. owed' \in BOOLEAN /\ presented' \in BOOLEAN /\ browsing' \in BOOLEAN
      BY <2>2, <2>4
    <3>. QED
      BY <3>1, <3>2, <3>3
  <2>. QED
    BY <2>3, <2>5
<1>3. CASE ListSkipped
  <2>1. \A s \in Sites : sleeper[s] = -1
    BY <1>3 DEF ListSkipped, Free, Awake
  <2>2. /\ UNCHANGED <<time, limit, anchor, owed, presented, refused, probe, browsing>>
        /\ UNCHANGED <<sleeper, due, slept>> /\ period' = limit
    BY <1>3 DEF ListSkipped
  <2>3. \A a \in Nat : GridPoint(a) => GridPoint(a)'
    BY <2>1, <2>2 DEF GridPoint
  <2>4. HasGrid' /\ OneSleeps'
    BY <2>2, <2>3 DEF HasGrid, OneSleeps
  <2>. QED
    BY <2>2, <2>4
<1>4. CASE List
  <2>1. \A s \in Sites : sleeper[s] = -1
    BY <1>4 DEF List, Free, Awake
  <2>2. /\ period' = limit /\ presented' = FALSE
        /\ UNCHANGED <<time, limit, browsing>>
    BY <1>4 DEF List
  <2>3. slept' = 0
    BY <1>4 DEF List, OneSleeps
  <2>4. CASE refused < LatchAt \/ (probe + 1) % ReprobeEvery = 0
    <3>1. PICK losses \in 0 .. LatchAt : Pace("list", losses)
      BY <1>4, <2>4 DEF List
    <3>2. probe' \in 0 .. ReprobeEvery - 1
      BY <1>4 DEF List
    <3>3. "list" \in Sites
      BY DEF Sites
    <3>4. /\ anchor' \in 0 .. CounterWrap - 1 /\ refused' \in 0 .. LatchAt
          /\ due' \in Int /\ owed' \in BOOLEAN /\ sleeper' \in [Sites -> Int]
          /\ HasGrid' /\ OneSleeps' /\ CapHolds'
      BY <2>1, <2>2, <2>3, <3>1, <3>3, PaceKeeps
    <3>. QED
      BY <2>2, <3>2, <3>4
  <2>5. CASE ~(refused < LatchAt \/ (probe + 1) % ReprobeEvery = 0)
    <3>1. owed' = TRUE /\ UNCHANGED <<anchor, refused, sleeper, due>>
          /\ probe' = (probe + 1) % ReprobeEvery
      BY <1>4, <2>5 DEF List
    <3>2. \A a \in Nat : GridPoint(a) => GridPoint(a)'
      BY <2>1, <2>2, <3>1 DEF GridPoint
    <3>3. HasGrid' /\ OneSleeps'
      BY <2>1, <2>3, <3>1, <3>2 DEF HasGrid, OneSleeps
    <3>4. probe' \in 0 .. ReprobeEvery - 1
      BY <3>1
    <3>5. PaceTypes'
      BY <2>2, <3>1, <3>4
    <3>. QED
      BY <2>2, <3>1, <3>3, <3>5
  <2>. QED
    BY <2>4, <2>5
<1>5. CASE Present
  <2>1. /\ UNCHANGED <<time, limit, period, anchor, owed, refused, probe, browsing>>
        /\ UNCHANGED <<sleeper, due, slept>> /\ presented' = TRUE
    BY <1>5 DEF Present, PresentKeeps
  <2>2. HasGrid' /\ OneSleeps'
    BY <2>1 DEF HasGrid, OneSleeps, GridPoint
  <2>. QED
    BY <2>1, <2>2
<1>6. CASE PresentPaces
  <2>1. \A s \in Sites : sleeper[s] = -1
    BY <1>6 DEF PresentPaces, Free, Awake
  <2>2. /\ period' = period /\ presented' = TRUE /\ Pace("present", refused)
        /\ UNCHANGED <<time, limit, probe, browsing>>
    BY <1>6 DEF PresentPaces
  <2>3. slept' = 0
    BY <1>6 DEF PresentPaces, OneSleeps
  <2>4. "present" \in Sites
    BY DEF Sites
  <2>5. /\ anchor' \in 0 .. CounterWrap - 1 /\ refused' \in 0 .. LatchAt
        /\ due' \in Int /\ owed' \in BOOLEAN /\ sleeper' \in [Sites -> Int]
        /\ HasGrid' /\ OneSleeps' /\ CapHolds'
    BY <2>1, <2>2, <2>3, <2>4, PaceKeeps
  <2>. QED
    BY <2>2, <2>5
<1>7. CASE TurnMenu
  <2>1. /\ UNCHANGED <<time, period, anchor, owed, presented, refused, probe>>
        /\ UNCHANGED <<sleeper, due, slept>> /\ browsing' = ~browsing
    BY <1>7 DEF TurnMenu
  <2>2. limit' \in Periods
    BY <1>7 DEF TurnMenu
  <2>3. HasGrid' /\ OneSleeps'
    BY <2>1 DEF HasGrid, OneSleeps, GridPoint
  <2>. QED
    BY <2>1, <2>2, <2>3
<1>8. CASE PassTick
  <2>1. /\ UNCHANGED <<limit, period, anchor, owed, presented, refused, probe, browsing>>
        /\ UNCHANGED <<sleeper, due, slept>> /\ time' = time + 1
    BY <1>8 DEF PassTick
  <2>2. \A a \in Nat : GridPoint(a) => GridPoint(a)'
    BY <2>1 DEF GridPoint
  <2>3. HasGrid' /\ OneSleeps'
    BY <2>1, <2>2 DEF HasGrid, OneSleeps
  <2>. QED
    BY <2>1, <2>3
<1>9. CASE UNCHANGED paceVars
  BY <1>9 DEF paceVars, HasGrid, OneSleeps, GridPoint
<1>. QED
  BY <1>1, <1>2, <1>3, <1>4, <1>5, <1>6, <1>7, <1>8, <1>9 DEF PaceNext

\* With one thread at both sites a frame is slept for once, and no more frames pass than the cap
\* allows (sysstats.c:893-896, 1064-1065): for any periods, overrun and latch, whichever sleeps are
\* refused, and over every wrap of the counter.
THEOREM PacingIsRight == ~TwoThreads => (PaceSpec => []PacedRight)
<1>. SUFFICES ASSUME ~TwoThreads PROVE PaceSpec => []PacedRight
  OBVIOUS
<1>1. PaceInit => PaceInv
  <2>. SUFFICES ASSUME PaceInit PROVE PaceInv
    OBVIOUS
  <2>. USE PaceAssumption DEF PaceInit
  <2>1. time \in Nat /\ limit \in Periods /\ due = -1 /\ anchor = 0 /\ slept = 0 /\ ~owed
    OBVIOUS
  <2>2. PaceTypes
    <3>0. LatchAt \in Nat /\ ReprobeEvery \in Nat \ {0} /\ CounterWrap \in Nat \ {0}
      OBVIOUS
    <3>1. /\ anchor \in 0 .. CounterWrap - 1 /\ refused \in 0 .. LatchAt
          /\ probe \in 0 .. ReprobeEvery - 1 /\ period = 0
      BY <2>1, <3>0
    <3>2. owed \in BOOLEAN /\ presented \in BOOLEAN /\ browsing \in BOOLEAN
      OBVIOUS
    <3>4. due \in Int /\ sleeper \in [Sites -> Int]
      BY <2>1
    <3>. QED
      BY <2>1, <3>1, <3>2, <3>4 DEF PaceTypes, PaceTypeOK
  <2>3. HasGrid /\ OneSleeps /\ CapHolds
    BY <2>1 DEF HasGrid, OneSleeps, CapHolds
  <2>. QED
    BY <2>2, <2>3 DEF PaceInv
<1>2. PaceInv /\ [PaceNext]_paceVars => PaceInv'
  BY PaceStep
<1>3. PaceInv => PacedRight
  BY DEF PaceInv, PacedRight, PacedOnce, OneSleeps
<1>. QED
  BY <1>1, <1>2, <1>3, PTL DEF PaceSpec

-----------------------------------------------------------------------------
(* The menu thread: the rows, the taps, the popup and the view.              *)

MenuTypes ==
  /\ folder \in Games /\ exists \subseteq Games /\ saves = [x \in Games |-> saves[x]]
  /\ tries \in Nat /\ wakeups \in Nat
  /\ snap = NoSnap \/ snap.wakeups \in Nat

\* From the list of the folder to the page of its settings, the rows stay what the card has.
RowsWhere ==
  place \in {"browser", "games", "page", "trunc", "write"} /\ ~gone => rows = Listed(folder)

\* Whoever put the flag up for a thread that sleeps, or is about to, still has its wake-up to
\* come; a boot that waits has one of its own, so that neither uses up the other's.
Tapped == wakeups > 0 \/ tapHook = "tap"
TapsWhere ==
  /\ place \in {"start", "sleep", "watch"} /\ menuOpen => Tapped
  /\ place = "awake" /\ bootPending /\ menuOpen => Tapped
  /\ place = "sleep" /\ bootPending /\ menuOpen => tapHook = "tap"
  /\ bootPending /\ place # "awake" => wakeups > 0 \/ tapHook = "boot"
  /\ place \in {"start", "prompts", "watch"} => ~bootPending /\ ~armed
  /\ armed => ~bootPending

\* The view without New Savegame is only up with attempts of the auto-open left.
ViewWhere ==
  /\ tries = 0 => ~launch
  /\ ~showNew => tries # 0 /\ place \in Browsing \ {"opening"}

BrowserInv == MenuTypes /\ RowsWhere /\ TapsWhere /\ ViewWhere /\ PopupMatches

LEMMA MenuTypeStep ==
  ASSUME BrowserInv, [MenuNext]_menuVars
  PROVE  MenuTypes'
<1>. USE DEF BrowserInv, MenuTypes
<1>1. CASE Hook
  BY <1>1 DEF Hook, listVars, cardVars, fileVars, pageVars, watchVars
<1>2. CASE HookWakes
  BY <1>2 DEF HookWakes, Wake, bootVars, listVars, cardVars, fileVars, pageVars, watchVars
<1>3. CASE Start
  BY <1>3 DEF Start, bootVars, listVars, cardVars, fileVars, pageVars, watchVars
<1>4. CASE NoSleep
  BY <1>4 DEF NoSleep, hookVars, bootVars, listVars, cardVars, fileVars, pageVars, watchVars
<1>5. CASE Boot
  BY <1>5 DEF Boot, hookVars, listVars, cardVars, fileVars, pageVars, watchVars
<1>6. CASE PromptsDone
  BY <1>6 DEF PromptsDone, hookVars, bootVars, listVars, cardVars, fileVars, pageVars, watchVars
<1>7. CASE WatcherStarts
  BY <1>7, MenuAssumption DEF WatcherStarts, hookVars, listVars, cardVars, fileVars, pageVars
<1>8. CASE OpenBrowser
  BY <1>8 DEF OpenBrowser, hookVars, bootVars, listVars, cardVars, fileVars, pageVars, watchVars
<1>9. CASE OpenFails
  BY <1>9 DEF OpenFails, Max0, hookVars, listVars, cardVars, fileVars, pageVars, watchVars
<1>10. CASE Opened
  BY <1>10, MenuAssumption DEF Opened, ShowList, hookVars, fileVars, pageVars, watchVars
<1>11. CASE Move
  BY <1>11 DEF Move, hookVars, bootVars, cardVars, fileVars, pageVars, watchVars
<1>12. CASE Close
  BY <1>12, MenuAssumption DEF Close, Return, hookVars, cardVars, fileVars, pageVars, watchVars
<1>13. CASE ToGames
  BY <1>13 DEF ToGames, hookVars, bootVars, listVars, cardVars, fileVars, pageVars, watchVars
<1>14. CASE Pick
  BY <1>14 DEF Pick, ShowList, hookVars, bootVars, fileVars, pageVars, watchVars
<1>15. CASE DeleteGame
  BY <1>15 DEF DeleteGame, hookVars, bootVars, watchVars
<1>16. CASE Delete
  BY <1>16 DEF Delete, hookVars, bootVars, fileVars, watchVars
<1>17. CASE Save
  BY <1>17 DEF Save, Closing, hookVars, bootVars, cardVars, fileVars, pageVars, watchVars
<1>18. CASE Saving
  BY <1>18 DEF Saving, hookVars, bootVars, listVars, cardVars, fileVars, pageVars, watchVars
<1>19. CASE Saved
  BY <1>19 DEF Saved, hookVars, bootVars, listVars, fileVars, pageVars, watchVars
<1>20. CASE Finished
  BY <1>20, MenuAssumption DEF Finished, Return, hookVars, cardVars, fileVars, pageVars, watchVars
<1>21. CASE Load
  BY <1>21 DEF Load, Closing, hookVars, bootVars, cardVars, fileVars, pageVars, watchVars
<1>22. CASE LoadReturns
  BY <1>22 DEF LoadReturns, listVars, cardVars, fileVars, pageVars
<1>23. CASE EnterPage
  BY <1>23 DEF EnterPage, hookVars, bootVars, listVars, cardVars, fileVars, watchVars
<1>24. CASE Press
  BY <1>24 DEF Press, hookVars, bootVars, listVars, cardVars, fileVars, watchVars
<1>25. CASE LeavePage
  BY <1>25 DEF LeavePage, hookVars, bootVars, listVars, cardVars, fileVars, pageVars, watchVars
<1>26. CASE Truncate
  BY <1>26 DEF Truncate, hookVars, bootVars, listVars, pageVars, watchVars
<1>27. CASE Write
  BY <1>27, MenuAssumption DEF Write, Return, hookVars, listVars, cardVars, fileVars, watchVars
<1>28. CASE WatcherEnds
  BY <1>28 DEF WatcherEnds, Watching, hookVars, bootVars, listVars, fileVars, pageVars
<1>29. CASE Learn
  BY <1>29 DEF Learn, Watching, hookVars, bootVars, listVars, fileVars, pageVars
<1>30. CASE ReadBack
  BY <1>30 DEF ReadBack, Watching, hookVars, bootVars, listVars, fileVars, pageVars
<1>31. CASE TruncateLearned
  BY <1>31, MenuAssumption DEF TruncateLearned, hookVars, bootVars, listVars, pageVars
<1>32. CASE WriteLearned
  BY <1>32 DEF WriteLearned, Watching, hookVars, bootVars, listVars, fileVars, pageVars
<1>33. CASE UNCHANGED menuVars
  BY <1>33 DEF menuVars, hookVars, bootVars, listVars, cardVars, fileVars, pageVars, watchVars
<1>. QED
  BY <1>1, <1>2, <1>3, <1>4, <1>5, <1>6, <1>7, <1>8, <1>9, <1>10, <1>11, <1>12, <1>13, <1>14,
     <1>15, <1>16, <1>17, <1>18, <1>19, <1>20, <1>21, <1>22, <1>23, <1>24, <1>25, <1>26, <1>27,
     <1>28, <1>29, <1>30, <1>31, <1>32, <1>33 DEF MenuNext

LEMMA RowsStep ==
  ASSUME BrowserInv, [MenuNext]_menuVars
  PROVE  RowsWhere'
<1>. USE DEF BrowserInv, MenuTypes, RowsWhere, Listed
<1>1. CASE Hook
  BY <1>1 DEF Hook, listVars, cardVars, fileVars, pageVars, watchVars
<1>2. CASE HookWakes
  BY <1>2 DEF HookWakes, Wake, bootVars, listVars, cardVars, fileVars, pageVars, watchVars
<1>3. CASE Start
  BY <1>3 DEF Start, bootVars, listVars, cardVars, fileVars, pageVars, watchVars
<1>4. CASE NoSleep
  BY <1>4 DEF NoSleep, hookVars, bootVars, listVars, cardVars, fileVars, pageVars, watchVars
<1>5. CASE Boot
  BY <1>5 DEF Boot, hookVars, listVars, cardVars, fileVars, pageVars, watchVars
<1>6. CASE PromptsDone
  BY <1>6 DEF PromptsDone, hookVars, bootVars, listVars, cardVars, fileVars, pageVars, watchVars
<1>7. CASE WatcherStarts
  BY <1>7 DEF WatcherStarts, hookVars, listVars, cardVars, fileVars, pageVars
<1>8. CASE OpenBrowser
  BY <1>8 DEF OpenBrowser, hookVars, bootVars, listVars, cardVars, fileVars, pageVars, watchVars
<1>9. CASE OpenFails
  BY <1>9 DEF OpenFails, Max0, hookVars, listVars, cardVars, fileVars, pageVars, watchVars
<1>10. CASE Opened
  BY <1>10 DEF Opened, ShowList, hookVars, fileVars, pageVars, watchVars
<1>11. CASE Move
  BY <1>11 DEF Move, hookVars, bootVars, cardVars, fileVars, pageVars, watchVars
<1>12. CASE Close
  BY <1>12 DEF Close, Return, hookVars, cardVars, fileVars, pageVars, watchVars
<1>13. CASE ToGames
  BY <1>13 DEF ToGames, hookVars, bootVars, listVars, cardVars, fileVars, pageVars, watchVars
<1>14. CASE Pick
  BY <1>14 DEF Pick, ShowList, hookVars, bootVars, fileVars, pageVars, watchVars
<1>15. CASE DeleteGame
  BY <1>15 DEF DeleteGame, hookVars, bootVars, watchVars
<1>16. CASE Delete
  BY <1>16 DEF Delete, hookVars, bootVars, fileVars, watchVars
<1>17. CASE Save
  BY <1>17 DEF Save, Closing, hookVars, bootVars, cardVars, fileVars, pageVars, watchVars
<1>18. CASE Saving
  BY <1>18 DEF Saving, hookVars, bootVars, listVars, cardVars, fileVars, pageVars, watchVars
<1>19. CASE Saved
  BY <1>19 DEF Saved, hookVars, bootVars, listVars, fileVars, pageVars, watchVars
<1>20. CASE Finished
  BY <1>20 DEF Finished, Return, hookVars, cardVars, fileVars, pageVars, watchVars
<1>21. CASE Load
  BY <1>21 DEF Load, Closing, hookVars, bootVars, cardVars, fileVars, pageVars, watchVars
<1>22. CASE LoadReturns
  BY <1>22 DEF LoadReturns, listVars, cardVars, fileVars, pageVars
<1>23. CASE EnterPage
  BY <1>23 DEF EnterPage, hookVars, bootVars, listVars, cardVars, fileVars, watchVars
<1>24. CASE Press
  BY <1>24 DEF Press, hookVars, bootVars, listVars, cardVars, fileVars, watchVars
<1>25. CASE LeavePage
  BY <1>25 DEF LeavePage, hookVars, bootVars, listVars, cardVars, fileVars, pageVars, watchVars
<1>26. CASE Truncate
  BY <1>26 DEF Truncate, hookVars, bootVars, listVars, pageVars, watchVars
<1>27. CASE Write
  BY <1>27 DEF Write, Return, hookVars, listVars, cardVars, fileVars, watchVars
<1>28. CASE WatcherEnds
  BY <1>28 DEF WatcherEnds, Watching, hookVars, bootVars, listVars, fileVars, pageVars
<1>29. CASE Learn
  BY <1>29 DEF Learn, Watching, hookVars, bootVars, listVars, fileVars, pageVars
<1>30. CASE ReadBack
  BY <1>30 DEF ReadBack, Watching, hookVars, bootVars, listVars, fileVars, pageVars
<1>31. CASE TruncateLearned
  BY <1>31 DEF TruncateLearned, hookVars, bootVars, listVars, pageVars
<1>32. CASE WriteLearned
  BY <1>32 DEF WriteLearned, Watching, hookVars, bootVars, listVars, fileVars, pageVars
<1>33. CASE UNCHANGED menuVars
  BY <1>33 DEF menuVars, hookVars, bootVars, listVars, cardVars, fileVars, pageVars, watchVars
<1>. QED
  BY <1>1, <1>2, <1>3, <1>4, <1>5, <1>6, <1>7, <1>8, <1>9, <1>10, <1>11, <1>12, <1>13, <1>14,
     <1>15, <1>16, <1>17, <1>18, <1>19, <1>20, <1>21, <1>22, <1>23, <1>24, <1>25, <1>26, <1>27,
     <1>28, <1>29, <1>30, <1>31, <1>32, <1>33 DEF MenuNext

LEMMA TapsStep ==
  ASSUME BrowserInv, [MenuNext]_menuVars
  PROVE  TapsWhere'
<1>. USE DEF BrowserInv, MenuTypes, TapsWhere, Tapped
<1>1. CASE Hook
  BY <1>1 DEF Hook, listVars, cardVars, fileVars, pageVars, watchVars
<1>2. CASE HookWakes
  BY <1>2 DEF HookWakes, Wake, bootVars, listVars, cardVars, fileVars, pageVars, watchVars
<1>3. CASE Start
  BY <1>3 DEF Start, bootVars, listVars, cardVars, fileVars, pageVars, watchVars
<1>4. CASE NoSleep
  BY <1>4 DEF NoSleep, hookVars, bootVars, listVars, cardVars, fileVars, pageVars, watchVars
<1>5. CASE Boot
  BY <1>5 DEF Boot, hookVars, listVars, cardVars, fileVars, pageVars, watchVars
<1>6. CASE PromptsDone
  BY <1>6 DEF PromptsDone, hookVars, bootVars, listVars, cardVars, fileVars, pageVars, watchVars
<1>7. CASE WatcherStarts
  BY <1>7 DEF WatcherStarts, hookVars, listVars, cardVars, fileVars, pageVars
<1>8. CASE OpenBrowser
  BY <1>8 DEF OpenBrowser, hookVars, bootVars, listVars, cardVars, fileVars, pageVars, watchVars
<1>9. CASE OpenFails
  BY <1>9 DEF OpenFails, Max0, hookVars, listVars, cardVars, fileVars, pageVars, watchVars
<1>10. CASE Opened
  BY <1>10 DEF Opened, ShowList, hookVars, fileVars, pageVars, watchVars
<1>11. CASE Move
  BY <1>11 DEF Move, hookVars, bootVars, cardVars, fileVars, pageVars, watchVars
<1>12. CASE Close
  BY <1>12 DEF Close, Return, hookVars, cardVars, fileVars, pageVars, watchVars
<1>13. CASE ToGames
  BY <1>13 DEF ToGames, hookVars, bootVars, listVars, cardVars, fileVars, pageVars, watchVars
<1>14. CASE Pick
  BY <1>14 DEF Pick, ShowList, hookVars, bootVars, fileVars, pageVars, watchVars
<1>15. CASE DeleteGame
  BY <1>15 DEF DeleteGame, hookVars, bootVars, watchVars
<1>16. CASE Delete
  BY <1>16 DEF Delete, hookVars, bootVars, fileVars, watchVars
<1>17. CASE Save
  BY <1>17 DEF Save, Closing, hookVars, bootVars, cardVars, fileVars, pageVars, watchVars
<1>18. CASE Saving
  BY <1>18 DEF Saving, hookVars, bootVars, listVars, cardVars, fileVars, pageVars, watchVars
<1>19. CASE Saved
  BY <1>19 DEF Saved, hookVars, bootVars, listVars, fileVars, pageVars, watchVars
<1>20. CASE Finished
  BY <1>20 DEF Finished, Return, hookVars, cardVars, fileVars, pageVars, watchVars
<1>21. CASE Load
  BY <1>21 DEF Load, Closing, hookVars, bootVars, cardVars, fileVars, pageVars, watchVars
<1>22. CASE LoadReturns
  BY <1>22 DEF LoadReturns, listVars, cardVars, fileVars, pageVars
<1>23. CASE EnterPage
  BY <1>23 DEF EnterPage, hookVars, bootVars, listVars, cardVars, fileVars, watchVars
<1>24. CASE Press
  BY <1>24 DEF Press, hookVars, bootVars, listVars, cardVars, fileVars, watchVars
<1>25. CASE LeavePage
  BY <1>25 DEF LeavePage, hookVars, bootVars, listVars, cardVars, fileVars, pageVars, watchVars
<1>26. CASE Truncate
  BY <1>26 DEF Truncate, hookVars, bootVars, listVars, pageVars, watchVars
<1>27. CASE Write
  BY <1>27 DEF Write, Return, hookVars, listVars, cardVars, fileVars, watchVars
<1>28. CASE WatcherEnds
  BY <1>28 DEF WatcherEnds, Watching, hookVars, bootVars, listVars, fileVars, pageVars
<1>29. CASE Learn
  BY <1>29 DEF Learn, Watching, hookVars, bootVars, listVars, fileVars, pageVars
<1>30. CASE ReadBack
  BY <1>30 DEF ReadBack, Watching, hookVars, bootVars, listVars, fileVars, pageVars
<1>31. CASE TruncateLearned
  BY <1>31 DEF TruncateLearned, hookVars, bootVars, listVars, pageVars
<1>32. CASE WriteLearned
  BY <1>32 DEF WriteLearned, Watching, hookVars, bootVars, listVars, fileVars, pageVars
<1>33. CASE UNCHANGED menuVars
  BY <1>33 DEF menuVars, hookVars, bootVars, listVars, cardVars, fileVars, pageVars, watchVars
<1>. QED
  BY <1>1, <1>2, <1>3, <1>4, <1>5, <1>6, <1>7, <1>8, <1>9, <1>10, <1>11, <1>12, <1>13, <1>14,
     <1>15, <1>16, <1>17, <1>18, <1>19, <1>20, <1>21, <1>22, <1>23, <1>24, <1>25, <1>26, <1>27,
     <1>28, <1>29, <1>30, <1>31, <1>32, <1>33 DEF MenuNext

LEMMA ViewStep ==
  ASSUME BrowserInv, [MenuNext]_menuVars
  PROVE  (ViewWhere /\ PopupMatches)'
<1>. USE DEF BrowserInv, MenuTypes, ViewWhere, PopupMatches, Browsing, Frozen
<1>1. CASE Hook
  BY <1>1 DEF Hook, listVars, cardVars, fileVars, pageVars, watchVars
<1>2. CASE HookWakes
  BY <1>2 DEF HookWakes, Wake, bootVars, listVars, cardVars, fileVars, pageVars, watchVars
<1>3. CASE Start
  BY <1>3 DEF Start, bootVars, listVars, cardVars, fileVars, pageVars, watchVars
<1>4. CASE NoSleep
  BY <1>4 DEF NoSleep, hookVars, bootVars, listVars, cardVars, fileVars, pageVars, watchVars
<1>5. CASE Boot
  BY <1>5 DEF Boot, hookVars, listVars, cardVars, fileVars, pageVars, watchVars
<1>6. CASE PromptsDone
  BY <1>6 DEF PromptsDone, hookVars, bootVars, listVars, cardVars, fileVars, pageVars, watchVars
<1>7. CASE WatcherStarts
  BY <1>7, MenuAssumption DEF WatcherStarts, hookVars, listVars, cardVars, fileVars, pageVars
<1>8. CASE OpenBrowser
  BY <1>8 DEF OpenBrowser, hookVars, bootVars, listVars, cardVars, fileVars, pageVars, watchVars
<1>9. CASE OpenFails
  BY <1>9 DEF OpenFails, Max0, hookVars, listVars, cardVars, fileVars, pageVars, watchVars
<1>10. CASE Opened
  BY <1>10 DEF Opened, ShowList, hookVars, fileVars, pageVars, watchVars
<1>11. CASE Move
  BY <1>11 DEF Move, hookVars, bootVars, cardVars, fileVars, pageVars, watchVars
<1>12. CASE Close
  BY <1>12 DEF Close, Return, hookVars, cardVars, fileVars, pageVars, watchVars
<1>13. CASE ToGames
  BY <1>13 DEF ToGames, hookVars, bootVars, listVars, cardVars, fileVars, pageVars, watchVars
<1>14. CASE Pick
  BY <1>14 DEF Pick, ShowList, hookVars, bootVars, fileVars, pageVars, watchVars
<1>15. CASE DeleteGame
  BY <1>15 DEF DeleteGame, hookVars, bootVars, watchVars
<1>16. CASE Delete
  BY <1>16 DEF Delete, hookVars, bootVars, fileVars, watchVars
<1>17. CASE Save
  BY <1>17 DEF Save, Closing, hookVars, bootVars, cardVars, fileVars, pageVars, watchVars
<1>18. CASE Saving
  BY <1>18 DEF Saving, hookVars, bootVars, listVars, cardVars, fileVars, pageVars, watchVars
<1>19. CASE Saved
  BY <1>19 DEF Saved, hookVars, bootVars, listVars, fileVars, pageVars, watchVars
<1>20. CASE Finished
  BY <1>20 DEF Finished, Return, hookVars, cardVars, fileVars, pageVars, watchVars
<1>21. CASE Load
  BY <1>21 DEF Load, Closing, hookVars, bootVars, cardVars, fileVars, pageVars, watchVars
<1>22. CASE LoadReturns
  BY <1>22 DEF LoadReturns, listVars, cardVars, fileVars, pageVars
<1>23. CASE EnterPage
  BY <1>23 DEF EnterPage, hookVars, bootVars, listVars, cardVars, fileVars, watchVars
<1>24. CASE Press
  BY <1>24 DEF Press, hookVars, bootVars, listVars, cardVars, fileVars, watchVars
<1>25. CASE LeavePage
  BY <1>25 DEF LeavePage, hookVars, bootVars, listVars, cardVars, fileVars, pageVars, watchVars
<1>26. CASE Truncate
  BY <1>26 DEF Truncate, hookVars, bootVars, listVars, pageVars, watchVars
<1>27. CASE Write
  <2>1. CASE place' = "browser" /\ UNCHANGED <<popup, menuOpen, tries, launch, listVars>>
    BY <1>27, <2>1 DEF Write, listVars
  <2>2. CASE Return
    BY <2>2 DEF Return
  <2>. QED
    BY <1>27, <2>1, <2>2 DEF Write
<1>28. CASE WatcherEnds
  BY <1>28 DEF WatcherEnds, Watching, hookVars, bootVars, listVars, fileVars, pageVars
<1>29. CASE Learn
  BY <1>29 DEF Learn, Watching, hookVars, bootVars, listVars, fileVars, pageVars
<1>30. CASE ReadBack
  BY <1>30 DEF ReadBack, Watching, hookVars, bootVars, listVars, fileVars, pageVars
<1>31. CASE TruncateLearned
  BY <1>31 DEF TruncateLearned, hookVars, bootVars, listVars, pageVars
<1>32. CASE WriteLearned
  BY <1>32 DEF WriteLearned, Watching, hookVars, bootVars, listVars, fileVars, pageVars
<1>33. CASE UNCHANGED menuVars
  BY <1>33 DEF menuVars, hookVars, bootVars, listVars, cardVars, fileVars, pageVars, watchVars
<1>. QED
  BY <1>1, <1>2, <1>3, <1>4, <1>5, <1>6, <1>7, <1>8, <1>9, <1>10, <1>11, <1>12, <1>13, <1>14,
     <1>15, <1>16, <1>17, <1>18, <1>19, <1>20, <1>21, <1>22, <1>23, <1>24, <1>25, <1>26, <1>27,
     <1>28, <1>29, <1>30, <1>31, <1>32, <1>33 DEF MenuNext

LEMMA InitBrowser == MenuInit => BrowserInv
<1>. SUFFICES ASSUME MenuInit PROVE BrowserInv
  OBVIOUS
<1>. USE MenuAssumption DEF MenuInit
<1>1. MenuTypes
  BY DEF MenuTypes
<1>2. RowsWhere /\ TapsWhere /\ ViewWhere /\ PopupMatches
  BY DEF RowsWhere, TapsWhere, ViewWhere, PopupMatches, Browsing, Frozen
<1>. QED
  BY <1>1, <1>2 DEF BrowserInv

LEMMA BrowserStep == BrowserInv /\ [MenuNext]_menuVars => BrowserInv'
BY MenuTypeStep, RowsStep, TapsStep, ViewStep DEF BrowserInv

\* What is shown, woken and blocked agrees with the card, the hook and the place of the thread
\* (menu.c:2702, 3034), however taps, the boot, the operations and the watcher interleave: for
\* any folders, saves, rows, attempts and presses.
THEOREM BrowserStaysTrue == MenuSpec => []BrowserAgrees
<1>1. BrowserInv => BrowserAgrees
  BY DEF BrowserInv, RowsWhere, TapsWhere, Tapped, ViewWhere, BrowserAgrees, RowsOnCard, NoDeadTap,
     ManualShowsNew
<1>. QED
  BY <1>1, InitBrowser, BrowserStep, PTL DEF MenuSpec

-----------------------------------------------------------------------------
(* The menu thread: whose values a folder's file holds, and which stay.      *)

Pages == {"page", "trunc", "write"}

FileTypes ==
  /\ folder \in Games /\ exists \subseteq Games
  /\ file \in [Games -> Setting] /\ g \in Setting /\ learned \in Setting /\ edits \in 0 .. Edits
  /\ snap = NoSnap \/ snap.g \in Setting
  /\ mixed \in BOOLEAN /\ changed \in BOOLEAN

\* A save or a load is the running game's, whose settings are in RAM then.
SeenGame ==
  /\ place \in {"gap", "saving", "loading", "crc"} => folder = RunningGame
  /\ place \in {"browser", "games", "gap", "saving"} \cup Pages => Of(g.plain, folder)

\* The watcher stores outside the browser, or the mark of its having met it is up.
StoringOut == Storing /\ place \in Browsing \ {"opening"} => mixed

\* What a page will write is its folder's, and what the watcher will write the running game's.
OwnWhere ==
  /\ FilesOwn
  /\ place \in Pages => Of(g.limit, folder) /\ (mixed \/ Of(g.skip, folder))
  /\ Of(learned.plain, RunningGame) /\ Of(learned.limit, RunningGame)
  /\ mixed \/ Of(learned.skip, RunningGame)
  /\ videoThread = "read" => mixed \/ Of(g.skip, RunningGame)

\* A file is truncated only between the two halves of a write, whose folder is there.
CutWhere ==
  /\ \A x \in cut : mixed \/ (place = "write" /\ changed /\ x = folder)
                          \/ (videoThread = "write" /\ x = RunningGame)
  /\ place = "trunc" => changed
  /\ place = "write" /\ changed => folder \in exists
  /\ videoThread = "write" => mixed \/ RunningGame \in exists
  /\ \A x \in Games \ exists : file[x].plain[2] = 0

\* Whoever will write a file holds no older value than the file.
KeptWhere ==
  /\ \A x \in Games : file[x].plain[2] <= edits
  /\ learned.plain[2] <= edits
  /\ place \in Pages => /\ g.plain[2] <= edits
                        /\ mixed \/ g.plain[2] >= file[folder].plain[2]
  /\ videoThread \in {"trunc", "write"} =>
       mixed \/ learned.plain[2] >= file[RunningGame].plain[2]

\* There is no watcher until the boot sequence is over.
BootFirst ==
  armed \/ bootPending \/ place \in {"start", "prompts", "watch"} => videoThread = "none"

FilesInv == FileTypes /\ SeenGame /\ StoringOut /\ OwnWhere /\ CutWhere /\ KeptWhere /\ BootFirst

\* A step that leaves the files and the settings alone, and what may be seen of them.
Seeing == {"browser", "games", "gap", "saving", "loading", "crc"} \cup Pages
Quiet ==
  /\ UNCHANGED <<file, cut, exists, g, changed, learned>>
  /\ edits' \in edits .. Edits /\ folder' \in Games
  /\ snap' \in {snap, NoSnap} \/ snap'.g = g
  /\ \/ place' = place /\ folder' = folder
     \/ place \notin Pages /\ place' \notin Seeing
     \/ folder' = folder /\ {place, place'} \subseteq {"browser", "games"}
     \/ /\ folder' = folder /\ folder = RunningGame
        /\ <<place, place'>> \in {<<"browser", "gap">>, <<"gap", "saving">>, <<"saving", "crc">>,
                                  <<"browser", "loading">>, <<"loading", "crc">>}
  /\ videoThread' = videoThread \/ (~Storing /\ ~Storing')

\* What every step does to the mark, whatever else it does.
Marks == StoringOut' /\ BootFirst' /\ (mixed => mixed') /\ mixed' \in BOOLEAN

LEMMA ValueFacts ==
  /\ Default \in Value /\ Default[1] = "default" /\ Default[2] = 0
  /\ \A x \in Games, k \in 0 .. Edits + 1 : /\ <<x, k>> \in Value
                                            /\ <<x, k>>[1] = x /\ <<x, k>>[2] = k
  /\ \A x \in Games : /\ <<x, CaptureMode>> \in Value /\ <<x, Timed>> \in Value
                      /\ <<x, CaptureMode>>[1] = x /\ <<x, Timed>>[1] = x
  /\ \A v \in Value : v[2] \in Nat
BY MenuAssumption DEF Value, Default, CaptureMode, Timed

\* What a file is read as is its folder's, and the youngest of it, unless it was truncated.
LEMMA ContentFacts ==
  ASSUME FilesInv, NEW x \in Games
  PROVE  /\ Content(x) \in Setting
         /\ Of(Content(x).plain, x) /\ Of(Content(x).limit, x) /\ (mixed \/ Of(Content(x).skip, x))
         /\ Content(x).plain[2] <= edits
         /\ x \notin cut => Content(x).plain[2] >= file[x].plain[2]
<1>. USE DEF FilesInv, FileTypes, Content
<1>1. edits \in Nat /\ file[x] \in Setting /\ file[x].plain[2] \in Nat
  BY MenuAssumption, ValueFacts DEF Setting
<1>2. CASE x \in cut \/ x \notin exists
  <2>1. Content(x) = Defaults
    BY <1>2
  <2>2. Defaults \in Setting /\ Defaults.plain = Default /\ Defaults.limit = Default
        /\ Defaults.skip = Default
    BY ValueFacts DEF Defaults, Setting
  <2>3. x \notin cut => file[x].plain[2] = 0
    BY <1>2 DEF CutWhere
  <2>. HIDE DEF Content
  <2>. QED
    BY <1>1, <2>1, <2>2, <2>3, ValueFacts DEF Of
<1>3. CASE ~(x \in cut \/ x \notin exists)
  BY <1>1, <1>3 DEF OwnWhere, FilesOwn, KeptWhere
<1>. QED
  BY <1>2, <1>3

\* The k of every value that is kept somewhere is a number.
LEMMA Ages ==
  ASSUME FileTypes
  PROVE  /\ edits \in Nat /\ edits <= Edits /\ Edits \in Nat
         /\ g.plain[2] \in Nat /\ learned.plain[2] \in Nat
         /\ \A x \in Games : file[x].plain[2] \in Nat
         /\ RunningGame \in Games
BY MenuAssumption, ValueFacts DEF FileTypes, Setting

LEMMA QuietKeeps ==
  ASSUME FilesInv, Quiet, Marks
  PROVE  FilesInv'
<1>1. /\ FileTypes /\ SeenGame /\ StoringOut /\ OwnWhere /\ CutWhere /\ KeptWhere
      /\ StoringOut' /\ BootFirst' /\ (mixed => mixed') /\ mixed' \in BOOLEAN
      /\ file' = file /\ cut' = cut /\ exists' = exists /\ g' = g /\ changed' = changed
      /\ learned' = learned /\ edits' \in edits .. Edits /\ folder' \in Games
  BY DEF FilesInv, Quiet, Marks
<1>2. FileTypes'
  <2>1. snap' = NoSnap \/ snap'.g \in Setting
    BY <1>1 DEF FileTypes, Quiet
  <2>. QED
    BY <1>1, <2>1, Ages DEF FileTypes
<1>3. SeenGame'
  BY <1>1 DEF Quiet, SeenGame, Pages, Seeing
<1>4. place' \in Pages => place' = place /\ folder' = folder
  BY DEF Quiet, Seeing, Pages
<1>5. place \in Pages => place' = place /\ folder' = folder
  BY DEF Quiet, Seeing, Pages
<1>6. \A s \in {"read", "trunc", "write"} : videoThread' = s <=> videoThread = s
  BY DEF Quiet, Storing
<1>7. OwnWhere'
  BY <1>1, <1>4, <1>6 DEF OwnWhere, FilesOwn
<1>8. CutWhere'
  BY <1>1, <1>4, <1>5, <1>6 DEF CutWhere, Pages
<1>9. KeptWhere'
  BY <1>1, <1>4, <1>6, Ages DEF KeptWhere
<1>. QED
  BY <1>1, <1>2, <1>3, <1>7, <1>8, <1>9 DEF FilesInv

\* What setting one field of the settings leaves.
LEMMA SetOne ==
  ASSUME NEW s \in Setting, NEW v \in Value
  PROVE  /\ [s EXCEPT !.plain = v] \in Setting /\ [s EXCEPT !.plain = v].plain = v
         /\ [s EXCEPT !.plain = v].limit = s.limit /\ [s EXCEPT !.plain = v].skip = s.skip
         /\ [s EXCEPT !.limit = v] \in Setting /\ [s EXCEPT !.limit = v].plain = s.plain
         /\ [s EXCEPT !.limit = v].limit = v /\ [s EXCEPT !.limit = v].skip = s.skip
         /\ [s EXCEPT !.skip = v] \in Setting /\ [s EXCEPT !.skip = v].plain = s.plain
         /\ [s EXCEPT !.skip = v].limit = s.limit /\ [s EXCEPT !.skip = v].skip = v
BY DEF Setting

LEMMA Fields == \A s \in Setting : s.plain \in Value /\ s.limit \in Value /\ s.skip \in Value
BY DEF Setting

LEMMA DefaultFacts ==
  /\ Defaults \in Setting /\ Defaults.plain[2] = 0
  /\ \A x \in Games : /\ Of(Defaults.plain, x) /\ Of(Defaults.limit, x) /\ Of(Defaults.skip, x)
                      /\ \A k \in 0 .. Edits + 1 : Of(<<x, k>>, x)
                      /\ Of(<<x, Timed>>, x)
BY ValueFacts DEF Defaults, Setting, Of

\* The mark of the watcher's having met the browser, and the order of boot and watcher.
LEMMA MarksStep ==
  ASSUME FilesInv, TapsWhere, [MenuNext]_menuVars
  PROVE  Marks
<1>. USE DEF Storing, Browsing, Frozen
<1>m. /\ mixed \in BOOLEAN /\ StoringOut
      /\ mixed' = (mixed \/ (Storing' /\ place' \in Browsing \ {"opening"})) \/ UNCHANGED menuVars
  BY DEF FilesInv, FileTypes, MenuNext
<1>a. StoringOut' /\ (mixed => mixed') /\ mixed' \in BOOLEAN
  BY <1>m DEF StoringOut, menuVars
<1>b. BootFirst
  BY DEF FilesInv
<1>t. TapsWhere
  OBVIOUS
<1>. SUFFICES BootFirst'
  BY <1>a DEF Marks
<1>. USE DEF BootFirst
<1>1. CASE Hook
  BY <1>1, <1>b, <1>t DEF Hook, listVars, cardVars, fileVars, pageVars, watchVars
<1>2. CASE HookWakes
  BY <1>2, <1>b, <1>t DEF HookWakes, Wake, bootVars, listVars, cardVars, fileVars, pageVars,
     watchVars
<1>3. CASE Start
  BY <1>3, <1>b, <1>t DEF Start, bootVars, listVars, cardVars, fileVars, pageVars, watchVars
<1>4. CASE NoSleep
  BY <1>4, <1>b, <1>t DEF NoSleep, hookVars, bootVars, listVars, cardVars, fileVars, pageVars,
     watchVars
<1>5. CASE Boot
  BY <1>5, <1>b, <1>t DEF Boot, hookVars, listVars, cardVars, fileVars, pageVars, watchVars
<1>6. CASE PromptsDone
  BY <1>6, <1>b, <1>t DEF PromptsDone, hookVars, bootVars, listVars, cardVars, fileVars, pageVars,
     watchVars
<1>7. CASE WatcherStarts
  BY <1>7, <1>t DEF WatcherStarts, TapsWhere, hookVars, listVars, cardVars, fileVars, pageVars
<1>8. CASE OpenBrowser
  BY <1>8, <1>b, <1>t DEF OpenBrowser, hookVars, bootVars, listVars, cardVars, fileVars, pageVars,
     watchVars
<1>9. CASE OpenFails
  BY <1>9, <1>b, <1>t DEF OpenFails, Max0, hookVars, listVars, cardVars, fileVars, pageVars,
     watchVars
<1>10. CASE Opened
  BY <1>10, <1>b, <1>t DEF Opened, ShowList, hookVars, fileVars, pageVars, watchVars
<1>11. CASE Move
  BY <1>11, <1>b, <1>t DEF Move, hookVars, bootVars, cardVars, fileVars, pageVars, watchVars
<1>12. CASE Close
  BY <1>12, <1>b, <1>t DEF Close, Return, hookVars, cardVars, fileVars, pageVars, watchVars
<1>13. CASE ToGames
  BY <1>13, <1>b, <1>t DEF ToGames, hookVars, bootVars, listVars, cardVars, fileVars, pageVars,
     watchVars
<1>14. CASE Pick
  BY <1>14, <1>b, <1>t DEF Pick, ShowList, hookVars, bootVars, fileVars, pageVars, watchVars
<1>15. CASE DeleteGame
  BY <1>15, <1>b, <1>t DEF DeleteGame, hookVars, bootVars, watchVars
<1>16. CASE Delete
  BY <1>16, <1>b, <1>t DEF Delete, hookVars, bootVars, fileVars, watchVars
<1>17. CASE Save
  BY <1>17, <1>b, <1>t DEF Save, Closing, LoadOnly, hookVars, bootVars, cardVars, fileVars,
     pageVars, watchVars
<1>18. CASE Saving
  BY <1>18, <1>b, <1>t DEF Saving, hookVars, bootVars, listVars, cardVars, fileVars, pageVars,
     watchVars
<1>19. CASE Saved
  BY <1>19, <1>b, <1>t DEF Saved, hookVars, bootVars, listVars, fileVars, pageVars, watchVars
<1>20. CASE Finished
  BY <1>20, <1>b, <1>t DEF Finished, Return, hookVars, cardVars, fileVars, pageVars, watchVars
<1>21. CASE Load
  BY <1>21, <1>b, <1>t DEF Load, Closing, LoadOnly, hookVars, bootVars, cardVars, fileVars,
     pageVars, watchVars
<1>22. CASE LoadReturns
  BY <1>22, <1>b, <1>t DEF LoadReturns, listVars, cardVars, fileVars, pageVars
<1>23. CASE EnterPage
  BY <1>23, <1>b, <1>t DEF EnterPage, hookVars, bootVars, listVars, cardVars, fileVars, watchVars
<1>24. CASE Press
  BY <1>24, <1>b, <1>t DEF Press, hookVars, bootVars, listVars, cardVars, fileVars, watchVars
<1>25. CASE LeavePage
  BY <1>25, <1>b, <1>t DEF LeavePage, hookVars, bootVars, listVars, cardVars, fileVars, pageVars,
     watchVars
<1>26. CASE Truncate
  BY <1>26, <1>b, <1>t DEF Truncate, hookVars, bootVars, listVars, pageVars, watchVars
<1>27. CASE Write
  BY <1>27, <1>b, <1>t DEF Write, Return, hookVars, listVars, cardVars, fileVars, watchVars
<1>28. CASE WatcherEnds
  BY <1>28, <1>b, <1>t DEF WatcherEnds, Watching, hookVars, bootVars, listVars, fileVars, pageVars
<1>29. CASE Learn
  BY <1>29, <1>b, <1>t DEF Learn, Watching, hookVars, bootVars, listVars, fileVars, pageVars
<1>30. CASE ReadBack
  BY <1>30, <1>b, <1>t DEF ReadBack, Watching, hookVars, bootVars, listVars, fileVars, pageVars
<1>31. CASE TruncateLearned
  BY <1>31, <1>b, <1>t DEF TruncateLearned, hookVars, bootVars, listVars, pageVars
<1>32. CASE WriteLearned
  BY <1>32, <1>b, <1>t DEF WriteLearned, Watching, hookVars, bootVars, listVars, fileVars, pageVars
<1>33. CASE UNCHANGED menuVars
  BY <1>33, <1>b, <1>t DEF menuVars, hookVars, bootVars, listVars, cardVars, fileVars, pageVars,
     watchVars
<1>. QED
  BY <1>1, <1>2, <1>3, <1>4, <1>5, <1>6, <1>7, <1>8, <1>9, <1>10, <1>11, <1>12, <1>13, <1>14,
     <1>15, <1>16, <1>17, <1>18, <1>19, <1>20, <1>21, <1>22, <1>23, <1>24, <1>25, <1>26, <1>27,
     <1>28, <1>29, <1>30, <1>31, <1>32, <1>33 DEF MenuNext

\* Every step keeps whose values are where, and the youngest of them in the file.
LEMMA FilesStep ==
  ASSUME FilesInv, TapsWhere, [MenuNext]_menuVars
  PROVE  FilesInv'
<1>q. Marks /\ (Quiet => FilesInv')
  BY MarksStep, QuietKeeps
<1>f. /\ FileTypes /\ SeenGame /\ StoringOut /\ OwnWhere /\ CutWhere /\ KeptWhere
      /\ BootFirst /\ StoringOut' /\ BootFirst' /\ (mixed => mixed') /\ mixed' \in BOOLEAN
  BY <1>q DEF FilesInv, Marks
<1>v. /\ place \in Seeing /\ videoThread \in {"read", "trunc", "write"} => mixed
      /\ place' \in Seeing /\ videoThread' \in {"read", "trunc", "write"} => mixed'
  BY <1>f DEF StoringOut, Storing, Seeing, Pages, Browsing, Frozen
<1>t. RunningGame \in Games /\ folder \in Games /\ edits \in edits .. Edits
  BY <1>f, Ages DEF FileTypes
<1>1. CASE Hook
  <2>1. Quiet
    BY <1>1, <1>f, <1>t DEF Hook, listVars, cardVars, fileVars, pageVars, watchVars, Quiet, Seeing,
       Pages
  <2>. QED
    BY <1>q, <2>1
<1>2. CASE HookWakes
  <2>1. Quiet
    BY <1>2, <1>f, <1>t DEF HookWakes, Wake, bootVars, listVars, cardVars, fileVars, pageVars,
       watchVars, Quiet, Seeing, Pages
  <2>. QED
    BY <1>q, <2>1
<1>3. CASE Start
  <2>1. Quiet
    BY <1>3, <1>f, <1>t DEF Start, bootVars, listVars, cardVars, fileVars, pageVars, watchVars,
       Quiet, Seeing, Pages
  <2>. QED
    BY <1>q, <2>1
<1>4. CASE NoSleep
  <2>1. Quiet
    BY <1>4, <1>f, <1>t DEF NoSleep, hookVars, bootVars, listVars, cardVars, fileVars, pageVars,
       watchVars, Quiet, Seeing, Pages
  <2>. QED
    BY <1>q, <2>1
<1>5. CASE Boot
  <2>1. /\ g' = [g EXCEPT !.limit = Content(RunningGame).limit, !.skip = Content(RunningGame).skip]
        /\ place' \in {"prompts", "watch"} /\ place = "awake"
        /\ UNCHANGED <<file, cut, exists, changed, edits, learned, videoThread, snap, folder>>
    BY <1>5, <1>f DEF Boot, hookVars, listVars, cardVars, fileVars, pageVars, watchVars
  <2>e. /\ g' \in Setting /\ g'.plain = g.plain /\ (mixed \/ Of(g'.skip, RunningGame))
    <3>c. /\ Content(RunningGame) \in Setting
          /\ mixed \/ Of(Content(RunningGame).skip, RunningGame)
      BY <1>t, ContentFacts
    <3>v. /\ Content(RunningGame).limit \in Value /\ Content(RunningGame).skip \in Value
          /\ g \in Setting
      BY <1>f, <3>c, Fields DEF FileTypes
    <3>. QED
      BY <2>1, <3>c, <3>v DEF Setting
  <2>2. FileTypes'
    BY <1>f, <1>t, <1>v, <2>1, <2>e, Ages DEF FileTypes
  <2>3. SeenGame'
    BY <1>f, <1>t, <1>v, <2>1, <2>e, Ages DEF SeenGame, Pages
  <2>4. OwnWhere'
    BY <1>f, <1>t, <1>v, <2>1, <2>e, Ages DEF OwnWhere, FilesOwn, Pages, Seeing
  <2>5. CutWhere'
    BY <1>f, <1>t, <1>v, <2>1, <2>e, Ages DEF CutWhere, Pages, Seeing
  <2>6. KeptWhere'
    BY <1>f, <1>t, <1>v, <2>1, <2>e, Ages DEF KeptWhere, Pages, Seeing
  <2>. QED
    BY <1>f, <2>2, <2>3, <2>4, <2>5, <2>6 DEF FilesInv
<1>6. CASE PromptsDone
  <2>1. Quiet
    BY <1>6, <1>f, <1>t DEF PromptsDone, hookVars, bootVars, listVars, cardVars, fileVars,
       pageVars, watchVars, Quiet, Seeing, Pages
  <2>. QED
    BY <1>q, <2>1
<1>7. CASE WatcherStarts
  <2>1. Quiet
    BY <1>7, <1>f, <1>t DEF WatcherStarts, hookVars, listVars, cardVars, fileVars, pageVars, Quiet,
       Seeing, Pages, Storing, BootFirst
  <2>. QED
    BY <1>q, <2>1
<1>8. CASE OpenBrowser
  <2>1. Quiet
    BY <1>8, <1>f, <1>t DEF OpenBrowser, hookVars, bootVars, listVars, cardVars, fileVars,
       pageVars, watchVars, Quiet, Seeing, Pages
  <2>. QED
    BY <1>q, <2>1
<1>9. CASE OpenFails
  <2>1. Quiet
    BY <1>9, <1>f, <1>t DEF OpenFails, Max0, hookVars, listVars, cardVars, fileVars, pageVars,
       watchVars, Quiet, Seeing, Pages
  <2>. QED
    BY <1>q, <2>1
<1>10. CASE Opened
  <2>1. /\ place = "opening" /\ place' = "browser" /\ folder' = RunningGame
        /\ g' = Content(RunningGame) /\ exists' = exists \cup {RunningGame}
        /\ UNCHANGED <<file, cut, changed, edits, learned, videoThread, snap>>
    BY <1>10, <1>f DEF Opened, ShowList, hookVars, fileVars, pageVars, watchVars
  <2>e. /\ g' \in Setting /\ Of(g'.plain, RunningGame) /\ exists' \subseteq Games
    BY <1>f, <1>t, <2>1, Ages, ContentFacts DEF FileTypes
  <2>2. FileTypes'
    BY <1>f, <1>t, <1>v, <2>1, <2>e, Ages DEF FileTypes
  <2>3. SeenGame'
    BY <1>f, <1>t, <1>v, <2>1, <2>e, Ages DEF SeenGame, Pages
  <2>4. OwnWhere'
    BY <1>f, <1>t, <1>v, <2>1, <2>e, Ages DEF OwnWhere, FilesOwn, Pages, Seeing
  <2>5. CutWhere'
    BY <1>f, <1>t, <1>v, <2>1, <2>e, Ages DEF CutWhere, Pages, Seeing
  <2>6. KeptWhere'
    BY <1>f, <1>t, <1>v, <2>1, <2>e, Ages DEF KeptWhere, Pages, Seeing
  <2>. QED
    BY <1>f, <2>2, <2>3, <2>4, <2>5, <2>6 DEF FilesInv
<1>11. CASE Move
  <2>1. Quiet
    BY <1>11, <1>f, <1>t DEF Move, hookVars, bootVars, cardVars, fileVars, pageVars, watchVars,
       Quiet, Seeing, Pages
  <2>. QED
    BY <1>q, <2>1
<1>12. CASE Close
  <2>1. Quiet
    BY <1>12, <1>f, <1>t DEF Close, Return, hookVars, cardVars, fileVars, pageVars, watchVars,
       Quiet, Seeing, Pages
  <2>. QED
    BY <1>q, <2>1
<1>13. CASE ToGames
  <2>1. Quiet
    BY <1>13, <1>f, <1>t DEF ToGames, hookVars, bootVars, listVars, cardVars, fileVars, pageVars,
       watchVars, Quiet, Seeing, Pages
  <2>. QED
    BY <1>q, <2>1
<1>14. CASE Pick
  <2>1. /\ place = "games" /\ place' = "browser" /\ folder' \in exists
        /\ g' = Content(folder') /\ exists' = exists
        /\ UNCHANGED <<file, cut, changed, edits, learned, videoThread, snap>>
    BY <1>14, <1>f DEF Pick, ShowList, hookVars, bootVars, fileVars, pageVars, watchVars
  <2>e. /\ g' \in Setting /\ Of(g'.plain, folder') /\ folder' \in Games
    BY <1>f, <1>t, <2>1, Ages, ContentFacts DEF FileTypes
  <2>2. FileTypes'
    BY <1>f, <1>t, <1>v, <2>1, <2>e, Ages DEF FileTypes
  <2>3. SeenGame'
    BY <1>f, <1>t, <1>v, <2>1, <2>e, Ages DEF SeenGame, Pages
  <2>4. OwnWhere'
    BY <1>f, <1>t, <1>v, <2>1, <2>e, Ages DEF OwnWhere, FilesOwn, Pages, Seeing
  <2>5. CutWhere'
    BY <1>f, <1>t, <1>v, <2>1, <2>e, Ages DEF CutWhere, Pages, Seeing
  <2>6. KeptWhere'
    BY <1>f, <1>t, <1>v, <2>1, <2>e, Ages DEF KeptWhere, Pages, Seeing
  <2>. QED
    BY <1>f, <2>2, <2>3, <2>4, <2>5, <2>6 DEF FilesInv
<1>15. CASE DeleteGame
  <2>1. /\ place = "games" /\ edits < Edits /\ edits' = edits + 1
        /\ \E x \in exists : /\ exists' = exists \ {x} /\ cut' = cut \ {x}
                         /\ file' = [file EXCEPT ![x] = Defaults]
        /\ UNCHANGED <<g, changed, learned, videoThread, snap, folder, place>>
    BY <1>15, <1>f DEF DeleteGame, hookVars, bootVars, watchVars
  <2>e. /\ file' \in [Games -> Setting] /\ exists' \subseteq exists /\ edits' \in 0 .. Edits
        /\ \A y \in Games : file'[y] = file[y] \/ (file'[y] = Defaults /\ y \notin cut')
        /\ \A y \in Games \ exists' : file'[y].plain[2] = 0
        /\ cut' \subseteq cut
    BY <1>f, <1>t, <2>1, Ages, DefaultFacts DEF FileTypes, CutWhere
  <2>2. FileTypes'
    BY <1>f, <1>t, <1>v, <2>1, <2>e, Ages DEF FileTypes
  <2>3. SeenGame'
    BY <1>f, <1>t, <1>v, <2>1, <2>e, Ages DEF SeenGame, Pages
  <2>4. OwnWhere'
    BY <1>f, <1>t, <1>v, <2>1, <2>e, Ages, DefaultFacts DEF OwnWhere, FilesOwn, Pages, Seeing
  <2>5. CutWhere'
    BY <1>f, <1>t, <1>v, <2>1, <2>e, Ages DEF CutWhere, Pages, Seeing
  <2>6. KeptWhere'
    BY <1>f, <1>t, <1>v, <2>1, <2>e, Ages, DefaultFacts DEF KeptWhere, Pages, Seeing
  <2>. QED
    BY <1>f, <2>2, <2>3, <2>4, <2>5, <2>6 DEF FilesInv
<1>16. CASE Delete
  <2>1. Quiet
    BY <1>16, <1>f, <1>t, Ages DEF Delete, hookVars, bootVars, fileVars, watchVars, Quiet, Seeing,
       Pages
  <2>. QED
    BY <1>q, <2>1
<1>17. CASE Save
  <2>1. Quiet
    BY <1>17, <1>f, <1>t DEF Save, Closing, LoadOnly, hookVars, bootVars, cardVars, fileVars,
       pageVars, watchVars, Quiet, Seeing, Pages
  <2>. QED
    BY <1>q, <2>1
<1>18. CASE Saving
  <2>1. Quiet
    BY <1>18, <1>f, <1>t DEF Saving, hookVars, bootVars, listVars, cardVars, fileVars, pageVars,
       watchVars, Quiet, Seeing, Pages, SeenGame
  <2>. QED
    BY <1>q, <2>1
<1>19. CASE Saved
  <2>1. Quiet
    BY <1>19, <1>f, <1>t DEF Saved, hookVars, bootVars, listVars, fileVars, pageVars, watchVars,
       Quiet, Seeing, Pages, SeenGame
  <2>. QED
    BY <1>q, <2>1
<1>20. CASE Finished
  <2>1. Quiet
    BY <1>20, <1>f, <1>t DEF Finished, Return, hookVars, cardVars, fileVars, pageVars, watchVars,
       Quiet, Seeing, Pages, SeenGame
  <2>. QED
    BY <1>q, <2>1
<1>21. CASE Load
  <2>1. Quiet
    BY <1>21, <1>f, <1>t DEF Load, Closing, LoadOnly, hookVars, bootVars, cardVars, fileVars,
       pageVars, watchVars, Quiet, Seeing, Pages
  <2>. QED
    BY <1>q, <2>1
<1>22. CASE LoadReturns
  <2>1. /\ place = "loading" /\ place' = "crc"
        /\ \/ g' = g /\ videoThread' = videoThread
           \/ snap # NoSnap /\ g' = snap.g /\ videoThread' = "none"
        /\ UNCHANGED <<file, cut, exists, changed, edits, learned, snap, folder>>
    <3>1. \/ g' = g /\ videoThread' = videoThread
          \/ snap # NoSnap /\ g' = snap.g /\ videoThread' = "none"
      BY <1>22 DEF LoadReturns
    <3>. QED
      BY <1>22, <3>1 DEF LoadReturns, listVars, cardVars, fileVars, pageVars, watchVars
  <2>2. FileTypes'
    BY <1>f, <1>t, <1>v, <2>1, Ages DEF FileTypes
  <2>3. SeenGame'
    BY <1>f, <1>t, <1>v, <2>1, Ages DEF SeenGame, Pages
  <2>4. OwnWhere'
    BY <1>f, <1>t, <1>v, <2>1, Ages DEF OwnWhere, FilesOwn, Pages, Seeing
  <2>5. CutWhere'
    BY <1>f, <1>t, <1>v, <2>1, Ages DEF CutWhere, Pages, Seeing
  <2>6. KeptWhere'
    BY <1>f, <1>t, <1>v, <2>1, Ages DEF KeptWhere, Pages, Seeing
  <2>. QED
    BY <1>f, <2>2, <2>3, <2>4, <2>5, <2>6 DEF FilesInv
<1>23. CASE EnterPage
  <2>1. /\ place = "browser" /\ place' = "page" /\ changed' = FALSE /\ g' = Content(folder)
        /\ UNCHANGED <<file, cut, exists, edits, learned, videoThread, snap, folder>>
    BY <1>23, <1>f DEF EnterPage, hookVars, bootVars, listVars, cardVars, fileVars, watchVars
  <2>e. /\ g' \in Setting /\ Of(g'.plain, folder) /\ Of(g'.limit, folder)
        /\ (mixed \/ Of(g'.skip, folder)) /\ g'.plain[2] <= edits /\ g'.plain[2] \in Nat
        /\ mixed' \/ g'.plain[2] >= file[folder].plain[2]
    <3>1. /\ Content(folder) \in Setting
          /\ Of(Content(folder).plain, folder) /\ Of(Content(folder).limit, folder)
          /\ mixed \/ Of(Content(folder).skip, folder)
          /\ Content(folder).plain[2] <= edits
          /\ folder \notin cut => Content(folder).plain[2] >= file[folder].plain[2]
      BY <1>t, ContentFacts
    <3>2. folder \in cut => mixed'
      BY <1>f, <1>v, <2>1 DEF CutWhere, Pages, Seeing
    <3>3. Content(folder).plain[2] \in Nat
      BY <3>1, ValueFacts, Fields
    <3>. QED
      BY <2>1, <3>1, <3>2, <3>3
  <2>2. FileTypes'
    BY <1>f, <1>t, <1>v, <2>1, <2>e, Ages DEF FileTypes
  <2>3. SeenGame'
    BY <1>f, <1>t, <1>v, <2>1, <2>e, Ages DEF SeenGame, Pages
  <2>4. OwnWhere'
    BY <1>f, <1>t, <1>v, <2>1, <2>e, Ages DEF OwnWhere, FilesOwn, Pages, Seeing
  <2>5. CutWhere'
    BY <1>f, <1>t, <1>v, <2>1, <2>e, Ages DEF CutWhere, Pages, Seeing
  <2>6. KeptWhere'
    BY <1>f, <1>t, <1>v, <2>1, <2>e, Ages DEF KeptWhere, Pages, Seeing
  <2>. QED
    BY <1>f, <2>2, <2>3, <2>4, <2>5, <2>6 DEF FilesInv
<1>24. CASE Press
  <2>1. /\ place = "page" /\ edits < Edits /\ edits' = edits + 1 /\ changed' = TRUE
        /\ \E v \in Value :
             \/ v = <<folder, edits'>> /\ g' \in {[g EXCEPT !.plain = v], [g EXCEPT !.limit = v]}
             \/ Of(v, folder) /\ g' = [g EXCEPT !.skip = v]
        /\ UNCHANGED <<file, cut, exists, learned, videoThread, snap, folder, place>>
    <3>1. place = "page" /\ edits < Edits /\ edits' = edits + 1 /\ changed' = TRUE
      BY <1>24 DEF Press
    <3>2. edits' \in 0 .. Edits + 1 /\ <<folder, edits'>> \in Value
      BY <1>f, <1>t, <3>1, Ages, ValueFacts
    <3>3. \A v \in {Default, <<folder, CaptureMode>>, <<folder, Timed>>} :
            v \in Value /\ Of(v, folder)
      BY <1>t, ValueFacts DEF Of
    <3>4. \/ g' = [g EXCEPT !.plain = <<folder, edits'>>]
          \/ g' = [g EXCEPT !.limit = <<folder, edits'>>]
          \/ \E v \in {Default, <<folder, CaptureMode>>, <<folder, Timed>>} :
               g' = [g EXCEPT !.skip = v]
      BY <1>24 DEF Press
    <3>5. \E v \in Value :
            \/ v = <<folder, edits'>> /\ g' \in {[g EXCEPT !.plain = v], [g EXCEPT !.limit = v]}
            \/ Of(v, folder) /\ g' = [g EXCEPT !.skip = v]
      BY <3>2, <3>3, <3>4
    <3>. QED
      BY <1>24, <3>1, <3>5 DEF Press, hookVars, bootVars, listVars, cardVars, fileVars, watchVars
  <2>e. /\ g' \in Setting /\ edits' \in 0 .. Edits /\ Of(g'.plain, folder) /\ Of(g'.limit, folder)
        /\ mixed \/ Of(g'.skip, folder)
        /\ g'.plain = g.plain \/ g'.plain[2] = edits'
    <3>1. /\ g \in Setting /\ Of(g.plain, folder) /\ Of(g.limit, folder)
          /\ mixed \/ Of(g.skip, folder)
      BY <1>f, <2>1 DEF FileTypes, SeenGame, OwnWhere, Pages
    <3>2. edits' \in 0 .. Edits /\ edits' \in 0 .. Edits + 1
      BY <1>f, <2>1, Ages
    <3>3. PICK v \in Value :
            \/ v = <<folder, edits'>> /\ g' = [g EXCEPT !.plain = v]
            \/ v = <<folder, edits'>> /\ g' = [g EXCEPT !.limit = v]
            \/ Of(v, folder) /\ g' = [g EXCEPT !.skip = v]
      BY <2>1
    <3>4. v = <<folder, edits'>> => Of(v, folder) /\ v[2] = edits'
      BY DEF Of
    <3>. QED
      BY <3>1, <3>2, <3>3, <3>4 DEF Setting
  <2>2. FileTypes'
    BY <1>f, <1>t, <1>v, <2>1, <2>e, Ages DEF FileTypes
  <2>3. SeenGame'
    BY <1>f, <1>t, <1>v, <2>1, <2>e, Ages DEF SeenGame, Pages
  <2>4. OwnWhere'
    BY <1>f, <1>t, <1>v, <2>1, <2>e, Ages DEF OwnWhere, FilesOwn, Pages, Seeing
  <2>5. CutWhere'
    BY <1>f, <1>t, <1>v, <2>1, <2>e, Ages DEF CutWhere, Pages, Seeing
  <2>6. KeptWhere'
    BY <1>f, <1>t, <1>v, <2>1, <2>e, Ages DEF KeptWhere, Pages, Seeing
  <2>. QED
    BY <1>f, <2>2, <2>3, <2>4, <2>5, <2>6 DEF FilesInv
<1>25. CASE LeavePage
  <2>1. /\ place = "page" /\ place' = (IF changed THEN "trunc" ELSE "write")
        /\ UNCHANGED <<file, cut, exists, g, changed, edits, learned, videoThread, snap, folder>>
    BY <1>25, <1>f DEF LeavePage, hookVars, bootVars, listVars, cardVars, fileVars, pageVars,
       watchVars
  <2>2. FileTypes'
    BY <1>f, <1>t, <1>v, <2>1, Ages DEF FileTypes
  <2>3. SeenGame'
    BY <1>f, <1>t, <1>v, <2>1, Ages DEF SeenGame, Pages
  <2>4. OwnWhere'
    BY <1>f, <1>t, <1>v, <2>1, Ages DEF OwnWhere, FilesOwn, Pages, Seeing
  <2>5. CutWhere'
    BY <1>f, <1>t, <1>v, <2>1, Ages DEF CutWhere, Pages, Seeing
  <2>6. KeptWhere'
    BY <1>f, <1>t, <1>v, <2>1, Ages DEF KeptWhere, Pages, Seeing
  <2>. QED
    BY <1>f, <2>2, <2>3, <2>4, <2>5, <2>6 DEF FilesInv
<1>26. CASE Truncate
  <2>1. /\ place = "trunc" /\ place' = "write" /\ cut' = cut \cup {folder}
        /\ exists' = exists \cup {folder}
        /\ UNCHANGED <<file, g, changed, edits, learned, videoThread, snap, folder>>
    BY <1>26, <1>f DEF Truncate, hookVars, bootVars, listVars, pageVars, watchVars
  <2>e. exists' \subseteq Games
    BY <1>f, <1>t, <2>1, Ages DEF FileTypes
  <2>2. FileTypes'
    BY <1>f, <1>t, <1>v, <2>1, <2>e, Ages DEF FileTypes
  <2>3. SeenGame'
    BY <1>f, <1>t, <1>v, <2>1, <2>e, Ages DEF SeenGame, Pages
  <2>4. OwnWhere'
    BY <1>f, <1>t, <1>v, <2>1, <2>e, Ages DEF OwnWhere, FilesOwn, Pages, Seeing
  <2>5. CutWhere'
    BY <1>f, <1>t, <1>v, <2>1, <2>e, Ages DEF CutWhere, Pages, Seeing
  <2>6. KeptWhere'
    BY <1>f, <1>t, <1>v, <2>1, <2>e, Ages DEF KeptWhere, Pages, Seeing
  <2>. QED
    BY <1>f, <2>2, <2>3, <2>4, <2>5, <2>6 DEF FilesInv
<1>27. CASE Write
  <2>1. /\ place = "write" /\ changed' = FALSE
        /\ \/ place' = "browser" /\ folder' = folder
           \/ place' = "sleep" /\ folder' = RunningGame
        /\ IF changed THEN file' = [file EXCEPT ![folder] = g] /\ cut' = cut \ {folder}
                       ELSE UNCHANGED <<file, cut>>
        /\ \E v \in {g.limit, Content(RunningGame).limit} : g' = [g EXCEPT !.limit = v]
        /\ UNCHANGED <<exists, edits, learned, videoThread, snap>>
    <3>1. \E v \in {g.limit, Content(RunningGame).limit} : g' = [g EXCEPT !.limit = v]
      BY <1>27 DEF Write
    <3>2. \/ place' = "browser" /\ folder' = folder
          \/ place' = "sleep" /\ folder' = RunningGame
      BY <1>27 DEF Write, Return, listVars
    <3>. QED
      BY <1>27, <3>1, <3>2 DEF Write, hookVars, cardVars, fileVars, watchVars
  <2>e. /\ g' \in Setting /\ g'.plain = g.plain /\ file' \in [Games -> Setting]
        /\ \A y \in Games \ {folder} : file'[y] = file[y]
        /\ file'[folder] \in {g, file[folder]}
    <3>1. g \in Setting /\ g.limit \in Value /\ Content(RunningGame).limit \in Value
      BY <1>f, <1>t, ContentFacts, Fields DEF FileTypes
    <3>2. g' \in Setting /\ g'.plain = g.plain
      BY <2>1, <3>1 DEF Setting
    <3>. QED
      BY <1>f, <1>t, <2>1, <3>1, <3>2 DEF FileTypes
  <2>2. FileTypes'
    BY <1>f, <1>t, <1>v, <2>1, <2>e, Ages DEF FileTypes
  <2>3. SeenGame'
    BY <1>f, <1>t, <1>v, <2>1, <2>e, Ages DEF SeenGame, Pages
  <2>4. OwnWhere'
    BY <1>f, <1>t, <1>v, <2>1, <2>e, Ages DEF OwnWhere, SeenGame, FilesOwn, Pages, Seeing
  <2>5. CutWhere'
    BY <1>f, <1>t, <1>v, <2>1, <2>e, Ages DEF CutWhere, Pages, Seeing
  <2>6. KeptWhere'
    BY <1>f, <1>t, <1>v, <2>1, <2>e, Ages DEF KeptWhere, SeenGame, Pages, Seeing
  <2>. QED
    BY <1>f, <2>2, <2>3, <2>4, <2>5, <2>6 DEF FilesInv
<1>28. CASE WatcherEnds
  <2>1. Quiet
    BY <1>28, <1>f, <1>t DEF WatcherEnds, Watching, hookVars, bootVars, listVars, fileVars,
       pageVars, Quiet, Seeing, Pages, Storing, BootFirst
  <2>. QED
    BY <1>q, <2>1
<1>29. CASE Learn
  <2>1. /\ videoThread = "capture" /\ videoThread' = "read"
        /\ g' = [g EXCEPT !.skip = <<RunningGame, Timed>>]
        /\ UNCHANGED <<file, cut, exists, changed, edits, learned, snap, folder, place>>
    BY <1>29, <1>f DEF Learn, Watching, hookVars, bootVars, listVars, fileVars, pageVars
  <2>e. /\ g' \in Setting /\ g'.plain = g.plain /\ g'.limit = g.limit /\ Of(g'.skip, RunningGame)
    <3>1. /\ g \in Setting /\ <<RunningGame, Timed>> \in Value
          /\ Of(<<RunningGame, Timed>>, RunningGame)
      BY <1>f, <1>t, ValueFacts, DefaultFacts DEF FileTypes
    <3>. QED
      BY <2>1, <3>1, SetOne
  <2>2. FileTypes'
    BY <1>f, <1>t, <1>v, <2>1, <2>e, Ages DEF FileTypes
  <2>3. SeenGame'
    BY <1>f, <1>t, <1>v, <2>1, <2>e, Ages DEF SeenGame, Pages
  <2>4. OwnWhere'
    BY <1>f, <1>t, <1>v, <2>1, <2>e, Ages DEF OwnWhere, FilesOwn, Pages, Seeing
  <2>5. CutWhere'
    BY <1>f, <1>t, <1>v, <2>1, <2>e, Ages DEF CutWhere, Pages, Seeing
  <2>6. KeptWhere'
    BY <1>f, <1>t, <1>v, <2>1, <2>e, Ages DEF KeptWhere, Pages, Seeing
  <2>. QED
    BY <1>f, <2>2, <2>3, <2>4, <2>5, <2>6 DEF FilesInv
<1>30. CASE ReadBack
  <2>1. /\ videoThread = "read" /\ videoThread' = "trunc"
        /\ learned' = [Content(RunningGame) EXCEPT !.skip = g.skip]
        /\ UNCHANGED <<file, cut, exists, g, changed, edits, snap, folder, place>>
    BY <1>30, <1>f DEF ReadBack, Watching, hookVars, bootVars, listVars, fileVars, pageVars
  <2>e. /\ learned' \in Setting
        /\ Of(learned'.plain, RunningGame) /\ Of(learned'.limit, RunningGame)
        /\ mixed \/ Of(learned'.skip, RunningGame)
        /\ learned'.plain[2] <= edits
        /\ mixed' \/ learned'.plain[2] >= file[RunningGame].plain[2]
    <3>1. /\ Content(RunningGame) \in Setting
          /\ Of(Content(RunningGame).plain, RunningGame)
          /\ Of(Content(RunningGame).limit, RunningGame)
          /\ Content(RunningGame).plain[2] <= edits
          /\ RunningGame \notin cut =>
               Content(RunningGame).plain[2] >= file[RunningGame].plain[2]
      BY <1>t, ContentFacts
    <3>2. RunningGame \in cut => mixed'
      BY <1>f, <1>v, <2>1 DEF CutWhere, Pages, Seeing
    <3>3. g.skip \in Value /\ (mixed \/ Of(g.skip, RunningGame))
      BY <1>f, <2>1, Fields DEF FileTypes, OwnWhere
    <3>. HIDE DEF Content
    <3>. QED
      BY <2>1, <3>1, <3>2, <3>3, SetOne
  <2>2. FileTypes'
    BY <1>f, <1>t, <1>v, <2>1, <2>e, Ages DEF FileTypes
  <2>3. SeenGame'
    BY <1>f, <1>t, <1>v, <2>1, <2>e, Ages DEF SeenGame, Pages
  <2>4. OwnWhere'
    BY <1>f, <1>t, <1>v, <2>1, <2>e, Ages DEF OwnWhere, FilesOwn, Pages, Seeing
  <2>5. CutWhere'
    BY <1>f, <1>t, <1>v, <2>1, <2>e, Ages DEF CutWhere, Pages, Seeing
  <2>6. KeptWhere'
    BY <1>f, <1>t, <1>v, <2>1, <2>e, Ages DEF KeptWhere, Pages, Seeing
  <2>. QED
    BY <1>f, <2>2, <2>3, <2>4, <2>5, <2>6 DEF FilesInv
<1>31. CASE TruncateLearned
  <2>1. /\ videoThread = "trunc" /\ videoThread' = "write"
        /\ cut' = cut \cup {RunningGame} /\ exists' = exists \cup {RunningGame}
        /\ UNCHANGED <<file, g, changed, edits, learned, snap, folder, place>>
    BY <1>31, <1>f DEF TruncateLearned, hookVars, bootVars, listVars, pageVars
  <2>e. exists' \subseteq Games
    BY <1>f, <1>t, <2>1, Ages DEF FileTypes
  <2>2. FileTypes'
    BY <1>f, <1>t, <1>v, <2>1, <2>e, Ages DEF FileTypes
  <2>3. SeenGame'
    BY <1>f, <1>t, <1>v, <2>1, <2>e, Ages DEF SeenGame, Pages
  <2>4. OwnWhere'
    BY <1>f, <1>t, <1>v, <2>1, <2>e, Ages DEF OwnWhere, FilesOwn, Pages, Seeing
  <2>5. CutWhere'
    BY <1>f, <1>t, <1>v, <2>1, <2>e, Ages DEF CutWhere, Pages, Seeing
  <2>6. KeptWhere'
    BY <1>f, <1>t, <1>v, <2>1, <2>e, Ages DEF KeptWhere, Pages, Seeing
  <2>. QED
    BY <1>f, <2>2, <2>3, <2>4, <2>5, <2>6 DEF FilesInv
<1>32. CASE WriteLearned
  <2>1. /\ videoThread = "write" /\ videoThread' = "none" /\ learned' = Defaults
        /\ IF RunningGame \in exists
            THEN file' = [file EXCEPT ![RunningGame] = learned] /\ cut' = cut \ {RunningGame}
            ELSE UNCHANGED <<file, cut>>
        /\ UNCHANGED <<exists, g, changed, edits, snap, folder, place>>
    BY <1>32, <1>f DEF WriteLearned, Watching, hookVars, bootVars, listVars, fileVars, pageVars
  <2>e. /\ learned' \in Setting /\ file' \in [Games -> Setting]
        /\ \A y \in Games \ {RunningGame} : file'[y] = file[y]
        /\ file'[RunningGame] \in {learned, file[RunningGame]}
    BY <1>f, <1>t, <2>1, Ages, DefaultFacts DEF FileTypes
  <2>2. FileTypes'
    BY <1>f, <1>t, <1>v, <2>1, <2>e, Ages DEF FileTypes
  <2>3. SeenGame'
    BY <1>f, <1>t, <1>v, <2>1, <2>e, Ages DEF SeenGame, Pages
  <2>4. OwnWhere'
    BY <1>f, <1>t, <1>v, <2>1, <2>e, Ages, DefaultFacts DEF OwnWhere, FilesOwn, Pages, Seeing
  <2>5. CutWhere'
    BY <1>f, <1>t, <1>v, <2>1, <2>e, Ages DEF CutWhere, Pages, Seeing
  <2>6. KeptWhere'
    BY <1>f, <1>t, <1>v, <2>1, <2>e, Ages, DefaultFacts DEF KeptWhere, Pages, Seeing
  <2>. QED
    BY <1>f, <2>2, <2>3, <2>4, <2>5, <2>6 DEF FilesInv
<1>33. CASE UNCHANGED menuVars
  <2>1. Quiet
    BY <1>33, <1>f, <1>t DEF menuVars, Quiet
  <2>. QED
    BY <1>q, <2>1
<1>. QED
  BY <1>1, <1>2, <1>3, <1>4, <1>5, <1>6, <1>7, <1>8, <1>9, <1>10, <1>11, <1>12, <1>13, <1>14,
     <1>15, <1>16, <1>17, <1>18, <1>19, <1>20, <1>21, <1>22, <1>23, <1>24, <1>25, <1>26, <1>27,
     <1>28, <1>29, <1>30, <1>31, <1>32, <1>33 DEF MenuNext

\* Taking a name out of a list leaves a list of names that were in it.
LEMMA WithoutFacts ==
  ASSUME NEW S, NEW x, saves[x] \in Seq(S), NEW s
  PROVE  Without(x, s) \in Seq(S) /\ Range(Without(x, s)) \subseteq Range(saves[x])
<1>1. CASE s \notin Range(saves[x])
  BY <1>1 DEF Without
<1>2. CASE s \in Range(saves[x])
  <2>1. PICK i \in DOMAIN saves[x] : Without(x, s) = RemoveAt(saves[x], i)
    <3>1. \E i \in DOMAIN saves[x] : saves[x][i] = s
      BY <1>2 DEF Range
    <3>. DEFINE spot == CHOOSE i \in DOMAIN saves[x] : saves[x][i] = s
    <3>2. spot \in DOMAIN saves[x]
      BY <3>1
    <3>. QED
      BY <1>2, <3>2 DEF Without
  <2>2. PICK q \in Seq(S) : q = saves[x]
    OBVIOUS
  <2>. DEFINE R == Range(q)
  <2>3. i \in 1 .. Len(q) /\ Len(q) \in Nat /\ DOMAIN q = 1 .. Len(q)
    BY <2>1, <2>2
  <2>4. \A j \in 1 .. Len(q) : q[j] \in R
    BY <2>3 DEF Range
  <2>5. R \subseteq S
    BY <2>2, RangeOfSeq
  <2>. HIDE DEF R
  <2>6. SubSeq(q, 1, i - 1) \in Seq(R)
    BY <2>3, <2>4, SubSeqProperties
  <2>7. SubSeq(q, i + 1, Len(q)) \in Seq(R)
    BY <2>3, <2>4, SubSeqProperties
  <2>8. RemoveAt(q, i) \in Seq(R)
    BY <2>6, <2>7, ConcatProperties DEF RemoveAt
  <2>9. RemoveAt(q, i) \in Seq(S)
    BY <2>5, <2>8, SeqMonotonic
  <2>10. Range(RemoveAt(q, i)) \subseteq R
    BY <2>8, RangeOfSeq
  <2>. QED
    BY <2>1, <2>2, <2>9, <2>10 DEF R
<1>. QED
  BY <1>1, <1>2

\* Who writes a file, and who the list of a folder's saves.
LEMMA WhoWrites ==
  ASSUME [MenuNext]_menuVars
  PROVE  /\ file' = file \/ DeleteGame \/ Write \/ WriteLearned
         /\ saves' = saves \/ DeleteGame \/ Delete \/ Saved
<1>1. CASE Hook
  BY <1>1 DEF Hook, listVars, cardVars, fileVars, pageVars, watchVars
<1>2. CASE HookWakes
  BY <1>2 DEF HookWakes, Wake, bootVars, listVars, cardVars, fileVars, pageVars, watchVars
<1>3. CASE Start
  BY <1>3 DEF Start, bootVars, listVars, cardVars, fileVars, pageVars, watchVars
<1>4. CASE NoSleep
  BY <1>4 DEF NoSleep, hookVars, bootVars, listVars, cardVars, fileVars, pageVars, watchVars
<1>5. CASE Boot
  BY <1>5 DEF Boot, hookVars, listVars, cardVars, fileVars, pageVars, watchVars
<1>6. CASE PromptsDone
  BY <1>6 DEF PromptsDone, hookVars, bootVars, listVars, cardVars, fileVars, pageVars, watchVars
<1>7. CASE WatcherStarts
  BY <1>7 DEF WatcherStarts, hookVars, listVars, cardVars, fileVars, pageVars
<1>8. CASE OpenBrowser
  BY <1>8 DEF OpenBrowser, hookVars, bootVars, listVars, cardVars, fileVars, pageVars, watchVars
<1>9. CASE OpenFails
  BY <1>9 DEF OpenFails, Max0, hookVars, listVars, cardVars, fileVars, pageVars, watchVars
<1>10. CASE Opened
  BY <1>10 DEF Opened, ShowList, hookVars, fileVars, pageVars, watchVars
<1>11. CASE Move
  BY <1>11 DEF Move, hookVars, bootVars, cardVars, fileVars, pageVars, watchVars
<1>12. CASE Close
  BY <1>12 DEF Close, Return, hookVars, cardVars, fileVars, pageVars, watchVars
<1>13. CASE ToGames
  BY <1>13 DEF ToGames, hookVars, bootVars, listVars, cardVars, fileVars, pageVars, watchVars
<1>14. CASE Pick
  BY <1>14 DEF Pick, ShowList, hookVars, bootVars, fileVars, pageVars, watchVars
<1>15. CASE DeleteGame
  BY <1>15 DEF DeleteGame, hookVars, bootVars, watchVars
<1>16. CASE Delete
  BY <1>16 DEF Delete, hookVars, bootVars, fileVars, watchVars
<1>17. CASE Save
  BY <1>17 DEF Save, Closing, LoadOnly, hookVars, bootVars, cardVars, fileVars, pageVars, watchVars
<1>18. CASE Saving
  BY <1>18 DEF Saving, hookVars, bootVars, listVars, cardVars, fileVars, pageVars, watchVars
<1>19. CASE Saved
  BY <1>19 DEF Saved, hookVars, bootVars, listVars, fileVars, pageVars, watchVars
<1>20. CASE Finished
  BY <1>20 DEF Finished, Return, hookVars, cardVars, fileVars, pageVars, watchVars
<1>21. CASE Load
  BY <1>21 DEF Load, Closing, LoadOnly, hookVars, bootVars, cardVars, fileVars, pageVars, watchVars
<1>22. CASE LoadReturns
  BY <1>22 DEF LoadReturns, listVars, cardVars, fileVars, pageVars
<1>23. CASE EnterPage
  BY <1>23 DEF EnterPage, hookVars, bootVars, listVars, cardVars, fileVars, watchVars
<1>24. CASE Press
  BY <1>24 DEF Press, hookVars, bootVars, listVars, cardVars, fileVars, watchVars
<1>25. CASE LeavePage
  BY <1>25 DEF LeavePage, hookVars, bootVars, listVars, cardVars, fileVars, pageVars, watchVars
<1>26. CASE Truncate
  BY <1>26 DEF Truncate, hookVars, bootVars, listVars, pageVars, watchVars
<1>27. CASE Write
  BY <1>27 DEF Write, Return, hookVars, listVars, cardVars, fileVars, watchVars
<1>28. CASE WatcherEnds
  BY <1>28 DEF WatcherEnds, Watching, hookVars, bootVars, listVars, fileVars, pageVars
<1>29. CASE Learn
  BY <1>29 DEF Learn, Watching, hookVars, bootVars, listVars, fileVars, pageVars
<1>30. CASE ReadBack
  BY <1>30 DEF ReadBack, Watching, hookVars, bootVars, listVars, fileVars, pageVars
<1>31. CASE TruncateLearned
  BY <1>31 DEF TruncateLearned, hookVars, bootVars, listVars, pageVars
<1>32. CASE WriteLearned
  BY <1>32 DEF WriteLearned, Watching, hookVars, bootVars, listVars, fileVars, pageVars
<1>33. CASE UNCHANGED menuVars
  BY <1>33 DEF menuVars, hookVars, bootVars, listVars, cardVars, fileVars, pageVars, watchVars
<1>. QED
  BY <1>1, <1>2, <1>3, <1>4, <1>5, <1>6, <1>7, <1>8, <1>9, <1>10, <1>11, <1>12, <1>13, <1>14,
     <1>15, <1>16, <1>17, <1>18, <1>19, <1>20, <1>21, <1>22, <1>23, <1>24, <1>25, <1>26, <1>27,
     <1>28, <1>29, <1>30, <1>31, <1>32, <1>33 DEF MenuNext

\* The other folders' saves are a list of names.
RowNames    == SaveSlots \cup {AnySlot}
SavesAre == \A x \in Games \ {RunningGame} : saves[x] \in Seq(RowNames)

LEMMA SavesStep ==
  ASSUME BrowserInv, SeenGame, SavesAre, [MenuNext]_menuVars
  PROVE  /\ SavesAre'
         /\ \A x \in Games \ {RunningGame} : Range(saves'[x]) \subseteq Range(saves[x])
<1>. SUFFICES ASSUME NEW x \in Games \ {RunningGame}
              PROVE  saves'[x] \in Seq(RowNames) /\ Range(saves'[x]) \subseteq Range(saves[x])
  BY DEF SavesAre
<1>1. saves[x] \in Seq(RowNames) /\ saves = [y \in Games |-> saves[y]]
  BY DEF SavesAre, BrowserInv, MenuTypes
<1>2. \A s : Without(x, s) \in Seq(RowNames) /\ Range(Without(x, s)) \subseteq Range(saves[x])
  BY <1>1, WithoutFacts
<1>3. CASE saves' = saves
  BY <1>1, <1>3
<1>4. CASE DeleteGame
  <2>1. saves'[x] \in {saves[x], <<>>}
    BY <1>1, <1>4 DEF DeleteGame
  <2>2. <<>> \in Seq(RowNames) /\ Range(<<>>) = {}
    BY DEF Range
  <2>. QED
    BY <1>1, <2>1, <2>2
<1>5. CASE Delete
  <2>1. \E s : saves'[x] \in {saves[x], Without(x, s)}
    BY <1>1, <1>5 DEF Delete
  <2>. QED
    BY <1>1, <1>2, <2>1
<1>6. CASE Saved
  <2>1. folder = RunningGame
    BY <1>6 DEF Saved, SeenGame
  <2>2. saves'[x] = saves[x]
    BY <1>1, <1>6, <2>1 DEF Saved
  <2>. QED
    BY <1>1, <2>2
<1>. QED
  BY <1>3, <1>4, <1>5, <1>6, WhoWrites

LEMMA EditsStep ==
  ASSUME FilesInv, TapsWhere, [MenuNext]_menuVars
  PROVE  EditsKept
<1>. SUFFICES ASSUME NEW x \in exists \cap exists'
              PROVE  mixed' \/ file'[x].plain[2] >= file[x].plain[2]
  BY DEF EditsKept
<1>1. /\ FileTypes /\ StoringOut /\ CutWhere /\ KeptWhere /\ (mixed => mixed')
  BY MarksStep DEF FilesInv, Marks
<1>2. x \in Games /\ file[x].plain[2] \in Nat /\ file[x].plain[2] >= file[x].plain[2]
  BY <1>1, Ages DEF FileTypes
<1>3. CASE file' = file
  BY <1>2, <1>3
<1>4. CASE DeleteGame
  <2>1. file'[x] = file[x]
    BY <1>1, <1>2, <1>4 DEF DeleteGame, FileTypes
  <2>. QED
    BY <1>2, <2>1
<1>5. CASE Write
  <2>1. place \in Pages /\ (file'[x] = file[x] \/ (x = folder /\ file'[x] = g))
    BY <1>1, <1>2, <1>5 DEF Write, FileTypes, fileVars, Pages
  <2>. QED
    BY <1>1, <1>2, <2>1 DEF KeptWhere
<1>6. CASE WriteLearned
  <2>1. /\ videoThread \in {"trunc", "write"}
        /\ file'[x] = file[x] \/ (x = RunningGame /\ file'[x] = learned)
    BY <1>1, <1>2, <1>6 DEF WriteLearned, FileTypes, fileVars
  <2>. QED
    BY <1>1, <1>2, <2>1 DEF KeptWhere
<1>. QED
  BY <1>3, <1>4, <1>5, <1>6, WhoWrites

LEMMA InitFiles == MenuInit => FilesInv /\ SavesAre
<1>. SUFFICES ASSUME MenuInit PROVE FilesInv /\ SavesAre
  OBVIOUS
<1>1. PICK k \in {Default, <<RunningGame, CaptureMode>>, <<RunningGame, Timed>>} :
        file = [x \in Games |-> [plain |-> <<x, 0>>, limit |-> <<x, 0>>,
                                 skip |-> IF x = RunningGame THEN k ELSE Default]]
  BY DEF MenuInit
<1>2. k \in Value /\ Of(k, RunningGame) /\ RunningGame \in Games /\ Default \in Value
  <2>1. RunningGame \in Games
    BY MenuAssumption
  <2>2. k \in Value /\ k[1] \in {"default", RunningGame}
    BY <2>1, ValueFacts
  <2>. QED
    BY <2>1, <2>2, ValueFacts DEF Of
<1>3. \A x \in Games : /\ <<x, 0>> \in Value /\ Of(<<x, 0>>, x) /\ <<x, 0>>[2] = 0
                       /\ Of(Default, x)
  <2>1. 0 \in 0 .. Edits + 1
    BY MenuAssumption
  <2>. QED
    BY <2>1, ValueFacts DEF Of
<1>4. \A x \in Games : /\ file[x] \in Setting /\ file[x].plain = <<x, 0>>
                       /\ file[x].limit = <<x, 0>> /\ Of(file[x].skip, x)
  BY <1>1, <1>2, <1>3 DEF Setting
<1>5. file \in [Games -> Setting] /\ Defaults \in Setting
  BY <1>1, <1>4, DefaultFacts
<1>6. FileTypes
  <2>1. folder \in Games /\ exists \subseteq Games /\ changed \in BOOLEAN /\ mixed \in BOOLEAN
    BY <1>2 DEF MenuInit
  <2>2. g \in Setting /\ learned \in Setting /\ snap = NoSnap
    BY <1>5 DEF MenuInit
  <2>3. edits \in 0 .. Edits
    BY MenuAssumption DEF MenuInit
  <2>. QED
    BY <1>5, <2>1, <2>2, <2>3 DEF FileTypes
<1>7. FilesOwn
  BY <1>3, <1>4 DEF FilesOwn
<1>8. SeenGame /\ StoringOut /\ BootFirst /\ CutWhere
  BY DEF MenuInit, SeenGame, StoringOut, Storing, BootFirst, CutWhere, Pages
<1>9. OwnWhere
  BY <1>2, <1>7, DefaultFacts DEF MenuInit, OwnWhere, Pages
<1>10. KeptWhere
  BY <1>3, <1>4, DefaultFacts DEF MenuInit, KeptWhere, Pages
<1>11. SavesAre
  <2>1. <<AnySlot>> \in Seq(RowNames)
    BY DEF RowNames
  <2>. QED
    BY <2>1 DEF MenuInit, SavesAre
<1>. QED
  BY <1>6, <1>7, <1>8, <1>9, <1>10, <1>11 DEF FilesInv

\* Every folder keeps its own settings and saves: no file gets a value chosen for another game, what
\* a page stored is not undone, and only the running game's folder gets a save, with its own
\* compression (menu.c:902-907, videoskip.c:303-305), however the pages, the list of games, the
\* operations and the watcher interleave.
THEOREM FoldersStayApart == MenuSpec => FilesKept
<1>1. ASSUME BrowserInv, FilesInv, SavesAre, [MenuNext]_menuVars
      PROVE  FilesInv' /\ SavesAre' /\ [FilesOwn' /\ EditsKept /\ SavesOwn]_menuVars
  <2>1. FilesInv' /\ EditsKept
    BY <1>1, FilesStep, EditsStep DEF BrowserInv
  <2>2. SavesAre' /\ \A x \in Games \ {RunningGame} : Range(saves'[x]) \subseteq Range(saves[x])
    BY <1>1, SavesStep DEF FilesInv
  <2>3. place' = "saving" => Of(g'.plain, RunningGame)
    BY <2>1 DEF FilesInv, SeenGame
  <2>4. FilesOwn'
    BY <2>1 DEF FilesInv, OwnWhere
  <2>. QED
    BY <2>1, <2>2, <2>3, <2>4 DEF SavesOwn
<1>. QED
  BY <1>1, InitBrowser, BrowserStep, InitFiles, PTL DEF MenuSpec, FilesKept

-----------------------------------------------------------------------------
(* The cheats: what the unlock thread patches is undone, for any options,   *)
(* any delays of the thread and any wait of the exit.  Two writes of one    *)
(* option that overlap in part are excluded: their backups would depend on  *)
(* the order they are put back in.                                          *)

\* Two writes of one option change the same cells, or none in common.
WritesApart ==
  \A u \in 1 .. Len(Unlocks) : \A i, j \in Writes(u) :
    IF Unlocks[u][i].at = Unlocks[u][j].at THEN Covers(Unlocks[u][i]) = Covers(Unlocks[u][j])
    ELSE Covers(Unlocks[u][i]) \cap Covers(Unlocks[u][j]) = {}

\* The originals a backup may hold.
Entries == [at : Nat, size : 1 .. 2, was : UNION {[D -> {0}] : D \in SUBSET Cells}]

\* Whose entry an original is.
EntryOf(b, u) ==
  u \in 1 .. Len(Unlocks) /\ \E n \in Writes(u) :
    /\ b.at = Unlocks[u][n].at /\ DOMAIN b.was = Covers(Unlocks[u][n])
    /\ Covers(Unlocks[u][n]) # {}

\* The backup `undo` has the game's own code wherever `code`, patched by unlock `u`, does not.
Undoes(undo, code, u) ==
  /\ undo \in Seq(Entries)
  /\ \A i \in 1 .. Len(undo) : EntryOf(undo[i], u)
  /\ \A i, j \in 1 .. Len(undo) : undo[i].at = undo[j].at => i = j
  /\ \A c \in Cells : code[c] = 0 \/ \E i \in 1 .. Len(undo) : c \in DOMAIN undo[i].was

\* No cell is in two originals of a backup.
LEMMA OneHas ==
  ASSUME WritesApart, NEW undo, NEW code, NEW u, Undoes(undo, code, u),
         NEW i \in 1 .. Len(undo), NEW j \in 1 .. Len(undo), i # j,
         NEW c \in DOMAIN undo[i].was
  PROVE  c \notin DOMAIN undo[j].was
<1>1. PICK m \in Writes(u) :
        undo[i].at = Unlocks[u][m].at /\ DOMAIN undo[i].was = Covers(Unlocks[u][m])
  BY DEF Undoes, EntryOf
<1>2. PICK n \in Writes(u) :
        undo[j].at = Unlocks[u][n].at /\ DOMAIN undo[j].was = Covers(Unlocks[u][n])
  BY DEF Undoes, EntryOf
<1>3. Unlocks[u][m].at # Unlocks[u][n].at
  BY <1>1, <1>2 DEF Undoes
<1>4. u \in 1 .. Len(Unlocks)
  BY DEF Undoes, EntryOf
<1>5. Covers(Unlocks[u][m]) \cap Covers(Unlocks[u][n]) = {}
  BY <1>1, <1>2, <1>3, <1>4 DEF WritesApart
<1> QED
  BY <1>1, <1>2, <1>5

\* Putting a sound backup back leaves the game's own code.
LEMMA AllPutBack ==
  ASSUME WritesApart, Undoes(originals, gameCode, chosen), NEW c \in Cells
  PROVE  PutBack[c] = 0
<1>1. originals \in Seq(Entries) /\ Len(originals) \in Nat
  BY DEF Undoes
<1>2. \A i \in 1 .. Len(originals) : originals[i] \in Entries
  BY <1>1
<1>3. CASE Deciding(c) = {}
  <2>1. PutBack[c] = gameCode[c]
    BY <1>3 DEF PutBack
  <2>2. ASSUME NEW i \in 1 .. Len(originals), c \in DOMAIN originals[i].was
        PROVE  FALSE
    <3>1. \A j \in i + 1 .. Len(originals) : j \in 1 .. Len(originals) /\ i # j
      BY <1>1
    <3>2. \A j \in i + 1 .. Len(originals) : c \notin DOMAIN originals[j].was
      BY <2>2, <3>1, OneHas
    <3>3. i \in Deciding(c)
      BY <2>2, <3>2 DEF Deciding
    <3> QED
      BY <1>3, <3>3
  <2> QED
    BY <2>1, <2>2 DEF Undoes
<1>4. CASE Deciding(c) # {}
  <2> DEFINE i == CHOOSE k \in Deciding(c) : TRUE
  <2>1. i \in Deciding(c)
    BY <1>4
  <2>2. i \in 1 .. Len(originals) /\ c \in DOMAIN originals[i].was
    BY <2>1 DEF Deciding
  <2>3. PutBack[c] = originals[i].was[c]
    BY <1>4 DEF PutBack
  <2>4. PICK D \in SUBSET Cells : originals[i].was \in [D -> {0}]
    BY <1>2, <2>2 DEF Entries
  <2> HIDE DEF i
  <2> QED
    BY <2>2, <2>3, <2>4
<1> QED
  BY <1>3, <1>4

\* How many places a sequence has.
LEMMA UpTo ==
  ASSUME NEW n \in Nat
  PROVE  IsFiniteSet(1 .. n) /\ Cardinality(1 .. n) = n
<1>1. IsFiniteSet(1 .. n) /\ Cardinality(1 .. n) = IF 1 > n THEN 0 ELSE n - 1 + 1
  <2>1. 1 \in Int /\ n \in Int
    OBVIOUS
  <2> QED
    BY <2>1, FS_Interval, Zenon
<1>2. CASE n = 0
  BY <1>1, <1>2
<1>3. CASE n # 0
  <2>1. ~(1 > n) /\ n - 1 + 1 = n
    BY <1>3
  <2> QED
    BY <1>1, <2>1, Zenon
<1> QED
  BY <1>2, <1>3

\* An option writes finitely many places.
LEMMA WrittenIsFinite ==
  ASSUME NEW u \in 1 .. Len(Unlocks)
  PROVE  IsFiniteSet(Written(u))
<1> DEFINE Patches == {w \in Writes(u) : Covers(Unlocks[u][w]) # {}}
           places == [i \in Patches |-> Unlocks[u][i].at]
<1>1. IsFiniteSet(1 .. Len(Unlocks[u]))
  BY ThreadAssumption, UpTo
<1>2. IsFiniteSet(Patches)
  BY <1>1, FS_Subset DEF Writes
<1>3. Written(u) = {Unlocks[u][i].at : i \in Patches}
  BY DEF Written
<1>4. places \in Surjection(Patches, Written(u))
  <2> HIDE DEF Patches
  <2> QED
    BY <1>3 DEF Surjection
<1> HIDE DEF Patches, places
<1> QED
  BY <1>2, <1>4, FS_Surjection

\* An option writes no more places than the backup holds, so one it has not noted yet fits.
LEMMA RoomForOne ==
  ASSUME Undoes(originals, gameCode, chosen), chosen \in 1 .. Len(Unlocks),
         NEW n \in Writes(chosen), Covers(Unlocks[chosen][n]) # {}, ~Known(Unlocks[chosen][n])
  PROVE  Len(originals) < MaxBackup
<1> DEFINE l == Unlocks[chosen][n]
           Others == Written(chosen) \ {l.at}
           Places == 1 .. Len(originals)
           f == [i \in Places |-> originals[i].at]
<1>1. Len(originals) \in Nat /\ Len(Unlocks[chosen]) \in Nat
      /\ Cardinality(Written(chosen)) <= MaxBackup /\ MaxBackup \in Nat
  BY ThreadAssumption DEF Undoes
<1>2. IsFiniteSet(Written(chosen))
  BY WrittenIsFinite
<1>3. l.at \in Written(chosen)
  BY DEF Written
<1>4. IsFiniteSet(Others) /\ Cardinality(Others) = Cardinality(Written(chosen)) - 1
  BY <1>2, <1>3, FS_RemoveElement
<1>5. f \in Injection(Places, Others)
  <2>1. ASSUME NEW i \in Places PROVE originals[i].at \in Others
    <3>1. originals[i].at # l.at
      BY DEF Known
    <3>2. PICK m \in Writes(chosen) :
            originals[i].at = Unlocks[chosen][m].at /\ Covers(Unlocks[chosen][m]) # {}
      BY DEF Undoes, EntryOf
    <3>3. originals[i].at \in Written(chosen)
      BY <3>2 DEF Written
    <3> QED
      BY <3>1, <3>3
  <2>2. \A i, j \in Places : originals[i].at = originals[j].at => i = j
    BY DEF Undoes
  <2> HIDE DEF Others, Places
  <2> QED
    BY <2>1, <2>2 DEF Injection, IsInjective
<1>6. Cardinality(Places) <= Cardinality(Others)
  <2> HIDE DEF f, Places, Others
  <2> QED BY <1>4, <1>5, FS_Injection
<1>7. Cardinality(Places) = Len(originals)
  BY <1>1, UpTo
<1>8. Cardinality(Written(chosen)) \in Nat
  BY <1>2, FS_CardinalityType
<1> QED
  BY <1>1, <1>4, <1>6, <1>7, <1>8

\* The places of the unlock thread.
Threads ==
  [at : {"none", "top", "asleep", "blank", "after", "apply", "leave"},
   left : Nat, of : Nat, line : Nat]

\* A thread, as it is or as an image has it: it is there if it is said to be.
ThreadOf(t, up) == t \in Threads /\ (up <=> t.at # "none") /\ t.left < StopPolls

CheatTypes ==
  /\ chosen \in 0 .. Len(Unlocks) /\ leaving \in -1 .. StopPolls /\ ThreadOf(thread, started)
  /\ quit \in BOOLEAN /\ hold \in BOOLEAN
  /\ op \in {"none", "save", "load", "saving", "loading", "done"}

\* The thread that is among the lines of an option is among those of the option chosen.
ApplyWhere ==
  thread.at = "apply"
  => /\ thread.of = chosen /\ chosen \in 1 .. Len(Unlocks)
     /\ thread.line \in 1 .. Len(Unlocks[chosen])

\* The hold is up from the trigger to the release, and no exit begins behind it.
OpWhere ==
  /\ op # "none" => hold /\ leaving = -1 /\ thread.at # "apply"
  /\ op \in {"load", "loading"} => image # NoImage

\* What a load brings back is as sound as what it was captured from.
ImageWhere ==
  image # NoImage
  => /\ Undoes(image.originals, image.gameCode, image.chosen)
     /\ image.chosen \in 0 .. Len(Unlocks) /\ image.quit \in BOOLEAN
     /\ ThreadOf(image.thread, image.started) /\ image.thread.at # "apply"

\* A sleep ends before the exit stops waiting.
ExitWhere ==
  /\ leaving >= 0 => quit
  /\ leaving > 0 /\ thread.at \in {"asleep", "blank"} => thread.left < leaving
  /\ leaving = 0 => thread.at = "none"

PlaceInv == CheatTypes /\ ApplyWhere /\ OpWhere /\ ImageWhere /\ ExitWhere

CheatInv == PlaceInv /\ Undoes(originals, gameCode, chosen)

\* What a thread at a place without lines is.
LEMMA AtPoints ==
  ASSUME NEW p \in {"none", "top", "asleep", "blank", "after", "apply", "leave"}
  PROVE  /\ At(p) \in Threads /\ At(p).at = p /\ At(p).left = 0
         /\ \A n \in Nat : /\ [At(p) EXCEPT !.left = n] \in Threads
                            /\ [At(p) EXCEPT !.left = n].at = p
                            /\ [At(p) EXCEPT !.left = n].left = n
BY DEF At, NoThread, Threads

\* The thread is where it says it is, and among the lines of the chosen option only.
LEMMA ThreadStep ==
  ASSUME CheatInv, [ThreadNext]_threadVars
  PROVE  CheatTypes' /\ ApplyWhere'
<1> USE DEF CheatInv, PlaceInv, CheatTypes, ThreadOf, ApplyWhere
<1>0. /\ Gated \in Nat /\ VBlank \in Nat /\ StopPolls \in Nat \ {0}
      /\ Gated < StopPolls /\ VBlank < StopPolls
      /\ Len(Unlocks) \in Nat
  BY ThreadAssumption
<1>1. CASE Loop
  <2>1. UNCHANGED <<chosen, started, quit, hold, op, leaving>>
    BY <1>1 DEF Loop, choice, gateVars
  <2>2. /\ thread' \in Threads /\ thread'.at # "none" /\ thread'.at # "apply"
        /\ thread'.left < StopPolls
    BY <1>0, <1>1, AtPoints DEF Loop
  <2>3. thread.at = "top"
    BY <1>1 DEF Loop
  <2> QED
    BY <2>1, <2>2, <2>3
<1>2. CASE Wakes
  <2>1. UNCHANGED <<chosen, started, quit, hold, op, leaving>>
    BY <1>2 DEF Wakes, choice, gateVars
  <2>2. /\ thread' \in Threads /\ thread'.at # "none" /\ thread'.at # "apply"
        /\ thread'.left < StopPolls
    BY <1>0, <1>2, AtPoints DEF Wakes
  <2>3. thread.at # "none"
    BY <1>2 DEF Wakes
  <2> QED
    BY <2>1, <2>2, <2>3
<1>3. CASE Recheck
  <2>1. UNCHANGED <<chosen, started, quit, hold, op, leaving>>
    BY <1>3 DEF Recheck, choice, gateVars
  <2>2. thread.at = "after"
    BY <1>3 DEF Recheck
  <2>3. CASE quit \/ chosen <= 0
    <3>1. thread' = At("leave")
      BY <1>3, <2>3 DEF Recheck
    <3> QED
      BY <1>0, <2>1, <2>2, <3>1, AtPoints
  <2>4. CASE ~(quit \/ chosen <= 0) /\ RecheckGate
    <3>1. thread' = At("top")
      BY <1>3, <2>4 DEF Recheck
    <3> QED
      BY <1>0, <2>1, <2>2, <3>1, AtPoints
  <2>5. CASE ~(quit \/ chosen <= 0) /\ ~RecheckGate
    <3>1. thread' = [At("apply") EXCEPT !.of = chosen, !.line = 1]
      BY <1>3, <2>5 DEF Recheck
    <3>2. thread' = [at |-> "apply", left |-> 0, of |-> chosen, line |-> 1]
      BY <3>1 DEF At, NoThread
    <3>3. chosen \in 1 .. Len(Unlocks)
      BY <1>0, <2>5
    <3>4. 1 \in 1 .. Len(Unlocks[chosen])
      BY <3>3, ThreadAssumption
    <3>5. thread' \in Threads
      BY <3>2, <3>3 DEF Threads
    <3> QED
      BY <1>0, <2>1, <2>2, <3>2, <3>3, <3>4, <3>5
  <2> QED
    BY <2>3, <2>4, <2>5
<1>4. CASE ApplyUnlock
  <2> DEFINE code == Unlocks[thread.of]
             l == code[thread.line]
             next(n) == IF n > Len(code) THEN At("top") ELSE [thread EXCEPT !.line = n]
  <2>1. UNCHANGED <<chosen, started, quit, hold, op, leaving>>
    BY <1>4 DEF ApplyUnlock, gateVars
  <2>2. thread.at = "apply" /\ thread.of = chosen /\ chosen \in 1 .. Len(Unlocks)
        /\ thread.line \in 1 .. Len(Unlocks[chosen])
    BY <1>4 DEF ApplyUnlock
  <2>0. Len(Unlocks[chosen]) \in Nat
    BY <2>2, ThreadAssumption
  <2>3. \E n \in Nat : n > 0 /\ thread' = next(n)
    <3>1. CASE l.t = "write"
      <4>1. thread' = next(thread.line + 1)
        BY <1>4, <3>1 DEF ApplyUnlock
      <4>2. thread.line + 1 \in Nat /\ thread.line + 1 > 0
        BY <2>2, <2>0
      <4> HIDE DEF next
      <4> QED
        BY <4>1, <4>2
    <3>2. CASE l.t # "write"
      <4> DEFINE far == IF l.t = "if" /\ flag THEN 0 ELSE l.skip
      <4>1. l.skip \in Nat
        BY <2>2, <3>2, ThreadAssumption
      <4>2. thread' = next(thread.line + 1 + far)
        BY <1>4, <3>2 DEF ApplyUnlock
      <4>3. far \in Nat
        BY <4>1
      <4> HIDE DEF far, next
      <4>4. thread.line + 1 + far \in Nat /\ thread.line + 1 + far > 0
        BY <2>2, <2>0, <4>3
      <4> QED
        BY <4>2, <4>4
    <3> QED
      BY <3>1, <3>2
  <2>4. PICK n \in Nat : n > 0 /\ thread' = next(n)
    BY <2>3
  <2>5. CASE n > Len(code)
    <3>1. thread' = At("top")
      BY <2>4, <2>5
    <3> QED
      BY <1>0, <2>1, <2>2, <3>1, AtPoints
  <2>6. CASE ~(n > Len(code))
    <3>1. thread' = [thread EXCEPT !.line = n]
      BY <2>4, <2>6
    <3>2. thread' \in Threads /\ thread'.at = "apply" /\ thread'.of = thread.of /\ thread'.line = n
          /\ thread'.left = thread.left
      BY <2>2, <3>1 DEF Threads
    <3>3. n \in 1 .. Len(Unlocks[chosen])
      BY <2>2, <2>4, <2>6, ThreadAssumption
    <3> QED
      BY <1>0, <2>1, <2>2, <3>2, <3>3
  <2> QED
    BY <2>5, <2>6
<1>5. CASE Retire
  <2>1. thread' = NoThread /\ started' = FALSE
    BY <1>5 DEF Retire
  <2>2. UNCHANGED <<chosen, quit, hold, op, leaving>>
    BY <1>5 DEF Retire, choice, gateVars
  <2>3. NoThread \in Threads /\ NoThread.at = "none" /\ NoThread.left = 0
    BY DEF NoThread, Threads
  <2>4. thread' \in Threads /\ thread'.at = "none" /\ thread'.left < StopPolls
    BY <1>0, <2>1, <2>3
  <2> QED
    BY <2>1, <2>2, <2>4
<1>6. CASE OpenMenu \/ CloseMenu \/ Capture \/ GameFlips
  BY <1>0, <1>6 DEF OpenMenu, CloseMenu, Capture, GameFlips, choice, gateVars, gameVars
<1>7. CASE CycleUnlock
  <2>1. ~Running
    BY <1>7 DEF CycleUnlock, Settled
  <2>2. chosen' \in 0 .. Len(Unlocks)
    BY <1>0, <1>7 DEF CycleUnlock
  <2>3. UNCHANGED <<hold, op, leaving>>
    BY <1>7 DEF CycleUnlock, gateVars
  <2>4. \/ thread' = At("top") /\ started' = TRUE /\ quit' = FALSE
        \/ UNCHANGED <<thread, started, quit>>
    BY <1>7 DEF CycleUnlock
  <2>5. thread.at # "apply"
    BY <2>1 DEF Running
  <2>6. CASE thread' = At("top") /\ started' = TRUE /\ quit' = FALSE
    <3>1. thread' \in Threads /\ thread'.at = "top" /\ thread'.left < StopPolls
      BY <1>0, <2>6, AtPoints
    <3> QED
      BY <2>2, <2>3, <2>6, <3>1
  <2>7. CASE UNCHANGED <<thread, started, quit>>
    BY <2>2, <2>3, <2>5, <2>7
  <2> QED
    BY <2>4, <2>6, <2>7
<1>8. CASE Trigger
  BY <1>0, <1>8 DEF Trigger, choice, gateVars, gameVars
<1>9. CASE MenuFlagOff \/ Release
  <2>1. UNCHANGED <<chosen, thread, started, quit, leaving>>
    BY <1>9 DEF MenuFlagOff, Release, choice
  <2>2. hold' \in BOOLEAN /\ op' \in {"none", "saving", "loading"}
    BY <1>9 DEF MenuFlagOff, Release
  <2> QED
    BY <2>1, <2>2
<1>10. CASE Restore
  <2>1. image # NoImage
    BY <1>10 DEF Restore, OpWhere
  <2>2. /\ chosen' = image.chosen /\ thread' = image.thread /\ started' = image.started
        /\ quit' = image.quit /\ hold' = hold /\ leaving' = leaving /\ op' = "done"
    BY <1>10 DEF Restore, gateVars
  <2> QED
    BY <1>0, <2>1, <2>2 DEF ImageWhere
<1>11. CASE Stop \/ StopDone
  <2>1. UNCHANGED <<chosen, thread, started, hold, op>>
    BY <1>11 DEF Stop, StopDone, choice, gateVars
  <2>2. quit' \in BOOLEAN /\ leaving' \in {0, StopPolls}
    BY <1>11 DEF Stop, StopDone
  <2> QED
    BY <1>0, <2>1, <2>2
<1>12. CASE PassTime
  <2>1. UNCHANGED <<chosen, started, quit, hold, op>>
    BY <1>12 DEF PassTime, choice, gateVars
  <2>2. leaving' \in -1 .. StopPolls
    BY <1>0, <1>12 DEF PassTime
  <2>3. /\ thread' \in Threads /\ thread'.at = thread.at /\ thread'.of = thread.of
        /\ thread'.line = thread.line /\ thread'.left <= thread.left
    BY <1>12 DEF PassTime, Threads
  <2>4. thread'.left < StopPolls
    <3> thread.left \in Nat /\ thread'.left \in Nat
      BY <2>3 DEF Threads
    <3> QED BY <1>0, <2>3
  <2> QED
    BY <2>1, <2>2, <2>3, <2>4
<1>13. CASE UNCHANGED threadVars
  BY <1>13 DEF threadVars
<1> QED
  BY <1>1, <1>2, <1>3, <1>4, <1>5, <1>6, <1>7, <1>8, <1>9, <1>10, <1>11, <1>12, <1>13 DEF ThreadNext

\* The thread's own steps and the steps of time leave the operation and its image alone.
LEMMA PlaceStep ==
  ASSUME CheatInv, [ThreadNext]_threadVars
  PROVE  OpWhere' /\ ExitWhere'
<1> USE DEF CheatInv, PlaceInv
<1>0. /\ Gated \in Nat /\ VBlank \in Nat /\ StopPolls \in Nat
      /\ Gated < StopPolls /\ VBlank < StopPolls
      /\ leaving \in -1 .. StopPolls /\ thread \in Threads /\ thread.left < StopPolls
      /\ (started <=> thread.at # "none")
  BY ThreadAssumption DEF CheatTypes, ThreadOf
<1>1. CASE Loop
  <2>1. UNCHANGED <<quit, hold, op, image, leaving>> /\ thread.at = "top"
    BY <1>1 DEF Loop, gateVars
  <2>2. thread'.at # "apply" /\ (quit => thread'.at = "leave")
    BY <1>0, <1>1, AtPoints DEF Loop
  <2> QED
    BY <1>0, <2>1, <2>2 DEF OpWhere, ExitWhere
<1>2. CASE Wakes
  <2>1. UNCHANGED <<quit, hold, op, image, leaving>> /\ thread.at \in {"asleep", "blank"}
    BY <1>2 DEF Wakes, gateVars
  <2>2. thread'.at \in {"top", "after"}
    BY <1>2, AtPoints DEF Wakes
  <2> QED
    BY <1>0, <2>1, <2>2 DEF OpWhere, ExitWhere
<1>3. CASE Recheck
  <2>1. UNCHANGED <<quit, hold, op, image, leaving>> /\ thread.at = "after"
    BY <1>3 DEF Recheck, gateVars
  <2>2. thread' \in {At("leave"), At("top"), [At("apply") EXCEPT !.of = chosen, !.line = 1]}
        /\ (hold => thread' \in {At("leave"), At("top")})
    BY <1>3 DEF Recheck, RecheckGate, Closed
  <2>3. thread'.at \in {"leave", "top", "apply"} /\ (hold => thread'.at \in {"leave", "top"})
    <3>1. [At("apply") EXCEPT !.of = chosen, !.line = 1].at = "apply"
      BY DEF At, NoThread
    <3>2. At("leave").at = "leave" /\ At("top").at = "top"
      BY AtPoints
    <3> QED
      BY <2>2, <3>1, <3>2
  <2> QED
    BY <1>0, <2>1, <2>3 DEF OpWhere, ExitWhere
<1>4. CASE ApplyUnlock
  <2>1. UNCHANGED <<quit, hold, op, image, leaving>> /\ thread.at = "apply"
    BY <1>4 DEF ApplyUnlock, gateVars
  <2>2. op = "none"
    BY <2>1 DEF OpWhere
  <2>3. thread'.at \in {"top", "apply"}
    <3>1. thread' = At("top") \/ \E n : thread' = [thread EXCEPT !.line = n]
      BY <1>4 DEF ApplyUnlock
    <3>2. CASE thread' = At("top")
      BY <3>2, AtPoints
    <3>3. ASSUME NEW n, thread' = [thread EXCEPT !.line = n]
          PROVE  thread'.at = "apply"
      BY <1>0, <2>1, <3>3 DEF Threads
    <3> QED
      BY <3>1, <3>2, <3>3
  <2> QED
    BY <1>0, <2>1, <2>2, <2>3 DEF OpWhere, ExitWhere
<1>5. CASE Retire
  <2>1. UNCHANGED <<quit, hold, op, image, leaving>> /\ thread'.at = "none"
    BY <1>5 DEF Retire, gateVars, NoThread
  <2> QED
    BY <1>0, <2>1 DEF OpWhere, ExitWhere
<1>6. CASE OpenMenu \/ CloseMenu \/ GameFlips
  <2>1. UNCHANGED <<thread, quit, hold, op, image, leaving>>
    BY <1>6 DEF OpenMenu, CloseMenu, GameFlips, gateVars
  <2> QED
    BY <1>0, <2>1 DEF OpWhere, ExitWhere
<1>7. CASE CycleUnlock
  <2>1. UNCHANGED <<hold, op, image, leaving>> /\ leaving = -1 /\ op = "none"
    BY <1>7 DEF CycleUnlock, gateVars, Settled
  <2> QED
    BY <2>1 DEF OpWhere, ExitWhere
<1>8. CASE Trigger
  <2>1. UNCHANGED <<thread, quit, image, leaving>> /\ ~Running /\ leaving = -1
    BY <1>8 DEF Trigger, Settled
  <2>2. hold' = TRUE /\ op' \in {"save", "load"} /\ (op' = "load" => image # NoImage)
    BY <1>8 DEF Trigger
  <2>3. thread.at # "apply"
    BY <2>1 DEF Running
  <2> QED
    BY <2>1, <2>2, <2>3 DEF OpWhere, ExitWhere
<1>9. CASE MenuFlagOff
  <2>1. UNCHANGED <<thread, quit, hold, image, leaving>>
    BY <1>9 DEF MenuFlagOff
  <2>2. op \in {"save", "load"} /\ op' = IF op = "save" THEN "saving" ELSE "loading"
    BY <1>9 DEF MenuFlagOff
  <2>3. leaving = -1 /\ hold /\ thread.at # "apply" /\ (op = "load" => image # NoImage)
    BY <2>2 DEF OpWhere
  <2> QED
    BY <2>1, <2>2, <2>3 DEF OpWhere, ExitWhere
<1>10. CASE Capture
  <2>1. UNCHANGED <<thread, quit, hold, leaving>> /\ op = "saving" /\ op' = "done"
    BY <1>10 DEF Capture, gateVars
  <2>2. leaving = -1 /\ hold /\ thread.at # "apply"
    BY <2>1 DEF OpWhere
  <2> QED
    BY <2>1, <2>2 DEF OpWhere, ExitWhere
<1>11. CASE Restore
  <2>1. UNCHANGED <<hold, leaving>> /\ op = "loading" /\ op' = "done" /\ thread' = image.thread
    BY <1>11 DEF Restore, gateVars
  <2>2. leaving = -1 /\ hold /\ image # NoImage
    BY <2>1 DEF OpWhere
  <2>3. thread'.at # "apply"
    BY <2>1, <2>2 DEF ImageWhere
  <2> QED
    BY <2>1, <2>2, <2>3 DEF OpWhere, ExitWhere
<1>12. CASE Release
  <2>1. UNCHANGED <<thread, quit, leaving>> /\ op' = "none" /\ op # "none"
    BY <1>12 DEF Release
  <2>2. leaving = -1
    BY <2>1 DEF OpWhere
  <2> QED
    BY <2>1, <2>2 DEF OpWhere, ExitWhere
<1>13. CASE Stop
  <2>1. UNCHANGED <<thread, hold, op, image>> /\ op = "none" /\ quit' = TRUE /\ leaving' = StopPolls
    BY <1>13 DEF Stop, gateVars
  <2>2. StopPolls # 0
    BY ThreadAssumption
  <2> QED
    BY <1>0, <2>1, <2>2 DEF OpWhere, ExitWhere
<1>14. CASE StopDone
  <2>1. UNCHANGED <<thread, quit, hold, op, image>> /\ leaving > 0 /\ ~started /\ leaving' = 0
    BY <1>14 DEF StopDone, gateVars
  <2>2. thread.at = "none" /\ op = "none" /\ quit
    BY <1>0, <2>1 DEF OpWhere, ExitWhere
  <2> QED
    BY <2>1, <2>2 DEF OpWhere, ExitWhere
<1>15. CASE PassTime
  <2>1. UNCHANGED <<quit, hold, op, image>> /\ op = "none" /\ ~Running
    BY <1>15 DEF PassTime, gateVars
  <2>2. thread.at \in {"none", "asleep", "blank"} /\ thread.left \in Nat
    BY <1>0, <2>1 DEF Running, Threads
  <2>3. CASE thread.at = "none"
    <3>1. thread'.at = "none"
      BY <1>0, <1>15, <2>3 DEF PassTime, Threads
    <3>2. leaving' >= 0 => leaving >= 0
      BY <1>0, <1>15 DEF PassTime
    <3> QED
      BY <2>1, <3>1, <3>2 DEF OpWhere, ExitWhere
  <2>4. CASE thread.at # "none"
    <3>1. thread.left > 0 /\ thread' = [thread EXCEPT !.left = @ - 1]
      BY <1>15, <2>2, <2>4 DEF PassTime
    <3>2. thread'.at = thread.at /\ thread'.left = thread.left - 1
      BY <1>0, <3>1 DEF Threads
    <3>3. leaving' = IF leaving > 0 THEN leaving - 1 ELSE leaving
      BY <1>15 DEF PassTime
    <3>4. leaving > 0 => thread.left < leaving
      BY <2>2, <2>4 DEF ExitWhere
    <3>5. /\ leaving' # 0 /\ (leaving' >= 0 => leaving >= 0)
          /\ leaving' > 0 => thread'.left < leaving'
      BY <1>0, <1>15, <2>2, <3>1, <3>2, <3>3, <3>4 DEF PassTime
    <3> QED
      BY <2>1, <3>5 DEF OpWhere, ExitWhere
  <2> QED
    BY <2>3, <2>4
<1>16. CASE UNCHANGED threadVars
  BY <1>16 DEF threadVars, OpWhere, ExitWhere
<1> QED
  BY <1>1, <1>2, <1>3, <1>4, <1>5, <1>6, <1>7, <1>8, <1>9, <1>10, <1>11, <1>12, <1>13, <1>14,
     <1>15, <1>16 DEF ThreadNext

\* Every line undoes what it does: it notes what it changes, and for one more there is room.
LEMMA ApplyKeeps ==
  ASSUME WritesApart, CheatInv, ApplyUnlock
  PROVE  Undoes(originals', gameCode', chosen')
<1> DEFINE u == chosen
           l == Unlocks[u][thread.line]
<1>1. /\ u \in 1 .. Len(Unlocks) /\ thread.of = u /\ thread.line \in 1 .. Len(Unlocks[u])
      /\ chosen' = u
  BY DEF ApplyUnlock, CheatInv, PlaceInv, ApplyWhere
<1>2. Undoes(originals, gameCode, u)
  BY DEF CheatInv
<1>3. CASE l.t # "write"
  <2>1. gameCode' = gameCode /\ originals' = originals
    BY <1>1, <1>3 DEF ApplyUnlock
  <2> QED
    BY <1>1, <1>2, <2>1
<1>4. CASE l.t = "write"
  <2> DEFINE n == thread.line
             now == [c \in Covers(l) |-> gameCode[c]]
             alters == \E c \in Covers(l) : gameCode[c] # l.to
  <2>1. n \in Writes(u) /\ Covers(l) \subseteq Cells
    BY <1>1, <1>4 DEF Writes, Covers
  <2>2. /\ originals' = IF alters THEN Noted(l, now) ELSE originals
        /\ gameCode' = [c \in Cells |-> IF c \in Covers(l) THEN l.to ELSE gameCode[c]]
    BY <1>1, <1>4 DEF ApplyUnlock
  <2>3. ASSUME NEW i \in 1 .. Len(originals), originals[i].at = l.at
        PROVE  DOMAIN originals[i].was = Covers(l)
    <3>1. PICK m \in Writes(u) : originals[i].at = Unlocks[u][m].at
                                  /\ DOMAIN originals[i].was = Covers(Unlocks[u][m])
      BY <1>2 DEF Undoes, EntryOf
    <3> QED
      BY <1>1, <2>1, <2>3, <3>1 DEF WritesApart
  <2>4. ASSUME NEW i \in 1 .. Len(originals), originals[i].at # l.at
        PROVE  DOMAIN originals[i].was \cap Covers(l) = {}
    <3>1. PICK m \in Writes(u) : originals[i].at = Unlocks[u][m].at
                                  /\ DOMAIN originals[i].was = Covers(Unlocks[u][m])
      BY <1>2 DEF Undoes, EntryOf
    <3> QED
      BY <1>1, <2>1, <2>4, <3>1 DEF WritesApart
  <2>5. CASE ~alters
    <3>1. originals' = originals
      BY <2>2, <2>5
    <3>2. \A c \in Cells : gameCode'[c] = gameCode[c]
      BY <2>2, <2>5
    <3> QED
      BY <1>1, <1>2, <3>1, <3>2 DEF Undoes
  <2>6. CASE alters /\ Known(l)
    <3>1. originals' = originals
      BY <2>2, <2>6 DEF Noted
    <3>2. PICK i \in 1 .. Len(originals) : originals[i].at = l.at
      BY <2>6 DEF Known
    <3>3. DOMAIN originals[i].was = Covers(l)
      BY <2>3, <3>2
    <3>4. \A c \in Cells :
            gameCode'[c] = 0 \/ \E j \in 1 .. Len(originals) : c \in DOMAIN originals[j].was
      BY <1>2, <2>2, <3>3 DEF Undoes
    <3> QED
      BY <1>1, <1>2, <3>1, <3>4 DEF Undoes
  <2>7. CASE alters /\ ~Known(l)
    <3> DEFINE b == Original(l, now)
    <3>1. Covers(l) # {}
      BY <2>7
    <3>2. Len(originals) < MaxBackup
      BY <1>1, <1>2, <2>1, <2>7, <3>1, RoomForOne
    <3>3. Len(originals) \in Nat /\ originals \in Seq(Entries) /\ MaxBackup \in Nat
      BY <1>2, ThreadAssumption DEF Undoes
    <3>4. originals' = Append(originals, b)
      BY <2>2, <2>7, <3>2, <3>3 DEF Noted
    <3>5. ASSUME NEW c \in Covers(l) PROVE gameCode[c] = 0
      <4>1. ASSUME NEW i \in 1 .. Len(originals) PROVE c \notin DOMAIN originals[i].was
        BY <2>4, <2>7 DEF Known
      <4> QED
        BY <1>2, <2>1, <4>1 DEF Undoes
    <3>6. b \in Entries /\ b.at = l.at /\ DOMAIN b.was = Covers(l)
      <4>1. now \in [Covers(l) -> {0}]
        BY <3>5
      <4>2. now \in UNION {[D -> {0}] : D \in SUBSET Cells}
        BY <2>1, <4>1
      <4>3. l.at \in Nat /\ l.size \in 1 .. 2
        BY <1>1, <1>4, ThreadAssumption
      <4>4. b = [at |-> l.at, size |-> l.size, was |-> now]
        BY DEF Original
      <4> HIDE DEF b, now, l
      <4>5. b \in Entries
        BY <4>2, <4>3, <4>4 DEF Entries
      <4> QED
        BY <4>1, <4>4, <4>5
    <3>7. EntryOf(b, u)
      BY <1>1, <2>1, <3>1, <3>6 DEF EntryOf
    <3> DEFINE N == Len(originals)
    <3> HIDE DEF b, now, alters
    <3>8. /\ originals' \in Seq(Entries) /\ Len(originals') = N + 1
          /\ \A i \in 1 .. N : originals'[i] = originals[i]
          /\ originals'[N + 1] = b
      BY <3>3, <3>4, <3>6, AppendProperties
    <3>9. \A i \in 1 .. Len(originals') : i \in 1 .. N \/ i = N + 1
      BY <3>3, <3>8
    <3>10. \A i \in 1 .. Len(originals') : EntryOf(originals'[i], u)
      BY <1>2, <3>7, <3>8, <3>9 DEF Undoes
    <3>11. \A i \in 1 .. N : originals[i].at # l.at
      BY <2>7 DEF Known
    <3>12. \A i, j \in 1 .. Len(originals') : originals'[i].at = originals'[j].at => i = j
      BY <1>2, <3>6, <3>8, <3>9, <3>11 DEF Undoes
    <3>13. N + 1 \in 1 .. Len(originals') /\ 1 .. N \subseteq 1 .. Len(originals')
      BY <3>3, <3>8
    <3>14. ASSUME NEW c \in Cells
           PROVE  gameCode'[c] = 0 \/ \E i \in 1 .. Len(originals') : c \in DOMAIN originals'[i].was
      <4>1. CASE c \in Covers(l)
        BY <3>6, <3>8, <3>13, <4>1
      <4>2. CASE c \notin Covers(l)
        <5>1. gameCode'[c] = gameCode[c]
          BY <2>2, <4>2
        <5>2. gameCode[c] = 0 \/ \E i \in 1 .. N : c \in DOMAIN originals[i].was
          BY <1>2 DEF Undoes
        <5> QED
          BY <3>8, <3>13, <5>1, <5>2
      <4> QED
        BY <4>1, <4>2
    <3> QED
      BY <1>1, <3>8, <3>10, <3>12, <3>14 DEF Undoes
  <2> QED
    BY <2>5, <2>6, <2>7
<1> QED
  BY <1>3, <1>4

\* Nothing patched, nothing noted.
LEMMA NothingNoted ==
  ASSUME NEW code, NEW u, \A c \in Cells : code[c] = 0
  PROVE  Undoes(<<>>, code, u)
BY DEF Undoes

\* The backup, and the one in the image.
LEMMA BackupStep ==
  ASSUME WritesApart, CheatInv, [ThreadNext]_threadVars
  PROVE  Undoes(originals', gameCode', chosen') /\ ImageWhere'
<1>0. Undoes(originals, gameCode, chosen) /\ ImageWhere
  BY DEF CheatInv, PlaceInv
<1>1. CASE UNCHANGED <<originals, gameCode, chosen, image>>
  BY <1>0, <1>1 DEF ImageWhere
<1>2. CASE ApplyUnlock
  <2>1. image' = image
    BY <1>2 DEF ApplyUnlock
  <2> QED
    BY <1>0, <1>2, <2>1, ApplyKeeps DEF ImageWhere
<1>3. CASE CycleUnlock
  <2>1. gameCode' = PutBack /\ originals' = <<>> /\ image' = image
    BY <1>3 DEF CycleUnlock
  <2>2. \A c \in Cells : gameCode'[c] = 0
    BY <1>0, <2>1, AllPutBack
  <2>3. Undoes(originals', gameCode', chosen')
    BY <2>1, <2>2, NothingNoted
  <2> QED
    BY <1>0, <2>1, <2>3 DEF ImageWhere
<1>4. CASE Capture
  <2>1. /\ UNCHANGED <<originals, gameCode, chosen>>
        /\ image' = [gameCode |-> gameCode, flag |-> flag, chosen |-> chosen,
                     originals |-> originals, thread |-> thread, started |-> started,
                     quit |-> quit]
    BY <1>4 DEF Capture, gameVars, choice
  <2>2. thread.at # "apply"
    BY <1>4 DEF Capture, CheatInv, PlaceInv, OpWhere
  <2>3. CheatTypes
    BY DEF CheatInv, PlaceInv
  <2> QED
    BY <1>0, <2>1, <2>2, <2>3 DEF ImageWhere, CheatTypes
<1>5. CASE Restore
  <2>1. /\ gameCode' = image.gameCode /\ chosen' = image.chosen /\ originals' = image.originals
        /\ image' = image
    BY <1>5 DEF Restore
  <2>2. image # NoImage
    BY <1>5 DEF Restore, CheatInv, PlaceInv, OpWhere
  <2> QED
    BY <1>0, <2>1, <2>2 DEF ImageWhere
<1>6. CASE Loop \/ Wakes \/ Recheck \/ Retire \/ OpenMenu \/ CloseMenu \/ Trigger \/ MenuFlagOff
           \/ Release \/ GameFlips \/ Stop \/ StopDone \/ PassTime
  <2>1. UNCHANGED <<originals, gameCode, chosen, image>>
    BY <1>6 DEF Loop, Wakes, Recheck, Retire, OpenMenu, CloseMenu, Trigger, MenuFlagOff, Release,
       GameFlips, Stop, StopDone, PassTime, gameVars, choice
  <2> QED
    BY <1>1, <2>1
<1>7. CASE UNCHANGED threadVars
  <2>1. UNCHANGED <<originals, gameCode, chosen, image>>
    BY <1>7 DEF threadVars
  <2> QED
    BY <1>1, <2>1
<1> QED
  BY <1>2, <1>3, <1>4, <1>5, <1>6, <1>7 DEF ThreadNext

LEMMA InitCheat == ThreadInit => CheatInv
<1> SUFFICES ASSUME ThreadInit PROVE CheatInv
  OBVIOUS
<1>0. StopPolls \in Nat \ {0} /\ Len(Unlocks) \in Nat
  BY ThreadAssumption
<1>1. Undoes(originals, gameCode, chosen)
  BY NothingNoted DEF ThreadInit
<1>2. CheatTypes
  <2>1. thread = (IF chosen > 0 THEN At("top") ELSE NoThread) /\ started = (chosen > 0)
    BY DEF ThreadInit
  <2>2. ASSUME chosen > 0 PROVE ThreadOf(thread, started)
    <3>1. thread = At("top") /\ started = TRUE
      BY <2>1, <2>2
    <3>2. thread \in Threads /\ thread.at = "top" /\ thread.left = 0
      BY <3>1, AtPoints
    <3>3. thread.left < StopPolls
      BY <1>0, <3>2
    <3>4. started <=> thread.at # "none"
      BY <3>1, <3>2
    <3> QED
      BY <3>2, <3>3, <3>4, Zenon DEF ThreadOf
  <2>3. ASSUME ~(chosen > 0) PROVE ThreadOf(thread, started)
    <3>1. thread = NoThread /\ ~started
      BY <2>1, <2>3
    <3>2. thread \in Threads /\ thread.at = "none" /\ thread.left = 0
      BY <3>1 DEF NoThread, Threads
    <3>3. thread.left < StopPolls
      BY <1>0, <3>2
    <3>4. started <=> thread.at # "none"
      BY <3>1, <3>2
    <3> QED
      BY <3>2, <3>3, <3>4, Zenon DEF ThreadOf
  <2>4. ThreadOf(thread, started)
    BY <2>2, <2>3
  <2> QED
    <3>1. /\ chosen \in 0 .. Len(Unlocks) /\ leaving = -1
          /\ quit = FALSE /\ hold = FALSE /\ op = "none"
      BY DEF ThreadInit
    <3>2. leaving \in -1 .. StopPolls
      BY <1>0, <3>1
    <3>3. quit \in BOOLEAN /\ hold \in BOOLEAN
      BY <3>1, Zenon
    <3> QED
      BY <2>4, <3>1, <3>2, <3>3, Zenon DEF CheatTypes
<1>3. op = "none" /\ image = NoImage /\ leaving = -1 /\ thread.at # "apply"
  BY AtPoints DEF ThreadInit, NoThread
<1> QED
  BY <1>1, <1>2, <1>3 DEF CheatInv, PlaceInv, ApplyWhere, OpWhere, ImageWhere, ExitWhere

\* Whatever option is chosen, and wherever its thread is cut off by a save, a load of another
\* time or the exit, the noted originals put the game's own code back; with Stock chosen the
\* code is the game's own, nothing is written while a save or a load runs, and an exit that
\* goes on leaves no thread behind (cheats.c:42-45, 474, 497).
THEOREM CheatsAreUndone ==
  WritesApart => (ThreadSpec => []CheatsGiveBack)
<1> SUFFICES ASSUME WritesApart PROVE ThreadSpec => []CheatsGiveBack
  OBVIOUS
<1>1. ThreadInit => CheatInv
  BY InitCheat
<1>2. CheatInv /\ [ThreadNext]_threadVars => CheatInv'
  BY ThreadStep, PlaceStep, BackupStep DEF CheatInv, PlaceInv
<1>3. CheatInv => CheatsGiveBack
  <2> SUFFICES ASSUME CheatInv PROVE CheatsGiveBack
    OBVIOUS
  <2>1. \A c \in Cells : PutBack[c] = 0
    BY AllPutBack DEF CheatInv
  <2>2. ASSUME chosen = 0, NEW c \in Cells PROVE gameCode[c] = 0
    BY <2>2 DEF CheatInv, Undoes, EntryOf
  <2> QED
    BY <2>1, <2>2
       DEF CheatInv, PlaceInv, OpWhere, ExitWhere, CheatsGiveBack, StockIsStock, QuietDuringOp,
           GoneAtExit
<1> QED
  BY <1>1, <1>2, <1>3, PTL DEF ThreadSpec

-----------------------------------------------------------------------------
(* The pad: what was sampled behind the browser or an operation never       *)
(* reaches the game and what the game's own player pressed is never lost,   *)
(* for any ring, read size and clock.                                       *)

\* What the assumption on the constants says of the clock and the counts.
LEMMA ClockIs ==
  /\ Wrap \in Nat \ {0} /\ Half \in Nat \ {0} /\ Ring \in Nat \ {0} /\ Ring <= Half
  /\ 2 * Half <= Wrap /\ Wrap <= 2 * Half + 1
  /\ Count \in 1 .. Ring /\ Calls \in Nat /\ Calls >= Ring + Count
BY PadAssumption DEF Half

\* The time between two readings of the clock.
LEMMA GapIs ==
  ASSUME NEW a \in 0 .. Wrap - 1, NEW b \in 0 .. Wrap - 1
  PROVE  (a - b) % Wrap = IF a >= b THEN a - b ELSE a - b + Wrap
<1>0. Wrap \in Nat \ {0}
  BY ClockIs
<1>1. CASE a >= b
  <2>1. a - b = (a - b) + Wrap * 0 /\ a - b \in 0 .. Wrap - 1 /\ 0 \in Int /\ a - b \in Int
    BY <1>0, <1>1
  <2> QED
    BY <1>0, <1>1, <2>1, RestIsUnique
<1>2. CASE a < b
  <2>1. a - b = (a - b + Wrap) + Wrap * (-1) /\ a - b + Wrap \in 0 .. Wrap - 1 /\ a - b \in Int
    BY <1>0, <1>2
  <2>2. (a - b) % Wrap = a - b + Wrap
    BY <1>0, <2>1, RestIsUnique
  <2> QED
    BY <1>2, <2>2
<1> QED
  BY <1>1, <1>2, <1>0

\* One tick of the clock.
LEMMA TickIs ==
  ASSUME NEW a \in 0 .. Wrap - 1
  PROVE  (a + 1) % Wrap = IF a + 1 < Wrap THEN a + 1 ELSE 0
<1>0. Wrap \in Nat \ {0}
  BY ClockIs
<1>1. CASE a + 1 < Wrap
  <2>1. a + 1 = (a + 1) + Wrap * 0 /\ a + 1 \in 0 .. Wrap - 1 /\ a + 1 \in Int
    BY <1>0, <1>1
  <2> QED
    BY <1>0, <1>1, <2>1, RestIsUnique
<1>2. CASE a + 1 = Wrap
  <2>1. a + 1 = 0 + Wrap * 1 /\ 0 \in 0 .. Wrap - 1 /\ a + 1 \in Int
    BY <1>0, <1>2
  <2> QED
    BY <1>0, <1>2, <2>1, RestIsUnique
<1> QED
  BY <1>0, <1>1, <1>2

\* One tick makes every gap one longer.
LEMMA GapGrows ==
  ASSUME NEW a \in 0 .. Wrap - 1, NEW t \in 0 .. Wrap - 1
  PROVE  LET g1 == (a - t) % Wrap  c == (a + 1) % Wrap IN
         /\ c \in 0 .. Wrap - 1 /\ g1 \in 0 .. Wrap - 1
         /\ (c - t) % Wrap = IF g1 + 1 < Wrap THEN g1 + 1 ELSE 0
         /\ (a + 1 - t) % Wrap = (c - t) % Wrap
         /\ (c - c) % Wrap = 0
<1>0. Wrap \in Nat \ {0}
  BY ClockIs
<1> DEFINE g1 == (a - t) % Wrap
           c == (a + 1) % Wrap
<1>1. c = (IF a + 1 < Wrap THEN a + 1 ELSE 0) /\ c \in 0 .. Wrap - 1
  BY <1>0, TickIs
<1>2. g1 = IF a >= t THEN a - t ELSE a - t + Wrap
  BY GapIs
<1> HIDE DEF c, g1
<1>3. (c - t) % Wrap = IF c >= t THEN c - t ELSE c - t + Wrap
  BY <1>1, GapIs
<1>4. (c - c) % Wrap = 0
  <2>1. (c - c) % Wrap = IF c >= c THEN c - c ELSE c - c + Wrap
    BY <1>1, GapIs
  <2> QED
    BY <1>0, <1>1, <2>1
<1>5. g1 \in 0 .. Wrap - 1 /\ (c - t) % Wrap = IF g1 + 1 < Wrap THEN g1 + 1 ELSE 0
  BY <1>0, <1>1, <1>2, <1>3
<1>6. (a + 1 - t) % Wrap = (c - t) % Wrap
  <2>1. CASE a + 1 < Wrap
    BY <1>1, <2>1
  <2>2. CASE a + 1 = Wrap
    <3>1. c = 0
      BY <1>1, <2>2
    <3>2. CASE t = 0
      <4>1. a + 1 - t = 0 + Wrap * 1 /\ 0 \in 0 .. Wrap - 1 /\ a + 1 - t \in Int
        BY <1>0, <2>2, <3>2
      <4>2. (a + 1 - t) % Wrap = 0
        BY <1>0, <4>1, RestIsUnique
      <4> QED
        BY <1>3, <3>1, <3>2, <4>2
    <3>3. CASE t # 0
      <4>1. a + 1 - t = (Wrap - t) + Wrap * 0 /\ Wrap - t \in 0 .. Wrap - 1 /\ a + 1 - t \in Int
        BY <1>0, <2>2, <3>3
      <4>2. (a + 1 - t) % Wrap = Wrap - t
        BY <1>0, <4>1, RestIsUnique
      <4> QED
        BY <1>0, <1>3, <3>1, <3>3, <4>2
    <3> QED
      BY <3>2, <3>3
  <2> QED
    BY <1>0, <2>1, <2>2
<1> QED
  BY <1>1, <1>4, <1>5, <1>6 DEF c, g1

\* What lies less than half a wrap back is not after.
LEMMA BackIsNotAfter ==
  ASSUME NEW a \in 0 .. Wrap - 1, NEW t \in 0 .. Wrap - 1, (a - t) % Wrap < Half
  PROVE  ~After(t, a)
<1>1. (a - t) % Wrap = IF a >= t THEN a - t ELSE a - t + Wrap
  BY GapIs
<1>2. (t - a) % Wrap = IF t >= a THEN t - a ELSE t - a + Wrap
  BY GapIs
<1> DEFINE g1 == (a - t) % Wrap
           g2 == (t - a) % Wrap
<1>3. g2 \notin 1 .. Half - 1
  <2>1. /\ g1 = IF a >= t THEN a - t ELSE a - t + Wrap
        /\ g2 = IF t >= a THEN t - a ELSE t - a + Wrap
        /\ g1 < Half
    BY <1>1, <1>2
  <2> HIDE DEF g1, g2
  <2> QED
    BY <2>1, ClockIs
<1> QED
  BY <1>3 DEF After

\* The filters, both ways round.
LEMMA FiltersHold == ASSUME NEW blank \in BOOLEAN PROVE FiltersRight(blank)
<1> SUFFICES ASSUME NEW negative \in BOOLEAN, NEW hud \in BOOLEAN, NEW skip \in BOOLEAN,
                    NEW down \in SUBSET Keys, NEW pulse \in PhaseMask
             PROVE  Filtered(negative, Encoded(negative, down), blank, hud, skip, pulse)
                      = Encoded(negative, Meant(down, blank, hud, skip, pulse))
  BY DEF FiltersRight
<1>0. pulse \subseteq SkipMask /\ SkipMask \subseteq Keys /\ HudMask \subseteq Keys
  BY DEF PhaseMask, SkipMask, HudMask, Keys
<1>1. CASE negative
  <2>1. CASE blank
    BY <1>0, <1>1, <2>1 DEF Filtered, Encoded, Meant, Blank, Masked, Pulsed
  <2>2. CASE ~blank
    BY <1>0, <1>1, <2>2 DEF Filtered, Encoded, Meant, Blank, Masked, Pulsed
  <2> QED
    BY <2>1, <2>2
<1>2. CASE ~negative
  <2>1. CASE blank
    BY <1>0, <1>2, <2>1 DEF Filtered, Encoded, Meant, Blank, Masked, Pulsed
  <2>2. CASE ~blank
    BY <1>0, <1>2, <2>2 DEF Filtered, Encoded, Meant, Blank, Masked, Pulsed
  <2> QED
    BY <2>1, <2>2
<1> QED
  BY <1>1, <1>2

\* A time and who pressed.
Samples == (0 .. Wrap - 1) \X {"menu", "game", "old"}

PadTypes ==
  /\ clock \in 0 .. Wrap - 1 /\ bound \in 0 .. Wrap - 1 /\ age \in 0 .. Half
  /\ ring \in Seq(Samples) /\ Len(ring) <= Ring /\ slots \in Seq(Samples) /\ Len(slots) <= Count
  /\ at \in {"game", "browser", "save"} /\ latch \in BOOLEAN /\ calls \in 0 .. Calls
  /\ reader \in {"out", "entry", "slot", "load", "store"} /\ register \in Int

\* The ring has the last samples, a reader none that is half a wrap old.
Recent ==
  /\ \A i \in 1 .. Len(ring) : (clock - ring[i][1]) % Wrap <= Len(ring) - i
  /\ \A i \in 1 .. Len(slots) : (clock - slots[i][1]) % Wrap < Half

\* Within half a wrap of the arming a sample of the game's own is told by its time.
GameIsAfter ==
  age < Half
  => /\ (clock - bound) % Wrap = age
     /\ \A i \in 1 .. Len(ring) : ring[i][2] = "game" => After(ring[i][1], bound)
     /\ \A i \in 1 .. Len(slots) : slots[i][2] = "game" => After(slots[i][1], bound)

\* The slot a reader has blanked and not yet counted.
Uncounted == IF reader \in {"load", "store"} THEN 1 ELSE 0

\* With the game running a sample of the menu has no later one before it, and the count
\* covers it and all that are read first.
MenuIsCovered ==
  at = "game" /\ "torn" \notin how
  => /\ \A i \in 1 .. Len(slots) : slots[i][2] = "menu"
          => calls >= i + Uncounted /\ \A j \in 1 .. i : ~After(slots[j][1], bound)
     /\ \A i \in 1 .. Len(ring) : ring[i][2] = "menu"
          => /\ calls >= Len(slots) + i + Uncounted
             /\ \A j \in 1 .. i : ~After(ring[j][1], bound)
             /\ \A j \in 1 .. Len(slots) : ~After(slots[j][1], bound)

\* Edges of the menu's wait in the latch only for an armed read, or one the timer disarmed.
LatchIsArmed == at = "game" /\ "menu" \in latched /\ ~latch => "timer" \in how

\* Where the reader has samples, what it has loaded, and what a save finds.
ReaderWhere ==
  /\ reader = "out" => slots = <<>>
  /\ reader = "store" /\ "torn" \notin how => register = calls - 1
  /\ at = "save" /\ "torn" \notin how => calls = 0 /\ ~latch /\ reader = "out"

PadInv ==
  PadTypes /\ Recent /\ GameIsAfter /\ MenuIsCovered /\ LatchIsArmed /\ ReaderWhere /\ leak = {}

\* A ring with one sample more: the new one at its end, before it the old ones, the oldest
\* of them possibly gone.
LEMMA NewestIs ==
  ASSUME NEW q \in Seq(Samples), Len(q) <= Ring, NEW s \in Samples
  PROVE  LET w == Newest(Append(q, s)) IN
         /\ w \in Seq(Samples) /\ Len(w) \in 1 .. Ring /\ w[Len(w)] = s
         /\ \E off \in 0 .. 1 :
              /\ Len(w) = Len(q) + 1 - off
              /\ \A i \in 1 .. Len(w) - 1 : i + off \in 1 .. Len(q) /\ w[i] = q[i + off]
<1> DEFINE u == Append(q, s)
           w == Newest(u)
<1>1. /\ u \in Seq(Samples) /\ Len(u) = Len(q) + 1 /\ u[Len(q) + 1] = s /\ Len(q) \in Nat
      /\ \A i \in 1 .. Len(q) : u[i] = q[i]
  OBVIOUS
<1> HIDE DEF u
<1>2. CASE Len(u) > Ring
  <2>1. w = Tail(u) /\ Len(q) = Ring
    BY <1>1, <1>2, ClockIs DEF Newest
  <2>2. w \in Seq(Samples) /\ Len(w) = Len(q) /\ \A i \in 1 .. Len(q) : w[i] = u[i + 1]
    BY <1>1, <2>1, ClockIs
  <2> HIDE DEF w
  <2>3. \A i \in 1 .. Len(w) - 1 : i + 1 \in 1 .. Len(q) /\ w[i] = q[i + 1]
    BY <1>1, <2>1, <2>2, ClockIs
  <2>4. w[Len(w)] = s
    BY <1>1, <2>1, <2>2, ClockIs
  <2>5. Len(w) \in 1 .. Ring
    BY <1>1, <1>2, <2>1, <2>2, ClockIs
  <2>6. Len(w) = Len(q) + 1 - 1
    BY <1>1, <2>2
  <2> QED
    BY <2>2, <2>3, <2>4, <2>5, <2>6 DEF w, u
<1>3. CASE Len(u) <= Ring
  <2>1. w = u
    BY <1>1, <1>3, ClockIs DEF Newest
  <2> HIDE DEF w
  <2>2. \A i \in 1 .. Len(w) - 1 : i + 0 \in 1 .. Len(q) /\ w[i] = q[i + 0]
    BY <1>1, <2>1
  <2> QED
    BY <1>1, <1>3, <2>1, <2>2, ClockIs DEF w, u
<1> QED
  BY <1>1, <1>2, <1>3, ClockIs

\* A new sample is younger than the arming, or the game is not running.
LEMMA SampleKeeps == ASSUME PadInv, Sample PROVE PadInv'
<1> DEFINE from == IF at = "game" THEN "game" ELSE "menu"
           new == <<clock', from>>
<1>1. /\ \A i \in 1 .. Len(slots) : (clock + 1 - slots[i][1]) % Wrap < Half
      /\ clock' = (clock + 1) % Wrap /\ age' = (IF age = Half THEN Half ELSE age + 1)
      /\ ring' = Newest(Append(ring, new)) /\ latched' \in {latched, latched \cup {from}}
      /\ UNCHANGED <<at, calls, bound, latch, reader, slots, register, leak, how>>
  BY DEF Sample
<1>2. /\ clock \in 0 .. Wrap - 1 /\ bound \in 0 .. Wrap - 1 /\ age \in 0 .. Half
      /\ ring \in Seq(Samples) /\ Len(ring) <= Ring /\ slots \in Seq(Samples) /\ Len(ring) \in Nat
      /\ Len(slots) \in Nat
  BY DEF PadInv, PadTypes
<1>3. clock' \in 0 .. Wrap - 1 /\ (clock' - clock') % Wrap = 0
  BY <1>1, <1>2, GapGrows
<1>4. new \in Samples /\ new[1] = clock' /\ new[2] = from
  BY <1>3 DEF Samples
<1> HIDE DEF new
<1>5. /\ ring' \in Seq(Samples) /\ Len(ring') \in 1 .. Ring /\ ring'[Len(ring')] = new
      /\ \E off \in 0 .. 1 :
           /\ Len(ring') = Len(ring) + 1 - off
           /\ \A i \in 1 .. Len(ring') - 1 : i + off \in 1 .. Len(ring) /\ ring'[i] = ring[i + off]
  BY <1>1, <1>2, <1>4, NewestIs
<1>6. PICK off \in 0 .. 1 :
           /\ Len(ring') = Len(ring) + 1 - off
           /\ \A i \in 1 .. Len(ring') - 1 : i + off \in 1 .. Len(ring) /\ ring'[i] = ring[i + off]
  BY <1>5
<1>7. PadTypes'
  BY <1>1, <1>3, <1>5, ClockIs DEF PadInv, PadTypes
<1>8. Recent'
  <2>1. ASSUME NEW i \in 1 .. Len(ring') PROVE (clock' - ring'[i][1]) % Wrap <= Len(ring') - i
    <3>1. CASE i = Len(ring')
      BY <1>3, <1>4, <1>5, <3>1
    <3>2. CASE i # Len(ring')
      <4>1. i \in 1 .. Len(ring') - 1
        BY <1>5, <3>2
      <4>2. i + off \in 1 .. Len(ring) /\ ring'[i] = ring[i + off]
        BY <1>6, <4>1
      <4> DEFINE t == ring[i + off][1]
                 g1 == (clock - t) % Wrap
                 g2 == (clock' - t) % Wrap
      <4>3. t \in 0 .. Wrap - 1
        BY <1>2, <4>2 DEF Samples
      <4>4. g1 <= Len(ring) - (i + off)
        BY <4>2 DEF PadInv, Recent
      <4> HIDE DEF t
      <4>5. g2 = (IF g1 + 1 < Wrap THEN g1 + 1 ELSE 0) /\ g1 \in 0 .. Wrap - 1
        BY <1>1, <1>2, <4>3, GapGrows
      <4> HIDE DEF g1, g2
      <4>6. g1 \in Int /\ g1 >= 0 /\ g2 \in Int /\ g2 <= g1 + 1
        BY <4>5, ClockIs
      <4>7. i \in Int /\ off \in Int /\ Len(ring) \in Int /\ Len(ring') = Len(ring) + 1 - off
        BY <1>2, <1>6
      <4>8. g2 <= Len(ring') - i
        BY <4>4, <4>6, <4>7
      <4> QED
        BY <4>2, <4>8 DEF g2, t
    <3> QED
      BY <3>1, <3>2
  <2>2. ASSUME NEW i \in 1 .. Len(slots) PROVE (clock' - slots[i][1]) % Wrap < Half
    <3>1. slots[i][1] \in 0 .. Wrap - 1
      BY <1>2 DEF Samples
    <3>2. (clock + 1 - slots[i][1]) % Wrap = (clock' - slots[i][1]) % Wrap
      BY <1>1, <1>2, <3>1, GapGrows
    <3> QED
      BY <1>1, <3>2
  <2> QED
    BY <1>1, <2>1, <2>2 DEF Recent
<1>9. GameIsAfter'
  <2> SUFFICES ASSUME age' < Half PROVE GameIsAfter'
    BY DEF GameIsAfter
  <2>1. age < Half /\ age' = age + 1 /\ age \in Nat
    BY <1>1, <1>2, ClockIs
  <2>2. (clock' - bound) % Wrap = age'
    <3> DEFINE g1 == (clock - bound) % Wrap
               g2 == (clock' - bound) % Wrap
    <3>1. g1 = age
      BY <2>1 DEF PadInv, GameIsAfter
    <3>2. g2 = (IF g1 + 1 < Wrap THEN g1 + 1 ELSE 0)
      BY <1>1, <1>2, GapGrows
    <3> HIDE DEF g1, g2
    <3>3. g2 = age'
      BY <1>2, <2>1, <3>1, <3>2, ClockIs
    <3> QED
      BY <3>3 DEF g2
  <2>3. After(clock', bound)
    BY <2>1, <2>2, ClockIs DEF After
  <2>4. ASSUME NEW i \in 1 .. Len(ring'), ring'[i][2] = "game" PROVE After(ring'[i][1], bound)
    <3>1. CASE i = Len(ring')
      BY <1>4, <1>5, <2>3, <3>1
    <3>2. CASE i # Len(ring')
      <4>1. i \in 1 .. Len(ring') - 1
        BY <1>5, <3>2
      <4>2. i + off \in 1 .. Len(ring) /\ ring'[i] = ring[i + off]
        BY <1>6, <4>1
      <4> QED
        BY <2>1, <2>4, <4>2 DEF PadInv, GameIsAfter
    <3> QED
      BY <3>1, <3>2
  <2>5. \A i \in 1 .. Len(slots) : slots[i][2] = "game" => After(slots[i][1], bound)
    BY <2>1 DEF PadInv, GameIsAfter
  <2> QED
    BY <1>1, <2>2, <2>4, <2>5 DEF GameIsAfter
<1>10. MenuIsCovered'
  <2> SUFFICES ASSUME at = "game", "torn" \notin how PROVE MenuIsCovered'
    BY <1>1 DEF MenuIsCovered
  <2>1. /\ \A i \in 1 .. Len(slots) : slots[i][2] = "menu"
              => calls >= i + Uncounted /\ \A j \in 1 .. i : ~After(slots[j][1], bound)
        /\ \A i \in 1 .. Len(ring) : ring[i][2] = "menu"
              => /\ calls >= Len(slots) + i + Uncounted
                 /\ \A j \in 1 .. i : ~After(ring[j][1], bound)
                 /\ \A j \in 1 .. Len(slots) : ~After(slots[j][1], bound)
    BY DEF PadInv, MenuIsCovered
  <2>2. Uncounted' = Uncounted /\ Uncounted \in 0 .. 1 /\ calls \in Nat
    BY <1>1 DEF Uncounted, PadInv, PadTypes
  <2>3. ASSUME NEW i \in 1 .. Len(ring'), ring'[i][2] = "menu"
        PROVE  /\ calls >= Len(slots) + i + Uncounted
               /\ \A j \in 1 .. i : ~After(ring'[j][1], bound)
               /\ \A j \in 1 .. Len(slots) : ~After(slots[j][1], bound)
    <3>1. i \in 1 .. Len(ring') - 1
      BY <1>4, <1>5, <2>3
    <3>2. i + off \in 1 .. Len(ring) /\ ring'[i] = ring[i + off]
      BY <1>6, <3>1
    <3>3. /\ calls >= Len(slots) + i + Uncounted
          /\ \A j \in 1 .. Len(slots) : ~After(slots[j][1], bound)
      BY <1>2, <2>1, <2>2, <2>3, <3>2
    <3>4. ASSUME NEW j \in 1 .. i PROVE ~After(ring'[j][1], bound)
      <4>1. j + off \in 1 .. i + off /\ ring'[j] = ring[j + off]
        BY <1>6, <3>1
      <4> QED
        BY <2>1, <2>3, <3>2, <4>1
    <3> QED
      BY <3>3, <3>4
  <2> QED
    BY <1>1, <2>1, <2>2, <2>3 DEF MenuIsCovered
<1>11. LatchIsArmed' /\ ReaderWhere' /\ leak' = {}
  BY <1>1 DEF PadInv, LatchIsArmed, ReaderWhere
<1> QED
  BY <1>7, <1>8, <1>9, <1>10, <1>11 DEF PadInv

\* The arming (fatsave.c:2703-2709) puts every sample there is behind the bound and allows for
\* a full ring and a full read.
LEMMA ArmKeeps == ASSUME PadInv, Arm, "torn" \notin how PROVE PadInv'
<1>1. /\ at # "game" /\ at' = "game" /\ latch' = TRUE /\ bound' = clock /\ calls' = Calls
      /\ age' = 0
      /\ ring' = Aged(ring) /\ slots' = Aged(slots)
      /\ how' = (IF reader \in {"load", "store"} THEN how \cup {"torn"} ELSE how \ {"timer"})
      /\ UNCHANGED <<clock, latched, reader, register, leak>>
  BY DEF Arm
<1>2. /\ clock \in 0 .. Wrap - 1 /\ ring \in Seq(Samples) /\ slots \in Seq(Samples)
      /\ Len(ring) \in 0 .. Ring /\ Len(slots) \in 0 .. Count
  BY ClockIs DEF PadInv, PadTypes
<1>3. ASSUME NEW q \in Seq(Samples)
      PROVE  /\ Aged(q) \in Seq(Samples) /\ Len(Aged(q)) = Len(q)
             /\ \A i \in 1 .. Len(q) : Aged(q)[i][1] = q[i][1] /\ Aged(q)[i][2] # "game"
  <2> DEFINE one(i) == IF q[i][2] = "game" THEN <<q[i][1], "old">> ELSE q[i]
  <2>1. Aged(q) = [i \in 1 .. Len(q) |-> one(i)] /\ Len(q) \in Nat
    BY DEF Aged
  <2>2. \A i \in 1 .. Len(q) : one(i) \in Samples /\ one(i)[1] = q[i][1] /\ one(i)[2] # "game"
    BY DEF Samples
  <2> HIDE DEF one
  <2> QED
    BY <2>1, <2>2
<1>4. /\ ring' \in Seq(Samples) /\ Len(ring') = Len(ring)
      /\ \A i \in 1 .. Len(ring) : ring'[i][1] = ring[i][1] /\ ring'[i][2] # "game"
  BY <1>1, <1>2, <1>3
<1>5. /\ slots' \in Seq(Samples) /\ Len(slots') = Len(slots)
      /\ \A i \in 1 .. Len(slots) : slots'[i][1] = slots[i][1] /\ slots'[i][2] # "game"
  BY <1>1, <1>2, <1>3
<1>6. PadTypes'
  BY <1>1, <1>2, <1>4, <1>5, ClockIs DEF PadInv, PadTypes
<1>7. Recent'
  BY <1>1, <1>4, <1>5 DEF PadInv, Recent
<1>8. GameIsAfter'
  <2>1. (clock - clock) % Wrap = 0
    BY <1>2, GapIs, ClockIs
  <2> QED
    BY <1>1, <1>4, <1>5, <2>1 DEF GameIsAfter
<1>9. \A i \in 1 .. Len(ring) : ~After(ring'[i][1], bound')
  <2> TAKE i \in 1 .. Len(ring)
  <2>1. ring[i][1] \in 0 .. Wrap - 1
    BY <1>2 DEF Samples
  <2> DEFINE g1 == (clock - ring[i][1]) % Wrap
  <2>2. g1 <= Len(ring) - i
    BY DEF PadInv, Recent
  <2>3. g1 \in 0 .. Wrap - 1
    BY <1>2, <2>1, ClockIs, GapGrows
  <2> HIDE DEF g1
  <2>4. g1 < Half
    BY <1>2, <2>2, <2>3, ClockIs
  <2>5. ~After(ring[i][1], clock)
    BY <1>2, <2>1, <2>4, BackIsNotAfter DEF g1
  <2> QED
    BY <1>1, <1>4, <2>5
<1>10. \A i \in 1 .. Len(slots) : ~After(slots'[i][1], bound')
  <2> TAKE i \in 1 .. Len(slots)
  <2>1. slots[i][1] \in 0 .. Wrap - 1
    BY <1>2 DEF Samples
  <2>2. (clock - slots[i][1]) % Wrap < Half
    BY DEF PadInv, Recent
  <2>3. ~After(slots[i][1], clock)
    BY <1>2, <2>1, <2>2, BackIsNotAfter
  <2> QED
    BY <1>1, <1>5, <2>3
<1>11. MenuIsCovered'
  <2> SUFFICES ASSUME "torn" \notin how' PROVE MenuIsCovered'
    BY DEF MenuIsCovered
  <2>1. Uncounted' = 0
    BY <1>1 DEF Uncounted
  <2>2. \A i \in 1 .. Len(slots) : calls' >= i + Uncounted'
    BY <1>1, <1>2, <2>1, ClockIs
  <2>3. \A i \in 1 .. Len(ring) : calls' >= Len(slots') + i + Uncounted'
    BY <1>1, <1>2, <1>5, <2>1, ClockIs
  <2> QED
    BY <1>2, <1>4, <1>5, <1>9, <1>10, <2>2, <2>3 DEF MenuIsCovered
<1>12. LatchIsArmed' /\ leak' = {}
  BY <1>1 DEF LatchIsArmed, PadInv
<1>13. ReaderWhere'
  <2>1. reader = "out" => slots' = <<>>
    <3> SUFFICES ASSUME reader = "out" PROVE slots' = <<>>
      OBVIOUS
    <3>1. Len(slots') = 0
      BY <1>5 DEF PadInv, ReaderWhere
    <3> QED
      BY <1>5, <3>1
  <2>2. reader # "store" \/ "torn" \in how'
    BY <1>1
  <2> QED
    BY <1>1, <2>1, <2>2 DEF ReaderWhere
<1> QED
  BY <1>6, <1>7, <1>8, <1>11, <1>12, <1>13 DEF PadInv

\* What holds of the menu's samples once the game runs and no count is torn.
LEMMA Covered ==
  ASSUME PadInv, at = "game", "torn" \notin how
  PROVE  /\ \A i \in 1 .. Len(slots) : slots[i][2] = "menu"
              => calls >= i + Uncounted /\ \A j \in 1 .. i : ~After(slots[j][1], bound)
         /\ \A i \in 1 .. Len(ring) : ring[i][2] = "menu"
              => /\ calls >= Len(slots) + i + Uncounted
                 /\ \A j \in 1 .. i : ~After(ring[j][1], bound)
                 /\ \A j \in 1 .. Len(slots) : ~After(slots[j][1], bound)
BY DEF PadInv, MenuIsCovered

\* Steps that neither move samples nor resume the game.
LEMMA StillKeeps ==
  ASSUME PadInv,
         UNCHANGED <<clock, age, ring, bound, slots, register>>,
         at' \in {"game", "browser", "save"}, latch' \in BOOLEAN, calls' \in 0 .. Calls,
         reader' = reader, leak' = leak,
         at' = "game" => at = "game" /\ calls' = calls,
         how \subseteq how',
         LatchIsArmed',
         at' = "save" /\ "torn" \notin how' => calls' = 0 /\ ~latch' /\ reader' = "out",
         reader' = "store" /\ "torn" \notin how' => calls' = calls
  PROVE  PadInv'
<1>1. PadTypes'
  BY DEF PadInv, PadTypes
<1>2. Recent' /\ GameIsAfter' /\ leak' = {}
  BY DEF PadInv, Recent, GameIsAfter
<1>3. MenuIsCovered'
  <2>1. Uncounted' = Uncounted
    BY DEF Uncounted
  <2> SUFFICES ASSUME at' = "game", "torn" \notin how' PROVE MenuIsCovered'
    BY DEF MenuIsCovered
  <2> QED
    BY <2>1, Covered DEF MenuIsCovered
<1>4. ReaderWhere'
  BY DEF PadInv, ReaderWhere
<1> QED
  BY <1>1, <1>2, <1>3, <1>4 DEF PadInv

\* Freezing the game, for the browser, for a save ...
LEMMA BrowseKeeps == ASSUME PadInv, Browse PROVE PadInv'
<1>1. LatchIsArmed'
  BY DEF Browse, LatchIsArmed
<1> QED
  BY <1>1, StillKeeps DEF Browse, PadInv, PadTypes

LEMMA SaveFreezesKeeps == ASSUME PadInv, SaveFreezes PROVE PadInv'
<1>1. LatchIsArmed'
  BY DEF SaveFreezes, LatchIsArmed
<1>2. how \subseteq how' /\ (reader # "out" => "torn" \in how')
  BY DEF SaveFreezes, Torn
<1>3. 0 \in 0 .. Calls /\ reader' = reader
  BY ClockIs DEF SaveFreezes
<1> QED
  BY <1>1, <1>2, <1>3, StillKeeps DEF SaveFreezes

\* ... and the timer of the latch.
LEMMA LatchTimerKeeps == ASSUME PadInv, LatchTimer PROVE PadInv'
<1>1. LatchIsArmed'
  BY DEF LatchTimer, LatchIsArmed
<1> QED
  BY <1>1, StillKeeps DEF LatchTimer, PadInv, PadTypes

\* A read of the latch that finds the menu's edges is armed, or the timer was first.
LEMMA ReadLatchKeeps == ASSUME PadInv, ReadLatch PROVE PadInv'
<1>1. leak' = leak
  BY DEF ReadLatch, PadInv, LatchIsArmed
<1>2. LatchIsArmed'
  BY DEF ReadLatch, LatchIsArmed
<1>3. /\ at' = at /\ at = "game" /\ calls' = calls /\ reader' = reader /\ how' = how
      /\ latch' = FALSE
      /\ UNCHANGED <<clock, age, ring, bound, slots, register>>
  BY DEF ReadLatch
<1> QED
  BY <1>1, <1>2, <1>3, StillKeeps DEF PadInv, PadTypes

LEMMA PadStutter == ASSUME PadInv, UNCHANGED padVars PROVE PadInv'
BY DEF padVars, PadInv, PadTypes, Recent, GameIsAfter, MenuIsCovered, LatchIsArmed, ReaderWhere,
       Uncounted

\* The oldest samples move to the reader.
LEMMA ReadKeeps == ASSUME PadInv, Read, "torn" \notin how PROVE PadInv'
<1> DEFINE n == IF Len(ring) < Count THEN Len(ring) ELSE Count
           rest == SubSeq(ring, n + 1, Len(ring))
<1>1. /\ at = "game" /\ reader = "out" /\ slots' = SubSeq(ring, 1, n) /\ ring' \in {<<>>, rest}
      /\ reader' = "entry"
      /\ UNCHANGED <<clock, age, latched, at, calls, bound, latch, register, leak, how>>
  BY DEF Read
<1>2. ring \in Seq(Samples) /\ Len(ring) \in 0 .. Ring /\ n \in 0 .. Count /\ n <= Len(ring)
  BY ClockIs DEF PadInv, PadTypes
<1> HIDE DEF n
<1>3. /\ slots' \in Seq(Samples) /\ Len(slots') = n
      /\ \A i \in 1 .. n : i \in 1 .. Len(ring) /\ slots'[i] = ring[i]
  BY <1>1, <1>2, ClockIs
<1>4. /\ ring' \in Seq(Samples) /\ (Len(ring') = 0 \/ Len(ring') = Len(ring) - n)
      /\ \A i \in 1 .. Len(ring') : n + i \in 1 .. Len(ring) /\ ring'[i] = ring[n + i]
  <2>1. CASE ring' = <<>>
    BY <2>1
  <2>2. CASE ring' = rest
    <3>1. rest \in Seq(Samples) /\ Len(rest) = Len(ring) - n
      BY <1>2, ClockIs
    <3>2. \A i \in 1 .. Len(ring) - n : n + i \in 1 .. Len(ring) /\ rest[i] = ring[n + i]
      BY <1>2, ClockIs
    <3> HIDE DEF rest
    <3> QED
      BY <2>2, <3>1, <3>2
  <2> QED
    BY <1>1, <2>1, <2>2
<1> HIDE DEF rest
<1>5. Len(ring') \in 0 .. Ring /\ (\A i \in 1 .. Len(ring') : Len(ring') - i = Len(ring) - (n + i))
  BY <1>2, <1>4, ClockIs
<1>6. PadTypes'
  BY <1>1, <1>2, <1>3, <1>4, <1>5 DEF PadInv, PadTypes
<1>7. Recent'
  <2>1. \A i \in 1 .. Len(ring') : (clock' - ring'[i][1]) % Wrap <= Len(ring') - i
    BY <1>1, <1>4, <1>5 DEF PadInv, Recent
  <2>2. ASSUME NEW i \in 1 .. Len(slots') PROVE (clock' - slots'[i][1]) % Wrap < Half
    <3>1. i \in 1 .. Len(ring) /\ slots'[i] = ring[i] /\ i \in Nat \ {0}
      BY <1>2, <1>3, ClockIs
    <3> DEFINE g1 == (clock - ring[i][1]) % Wrap
    <3>2. g1 <= Len(ring) - i
      BY <3>1 DEF PadInv, Recent
    <3>3. ring[i][1] \in 0 .. Wrap - 1 /\ clock \in 0 .. Wrap - 1
      BY <1>2, <3>1 DEF Samples, PadInv, PadTypes
    <3>4. g1 \in 0 .. Wrap - 1
      BY <3>3, ClockIs, GapGrows
    <3> HIDE DEF g1
    <3>5. g1 < Half
      BY <1>2, <3>1, <3>2, <3>4, ClockIs
    <3> QED
      BY <1>1, <3>1, <3>5 DEF g1
  <2> QED
    BY <2>1, <2>2 DEF Recent
<1>8. GameIsAfter'
  BY <1>1, <1>3, <1>4 DEF PadInv, GameIsAfter
<1>9. MenuIsCovered'
  <2>1. Uncounted = 0 /\ Uncounted' = 0 /\ calls' = calls /\ calls \in Nat /\ Len(slots) = 0
    BY <1>1 DEF Uncounted, PadInv, PadTypes, ReaderWhere
  <2>2. \A i \in 1 .. Len(ring) : ring[i][2] = "menu"
              => calls >= i /\ \A j \in 1 .. i : ~After(ring[j][1], bound)
    BY <1>1, <1>2, <2>1, Covered
  <2>3. \A i \in 1 .. Len(slots') : slots'[i][2] = "menu"
              => calls >= i + Uncounted' /\ \A j \in 1 .. i : ~After(slots'[j][1], bound)
    <3> SUFFICES ASSUME NEW i \in 1 .. Len(slots'), slots'[i][2] = "menu"
                 PROVE  calls >= i + Uncounted' /\ \A j \in 1 .. i : ~After(slots'[j][1], bound)
      OBVIOUS
    <3>1. i \in 1 .. n /\ i \in 1 .. Len(ring) /\ ring[i][2] = "menu"
      BY <1>3
    <3>2. calls >= i /\ \A j \in 1 .. i : ~After(ring[j][1], bound)
      BY <2>2, <3>1
    <3>3. \A j \in 1 .. i : j \in 1 .. n
      BY <1>2, <3>1, ClockIs
    <3>4. \A j \in 1 .. i : slots'[j] = ring[j]
      BY <1>3, <3>3
    <3>5. calls >= i + Uncounted'
      BY <1>2, <2>1, <3>1, <3>2
    <3> QED
      BY <3>2, <3>4, <3>5
  <2>4. ASSUME NEW i \in 1 .. Len(ring'), ring'[i][2] = "menu"
        PROVE  /\ calls >= Len(slots') + i + Uncounted'
               /\ \A j \in 1 .. i : ~After(ring'[j][1], bound)
               /\ \A j \in 1 .. Len(slots') : ~After(slots'[j][1], bound)
    <3>1. n + i \in 1 .. Len(ring) /\ ring[n + i][2] = "menu"
      BY <1>4, <2>4
    <3>2. calls >= n + i /\ \A j \in 1 .. n + i : ~After(ring[j][1], bound)
      BY <2>2, <3>1
    <3>3. \A j \in 1 .. i : ring'[j] = ring[n + j] /\ n + j \in 1 .. n + i
      BY <1>2, <1>4, <1>5, ClockIs
    <3>4. \A j \in 1 .. n : slots'[j] = ring[j] /\ j \in 1 .. n + i
      BY <1>2, <1>3, <1>5, ClockIs
    <3>5. calls >= Len(slots') + i + Uncounted'
      BY <1>2, <1>3, <1>5, <2>1, <3>2, ClockIs
    <3>6. \A j \in 1 .. i : ~After(ring'[j][1], bound)
      BY <3>2, <3>3
    <3>7. \A j \in 1 .. Len(slots') : ~After(slots'[j][1], bound)
      BY <1>3, <3>2, <3>4
    <3> QED
      BY <3>5, <3>6, <3>7
  <2> QED
    BY <1>1, <2>3, <2>4 DEF MenuIsCovered
<1>10. LatchIsArmed' /\ ReaderWhere' /\ leak' = {}
  BY <1>1 DEF PadInv, LatchIsArmed, ReaderWhere
<1> QED
  BY <1>6, <1>7, <1>8, <1>9, <1>10 DEF PadInv

\* Without a sample of the menu's the rest of a read may pass.
LEMMA PassRestKeeps ==
  ASSUME PadInv, PassRest, at = "game", calls' \in 0 .. Calls,
         UNCHANGED <<clock, age, ring, latched, at, bound, latch, how>>, register' \in Int,
         \A i \in 1 .. Len(slots) : slots[i][2] # "menu",
         \A i \in 1 .. Len(ring) : ring[i][2] # "menu"
  PROVE  PadInv'
<1>1. slots' = <<>> /\ reader' = "out" /\ Len(slots') = 0 /\ slots' \in Seq(Samples)
  BY DEF PassRest
<1>2. leak' = {}
  <2>1. \A i \in DOMAIN slots : Wrong(slots[i], FALSE) = {}
    <3> TAKE i \in DOMAIN slots
    <3>1. i \in 1 .. Len(slots)
      BY DEF PadInv, PadTypes
    <3>2. slots[i][2] # "menu" /\ FiltersRight(FALSE)
      BY <3>1, FiltersHold
    <3> QED
      BY <3>2 DEF Wrong
  <2>2. UNION {Wrong(slots[i], FALSE) : i \in DOMAIN slots} = {}
    BY <2>1
  <2> QED
    BY <2>2 DEF PassRest, PadInv
<1>3. PadTypes'
  BY <1>1, ClockIs DEF PadInv, PadTypes
<1>4. Recent' /\ GameIsAfter'
  BY <1>1 DEF PadInv, Recent, GameIsAfter
<1>5. MenuIsCovered'
  BY <1>1 DEF MenuIsCovered
<1>6. LatchIsArmed' /\ ReaderWhere'
  BY <1>1 DEF PadInv, LatchIsArmed, ReaderWhere
<1> QED
  BY <1>2, <1>3, <1>4, <1>5, <1>6 DEF PadInv

\* A read that finds the count 0 has nothing of the menu's before it.
LEMMA EntryKeeps == ASSUME PadInv, Entry, "torn" \notin how PROVE PadInv'
<1>1. /\ at = "game" /\ reader = "entry"
      /\ UNCHANGED <<clock, age, ring, latched, at, calls, bound, latch, register, how>>
  BY DEF Entry
<1>2. /\ calls \in 0 .. Calls /\ Len(slots) \in Nat /\ Len(ring) \in Nat /\ register \in Int
      /\ Uncounted = 0
  BY <1>1 DEF PadInv, PadTypes, Uncounted
<1>3. CASE calls = 0
  <2>1. PassRest
    BY <1>3 DEF Entry
  <2>2. \A i \in 1 .. Len(slots) : slots[i][2] # "menu"
    BY <1>1, <1>2, <1>3, Covered
  <2>3. \A i \in 1 .. Len(ring) : ring[i][2] # "menu"
    BY <1>1, <1>2, <1>3, Covered
  <2> QED
    BY <1>1, <1>2, <2>1, <2>2, <2>3, PassRestKeeps
<1>4. CASE calls # 0
  <2>1. reader' = "slot" /\ slots' = slots /\ leak' = leak
    BY <1>4 DEF Entry
  <2>2. Uncounted' = Uncounted
    BY <1>1, <2>1 DEF Uncounted
  <2>3. MenuIsCovered'
    BY <1>1, <2>1, <2>2, Covered DEF MenuIsCovered
  <2> QED
    BY <1>1, <2>1, <2>3 DEF PadInv, PadTypes, Recent, GameIsAfter, LatchIsArmed, ReaderWhere
<1> QED
  BY <1>3, <1>4

\* The count is loaded ...
LEMMA LoadCountKeeps == ASSUME PadInv, LoadCount, "torn" \notin how PROVE PadInv'
<1>1. /\ at = "game" /\ reader = "load" /\ reader' = "store" /\ register' = calls - 1
      /\ UNCHANGED <<clock, age, ring, latched, at, calls, bound, latch, slots, leak, how>>
  BY DEF LoadCount
<1>2. Uncounted' = Uncounted /\ register' \in Int
  BY <1>1, ClockIs DEF Uncounted, PadInv, PadTypes
<1>3. MenuIsCovered'
  BY <1>1, <1>2, Covered DEF MenuIsCovered
<1> QED
  BY <1>1, <1>2, <1>3 DEF PadInv, PadTypes, Recent, GameIsAfter, LatchIsArmed, ReaderWhere

\* ... and stored one less: the blanked slot is no longer covered and no longer needs to be.
LEMMA StoreCountKeeps == ASSUME PadInv, StoreCount, "torn" \notin how PROVE PadInv'
<1>1. /\ at = "game" /\ reader = "store" /\ register' = 0
      /\ UNCHANGED <<clock, age, ring, latched, at, bound, latch, how>>
  BY DEF StoreCount
<1>2. /\ calls \in 0 .. Calls /\ Len(slots) \in Nat /\ Len(ring) \in Nat /\ register = calls - 1
      /\ Uncounted = 1 /\ Calls \in Nat
  BY <1>1, ClockIs DEF PadInv, PadTypes, Uncounted, ReaderWhere
<1>3. CASE register <= 0
  <2>1. PassRest /\ calls' = 0
    BY <1>3 DEF StoreCount
  <2>2. \A i \in 1 .. Len(slots) : slots[i][2] # "menu"
    BY <1>1, <1>2, <1>3, Covered
  <2>3. \A i \in 1 .. Len(ring) : ring[i][2] # "menu"
    BY <1>1, <1>2, <1>3, Covered
  <2>4. calls' \in 0 .. Calls /\ register' \in Int
    BY <1>1, <1>2, <2>1
  <2> QED
    BY <1>1, <2>1, <2>2, <2>3, <2>4, PassRestKeeps
<1>4. CASE ~(register <= 0)
  <2>1. reader' = "slot" /\ slots' = slots /\ leak' = leak /\ calls' = register
    BY <1>4 DEF StoreCount
  <2>2. Uncounted' = 0 /\ calls' = calls - 1 /\ calls' \in 0 .. Calls /\ register' \in Int
    BY <1>1, <1>2, <1>4, <2>1 DEF Uncounted
  <2>3. MenuIsCovered'
    <3>1. \A i \in 1 .. Len(slots) : calls >= i + Uncounted => calls' >= i + Uncounted'
      BY <1>2, <2>2
    <3>2. \A i \in 1 .. Len(ring) :
            calls >= Len(slots) + i + Uncounted => calls' >= Len(slots) + i + Uncounted'
      BY <1>2, <2>2
    <3> QED
      BY <1>1, <2>1, <3>1, <3>2, Covered DEF MenuIsCovered
  <2> QED
    BY <1>1, <2>1, <2>2, <2>3 DEF PadInv, PadTypes, Recent, GameIsAfter, LatchIsArmed, ReaderWhere
<1> QED
  BY <1>3, <1>4

\* A slot sampled after the arming ends the blanking, with nothing of the menu's behind it;
\* another is blanked, and is not the game's own.
LEMMA SlotKeeps == ASSUME PadInv, Slot, "torn" \notin how PROVE PadInv'
<1>1. /\ at = "game" /\ reader = "slot"
      /\ UNCHANGED <<clock, age, ring, latched, at, bound, latch, register, how>>
  BY DEF Slot
<1>2. /\ calls \in 0 .. Calls /\ slots \in Seq(Samples) /\ Len(slots) \in 0 .. Count
      /\ Len(ring) \in Nat
      /\ register \in Int /\ Uncounted = 0 /\ Calls \in Nat
  BY <1>1, ClockIs DEF PadInv, PadTypes, Uncounted
<1>3. CASE slots = <<>>
  <2>1. reader' = "out" /\ slots' = slots /\ calls' = calls /\ leak' = leak
    BY <1>3 DEF Slot
  <2>2. Uncounted' = Uncounted
    BY <1>1, <2>1 DEF Uncounted
  <2>3. MenuIsCovered'
    BY <1>1, <2>1, <2>2, Covered DEF MenuIsCovered
  <2> QED
    BY <1>1, <1>3, <2>1, <2>3 DEF PadInv, PadTypes, Recent, GameIsAfter, LatchIsArmed, ReaderWhere
<1>4. CASE slots # <<>> /\ After(slots[1][1], bound)
  <2>1. PassRest /\ calls' = 0
    BY <1>4 DEF Slot
  <2>0. 1 \in 1 .. Len(slots) /\ \A i \in 1 .. Len(slots) : 1 \in 1 .. i
    BY <1>2, <1>4
  <2>2. \A i \in 1 .. Len(slots) : slots[i][2] # "menu"
    BY <1>1, <1>4, <2>0, Covered
  <2>3. \A i \in 1 .. Len(ring) : ring[i][2] # "menu"
    BY <1>1, <1>4, <2>0, Covered
  <2>4. calls' \in 0 .. Calls /\ register' \in Int
    BY <1>1, <1>2, <2>1
  <2> QED
    BY <1>1, <2>1, <2>2, <2>3, <2>4, PassRestKeeps
<1>5. CASE slots # <<>> /\ ~After(slots[1][1], bound)
  <2>1. /\ leak' = leak \cup Wrong(slots[1], TRUE) /\ slots' = Tail(slots)
        /\ reader' = "load" /\ calls' = calls
    BY <1>5 DEF Slot
  <2>2. /\ 1 \in 1 .. Len(slots) /\ slots' \in Seq(Samples) /\ Len(slots') = Len(slots) - 1
        /\ \A i \in 1 .. Len(slots') : i + 1 \in 1 .. Len(slots) /\ slots'[i] = slots[i + 1]
    BY <1>2, <1>5, <2>1, ClockIs
  <2>3. leak' = {}
    <3>1. slots[1][2] = "game" => ~(age < Half)
      BY <1>5, <2>2 DEF PadInv, GameIsAfter
    <3>2. FiltersRight(TRUE)
      BY FiltersHold
    <3> QED
      BY <2>1, <3>1, <3>2 DEF Wrong, PadInv
  <2>4. Uncounted' = 1
    BY <2>1 DEF Uncounted
  <2>5. PadTypes'
    BY <1>1, <1>2, <2>1, <2>2, ClockIs DEF PadInv, PadTypes
  <2>6. Recent' /\ GameIsAfter'
    BY <1>1, <2>2 DEF PadInv, Recent, GameIsAfter
  <2>7. MenuIsCovered'
    <3>1. ASSUME NEW i \in 1 .. Len(slots'), slots'[i][2] = "menu"
          PROVE  calls >= i + 1 /\ \A j \in 1 .. i : ~After(slots'[j][1], bound)
      <4>1. i + 1 \in 1 .. Len(slots) /\ slots[i + 1][2] = "menu"
        BY <2>2, <3>1
      <4>2. calls >= i + 1 + 0 /\ \A j \in 1 .. i + 1 : ~After(slots[j][1], bound)
        BY <1>1, <1>2, <4>1, Covered
      <4>3. \A j \in 1 .. i : slots'[j] = slots[j + 1] /\ j + 1 \in 1 .. i + 1
        BY <1>2, <2>2
      <4>4. calls >= i + 1
        BY <1>2, <4>2
      <4>5. \A j \in 1 .. i : ~After(slots'[j][1], bound)
        BY <4>2, <4>3
      <4> QED
        BY <4>4, <4>5
    <3>2. ASSUME NEW i \in 1 .. Len(ring), ring[i][2] = "menu"
          PROVE  /\ calls >= Len(slots') + i + 1
                 /\ \A j \in 1 .. i : ~After(ring[j][1], bound)
                 /\ \A j \in 1 .. Len(slots') : ~After(slots'[j][1], bound)
      <4>1. /\ calls >= Len(slots) + i + 0 /\ \A j \in 1 .. i : ~After(ring[j][1], bound)
            /\ \A j \in 1 .. Len(slots) : ~After(slots[j][1], bound)
        BY <1>1, <1>2, <3>2, Covered
      <4>2. Len(slots') \in Nat /\ Len(slots) = Len(slots') + 1 /\ calls \in Int
        BY <1>1, <1>2, <2>2, <2>5 DEF PadInv, PadTypes
      <4>3. calls >= Len(slots') + i + 1
        BY <4>1, <4>2
      <4>4. \A j \in 1 .. Len(slots') : slots'[j] = slots[j + 1] /\ j + 1 \in 1 .. Len(slots)
        BY <1>2, <2>2, <4>2
      <4> QED
        BY <4>1, <4>3, <4>4
    <3> QED
      BY <1>1, <2>1, <2>4, <3>1, <3>2 DEF MenuIsCovered
  <2>8. LatchIsArmed' /\ ReaderWhere'
    BY <1>1, <2>1 DEF PadInv, LatchIsArmed, ReaderWhere
  <2> QED
    BY <2>3, <2>5, <2>6, <2>7, <2>8 DEF PadInv
<1> QED
  BY <1>3, <1>4, <1>5

\* At boot nothing is armed and the ring is empty.
LEMMA PadStarts == PadInit => PadInv
<1> SUFFICES ASSUME PadInit PROVE PadInv
  OBVIOUS
<1>1. ring = <<>> /\ slots = <<>> /\ Len(ring) = 0 /\ Len(slots) = 0 /\ ring \in Seq(Samples)
      /\ slots \in Seq(Samples)
  BY DEF PadInit
<1>2. PadTypes
  <2>1. 0 \in 0 .. Wrap - 1 /\ 0 \in 0 .. Calls /\ Half \in 0 .. Half /\ 0 <= Ring /\ 0 <= Count
    BY ClockIs
  <2>2. ring \in Seq(Samples) /\ Len(ring) <= Ring /\ slots \in Seq(Samples) /\ Len(slots) <= Count
    BY <1>1, <2>1
  <2>3. /\ clock \in 0 .. Wrap - 1 /\ bound \in 0 .. Wrap - 1 /\ age \in 0 .. Half
        /\ calls \in 0 .. Calls
    BY <2>1 DEF PadInit
  <2>4. at \in {"game", "browser", "save"} /\ reader \in {"out", "entry", "slot", "load", "store"}
    BY DEF PadInit
  <2>5. latch \in BOOLEAN
    BY DEF PadInit
  <2>6. register \in Int
    BY DEF PadInit
  <2> QED
    BY <2>2, <2>3, <2>4, <2>5, <2>6 DEF PadTypes
<1>3. Recent /\ GameIsAfter /\ MenuIsCovered
  BY <1>1, ClockIs DEF PadInit, Recent, GameIsAfter, MenuIsCovered
<1>4. LatchIsArmed /\ ReaderWhere /\ leak = {}
  BY DEF PadInit, LatchIsArmed, ReaderWhere
<1> QED
  BY <1>2, <1>3, <1>4 DEF PadInv

\* Every step of the hook, the menu and the game's reads.
LEMMA PadStep == PadInv /\ [PadNext]_padVars => PadInv'
<1> SUFFICES ASSUME PadInv, [PadNext]_padVars PROVE PadInv'
  OBVIOUS
<1>1. CASE Sample
  BY <1>1, SampleKeeps
<1>2. CASE Browse
  BY <1>2, BrowseKeeps
<1>3. CASE Arm /\ "torn" \notin how
  BY <1>3, ArmKeeps
<1>4. CASE SaveFreezes
  BY <1>4, SaveFreezesKeeps
<1>5. CASE LatchTimer
  BY <1>5, LatchTimerKeeps
<1>6. CASE Read /\ "torn" \notin how
  BY <1>6, ReadKeeps
<1>7. CASE Entry /\ "torn" \notin how
  BY <1>7, EntryKeeps
<1>8. CASE Slot /\ "torn" \notin how
  BY <1>8, SlotKeeps
<1>9. CASE LoadCount /\ "torn" \notin how
  BY <1>9, LoadCountKeeps
<1>10. CASE StoreCount /\ "torn" \notin how
  BY <1>10, StoreCountKeeps
<1>11. CASE ReadLatch
  BY <1>11, ReadLatchKeeps
<1>12. CASE UNCHANGED padVars
  BY <1>12, PadStutter
<1> QED
  BY <1>1, <1>2, <1>3, <1>4, <1>5, <1>6, <1>7, <1>8, <1>9, <1>10, <1>11, <1>12 DEF PadNext

\* Nothing pressed in the browser or behind an operation reaches the game and nothing
\* pressed after the resume is lost (menu.c:247-251), and a save captures no armed state
\* (menu.c:2820-2821), for any ring, read size, count and wrap of the clock.
THEOREM PadsStayGames == PadSpec => []PadsAreGames
<1>1. PadInv => PadsAreGames
  BY DEF PadInv, ReaderWhere, PadsAreGames, InputIsGames, SaveFindsNoneArmed
<1> QED
  BY <1>1, PadStarts, PadStep, PTL DEF PadSpec


-----------------------------------------------------------------------------
(* The types of what is left, and of all the parts of MCGameSide together. *)

\* A thread of the overlay that is there is flagged as started, also in the savegame's copy.
Ours(x) ==
  /\ x[3] \in Charges \cup {-1} /\ x[4] \in {-1, 0, 1}
  /\ x[5] \in {"none", "look", "leave", "read", "gate", "sleep"} /\ (x[5] # "none" => x[6])
  /\ x[7] \in {"none", "look", "leave", "draw"} /\ (x[7] # "none" => x[8])

OverlayInv == Ours(ours) /\ (backup # <<>> => Ours(backup))

LEMMA OverlayBegins == OverlayInit => OverlayInv
BY DEF OverlayInit, OverlayInv, Ours, ours

LEMMA OverlayTyped == OverlayInv => OverlayTypeOK
BY DEF OverlayInv, Ours, ours, OverlayTypeOK

LEMMA OverlayStep == OverlayInv /\ [OverlayNext]_overlayVars => OverlayInv'
<1> SUFFICES ASSUME OverlayInv, [OverlayNext]_overlayVars PROVE OverlayInv'
  OBVIOUS
<1> USE DEF OverlayInv, Ours, ours
<1>1. CASE PollLooks
  <2>1. /\ sent' \in {-1, 0, 1} /\ poller' \in {"read", "leave"} /\ polling
        /\ UNCHANGED <<overlay, threshold, percent, polling, drawer, drawing, backup>>
    <3>1. CASE Wanted
      BY <1>1, <3>1 DEF PollLooks
    <3>2. CASE ~Wanted
      BY <1>1, <3>2 DEF PollLooks, LeavePermitting
    <3> QED
      BY <3>1, <3>2
  <2> QED
    BY <2>1
<1>2. CASE PollLeaves
  BY <1>2 DEF PollLeaves
<1>3. CASE PollReads
  BY <1>3 DEF PollReads
<1>4. CASE PollGates
  BY <1>4, WantIsBit DEF PollGates
<1>5. CASE PollWakes
  BY <1>5 DEF PollWakes
<1>6. CASE DrawLooks
  BY <1>6 DEF DrawLooks
<1>7. CASE DrawLeaves
  BY <1>7 DEF DrawLeaves
<1>8. CASE DrawWaits
  BY <1>8 DEF DrawWaits
<1>9. CASE SetOverlay
  BY <1>9 DEF SetOverlay, EnsurePoll, EnsureDraw
<1>10. CASE SetThreshold
  BY <1>10 DEF SetThreshold, EnsurePoll
<1>11. CASE Snapshot
  BY <1>11 DEF Snapshot
<1>12. CASE LoadBack
  BY <1>12 DEF LoadBack
<1>13. CASE UNCHANGED overlayVars
  BY <1>13 DEF overlayVars
<1> QED
  BY <1>1, <1>2, <1>3, <1>4, <1>5, <1>6, <1>7, <1>8, <1>9, <1>10, <1>11, <1>12, <1>13
  DEF OverlayNext

\* The count a reader has loaded is one it found, less one.
PadShape ==
  /\ register \in -1 .. Calls
  /\ latched \subseteq {"menu", "game"} /\ how \subseteq {"timer", "torn"}

LEMMA PadBegins == PadInit => PadShape
<1> SUFFICES ASSUME PadInit PROVE PadShape
  OBVIOUS
<1>1. register = 0 /\ latched = {} /\ how = {}
  BY DEF PadInit
<1> QED
  BY <1>1, ClockIs DEF PadShape

LEMMA PadShapeStep == PadInv /\ PadShape /\ [PadNext]_padVars => PadShape'
<1> SUFFICES ASSUME PadInv, PadShape, [PadNext]_padVars PROVE PadShape'
  OBVIOUS
<1>0. calls \in 0 .. Calls /\ Calls \in Nat
  BY ClockIs DEF PadInv, PadTypes
<1> USE DEF PadShape
<1>1. CASE Sample
  BY <1>1 DEF Sample
<1>2. CASE Browse
  BY <1>2 DEF Browse
<1>3. CASE Arm
  BY <1>3 DEF Arm
<1>4. CASE SaveFreezes
  BY <1>4 DEF SaveFreezes, Torn
<1>5. CASE LatchTimer
  BY <1>5 DEF LatchTimer
<1>6. CASE Read
  BY <1>6 DEF Read
<1>7. CASE Entry
  BY <1>7 DEF Entry
<1>8. CASE Slot
  BY <1>8 DEF Slot
<1>9. CASE LoadCount
  BY <1>0, <1>9 DEF LoadCount
<1>10. CASE StoreCount
  BY <1>0, <1>10 DEF StoreCount
<1>11. CASE ReadLatch
  BY <1>11 DEF ReadLatch
<1>12. CASE UNCHANGED padVars
  BY <1>12 DEF padVars
<1> QED
  BY <1>1, <1>2, <1>3, <1>4, <1>5, <1>6, <1>7, <1>8, <1>9, <1>10, <1>11, <1>12 DEF PadNext

LEMMA PadTyped == PadInv /\ PadShape => PadTypeOK
<1> SUFFICES ASSUME PadInv, PadShape PROVE PadTypeOK
  OBVIOUS
<1>1. Len(slots) <= Ring
  <2>1. Len(slots) <= Count /\ Count <= Ring /\ Len(slots) \in Nat /\ Count \in Nat /\ Ring \in Nat
    BY ClockIs, PadAssumption DEF PadInv, PadTypes
  <2> QED BY <2>1
<1>2. leak \subseteq {"menu press", "fresh input", "wrong keys"}
  BY DEF PadInv
<1> QED
  BY <1>1, <1>2, PadAssumption DEF PadInv, PadTypes, PadShape, PadTypeOK

\* A backup has an original for each of its places, which are places the option writes.
LEMMA BackupFits ==
  ASSUME Undoes(originals, gameCode, chosen)
  PROVE  Len(originals) <= MaxBackup
<1> DEFINE Places == 1 .. Len(originals)
           f == [i \in Places |-> originals[i].at]
<1>0. Len(originals) \in Nat /\ MaxBackup \in Nat
  BY ThreadAssumption DEF Undoes
<1>1. CASE Len(originals) = 0
  BY <1>0, <1>1
<1>2. CASE Len(originals) # 0
  <2>1. 1 \in Places
    BY <1>0, <1>2
  <2>2. chosen \in 1 .. Len(Unlocks)
    BY <2>1 DEF Undoes, EntryOf
  <2>3. Cardinality(Written(chosen)) <= MaxBackup /\ Len(Unlocks[chosen]) \in Nat
    BY <2>2, ThreadAssumption
  <2>4. IsFiniteSet(Written(chosen))
    BY <2>2, WrittenIsFinite
  <2>5. f \in Injection(Places, Written(chosen))
    <3>1. ASSUME NEW i \in Places PROVE originals[i].at \in Written(chosen)
      <4>1. PICK m \in Writes(chosen) :
              originals[i].at = Unlocks[chosen][m].at /\ Covers(Unlocks[chosen][m]) # {}
        BY DEF Undoes, EntryOf
      <4> QED
        BY <4>1 DEF Written
    <3>2. \A i, j \in Places : originals[i].at = originals[j].at => i = j
      BY DEF Undoes
    <3> HIDE DEF Places
    <3> QED
      BY <3>1, <3>2 DEF Injection, IsInjective
  <2>6. Cardinality(Places) <= Cardinality(Written(chosen))
    <3> HIDE DEF f, Places
    <3> QED
      BY <2>4, <2>5, FS_Injection
  <2>7. Cardinality(Places) = Len(originals) /\ Cardinality(Written(chosen)) \in Nat
    BY <1>0, <2>4, UpTo, FS_CardinalityType
  <2> QED
    BY <1>0, <2>3, <2>6, <2>7
<1> QED
  BY <1>1, <1>2

\* The flag of the thread that applies them is one, also in what a load brings back.
FlagInv == started \in BOOLEAN /\ (image # NoImage => image.started \in BOOLEAN)

LEMMA FlagBegins == ThreadInit => FlagInv
BY DEF ThreadInit, FlagInv

LEMMA FlagStep == CheatInv /\ FlagInv /\ [ThreadNext]_threadVars => FlagInv'
<1> SUFFICES ASSUME CheatInv, FlagInv, [ThreadNext]_threadVars PROVE FlagInv'
  OBVIOUS
<1> USE DEF FlagInv
<1>1. CASE Loop \/ Wakes \/ Recheck \/ ApplyUnlock \/ PassTime \/ OpenMenu \/ CloseMenu \/ Trigger
           \/ MenuFlagOff \/ Release \/ GameFlips \/ Stop \/ StopDone
  <2>1. started' = started /\ image' = image
    BY <1>1 DEF Loop, Wakes, Recheck, ApplyUnlock, PassTime, OpenMenu, CloseMenu, Trigger,
                MenuFlagOff, Release, GameFlips, Stop, StopDone
  <2> QED
    BY <2>1
<1>2. CASE Retire
  BY <1>2 DEF Retire
<1>3. CASE CycleUnlock
  BY <1>3 DEF CycleUnlock
<1>4. CASE Capture
  BY <1>4 DEF Capture
<1>5. CASE Restore
  <2>1. image # NoImage
    BY <1>5 DEF Restore, CheatInv, PlaceInv, OpWhere
  <2> QED
    BY <1>5, <2>1 DEF Restore
<1>6. CASE UNCHANGED threadVars
  BY <1>6 DEF threadVars
<1> QED
  BY <1>1, <1>2, <1>3, <1>4, <1>5, <1>6 DEF ThreadNext

LEMMA CheatTyped == CheatInv /\ FlagInv => ThreadTypeOK
<1> SUFFICES ASSUME CheatInv, FlagInv PROVE ThreadTypeOK
  OBVIOUS
<1>1. Len(originals) <= MaxBackup
  BY BackupFits DEF CheatInv
<1>2. chosen \in 0 .. Len(Unlocks) /\ leaving \in -1 .. StopPolls
  BY DEF CheatInv, PlaceInv, CheatTypes
<1>3. started = (thread.at # "none")
  <2>1. started <=> thread.at # "none"
    BY DEF CheatInv, PlaceInv, CheatTypes, ThreadOf
  <2> QED
    BY <2>1 DEF FlagInv
<1> QED
  BY <1>1, <1>2, <1>3 DEF ThreadTypeOK


-----------------------------------------------------------------------------
(* The curve on the GE: what every buffer, list and party may be.          *)

Lists  == {"draw", "copy", "curve"} \X Buffers \X {"game", "isr", "worker"}
AnyBuf == Buffers \cup {NoBuf}

\* The surroundings, and what the GE has.
AroundTypes ==
  /\ kind \in {"flip", "comp"} /\ gate \in {"open", "menu", "dialog"}
  /\ susp \in {"no", "down", "armed"} /\ changes \in 0 .. Changes
  /\ active \in BOOLEAN /\ grace \in BOOLEAN /\ exiting \in BOOLEAN
ScreenTypes ==
  /\ ge \in Seq(Lists) /\ curved \in [Buffers -> 0 .. 2] /\ fbp \in Buffers /\ shown \in Displays

\* What both parties know of the game.
MarkTypes ==
  /\ fresh \in BOOLEAN /\ arm \in BOOLEAN /\ parNext \in BOOLEAN /\ parValid \in BOOLEAN
  /\ injected \in BOOLEAN /\ raced \in BOOLEAN
  /\ lastFb \in AnyBuf /\ offFb \in AnyBuf /\ dispFb \in AnyBuf /\ stash \in AnyBuf
  /\ busy \in {"free", "game", "worker"}

\* The game's thread presents a displayed buffer, and injects only with an offscreen one known.
GameWhere ==
  /\ game \in {"idle", "enqueue", "after", "inject"} \cup Window /\ phase \in {"draw", "show"}
  /\ gbuf \in AnyBuf /\ pending \in BOOLEAN
  /\ game = "enqueue" => gbuf \in Buffers
  /\ game \in Window => gbuf \in Displays
  /\ game = "inject" => offFb \in Buffers
  /\ pending /\ game \in {"enqueue", "after"} => offFb \in Buffers

\* The worker has a buffer wherever it works on one.
HelperWhere ==
  /\ helper \in {"none", "loop", "drained", "sweep", "apply"} \cup Window
  /\ wbuf \in AnyBuf /\ wfresh \in BOOLEAN /\ anew \in BOOLEAN
  /\ helper \notin {"none", "loop"} => wbuf \in Buffers

GammaInv == AroundTypes /\ ScreenTypes /\ MarkTypes /\ GameWhere /\ HelperWhere

LEMMA NoBufIsNone == NoBuf \notin Buffers /\ Displays \subseteq Buffers
BY DEF NoBuf, Buffers, Displays

LEMMA TargetIs == shown \in Displays => Target \in Buffers /\ Presented \in Buffers /\ (kind = "flip" => Target \in Displays) /\ Presented \in Displays
BY DEF Target, Presented, Buffers, Displays

\* A list more on the GE.
LEMMA OneMore ==
  ASSUME NEW q \in Seq(Lists), NEW w \in {"draw", "copy", "curve"}, NEW b \in Buffers,
         NEW p \in {"game", "isr", "worker"}
  PROVE  Append(q, <<w, b, p>>) \in Seq(Lists)
BY DEF Lists

LEMMA GammaBegins == GammaInit => GammaInv
<1> SUFFICES ASSUME GammaInit PROVE GammaInv
  OBVIOUS
<1> USE DEF GammaInit
<1>1. AroundTypes
  <2>1. changes \in 0 .. Changes
    BY GammaAssumption
  <2>2. kind \in {"flip", "comp"} /\ gate \in {"open", "menu", "dialog"} /\ susp \in {"no", "down", "armed"}
    OBVIOUS
  <2>3. active \in BOOLEAN /\ grace \in BOOLEAN /\ exiting \in BOOLEAN
    OBVIOUS
  <2> QED
    BY <2>1, <2>2, <2>3 DEF AroundTypes
<1>2. ScreenTypes
  BY DEF ScreenTypes, Buffers, Displays
<1>3. MarkTypes
  BY DEF MarkTypes, AnyBuf
<1>4. GameWhere
  BY DEF GameWhere, AnyBuf, Window
<1>5. HelperWhere
  BY DEF HelperWhere, AnyBuf, Window
<1> QED
  BY <1>1, <1>2, <1>3, <1>4, <1>5 DEF GammaInv

LEMMA AroundStep == GammaInv /\ [GammaNext]_gammaVars => AroundTypes'
<1> SUFFICES ASSUME AroundTypes, [GammaNext]_gammaVars PROVE AroundTypes'
  BY DEF GammaInv
<1>1. CASE Surroundings
  <2>1. changes' \in 0 .. Changes /\ kind' = kind /\ grace' = grace
    BY <1>1, GammaAssumption DEF Surroundings, AroundTypes
  <2>2. gate' \in {"open", "menu", "dialog"} /\ susp' \in {"no", "down", "armed"}
    BY <1>1 DEF Surroundings, AroundTypes
  <2>3. active' \in BOOLEAN
    BY <1>1 DEF Surroundings, AroundTypes
  <2>4. exiting' \in BOOLEAN
    BY <1>1 DEF Surroundings, AroundTypes
  <2> QED
    BY <2>1, <2>2, <2>3, <2>4 DEF AroundTypes
<1>2. CASE AfterResume
  BY <1>2 DEF AfterResume, AroundTypes
<1>3. CASE ReacquireGe
  BY <1>3 DEF ReacquireGe, AroundTypes
<1>4. CASE UNCHANGED around
  BY <1>4 DEF around, AroundTypes
<1>5. CASE UNCHANGED gammaVars
  BY <1>5 DEF gammaVars, around, AroundTypes
<1>6. UNCHANGED around \/ Surroundings \/ AfterResume \/ ReacquireGe \/ UNCHANGED gammaVars
  BY DEF GammaNext, GeRuns, GameThread, Helper, SubmitDraw, RealEnqueue, AfterSubmit, Inject, PresentThread,
         PresentClaim, PresentBuild, PresentDone, InterruptSubmit, PresentInterrupt, Disprove, TakeStash,
         Poll, Decide, Sweep, Apply, Goes, ApplyClaim, ApplyBuild, ApplyDone, StartHelper, EndHelper
<1> QED
  BY <1>1, <1>2, <1>3, <1>4, <1>5, <1>6

LEMMA ScreenStep == GammaInv /\ [GammaNext]_gammaVars => ScreenTypes'
<1> SUFFICES ASSUME GammaInv, [GammaNext]_gammaVars PROVE ScreenTypes'
  OBVIOUS
<1>0. /\ ge \in Seq(Lists) /\ curved \in [Buffers -> 0 .. 2] /\ fbp \in Buffers /\ shown \in Displays
      /\ Target \in Buffers /\ Presented \in Displays /\ Presented \in Buffers
  BY TargetIs DEF GammaInv, ScreenTypes
<1>1. CASE GeRuns
  <2> DEFINE what == Head(ge)[1]
             b    == Head(ge)[2]
  <2>1. Head(ge) \in Lists /\ Tail(ge) \in Seq(Lists)
    BY <1>0, <1>1 DEF GeRuns
  <2>2. what \in {"draw", "copy", "curve"} /\ b \in Buffers /\ "off" \in Buffers
    BY <2>1 DEF Lists, Buffers
  <2>3. /\ ge' = Tail(ge) /\ shown' = shown /\ fbp' = (IF what = "curve" THEN fbp ELSE b)
        /\ curved' = [curved EXCEPT ![b] = CASE what = "draw"  -> 0
                                              [] what = "copy"  -> curved["off"]
                                              [] what = "curve" -> IF @ = 2 THEN 2 ELSE @ + 1]
    BY <1>1 DEF GeRuns
  <2> HIDE DEF what, b
  <2>4. (CASE what = "draw"  -> 0
           [] what = "copy"  -> curved["off"]
           [] what = "curve" -> IF curved[b] = 2 THEN 2 ELSE curved[b] + 1) \in 0 .. 2
    BY <1>0, <2>2
  <2>5. curved' \in [Buffers -> 0 .. 2]
    BY <1>0, <2>2, <2>3, <2>4
  <2> QED
    BY <1>0, <2>1, <2>2, <2>3, <2>5 DEF ScreenTypes
<1>2. CASE RealEnqueue
  <2>1. gbuf \in Buffers
    BY <1>2 DEF RealEnqueue, GammaInv, GameWhere
  <2> QED
    BY <1>0, <1>2, <2>1, OneMore DEF RealEnqueue, ScreenTypes
<1>3. CASE Inject
  <2>1. offFb \in Buffers
    BY <1>3 DEF Inject, GammaInv, GameWhere
  <2> QED
    BY <1>0, <1>3, <2>1, OneMore DEF Inject, ScreenTypes
<1>4. CASE InterruptSubmit
  <2> DEFINE own == IF phase = "draw" THEN <<"draw", Target, "isr">> ELSE <<"copy", "A", "isr">>
  <2>1. \E hit \in Decision(TRUE) : IF hit THEN ge' = ge \o <<own, <<"curve", offFb, "isr">>>>
                                    ELSE ge' = Append(ge, own)
    BY <1>4 DEF InterruptSubmit
  <2>2. own \in Lists
    BY <1>0 DEF Lists, Buffers, Displays
  <2>3. PICK hit \in Decision(TRUE) : IF hit THEN ge' = ge \o <<own, <<"curve", offFb, "isr">>>>
                                    ELSE ge' = Append(ge, own)
    BY <2>1
  <2>4. UNCHANGED <<curved, fbp, shown>>
    BY <1>4 DEF InterruptSubmit
  <2> HIDE DEF own
  <2>5. CASE hit
    <3>1. offFb # NoBuf
      BY <2>5 DEF Decision, Open
    <3>2. offFb \in Buffers
      BY <3>1 DEF GammaInv, MarkTypes, AnyBuf
    <3>3. <<"curve", offFb, "isr">> \in Lists
      BY <3>2 DEF Lists
    <3>4. ge' \in Seq(Lists)
      <4>1. <<own, <<"curve", offFb, "isr">>>> \in Seq(Lists)
        BY <2>2, <3>3
      <4>2. ge' = ge \o <<own, <<"curve", offFb, "isr">>>>
        BY <2>3, <2>5
      <4> QED
        BY <1>0, <4>1, <4>2, ConcatProperties
    <3> QED
      BY <1>0, <2>4, <3>4 DEF ScreenTypes
  <2>6. CASE ~hit
    <3>1. ge' \in Seq(Lists)
      BY <1>0, <2>2, <2>3, <2>6
    <3> QED
      BY <1>0, <2>4, <3>1 DEF ScreenTypes
  <2> QED
    BY <2>5, <2>6
<1>5. CASE PresentThread
  <2>1. ge' = ge /\ curved' = curved /\ fbp' = fbp
    BY <1>5 DEF PresentThread
  <2>2. shown' \in {shown, Presented}
    BY <1>5 DEF PresentThread, Show
  <2> QED
    BY <1>0, <2>1, <2>2 DEF ScreenTypes
<1>6. CASE PresentClaim
  <2>1. gbuf \in Displays
    BY <1>6 DEF PresentClaim, GammaInv, GameWhere, Window
  <2> QED
    BY <1>0, <1>6, <2>1 DEF PresentClaim, Show, ScreenTypes
<1>7. CASE PresentBuild
  <2>1. gbuf \in Buffers
    BY <1>7, NoBufIsNone DEF PresentBuild, GammaInv, GameWhere, Window
  <2> QED
    BY <1>0, <1>7, <2>1, OneMore DEF PresentBuild, ScreenTypes
<1>8. CASE PresentDone
  <2>1. gbuf \in Displays
    BY <1>8 DEF PresentDone, GammaInv, GameWhere, Window
  <2> QED
    BY <1>0, <1>8, <2>1 DEF PresentDone, Show, ScreenTypes
<1>9. CASE PresentInterrupt
  <2>1. ge' = ge \/ ge' = Append(ge, <<"curve", Presented, "isr">>)
    BY <1>9 DEF PresentInterrupt
  <2>2. shown' = Presented /\ curved' = curved /\ fbp' = fbp
    BY <1>9 DEF PresentInterrupt, Show
  <2>3. ge' \in Seq(Lists)
    BY <1>0, <2>1, OneMore
  <2> QED
    BY <1>0, <2>2, <2>3 DEF ScreenTypes
<1>10. CASE ApplyBuild
  <2>1. wbuf \in Buffers
    BY <1>10 DEF ApplyBuild, GammaInv, HelperWhere
  <2> QED
    BY <1>0, <1>10, <2>1, OneMore DEF ApplyBuild, ScreenTypes
<1>11. CASE UNCHANGED screen \/ UNCHANGED gammaVars
  <2>1. UNCHANGED screen
    BY <1>11 DEF gammaVars
  <2> QED
    BY <1>0, <2>1 DEF screen, ScreenTypes
<1>12. \/ GeRuns \/ RealEnqueue \/ Inject \/ InterruptSubmit \/ PresentThread \/ PresentClaim \/ PresentBuild
       \/ PresentDone \/ PresentInterrupt \/ ApplyBuild \/ UNCHANGED screen \/ UNCHANGED gammaVars
  BY DEF GammaNext, GameThread, Helper, SubmitDraw, AfterSubmit, Disprove, ReacquireGe, TakeStash, Poll,
         Decide, Sweep, Apply, Goes, ApplyClaim, ApplyDone, StartHelper, EndHelper, Surroundings, AfterResume
<1> QED
  BY <1>1, <1>2, <1>3, <1>4, <1>5, <1>6, <1>7, <1>8, <1>9, <1>10, <1>11, <1>12

\* What a step does to the marks both parties know.
LEMMA MarkStep == GammaInv /\ [GammaNext]_gammaVars => MarkTypes'
<1> SUFFICES ASSUME GammaInv, [GammaNext]_gammaVars PROVE MarkTypes'
  OBVIOUS
<1>0. /\ MarkTypes /\ gbuf \in AnyBuf /\ wbuf \in AnyBuf /\ fbp \in AnyBuf /\ shown \in AnyBuf
      /\ Presented \in AnyBuf /\ NoBuf \in AnyBuf /\ wfresh \in BOOLEAN
  BY TargetIs, NoBufIsNone DEF GammaInv, GameWhere, HelperWhere, ScreenTypes, AnyBuf
<1> USE DEF MarkTypes
<1>1. CASE SubmitDraw
  <2>1. fresh' = TRUE /\ UNCHANGED <<lastFb, busy, stash, target, raced>>
    BY <1>1 DEF SubmitDraw, Submits
  <2>2. parNext' \in BOOLEAN /\ parValid' \in BOOLEAN
    BY <1>0, <1>1 DEF SubmitDraw, Latch
  <2> QED
    BY <1>0, <2>1, <2>2 DEF target
<1>2. CASE RealEnqueue
  <2>1. raced' \in BOOLEAN
    BY <1>2 DEF RealEnqueue, Late
  <2> QED
    BY <1>0, <1>2, <2>1 DEF RealEnqueue, guard, target, role
<1>3. CASE AfterSubmit
  BY <1>0, <1>3 DEF AfterSubmit, guard, target
<1>4. CASE Inject
  BY <1>0, <1>4 DEF Inject, role
<1>5. CASE InterruptSubmit
  <2>1. parNext' \in BOOLEAN /\ parValid' \in BOOLEAN
    BY <1>0, <1>5 DEF InterruptSubmit, Latch
  <2>2. /\ raced' \in BOOLEAN /\ fresh' \in BOOLEAN /\ injected' \in BOOLEAN /\ lastFb' \in AnyBuf
    <3>1. (Late \/ offFb = shown) \in BOOLEAN /\ Late \in BOOLEAN
      BY DEF Late
    <3> QED
      BY <1>0, <1>5, <3>1 DEF InterruptSubmit
  <2>3. UNCHANGED <<busy, stash, arm, offFb, dispFb>>
    BY <1>5 DEF InterruptSubmit
  <2> QED
    BY <1>0, <2>1, <2>2, <2>3
<1>6. CASE PresentThread
  <2>1. arm' \in BOOLEAN /\ parValid' \in BOOLEAN
    BY <1>0, <1>6 DEF PresentThread, Disarm
  <2>2. raced' \in BOOLEAN
    BY <1>0, <1>6 DEF PresentThread
  <2>3. stash' \in AnyBuf
    BY <1>0, <1>6 DEF PresentThread
  <2>4. UNCHANGED <<guard, busy, offFb, dispFb, injected, parNext>>
    BY <1>6 DEF PresentThread
  <2> QED
    BY <1>0, <2>1, <2>2, <2>3, <2>4 DEF guard
<1>7. CASE PresentClaim
  BY <1>0, <1>7 DEF PresentClaim, guard, target, role
<1>8. CASE PresentBuild
  <2>1. raced' \in BOOLEAN
    BY <1>8 DEF PresentBuild, Late
  <2> QED
    BY <1>0, <1>8, <2>1 DEF PresentBuild, guard, target, role
<1>9. CASE PresentDone
  BY <1>0, <1>9 DEF PresentDone, target, role
<1>10. CASE PresentInterrupt
  <2>1. arm' \in BOOLEAN /\ parValid' \in BOOLEAN
    BY <1>0, <1>10 DEF PresentInterrupt, Disarm
  <2>2. raced' \in BOOLEAN /\ fresh' \in BOOLEAN /\ lastFb' \in AnyBuf
    <3>1. CASE ~MayApply
      BY <1>0, <1>10, <3>1 DEF PresentInterrupt, guard
    <3>2. CASE MayApply
      <4>1. (Late \/ arm) \in BOOLEAN
        BY DEF Late
      <4>2. \/ UNCHANGED <<guard, raced>>
            \/ lastFb' = Presented /\ fresh' = FALSE /\ raced' = (Late \/ arm)
        BY <1>10, <3>2 DEF PresentInterrupt
      <4> QED
        BY <1>0, <4>1, <4>2 DEF guard
    <3> QED
      BY <3>1, <3>2
  <2>3. UNCHANGED <<busy, stash, offFb, dispFb, injected, parNext>>
    BY <1>10 DEF PresentInterrupt
  <2> QED
    BY <1>0, <2>1, <2>2, <2>3
<1>11. CASE Disprove
  BY <1>0, <1>11 DEF Disprove, guard, role
<1>12. CASE ReacquireGe
  BY <1>0, <1>12 DEF ReacquireGe
<1>13. CASE TakeStash
  BY <1>0, <1>13 DEF TakeStash, guard, target, role
<1>14. CASE Decide
  <2>1. /\ dispFb' = shown /\ offFb' \in {offFb, wbuf} /\ arm' \in BOOLEAN
        /\ UNCHANGED <<guard, busy, stash, injected, role, raced>>
    BY <1>0, <1>14 DEF Decide
  <2> QED
    BY <1>0, <2>1 DEF guard, role
<1>15. CASE Sweep
  <2>1. /\ offFb' \in {offFb, fbp} /\ arm' \in BOOLEAN
        /\ UNCHANGED <<guard, busy, stash, dispFb, injected, role, raced>>
    BY <1>0, <1>15 DEF Sweep
  <2> QED
    BY <1>0, <2>1 DEF guard, role
<1>16. CASE Apply
  <2>1. UNCHANGED <<guard, busy, stash, target, role>> /\ raced' = (raced \/ game # "idle")
    BY <1>16 DEF Apply, Goes
  <2> QED
    BY <1>0, <2>1 DEF guard, target, role
<1>17. CASE ApplyClaim
  BY <1>0, <1>17 DEF ApplyClaim, guard, target, role
<1>18. CASE ApplyBuild
  BY <1>0, <1>18 DEF ApplyBuild, guard, target, role
<1>19. CASE ApplyDone
  BY <1>0, <1>19 DEF ApplyDone, target, role
<1>20. CASE StartHelper
  BY <1>0, <1>20 DEF StartHelper, guard
<1>21. CASE EndHelper
  BY <1>0, <1>21 DEF EndHelper, guard
<1>22. CASE GeRuns \/ Poll \/ Surroundings \/ AfterResume \/ UNCHANGED gammaVars
  <2>1. UNCHANGED <<guard, busy, stash, target, role, raced>>
    BY <1>22 DEF GeRuns, Poll, Surroundings, AfterResume, gammaVars
  <2> QED
    BY <1>0, <2>1 DEF guard, target, role
<1> QED
  BY <1>1, <1>2, <1>3, <1>4, <1>5, <1>6, <1>7, <1>8, <1>9, <1>10, <1>11, <1>12, <1>13, <1>14, <1>15,
     <1>16, <1>17, <1>18, <1>19, <1>20, <1>21, <1>22 DEF GammaNext, GameThread, Helper

\* Where the game's thread is, and the buffer it has there.
LEMMA GameStep == GammaInv /\ [GammaNext]_gammaVars => GameWhere'
<1> SUFFICES ASSUME GammaInv, [GammaNext]_gammaVars PROVE GameWhere'
  OBVIOUS
<1>0. /\ GameWhere /\ fbp \in Buffers /\ shown \in Displays /\ Target \in Buffers
      /\ Presented \in Displays /\ NoBuf \in AnyBuf /\ offFb \in AnyBuf
      /\ Displays \subseteq AnyBuf /\ Buffers \subseteq AnyBuf
  BY TargetIs, NoBufIsNone DEF GammaInv, ScreenTypes, MarkTypes, AnyBuf
<1> USE DEF GameWhere, Window
<1>1. CASE SubmitDraw
  <2>1. /\ game' = "enqueue" /\ gbuf' = Target /\ offFb' = offFb /\ phase' = phase
        /\ pending' \in Decision(FALSE)
    BY <1>1 DEF SubmitDraw, target
  <2>2. pending' \in BOOLEAN /\ (pending' => offFb # NoBuf)
    BY <2>1 DEF Decision, Open
  <2> QED
    BY <1>0, <2>1, <2>2 DEF AnyBuf
<1>2. CASE RealEnqueue
  BY <1>0, <1>2 DEF RealEnqueue, target, role
<1>3. CASE AfterSubmit
  BY <1>0, <1>3 DEF AfterSubmit, target
<1>4. CASE Inject
  BY <1>0, <1>4 DEF Inject, role
<1>5. CASE InterruptSubmit
  <2>1. game' = game /\ gbuf' = gbuf /\ offFb' = offFb /\ pending' = FALSE /\ phase' \in {"draw", "show"}
    BY <1>5 DEF InterruptSubmit
  <2> QED
    BY <1>0, <2>1
<1>6. CASE PresentThread
  <2>1. /\ game = "idle" /\ offFb' = offFb /\ pending' = pending /\ phase' \in {phase, "draw"}
        /\ \/ game' = game /\ gbuf' = gbuf
           \/ game' = "claim" /\ gbuf' = Presented
    BY <1>6 DEF PresentThread, CanPresent, Show
  <2> QED
    BY <1>0, <2>1
<1>7. CASE PresentClaim
  <2>1. /\ game = "claim" /\ offFb' = offFb /\ pending' = pending /\ phase' \in {phase, "draw"}
        /\ \/ game' = "build" /\ gbuf' = gbuf
           \/ game' = "idle" /\ gbuf' = NoBuf
    BY <1>7 DEF PresentClaim, Show, target, role
  <2> QED
    BY <1>0, <2>1
<1>8. CASE PresentBuild
  BY <1>0, <1>8 DEF PresentBuild, target, role
<1>9. CASE PresentDone
  BY <1>0, <1>9 DEF PresentDone, Show, target, role
<1>10. CASE PresentInterrupt
  <2>1. game' = game /\ gbuf' = gbuf /\ offFb' = offFb /\ pending' = pending /\ phase' = "draw"
    BY <1>10 DEF PresentInterrupt, Show
  <2> QED
    BY <1>0, <2>1
<1>11. CASE ReacquireGe
  <2>1. /\ game \in {"idle", "enqueue", "after"} /\ pending' = FALSE
        /\ game' = game /\ gbuf' = gbuf /\ phase' = phase
    BY <1>11 DEF ReacquireGe, gamev
  <2> QED
    BY <1>0, <2>1
<1>12. CASE Decide
  <2>1. /\ offFb' \in {offFb, wbuf} /\ wbuf \in Buffers
        /\ UNCHANGED <<role, gamev>>
    BY <1>12 DEF Decide, GammaInv, HelperWhere
  <2> QED
    BY <1>0, <2>1 DEF gamev, role
<1>13. CASE Sweep
  <2>1. offFb' \in {offFb, fbp} /\ UNCHANGED <<role, gamev>>
    BY <1>13 DEF Sweep
  <2> QED
    BY <1>0, <2>1 DEF gamev, role
<1>14. CASE \/ GeRuns \/ Disprove \/ TakeStash \/ Poll \/ Apply \/ ApplyClaim \/ ApplyBuild \/ ApplyDone
            \/ StartHelper \/ EndHelper \/ Surroundings \/ AfterResume \/ UNCHANGED gammaVars
  <2>1. UNCHANGED <<offFb, pending, gamev>>
    BY <1>14 DEF GeRuns, Disprove, TakeStash, Poll, Apply, Goes, ApplyClaim, ApplyBuild, ApplyDone, StartHelper,
                 EndHelper, Surroundings, AfterResume, gammaVars, target, role
  <2> QED
    BY <1>0, <2>1 DEF gamev
<1> QED
  BY <1>1, <1>2, <1>3, <1>4, <1>5, <1>6, <1>7, <1>8, <1>9, <1>10, <1>11, <1>12, <1>13, <1>14
  DEF GammaNext, GameThread, Helper

\* Where the worker is, and the buffer it has there.
LEMMA HelperStep == GammaInv /\ [GammaNext]_gammaVars => HelperWhere'
<1> SUFFICES ASSUME GammaInv, [GammaNext]_gammaVars PROVE HelperWhere'
  OBVIOUS
<1>0. HelperWhere /\ fbp \in Buffers /\ NoBuf \in AnyBuf /\ Buffers \subseteq AnyBuf /\ stash \in AnyBuf
  BY DEF GammaInv, ScreenTypes, MarkTypes, AnyBuf
<1> USE DEF HelperWhere, Window
<1>1. CASE SubmitDraw
  <2>1. UNCHANGED <<helper, wbuf, anew>> /\ wfresh' \in BOOLEAN
    BY <1>1 DEF SubmitDraw, Submits
  <2> QED
    BY <1>0, <2>1
<1>2. CASE RealEnqueue
  BY <1>0, <1>2 DEF RealEnqueue
<1>3. CASE InterruptSubmit
  <2>1. UNCHANGED <<helper, wbuf>> /\ wfresh' \in BOOLEAN /\ anew' \in BOOLEAN
    BY <1>0, <1>3 DEF InterruptSubmit
  <2> QED
    BY <1>0, <2>1
<1>4. CASE TakeStash
  <2>1. stash \in Buffers
    BY <1>0, <1>4 DEF TakeStash, AnyBuf
  <2> QED
    BY <1>0, <1>4, <2>1 DEF TakeStash
<1>5. CASE Poll
  BY <1>0, <1>5 DEF Poll
<1>6. CASE Decide
  BY <1>0, <1>6 DEF Decide
<1>7. CASE Sweep
  BY <1>0, <1>7 DEF Sweep
<1>8. CASE Apply
  <2>1. /\ helper = "apply" /\ UNCHANGED <<wfresh, anew>>
        /\ \/ helper' = "claim" /\ wbuf' = wbuf
           \/ helper' = "loop" /\ wbuf' = NoBuf
    BY <1>8 DEF Apply, Goes
  <2> QED
    BY <1>0, <2>1
<1>9. CASE ApplyClaim
  BY <1>0, <1>9 DEF ApplyClaim
<1>10. CASE ApplyBuild
  BY <1>0, <1>10 DEF ApplyBuild
<1>11. CASE ApplyDone
  BY <1>0, <1>11 DEF ApplyDone
<1>12. CASE StartHelper
  BY <1>0, <1>12 DEF StartHelper
<1>13. CASE EndHelper
  BY <1>0, <1>13 DEF EndHelper
<1>14. CASE UNCHANGED workv \/ UNCHANGED gammaVars
  <2>1. UNCHANGED workv
    BY <1>14 DEF gammaVars
  <2> QED
    BY <1>0, <2>1 DEF workv
<1>15. \/ SubmitDraw \/ RealEnqueue \/ InterruptSubmit \/ TakeStash \/ Poll \/ Decide \/ Sweep \/ Apply
       \/ ApplyClaim \/ ApplyBuild \/ ApplyDone \/ StartHelper \/ EndHelper
       \/ UNCHANGED workv \/ UNCHANGED gammaVars
  BY DEF GammaNext, GameThread, Helper, GeRuns, AfterSubmit, Inject, PresentThread, PresentClaim, PresentBuild,
         PresentDone, PresentInterrupt, Disprove, ReacquireGe, Surroundings, AfterResume
<1> QED
  BY <1>1, <1>2, <1>3, <1>4, <1>5, <1>6, <1>7, <1>8, <1>9, <1>10, <1>11, <1>12, <1>13, <1>14, <1>15

LEMMA GammaStep == GammaInv /\ [GammaNext]_gammaVars => GammaInv'
BY AroundStep, ScreenStep, MarkStep, GameStep, HelperStep DEF GammaInv

LEMMA GammaTyped == GammaInv => GammaTypeOK
<1> SUFFICES ASSUME GammaInv PROVE GammaTypeOK
  OBVIOUS
<1> USE DEF GammaInv, AroundTypes, ScreenTypes, MarkTypes, GameWhere, HelperWhere, AnyBuf
<1>1. {active, grace, exiting, fresh, arm, pending, parNext, parValid, injected, wfresh, anew, raced}
         \subseteq BOOLEAN
  <2>1. /\ active \in BOOLEAN /\ grace \in BOOLEAN /\ exiting \in BOOLEAN /\ fresh \in BOOLEAN
        /\ arm \in BOOLEAN /\ pending \in BOOLEAN /\ parNext \in BOOLEAN /\ parValid \in BOOLEAN
        /\ injected \in BOOLEAN /\ wfresh \in BOOLEAN /\ anew \in BOOLEAN /\ raced \in BOOLEAN
    OBVIOUS
  <2> QED
    BY <2>1, Zenon
<1>2. \A i \in DOMAIN ge : ge[i] \in Lists
  OBVIOUS
<1>3. {lastFb, offFb, dispFb, stash, gbuf, wbuf} \subseteq Buffers \cup {NoBuf}
  OBVIOUS
<1> QED
  BY <1>1, <1>2, <1>3 DEF GammaTypeOK, Lists


-----------------------------------------------------------------------------
(* The menu thread's places, flags, rows and saves.                         *)

\* Where the three threads are, and what is flagged between them.
FlagWhere ==
  /\ place \in {"start", "sleep", "awake", "prompts", "watch", "retry"} \cup Browsing
  /\ menuOpen \in BOOLEAN /\ armed \in BOOLEAN /\ bootPending \in BOOLEAN /\ popup \in BOOLEAN
  /\ launch \in BOOLEAN
  /\ wakeups \in 0 .. WakeCap /\ tries \in 0 .. Tries
  /\ tapHook \in {"idle", "boot", "tap"} /\ cut \subseteq Games
  /\ videoThread \in {"none", "capture", "timed", "read", "trunc", "write"}
  /\ snap = NoSnap \/ (snap.menuOpen \in BOOLEAN /\ snap.wakeups \in 0 .. WakeCap)

LEMMA FlagsBegin == MenuInit => FlagWhere
<1> SUFFICES ASSUME MenuInit PROVE FlagWhere
  OBVIOUS
<1>1. wakeups \in 0 .. WakeCap /\ tries \in 0 .. Tries
  BY MenuAssumption DEF MenuInit
<1> QED
  BY <1>1 DEF MenuInit, FlagWhere

LEMMA FlagsStep == BrowserInv /\ FlagWhere /\ [MenuNext]_menuVars => FlagWhere'
<1> SUFFICES ASSUME BrowserInv, FlagWhere, [MenuNext]_menuVars PROVE FlagWhere'
  OBVIOUS
<1>0. /\ WakeCap \in Nat /\ Tries \in Nat \ {0} /\ RunningGame \in Games /\ folder \in Games
      /\ exists \subseteq Games
  BY MenuAssumption DEF BrowserInv, MenuTypes
<1>t. /\ 0 \in 0 .. Tries /\ Tries \in 0 .. Tries
      /\ \A n \in 0 .. Tries : Max0(n - 1) \in 0 .. Tries
  BY <1>0 DEF Max0
<1> USE DEF FlagWhere, Browsing, Frozen
<1>1. CASE Hook
  BY <1>0, <1>1 DEF Hook, listVars, cardVars, fileVars, pageVars, watchVars
<1>2. CASE HookWakes
  BY <1>0, <1>2 DEF HookWakes, Wake, bootVars, listVars, cardVars, fileVars, pageVars, watchVars
<1>3. CASE Start
  BY <1>0, <1>3 DEF Start, bootVars, listVars, cardVars, fileVars, pageVars, watchVars
<1>4. CASE NoSleep
  BY <1>0, <1>4 DEF NoSleep, hookVars, bootVars, listVars, cardVars, fileVars, pageVars, watchVars
<1>5. CASE Boot
  BY <1>0, <1>5 DEF Boot, hookVars, listVars, cardVars, fileVars, pageVars, watchVars
<1>6. CASE PromptsDone
  BY <1>0, <1>6 DEF PromptsDone, hookVars, bootVars, listVars, cardVars, fileVars, pageVars, watchVars
<1>7. CASE WatcherStarts
  BY <1>0, <1>t, <1>7 DEF WatcherStarts, hookVars, listVars, cardVars, fileVars, pageVars
<1>8. CASE OpenBrowser
  BY <1>0, <1>8 DEF OpenBrowser, hookVars, bootVars, listVars, cardVars, fileVars, pageVars, watchVars
<1>9. CASE OpenFails
  BY <1>0, <1>t, <1>9 DEF OpenFails, hookVars, listVars, cardVars, fileVars, pageVars, watchVars
<1>10. CASE Opened
  BY <1>0, <1>10 DEF Opened, ShowList, hookVars, fileVars, pageVars, watchVars
<1>11. CASE Move
  BY <1>0, <1>11 DEF Move, hookVars, bootVars, cardVars, fileVars, pageVars, watchVars
<1>12. CASE Close
  BY <1>0, <1>t, <1>12 DEF Close, Return, hookVars, cardVars, fileVars, pageVars, watchVars
<1>13. CASE ToGames
  BY <1>0, <1>13 DEF ToGames, hookVars, bootVars, listVars, cardVars, fileVars, pageVars, watchVars
<1>14. CASE Pick
  BY <1>0, <1>14 DEF Pick, ShowList, hookVars, bootVars, fileVars, pageVars, watchVars
<1>15. CASE DeleteGame
  BY <1>0, <1>15 DEF DeleteGame, hookVars, bootVars, watchVars
<1>16. CASE Delete
  BY <1>0, <1>16 DEF Delete, hookVars, bootVars, fileVars, watchVars
<1>17. CASE Save
  BY <1>0, <1>17 DEF Save, Closing, hookVars, bootVars, cardVars, fileVars, pageVars, watchVars
<1>18. CASE Saving
  BY <1>0, <1>18 DEF Saving, hookVars, bootVars, listVars, cardVars, fileVars, pageVars, watchVars
<1>19. CASE Saved
  BY <1>0, <1>19 DEF Saved, hookVars, bootVars, listVars, fileVars, pageVars, watchVars
<1>20. CASE Finished
  BY <1>0, <1>t, <1>20 DEF Finished, Return, hookVars, cardVars, fileVars, pageVars, watchVars
<1>21. CASE Load
  BY <1>0, <1>21 DEF Load, Closing, hookVars, bootVars, cardVars, fileVars, pageVars, watchVars
<1>22. CASE LoadReturns
  BY <1>0, <1>22 DEF LoadReturns, listVars, cardVars, fileVars, pageVars
<1>23. CASE EnterPage
  BY <1>0, <1>23 DEF EnterPage, hookVars, bootVars, listVars, cardVars, fileVars, watchVars
<1>24. CASE Press
  BY <1>0, <1>24 DEF Press, hookVars, bootVars, listVars, cardVars, fileVars, watchVars
<1>25. CASE LeavePage
  BY <1>0, <1>25 DEF LeavePage, hookVars, bootVars, listVars, cardVars, fileVars, pageVars, watchVars
<1>26. CASE Truncate
  BY <1>0, <1>26 DEF Truncate, hookVars, bootVars, listVars, pageVars, watchVars
<1>27. CASE Write
  BY <1>0, <1>t, <1>27 DEF Write, Return, hookVars, listVars, cardVars, fileVars, watchVars
<1>28. CASE WatcherEnds
  BY <1>0, <1>28 DEF WatcherEnds, Watching, hookVars, bootVars, listVars, fileVars, pageVars
<1>29. CASE Learn
  BY <1>0, <1>29 DEF Learn, Watching, hookVars, bootVars, listVars, fileVars, pageVars
<1>30. CASE ReadBack
  BY <1>0, <1>30 DEF ReadBack, Watching, hookVars, bootVars, listVars, fileVars, pageVars
<1>31. CASE TruncateLearned
  BY <1>0, <1>31 DEF TruncateLearned, hookVars, bootVars, listVars, pageVars
<1>32. CASE WriteLearned
  BY <1>0, <1>32 DEF WriteLearned, Watching, hookVars, bootVars, listVars, fileVars, pageVars
<1>33. CASE UNCHANGED menuVars
  BY <1>33 DEF menuVars
<1> QED
  BY <1>1, <1>2, <1>3, <1>4, <1>5, <1>6, <1>7, <1>8, <1>9, <1>10, <1>11, <1>12, <1>13, <1>14, <1>15, <1>16, <1>17, <1>18, <1>19, <1>20, <1>21, <1>22, <1>23, <1>24, <1>25, <1>26, <1>27, <1>28, <1>29, <1>30, <1>31, <1>32, <1>33
  DEF MenuNext


-----------------------------------------------------------------------------
(* The rows and the saves.                                                  *)

\* The list fits its rows, the chosen line is one of it, and a save under way has room in its
\* folder: what the folder has is what is listed, or nothing once it was deleted.
RoomWhere ==
  /\ \A x \in Games : saves[x] \in Seq(SaveSlots) /\ Len(saves[x]) <= RowCap
  /\ rows \in Seq(SaveSlots) /\ Len(rows) <= RowCap
  /\ slot \in SaveSlots /\ sel \in 0 .. Max0(Total - 1)
  /\ showNew \in BOOLEAN /\ gone \in BOOLEAN
  /\ gone /\ place # "crc" => saves[folder] = <<>>
  /\ place \in {"gap", "saving"} => Len(saves[folder]) < RowCap \/ slot \in Range(saves[folder])

\* The list of a folder has its saves.
LEMMA ReverseHas ==
  ASSUME NEW q \in Seq(SaveSlots)
  PROVE  /\ Reverse(q) \in Seq(SaveSlots) /\ Len(Reverse(q)) = Len(q)
         /\ Range(Reverse(q)) \subseteq Range(q) /\ (Reverse(q) = <<>> <=> q = <<>>)
<1> DEFINE r == Reverse(q)
<1>1. Len(q) \in Nat /\ DOMAIN q = 1 .. Len(q) /\ \A i \in 1 .. Len(q) : q[i] \in SaveSlots
  OBVIOUS
<1>2. r = [i \in 1 .. Len(q) |-> q[(Len(q) - i) + 1]]
  BY DEF Reverse
<1>3. \A i \in 1 .. Len(q) : (Len(q) - i) + 1 \in 1 .. Len(q)
  BY <1>1
<1>4. r \in Seq(SaveSlots) /\ Len(r) = Len(q) /\ DOMAIN r = 1 .. Len(q)
  BY <1>1, <1>2, <1>3
<1>5. \A i \in 1 .. Len(q) : r[i] = q[(Len(q) - i) + 1]
  BY <1>2
<1> HIDE DEF r
<1>6. Range(r) \subseteq Range(q)
  BY <1>1, <1>3, <1>4, <1>5 DEF Range
<1>7. r = <<>> <=> q = <<>>
  BY <1>1, <1>4
<1> QED
  BY <1>4, <1>6, <1>7 DEF r

\* Taking a name out takes one place, if it was there.
LEMMA WithoutShorter ==
  ASSUME NEW x, saves[x] \in Seq(SaveSlots), NEW s
  PROVE  /\ Without(x, s) \in Seq(SaveSlots)
         /\ Len(Without(x, s)) = IF s \in Range(saves[x]) THEN Len(saves[x]) - 1 ELSE Len(saves[x])
         /\ saves[x] = <<>> => Without(x, s) = <<>>
<1>0. Without(x, s) \in Seq(SaveSlots)
  BY WithoutFacts
<1>1. CASE s \notin Range(saves[x])
  BY <1>0, <1>1 DEF Without
<1>2. CASE s \in Range(saves[x])
  <2> DEFINE q == saves[x]
             spot == CHOOSE i \in DOMAIN q : q[i] = s
  <2>1. \E i \in DOMAIN q : q[i] = s
    BY <1>2 DEF Range
  <2>2. spot \in DOMAIN q /\ Without(x, s) = RemoveAt(q, spot)
    BY <1>2, <2>1 DEF Without
  <2> HIDE DEF spot
  <2>3. q \in Seq(SaveSlots) /\ Len(q) \in Nat /\ spot \in 1 .. Len(q)
    BY <2>2
  <2> HIDE DEF q
  <2>4. SubSeq(q, 1, spot - 1) \in Seq(SaveSlots) /\ Len(SubSeq(q, 1, spot - 1)) = spot - 1
    BY <2>3
  <2>5. SubSeq(q, spot + 1, Len(q)) \in Seq(SaveSlots) /\ Len(SubSeq(q, spot + 1, Len(q))) = Len(q) - spot
    BY <2>3
  <2>6. Len(RemoveAt(q, spot)) = Len(q) - 1
    BY <2>3, <2>4, <2>5, ConcatProperties DEF RemoveAt
  <2>7. q # <<>>
    BY <2>3
  <2> QED
    BY <1>0, <1>2, <2>2, <2>6, <2>7 DEF q
<1> QED
  BY <1>1, <1>2

\* The save on the chosen line is one of the list.
LEMMA ChosenIs ==
  ASSUME rows \in Seq(SaveSlots), showNew \in BOOLEAN, sel \in 0 .. Max0(Total - 1), OnSave
  PROVE  Chosen \in SaveSlots /\ Chosen \in Range(rows)
<1> DEFINE n == IF showNew THEN sel ELSE sel + 1
<1>1. Len(rows) \in Nat /\ Len(rows) # 0
  BY DEF OnSave
<1>2. n \in 1 .. Len(rows)
  BY <1>1 DEF OnSave, Max0, Total
<1> HIDE DEF n
<1> QED
  BY <1>2 DEF Chosen, Range, n

LEMMA AnySlotIs == AnySlot \in SaveSlots
BY MenuAssumption DEF AnySlot

LEMMA RoomBegins == MenuInit => RoomWhere
<1> SUFFICES ASSUME MenuInit PROVE RoomWhere
  OBVIOUS
<1>1. /\ rows = <<>> /\ showNew = TRUE /\ sel = 0 /\ gone = FALSE /\ place = "start" /\ slot \in SaveSlots
      /\ \A x \in Games : saves[x] = <<slot>>
  BY AnySlotIs DEF MenuInit
<1>2. 1 <= RowCap /\ 0 <= RowCap
  BY MenuAssumption
<1>3. \A x \in Games : saves[x] \in Seq(SaveSlots) /\ Len(saves[x]) <= RowCap
  <2>1. <<slot>> \in Seq(SaveSlots) /\ Len(<<slot>>) = 1
    BY <1>1
  <2> QED
    BY <1>1, <1>2, <2>1
<1>4. rows \in Seq(SaveSlots) /\ Len(rows) <= RowCap /\ sel \in 0 .. Max0(Total - 1)
  BY <1>1, <1>2 DEF Max0, Total
<1> QED
  BY <1>1, <1>3, <1>4 DEF RoomWhere

\* A new view: the list of a folder, its newest save or the first line.
LEMMA ShowKeeps ==
  ASSUME BrowserInv, RoomWhere, NEW x \in Games, NEW withNew \in BOOLEAN, NEW newest \in BOOLEAN,
         ShowList(x, withNew, newest), saves' = saves, place' = "browser"
  PROVE  RoomWhere'
<1>1. /\ folder' = x /\ showNew' = withNew /\ rows' = Reverse(saves[x]) /\ gone' = FALSE /\ slot' = slot
      /\ sel' = IF newest /\ withNew /\ saves[x] # <<>> THEN 1 ELSE 0
  BY DEF ShowList, Listed
<1>2. saves[x] \in Seq(SaveSlots) /\ Len(saves[x]) <= RowCap
  BY DEF RoomWhere
<1>3. rows' \in Seq(SaveSlots) /\ Len(rows') <= RowCap /\ (rows' = <<>> <=> saves[x] = <<>>)
  BY <1>1, <1>2, ReverseHas
<1>4. sel' \in 0 .. Max0(Total' - 1)
  <2>1. Len(rows') \in Nat /\ (saves[x] # <<>> => Len(rows') > 0)
    BY <1>3
  <2> QED
    BY <1>1, <2>1 DEF Max0, Total
<1> QED
  BY <1>1, <1>3, <1>4 DEF RoomWhere

\* The view is left for the first of an empty one.
LEMMA ReturnKeeps ==
  ASSUME BrowserInv, RoomWhere, Return, saves' = saves
  PROVE  RoomWhere'
<1>1. rows' = <<>> /\ sel' = 0 /\ showNew' = TRUE /\ gone' = FALSE /\ slot' = AnySlot /\ place' = "sleep"
  BY DEF Return
<1>2. rows' \in Seq(SaveSlots) /\ Len(rows') = 0 /\ sel' \in 0 .. Max0(Total' - 1) /\ 0 <= RowCap
  BY <1>1, MenuAssumption DEF Max0, Total
<1> QED
  BY <1>1, <1>2, AnySlotIs DEF RoomWhere

\* Nothing of the view or the card moves, and no save begins.
LEMMA StayKeeps ==
  ASSUME RoomWhere, UNCHANGED <<folder, rows, sel, showNew, slot, gone, saves>>,
         place = "crc" => place' = "crc", place' \in {"gap", "saving"} => place \in {"gap", "saving"}
  PROVE  RoomWhere'
<1>1. Total' = Total
  BY DEF Total
<1> QED
  BY <1>1 DEF RoomWhere

LEMMA RoomStep == BrowserInv /\ RoomWhere /\ [MenuNext]_menuVars => RoomWhere'
<1> SUFFICES ASSUME BrowserInv, RoomWhere, [MenuNext]_menuVars PROVE RoomWhere'
  OBVIOUS
<1>0. folder \in Games /\ exists \subseteq Games /\ RowCap \in Nat /\ RowCap > 0
  BY MenuAssumption DEF BrowserInv, MenuTypes
<1>s. saves = [x \in Games |-> saves[x]]
  BY DEF BrowserInv, MenuTypes
<1>w. \A s : /\ Without(folder, s) \in Seq(SaveSlots)
             /\ Len(Without(folder, s)) = IF s \in Range(saves[folder]) THEN Len(saves[folder]) - 1
                                         ELSE Len(saves[folder])
             /\ Len(saves[folder]) \in Nat
             /\ saves[folder] = <<>> => Without(folder, s) = <<>>
  BY <1>0, WithoutShorter DEF RoomWhere
<1>1. CASE Hook
  BY <1>1, StayKeeps DEF Hook, listVars, cardVars, fileVars, pageVars, watchVars
<1>2. CASE HookWakes
  BY <1>2, StayKeeps DEF HookWakes, Wake, bootVars, listVars, cardVars, fileVars, pageVars, watchVars
<1>3. CASE Start
  BY <1>3, StayKeeps DEF Start, bootVars, listVars, cardVars, fileVars, pageVars, watchVars
<1>4. CASE NoSleep
  BY <1>4, StayKeeps DEF NoSleep, hookVars, bootVars, listVars, cardVars, fileVars, pageVars, watchVars
<1>5. CASE Boot
  BY <1>5, StayKeeps DEF Boot, hookVars, listVars, cardVars, fileVars, pageVars, watchVars
<1>6. CASE PromptsDone
  BY <1>6, StayKeeps DEF PromptsDone, hookVars, bootVars, listVars, cardVars, fileVars, pageVars, watchVars
<1>7. CASE WatcherStarts
  BY <1>7, StayKeeps DEF WatcherStarts, hookVars, listVars, cardVars, fileVars, pageVars
<1>8. CASE OpenBrowser
  BY <1>8, StayKeeps DEF OpenBrowser, hookVars, bootVars, listVars, cardVars, fileVars, pageVars, watchVars
<1>9. CASE OpenFails
  BY <1>9, StayKeeps DEF OpenFails, Max0, hookVars, listVars, cardVars, fileVars, pageVars, watchVars
<1>10. CASE Opened
  <2>1. PICK last \in BOOLEAN : ShowList(RunningGame, ~launch, last)
    BY <1>10 DEF Opened
  <2>2. (~launch) \in BOOLEAN /\ RunningGame \in Games /\ saves' = saves /\ place' = "browser"
    BY <1>10, MenuAssumption DEF Opened
  <2> QED
    BY <2>1, <2>2, ShowKeeps
<1>11. CASE Move
  <2>1. /\ UNCHANGED <<place, folder, rows, showNew, slot, gone, saves>>
        /\ sel' \in {sel - 1, sel + 1} \cap (0 .. Total - 1)
    BY <1>11 DEF Move, cardVars
  <2>2. Total' = Total /\ Total \in Nat
    BY <2>1 DEF Total, RoomWhere
  <2>3. sel' \in 0 .. Max0(Total' - 1)
    BY <2>1, <2>2 DEF Max0
  <2> QED
    BY <2>1, <2>3 DEF RoomWhere
<1>12. CASE Close
  BY <1>12, ReturnKeeps DEF Close, cardVars
<1>13. CASE ToGames
  BY <1>13, StayKeeps DEF ToGames, hookVars, bootVars, listVars, cardVars, fileVars, pageVars, watchVars
<1>14. CASE Pick
  <2>1. PICK x \in exists, last \in BOOLEAN : ShowList(x, showNew, last)
    BY <1>14 DEF Pick
  <2>2. x \in Games /\ showNew \in BOOLEAN /\ saves' = saves /\ place' = "browser"
    BY <1>14 DEF Pick, BrowserInv, MenuTypes, RoomWhere
  <2> QED
    BY <2>1, <2>2, ShowKeeps
<1>15. CASE DeleteGame
  <2>1. PICK x \in exists : saves' = [saves EXCEPT ![x] = <<>>] /\ gone' = (gone \/ x = folder)
    BY <1>15 DEF DeleteGame
  <2>2. place = "games" /\ UNCHANGED <<place, folder, rows, sel, showNew, slot>>
    BY <1>15 DEF DeleteGame
  <2>3. \A y \in Games : saves'[y] = IF y = x THEN <<>> ELSE saves[y]
    BY <1>s, <2>1
  <2>4. \A y \in Games : saves'[y] \in Seq(SaveSlots) /\ Len(saves'[y]) <= RowCap
    <3>1. <<>> \in Seq(SaveSlots) /\ Len(<<>>) = 0
      OBVIOUS
    <3>2. ASSUME NEW y \in Games PROVE saves'[y] \in Seq(SaveSlots) /\ Len(saves'[y]) <= RowCap
      <4>1. CASE y = x
        <5>1. saves'[y] = <<>>
          BY <2>3, <4>1
        <5>2. 0 <= RowCap
          BY <1>0
        <5> QED
          BY <3>1, <5>1, <5>2, Zenon
      <4>2. CASE y # x
        BY <2>3, <4>2 DEF RoomWhere
      <4> QED
        BY <4>1, <4>2
    <3> QED
      BY <3>2
  <2>5. gone' => saves'[folder] = <<>>
    BY <1>0, <2>1, <2>2, <2>3 DEF RoomWhere
  <2>6. Total' = Total /\ gone' \in BOOLEAN
    BY <2>1, <2>2 DEF Total, RoomWhere
  <2> QED
    BY <2>2, <2>4, <2>5, <2>6 DEF RoomWhere
<1>16. CASE Delete
  <2>1. /\ place = "browser" /\ UNCHANGED <<place, folder, showNew, slot, gone>>
        /\ saves' = [saves EXCEPT ![folder] = Without(folder, Chosen)]
        /\ rows' = Reverse(saves'[folder])
        /\ sel' = IF sel >= Total' THEN Max0(Total' - 1) ELSE sel
    BY <1>16 DEF Delete, Total
  <2>2. /\ saves'[folder] = Without(folder, Chosen)
        /\ \A y \in Games : saves'[y] = saves[y] \/ saves'[y] = Without(folder, Chosen)
    BY <1>0, <1>s, <2>1
  <2>3. /\ Without(folder, Chosen) \in Seq(SaveSlots) /\ Len(Without(folder, Chosen)) <= RowCap
        /\ gone => Without(folder, Chosen) = <<>>
    BY <1>0, <1>w, <2>1 DEF RoomWhere
  <2>4. rows' \in Seq(SaveSlots) /\ Len(rows') <= RowCap
    BY <2>1, <2>2, <2>3, ReverseHas
  <2>5. sel' \in 0 .. Max0(Total' - 1)
    <3>1. Total' \in Nat /\ sel \in Nat
      BY <2>4 DEF Total, RoomWhere
    <3> DEFINE t == Total'
    <3>2. t \in Nat /\ sel \in Nat /\ sel' = IF sel >= t THEN Max0(t - 1) ELSE sel
      BY <2>1, <3>1
    <3> HIDE DEF t
    <3>3. sel' \in 0 .. Max0(t - 1)
      BY <3>2 DEF Max0
    <3> QED
      BY <3>3 DEF t
  <2>6. \A y \in Games : saves'[y] \in Seq(SaveSlots) /\ Len(saves'[y]) <= RowCap
    BY <2>2, <2>3 DEF RoomWhere
  <2> QED
    BY <2>1, <2>2, <2>3, <2>4, <2>5, <2>6 DEF RoomWhere
<1>17. CASE Save
  <2>1. /\ place = "browser" /\ place' = "gap" /\ UNCHANGED <<folder, rows, sel, showNew, gone, saves>>
        /\ \/ Len(rows) < RowCap /\ slot' \in SaveSlots
           \/ OnSave /\ slot' = Chosen
    BY <1>17 DEF Save, Closing, cardVars
  <2>2. slot' \in SaveSlots
    BY <2>1, ChosenIs DEF RoomWhere
  <2>3. gone => Len(saves[folder]) < RowCap
    BY <1>0, <2>1 DEF RoomWhere
  <2>4. ~gone => rows = Reverse(saves[folder])
    BY <2>1 DEF BrowserInv, RowsWhere, Listed
  <2>5. ~gone => Len(saves[folder]) < RowCap \/ slot' \in Range(saves[folder])
    BY <1>0, <2>1, <2>4, ReverseHas, ChosenIs DEF RoomWhere
  <2>6. Total' = Total
    BY <2>1 DEF Total
  <2> QED
    BY <2>1, <2>2, <2>3, <2>5, <2>6 DEF RoomWhere
<1>18. CASE Saving
  BY <1>18, StayKeeps DEF Saving, hookVars, bootVars, listVars, cardVars, fileVars, pageVars, watchVars
<1>19. CASE Saved
  <2>1. /\ place = "saving" /\ place' = "crc" /\ UNCHANGED <<folder, rows, sel, showNew, slot, gone>>
        /\ \/ saves' = [saves EXCEPT ![folder] = Append(Without(folder, slot), slot)]
           \/ saves' \in {saves, [saves EXCEPT ![folder] = Without(folder, slot)]}
    BY <1>19 DEF Saved, listVars
  <2>2. /\ Without(folder, slot) \in Seq(SaveSlots) /\ slot \in SaveSlots
        /\ Len(Without(folder, slot)) < RowCap
    BY <1>0, <1>w, <2>1 DEF RoomWhere
  <2>3. /\ Append(Without(folder, slot), slot) \in Seq(SaveSlots)
        /\ Len(Append(Without(folder, slot), slot)) <= RowCap
    BY <1>0, <2>2
  <2>4. \A y \in Games : \/ saves'[y] = saves[y] \/ saves'[y] = Without(folder, slot)
                           \/ saves'[y] = Append(Without(folder, slot), slot)
    BY <1>0, <1>s, <2>1
  <2>5. \A y \in Games : saves'[y] \in Seq(SaveSlots) /\ Len(saves'[y]) <= RowCap
    <3>1. Len(Without(folder, slot)) <= RowCap
      <4>1. Len(Without(folder, slot)) \in Nat
        BY <2>2
      <4> QED
        BY <1>0, <2>2, <4>1
    <3>2. ASSUME NEW y \in Games PROVE saves'[y] \in Seq(SaveSlots) /\ Len(saves'[y]) <= RowCap
      <4>1. CASE saves'[y] = saves[y]
        BY <4>1 DEF RoomWhere
      <4>2. CASE saves'[y] = Without(folder, slot)
        BY <2>2, <3>1, <4>2
      <4>3. CASE saves'[y] = Append(Without(folder, slot), slot)
        BY <2>3, <4>3
      <4> QED
        BY <2>4, <4>1, <4>2, <4>3
    <3> QED
      BY <3>2
  <2>6. Total' = Total
    BY <2>1 DEF Total
  <2> QED
    BY <2>1, <2>5, <2>6 DEF RoomWhere
<1>20. CASE Finished
  BY <1>20, ReturnKeeps DEF Finished, cardVars
<1>21. CASE Load
  <2>1. /\ place = "browser" /\ place' = "loading" /\ UNCHANGED <<folder, rows, sel, showNew, gone, saves>>
        /\ OnSave /\ slot' = Chosen
    BY <1>21 DEF Load, Closing, cardVars
  <2>2. slot' \in SaveSlots
    BY <2>1, ChosenIs DEF RoomWhere
  <2>3. Total' = Total
    BY <2>1 DEF Total
  <2> QED
    BY <2>1, <2>2, <2>3 DEF RoomWhere
<1>22. CASE LoadReturns
  BY <1>22, StayKeeps DEF LoadReturns, listVars, cardVars, fileVars, pageVars
<1>23. CASE EnterPage
  BY <1>23, StayKeeps DEF EnterPage, hookVars, bootVars, listVars, cardVars, fileVars, watchVars
<1>24. CASE Press
  BY <1>24, StayKeeps DEF Press, hookVars, bootVars, listVars, cardVars, fileVars, watchVars
<1>25. CASE LeavePage
  BY <1>25, StayKeeps DEF LeavePage, hookVars, bootVars, listVars, cardVars, fileVars, pageVars, watchVars
<1>26. CASE Truncate
  BY <1>26, StayKeeps DEF Truncate, hookVars, bootVars, listVars, pageVars, watchVars
<1>27. CASE Write
  <2>1. CASE Return
    BY <1>27, <2>1, ReturnKeeps DEF Write, cardVars
  <2>2. CASE ~Return
    BY <1>27, <2>2, StayKeeps DEF Write, listVars, cardVars
  <2> QED
    BY <2>1, <2>2
<1>28. CASE WatcherEnds
  BY <1>28, StayKeeps DEF WatcherEnds, Watching, hookVars, bootVars, listVars, fileVars, pageVars
<1>29. CASE Learn
  BY <1>29, StayKeeps DEF Learn, Watching, hookVars, bootVars, listVars, fileVars, pageVars
<1>30. CASE ReadBack
  BY <1>30, StayKeeps DEF ReadBack, Watching, hookVars, bootVars, listVars, fileVars, pageVars
<1>31. CASE TruncateLearned
  BY <1>31, StayKeeps DEF TruncateLearned, hookVars, bootVars, listVars, pageVars
<1>32. CASE WriteLearned
  BY <1>32, StayKeeps DEF WriteLearned, Watching, hookVars, bootVars, listVars, fileVars, pageVars
<1>33. CASE UNCHANGED menuVars
  BY <1>33, StayKeeps DEF menuVars
<1> QED
  BY <1>1, <1>2, <1>3, <1>4, <1>5, <1>6, <1>7, <1>8, <1>9, <1>10, <1>11, <1>12, <1>13, <1>14, <1>15, <1>16, <1>17, <1>18, <1>19, <1>20, <1>21, <1>22, <1>23, <1>24, <1>25, <1>26, <1>27, <1>28, <1>29, <1>30, <1>31, <1>32, <1>33
  DEF MenuNext


-----------------------------------------------------------------------------
(* The types of the limiter, with one or two threads of the game.           *)

PaceShape == PaceTypeOK /\ time \in Nat /\ limit \in Periods

LEMMA ShapeBegins == PaceInit => PaceShape
<1> SUFFICES ASSUME PaceInit PROVE PaceShape
  OBVIOUS
<1>1. CounterWrap \in Nat \ {0} /\ LatchAt \in Nat /\ ReprobeEvery \in Nat \ {0}
  BY PaceAssumption
<1>2. 0 \in 0 .. CounterWrap - 1 /\ 0 \in 0 .. LatchAt /\ 0 \in 0 .. ReprobeEvery - 1
  BY <1>1
<1> QED
  BY <1>2 DEF PaceInit, PaceShape, PaceTypeOK

\* A grid point is a value of the counter.
LEMMA PointFits == ASSUME PaceShape, NEW n \in Nat PROVE n % CounterWrap \in 0 .. CounterWrap - 1
<1>1. CounterWrap \in Nat \ {0}
  BY PaceAssumption
<1> QED
  BY <1>1

LEMMA PaceFits ==
  ASSUME PaceShape, NEW site \in Sites, NEW losses \in 0 .. LatchAt, Pace(site, losses)
  PROVE  anchor' \in 0 .. CounterWrap - 1 /\ refused' \in 0 .. LatchAt
<1>1. LatchAt \in Nat /\ time \in Nat /\ anchor \in 0 .. CounterWrap - 1
  BY PaceAssumption DEF PaceShape, PaceTypeOK
<1>2. Counter \in 0 .. CounterWrap - 1
  BY <1>1, PointFits DEF Counter
<1>3. anchor' \in {anchor, Counter}
  BY DEF Pace, Refusal
<1>4. refused' = losses \/ (losses < LatchAt /\ refused' = losses + 1)
  BY DEF Pace, Refusal
<1>5. refused' \in 0 .. LatchAt
  BY <1>1, <1>4
<1> QED
  BY <1>1, <1>2, <1>3, <1>5

LEMMA ShapeStep == PaceShape /\ [PaceNext]_paceVars => PaceShape'
<1> SUFFICES ASSUME PaceShape, [PaceNext]_paceVars PROVE PaceShape'
  OBVIOUS
<1>0. /\ CounterWrap \in Nat \ {0} /\ LatchAt \in Nat \ {0} /\ ReprobeEvery \in Nat \ {0}
      /\ Periods \subseteq 1 .. CounterWrap - 1 /\ time \in Nat /\ limit \in Periods
      /\ period \in Nat /\ anchor \in 0 .. CounterWrap - 1 /\ refused \in 0 .. LatchAt
      /\ probe \in 0 .. ReprobeEvery - 1 /\ period \in Periods \cup {0}
  BY PaceAssumption DEF PaceShape, PaceTypeOK
<1>z. 0 \in 0 .. CounterWrap - 1 /\ 0 \in 0 .. LatchAt
  BY <1>0
<1>1. CASE \E site \in Sites : Awakes(site)
  <2>1. PICK site \in Sites : Awakes(site)
    BY <1>1
  <2>2. UNCHANGED <<time, limit, period, probe>> /\ refused' \in {0, refused}
        /\ anchor' = (anchor + period) % CounterWrap
    BY <2>1 DEF Awakes
  <2>3. anchor + period \in Nat
    BY <1>0
  <2>4. anchor' \in 0 .. CounterWrap - 1
    BY <2>2, <2>3, PointFits
  <2> QED
    BY <1>0, <1>z, <2>2, <2>4 DEF PaceShape, PaceTypeOK
<1>2. CASE ListInMenu
  BY <1>0, <1>2, <1>z DEF ListInMenu, PaceShape, PaceTypeOK
<1>3. CASE ListSkipped
  BY <1>0, <1>3 DEF ListSkipped, PaceShape, PaceTypeOK
<1>4. CASE List
  <2>1. period' = limit /\ UNCHANGED <<time, limit>>
    BY <1>4 DEF List
  <2>2. probe' \in 0 .. ReprobeEvery - 1
    <3>1. probe' = probe \/ probe' = (probe + 1) % ReprobeEvery
      BY <1>4 DEF List
    <3> QED BY <1>0, <3>1
  <2>3. \/ anchor' = anchor /\ refused' = refused
        \/ Pace("list", 0)
        \/ Pace("list", refused)
    BY <1>4 DEF List
  <2>4. anchor' \in 0 .. CounterWrap - 1 /\ refused' \in 0 .. LatchAt
    BY <1>0, <1>z, <2>3, PaceFits DEF Sites
  <2> QED
    BY <1>0, <2>1, <2>2, <2>4 DEF PaceShape, PaceTypeOK
<1>5. CASE Present
  BY <1>0, <1>5 DEF Present, PaceShape, PaceTypeOK
<1>6. CASE PresentPaces
  <2>1. UNCHANGED <<time, limit, period, probe>> /\ Pace("present", refused)
    BY <1>6 DEF PresentPaces
  <2>2. anchor' \in 0 .. CounterWrap - 1 /\ refused' \in 0 .. LatchAt
    BY <1>0, <2>1, PaceFits DEF Sites
  <2> QED
    BY <1>0, <2>1, <2>2 DEF PaceShape, PaceTypeOK
<1>7. CASE TurnMenu
  BY <1>0, <1>7 DEF TurnMenu, PaceShape, PaceTypeOK
<1>8. CASE PassTick
  BY <1>0, <1>8 DEF PassTick, PaceShape, PaceTypeOK
<1>9. CASE UNCHANGED paceVars
  BY <1>0, <1>9 DEF paceVars, PaceShape, PaceTypeOK
<1> QED
  BY <1>1, <1>2, <1>3, <1>4, <1>5, <1>6, <1>7, <1>8, <1>9 DEF PaceNext


-----------------------------------------------------------------------------
(* All the parts that meet the game.                                        *)

LEMMA MenuTyped == BrowserInv /\ FilesInv /\ FlagWhere /\ RoomWhere => MenuTypeOK
<1> SUFFICES ASSUME BrowserInv, FilesInv, FlagWhere, RoomWhere PROVE MenuTypeOK
  OBVIOUS
<1>1. /\ folder \in Games /\ exists \subseteq Games /\ file \in [Games -> Setting] /\ g \in Setting
      /\ learned \in Setting /\ edits \in 0 .. Edits /\ mixed \in BOOLEAN /\ changed \in BOOLEAN
  BY DEF FilesInv, FileTypes
<1>2. saves \in [Games -> Seq(SaveSlots)]
  <2>1. saves = [x \in Games |-> saves[x]] /\ \A x \in Games : saves[x] \in Seq(SaveSlots)
    BY DEF BrowserInv, MenuTypes, RoomWhere
  <2> QED BY <2>1
<1>3. /\ rows \in Seq(SaveSlots) /\ Len(rows) <= RowCap /\ slot \in SaveSlots
      /\ sel \in 0 .. Max0(Total - 1) /\ showNew \in BOOLEAN /\ gone \in BOOLEAN
  BY DEF RoomWhere
<1> QED
  BY <1>1, <1>2, <1>3 DEF FlagWhere, MenuTypeOK

\* The invariant of the part at work.
GameSideInv ==
  /\ part \in {"gamma", "video", "pad", "db", "cheats", "pace", "menu", "overlay"}
  /\ part = "gamma"   => GammaInv
  /\ part = "video"   => VideoInv
  /\ part = "pad"     => PadInv /\ PadShape
  /\ part = "db"      => DbInv /\ OptionsInv
  /\ part = "cheats"  => CheatInv /\ FlagInv
  /\ part = "pace"    => PaceShape
  /\ part = "menu"    => BrowserInv /\ FilesInv /\ FlagWhere /\ RoomWhere
  /\ part = "overlay" => OverlayInv

gameSideVars == <<part, gammaVars, videoVars, padVars, dbVars, threadVars, paceVars, menuVars, overlayVars>>

LEMMA GameSideBegins == GameSideInit => GameSideInv
BY GammaBegins, VideoBegins, PadStarts, PadBegins, DbBegins, OptionsBegin, InitCheat, FlagBegins,
   ShapeBegins, InitBrowser, InitFiles, FlagsBegin, RoomBegins, OverlayBegins DEF GameSideInit, GameSideInv

LEMMA CheatStep == WritesApart /\ CheatInv /\ [ThreadNext]_threadVars => CheatInv'
BY ThreadStep, PlaceStep, BackupStep DEF CheatInv, PlaceInv

LEMMA GameSideGoesOn == WritesApart /\ GameSideInv /\ [GameSideNext]_gameSideVars => GameSideInv'
<1> SUFFICES ASSUME WritesApart, GameSideInv, [GameSideNext]_gameSideVars PROVE GameSideInv'
  OBVIOUS
<1>1. part' = part
  BY DEF GameSideNext, gameSideVars
<1>2. /\ part = "gamma" => [GammaNext]_gammaVars
      /\ part = "video" => [VideoNext]_videoVars
      /\ part = "pad" => [PadNext]_padVars
      /\ part = "db" => [DbNext]_dbVars
      /\ part = "cheats" => [ThreadNext]_threadVars
      /\ part = "pace" => [PaceNext]_paceVars
      /\ part = "menu" => [MenuNext]_menuVars
      /\ part = "overlay" => [OverlayNext]_overlayVars
  BY DEF GameSideNext, gameSideVars
<1>3. CASE part = "gamma"
  <2>1. GammaInv'
    BY <1>2, <1>3, GammaStep DEF GameSideInv
  <2> QED BY <2>1, <1>1, <1>3 DEF GameSideInv
<1>4. CASE part = "video"
  <2>1. VideoInv'
    BY <1>2, <1>4, VideoStep DEF GameSideInv
  <2> QED BY <2>1, <1>1, <1>4 DEF GameSideInv
<1>5. CASE part = "pad"
  <2>1. PadInv' /\ PadShape'
    BY <1>2, <1>5, PadStep, PadShapeStep DEF GameSideInv
  <2> QED BY <2>1, <1>1, <1>5 DEF GameSideInv
<1>6. CASE part = "db"
  <2>1. DbInv /\ OptionsInv /\ DbInv'
    BY <1>2, <1>6, DbStep DEF GameSideInv
  <2>2. OptionsInv'
    BY <1>2, <1>6, <2>1, OptionsStay
  <2> QED BY <2>1, <2>2, <1>1, <1>6 DEF GameSideInv
<1>7. CASE part = "cheats"
  <2>1. CheatInv' /\ FlagInv'
    BY <1>2, <1>7, CheatStep, FlagStep DEF GameSideInv
  <2> QED BY <2>1, <1>1, <1>7 DEF GameSideInv
<1>8. CASE part = "pace"
  <2>1. PaceShape'
    BY <1>2, <1>8, ShapeStep DEF GameSideInv
  <2> QED BY <2>1, <1>1, <1>8 DEF GameSideInv
<1>9. CASE part = "menu"
  <2>1. BrowserInv /\ FilesInv /\ FlagWhere /\ RoomWhere /\ [MenuNext]_menuVars
    BY <1>2, <1>9 DEF GameSideInv
  <2>2. BrowserInv' /\ FlagWhere' /\ RoomWhere'
    BY <2>1, BrowserStep, FlagsStep, RoomStep
  <2>3. FilesInv'
    BY <2>1, FilesStep DEF BrowserInv
  <2> QED BY <2>2, <2>3, <1>1, <1>9 DEF GameSideInv
<1>10. CASE part = "overlay"
  <2>1. OverlayInv'
    BY <1>2, <1>10, OverlayStep DEF GameSideInv
  <2> QED BY <2>1, <1>1, <1>10 DEF GameSideInv
<1> QED BY <1>3, <1>4, <1>5, <1>6, <1>7, <1>8, <1>9, <1>10 DEF GameSideInv

LEMMA GameSideTyped == GameSideInv => GameSideTypesOK
<1> SUFFICES ASSUME GameSideInv PROVE GameSideTypesOK
  OBVIOUS
<1>1. part = "gamma" => GammaTypeOK
  BY GammaTyped DEF GameSideInv
<1>2. part = "video" => VideoTypeOK
  BY DEF GameSideInv, VideoInv
<1>3. part = "pad" => PadTypeOK
  BY PadTyped DEF GameSideInv
<1>4. part = "db" => DbTypeOK
  BY DbTyped DEF GameSideInv
<1>5. part = "cheats" => ThreadTypeOK
  BY CheatTyped DEF GameSideInv
<1>6. part = "pace" => PaceTypeOK
  BY DEF GameSideInv, PaceShape
<1>7. part = "menu" => MenuTypeOK
  BY MenuTyped DEF GameSideInv
<1>8. part = "overlay" => OverlayTypeOK
  BY OverlayTyped DEF GameSideInv
<1>9. part \in {"gamma", "video", "pad", "db", "cheats", "pace", "menu", "overlay"}
  BY DEF GameSideInv
<1> QED BY <1>1, <1>2, <1>3, <1>4, <1>5, <1>6, <1>7, <1>8, <1>9 DEF GameSideTypesOK

\* Whichever of them is at work, the screen's correction, the video watcher, the input, the cheats
\* and their database, the limiter, the browser and the overlay stay within their types, for every
\* value of their constants, where the writes of a cheat that overlap are writes of the same
\* bytes.
THEOREM GameSideTypesHold == WritesApart => (GameSideInit /\ [][GameSideNext]_gameSideVars => []GameSideTypesOK)
<1> SUFFICES ASSUME WritesApart PROVE GameSideInit /\ [][GameSideNext]_gameSideVars => []GameSideTypesOK
  OBVIOUS
<1>1. GameSideInv /\ [GameSideNext]_gameSideVars => GameSideInv'
  BY GameSideGoesOn
<1> QED
  BY <1>1, GameSideBegins, GameSideTyped, PTL
===============================================================================
