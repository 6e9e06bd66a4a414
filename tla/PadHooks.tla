------------------------------- MODULE PadHooks -------------------------------
(***************************************************************************)
(* What the game reads from the controller.  The driver samples the pad    *)
(* into a ring and into latches also while the browser has the game        *)
(* frozen; what was sampled then must not reach the game, and nothing that *)
(* was sampled later may be lost.  Samples carry a microsecond clock that  *)
(* wraps.  Every read also passes the live HUD and the video skip, in      *)
(* positive or in negative logic.                                          *)
(***************************************************************************)
EXTENDS Integers, Sequences

CONSTANTS
  Ring,     \* slots of the driver's ring (64)
  Count,    \* bound: samples a game asks for at once (16)
  Calls,    \* slots blanked at most (SUPPRESS_POSBUF_CALLS, 80)
  Wrap      \* the clock counts modulo this (2^32 microseconds)

ASSUME PadAssumption ==
  /\ Ring \in Nat \ {0} /\ Count \in 1 .. Ring /\ Calls \in Nat /\ Calls >= Ring + Count
  /\ Wrap \in Nat /\ Wrap > 2 * Ring

Keys     == {"pad", "cross", "start"}   \* a D-pad key, X, and a key the HUD leaves alone
HudMask  == {"pad", "cross"}            \* ST_HUD_MASK
SkipMask == {"cross", "start"}          \* VSKIP_INJECT_MASK

VARIABLES
  clock,     \* sceKernelGetSystemTimeLow
  age,       \* time since the last arming, counted up to half a wrap
  ring,      \* samples the game has not read: <<time, where from>>; a "game" sample turns
             \* "old" at the next arming
  latched,   \* edges in the game's latch: a subset of {"menu", "game"}
  at,        \* the game runs, or is frozen behind the "browser" or for a "save"
  calls,     \* g_suppress_posbuf_calls
  bound,     \* g_suppress_posbuf_ts
  latch,     \* g_suppress_latch
  reader,    \* where the game's thread is in suppress_posbuf_slots
  slots,     \* samples this read has not handed to the game yet
  register,  \* the count the game's thread has loaded
  leak,      \* history: what went wrong in a read
  how        \* history: "timer" once the latch was disarmed unread, "torn" once the
             \* menu thread wrote the count in the middle of a read

padVars == <<clock, age, ring, latched, at, calls, bound, latch, reader, slots, register,
             leak, how>>

Half == Wrap \div 2

PadTypeOK ==
  /\ clock \in 0 .. Wrap - 1 /\ bound \in 0 .. Wrap - 1 /\ age \in 0 .. Half
  /\ Len(ring) <= Ring /\ Len(slots) <= Ring
  /\ at \in {"game", "browser", "save"} /\ latched \subseteq {"menu", "game"} /\ latch \in BOOLEAN
  /\ calls \in 0 .. Calls /\ register \in -1 .. Calls
  /\ reader \in {"out", "entry", "slot", "load", "store"}
  /\ leak \subseteq {"menu press", "fresh input", "wrong keys"} /\ how \subseteq {"timer", "torn"}

PadInit ==
  /\ clock = 0 /\ age = Half /\ ring = <<>> /\ latched = {} /\ at = "game"
  /\ calls = 0 /\ bound = 0 /\ latch = FALSE
  /\ reader = "out" /\ slots = <<>> /\ register = 0 /\ leak = {} /\ how = {}

\* Signed comparison of two clock values.
After(a, b) == (a - b) % Wrap \in 1 .. Half - 1

-----------------------------------------------------------------------------
(* Two logics and three filters, as sets of the bits that read 1 *)

Encoded(negative, down) == IF negative THEN Keys \ down ELSE down

\* suppress_posbuf_slots: the clean value.
Blank(negative) == Encoded(negative, {})

\* st_hud_mask.
Masked(negative, bits) == IF negative THEN bits \cup HudMask ELSE bits \ HudMask

\* vskip_inject_buttons: both keys up, then the one of this phase down.
Pulsed(negative, bits, pulse) ==
  IF negative THEN (bits \cup SkipMask) \ pulse ELSE (bits \ SkipMask) \cup pulse

\* A patched buffer read: suppress, mask, inject, in this order.
Filtered(negative, bits, blank, hud, skip, pulse) ==
  LET b1 == IF blank THEN Blank(negative) ELSE bits
      b2 == IF hud THEN Masked(negative, b1) ELSE b1
  IN  IF skip THEN Pulsed(negative, b2, pulse) ELSE b2

\* What the game should see: nothing of the menu, nothing of the HUD's keys, and of the
\* skip keys the one that is pulsed.
Meant(down, blank, hud, skip, pulse) ==
  LET d == (IF blank THEN {} ELSE down) \ (IF hud THEN HudMask ELSE {})
  IN  IF skip THEN (d \ SkipMask) \cup pulse ELSE d

\* vskip_phase_mask: a key, a gap, the other key, a gap.
PhaseMask == {{"cross"}, {}, {"start"}}

FiltersRight(blank) ==
  \A negative, hud, skip \in BOOLEAN, down \in SUBSET Keys, pulse \in PhaseMask :
    Filtered(negative, Encoded(negative, down), blank, hud, skip, pulse)
      = Encoded(negative, Meant(down, blank, hud, skip, pulse))

-----------------------------------------------------------------------------
(* The driver *)

Newest(q) == IF Len(q) > Ring THEN Tail(q) ELSE q

\* A sample of the pad; a full ring drops its oldest.  Bound: no read is frozen for half a
\* wrap (35 minutes).
Sample ==
  LET from == IF at = "game" THEN "game" ELSE "menu" IN
  /\ \A i \in DOMAIN slots : (clock + 1 - slots[i][1]) % Wrap < Half
  /\ clock' = (clock + 1) % Wrap /\ age' = IF age = Half THEN Half ELSE age + 1
  /\ ring' = Newest(Append(ring, <<clock', from>>))
  /\ latched' \in {latched, latched \cup {from}}
  /\ UNCHANGED <<at, calls, bound, latch, reader, slots, register, leak, how>>

-----------------------------------------------------------------------------
(* The menu thread *)

Torn == IF reader = "out" THEN how ELSE how \cup {"torn"}

\* The game is frozen for the browser, wherever its thread is.
Browse ==
  /\ at = "game" /\ at' = "browser"
  /\ UNCHANGED <<clock, age, ring, latched, calls, bound, latch, reader, slots, register, leak, how>>

Aged(q) == [i \in DOMAIN q |-> IF q[i][2] = "game" THEN <<q[i][1], "old">> ELSE q[i]]

\* arm_input_suppress, and the resume after it.
Arm ==
  /\ at # "game" /\ at' = "game"
  /\ latch' = TRUE /\ bound' = clock /\ calls' = Calls /\ age' = 0
  /\ ring' = Aged(ring) /\ slots' = Aged(slots)
  /\ how' = IF reader \in {"load", "store"} THEN how \cup {"torn"} ELSE how \ {"timer"}
  /\ UNCHANGED <<clock, latched, reader, register, leak>>

\* Variant: only the count is zeroed.
SaveFreezesArmed ==
  /\ at = "game" /\ age < Half /\ at' = "save"
  /\ calls' = 0 /\ how' = Torn
  /\ UNCHANGED <<clock, age, ring, latched, bound, latch, reader, slots, register, leak>>

\* A save zeroes both 100 ms after the resume and freezes the game again.
SaveFreezes ==
  /\ at = "game" /\ age < Half /\ at' = "save"
  /\ latch' = FALSE /\ calls' = 0 /\ how' = Torn
  /\ UNCHANGED <<clock, age, ring, latched, bound, reader, slots, register, leak>>

\* 100 ms after an operation the latch is disarmed, read or not.
LatchTimer ==
  /\ latch /\ at = "game" /\ latch' = FALSE /\ how' = how \cup {"timer"}
  /\ UNCHANGED <<clock, age, ring, latched, at, calls, bound, reader, slots, register, leak>>

-----------------------------------------------------------------------------
(* The game's thread *)

\* What a sample handed over as is, or blanked, does wrong.
Wrong(s, blank) ==
  (IF s[2] = "menu" /\ ~blank THEN {"menu press"} ELSE {})
  \cup (IF s[2] = "game" /\ blank /\ age < Half THEN {"fresh input"} ELSE {})
  \cup (IF FiltersRight(blank) THEN {} ELSE {"wrong keys"})

\* The rest of this read as it is.
PassRest ==
  /\ leak' = leak \cup UNION {Wrong(slots[i], FALSE) : i \in DOMAIN slots}
  /\ slots' = <<>> /\ reader' = "out"

\* sceCtrlReadBuffer, positive or negative: the oldest samples; it may drop the others.
Read ==
  /\ at = "game" /\ reader = "out" /\ ring # <<>>
  /\ LET n == IF Len(ring) < Count THEN Len(ring) ELSE Count IN
     /\ slots' = SubSeq(ring, 1, n)
     /\ ring' \in {<<>>, SubSeq(ring, n + 1, Len(ring))}
  /\ reader' = "entry"
  /\ UNCHANGED <<clock, age, latched, at, calls, bound, latch, register, leak, how>>

\* suppress_posbuf_slots looks at the count once, on entry.
Entry ==
  /\ at = "game" /\ reader = "entry"
  /\ IF calls = 0 THEN PassRest ELSE reader' = "slot" /\ UNCHANGED <<slots, leak>>
  /\ UNCHANGED <<clock, age, ring, latched, at, calls, bound, latch, register, how>>

\* The first slot sampled after the arming ends the blanking for good.
Slot ==
  /\ at = "game" /\ reader = "slot"
  /\ IF slots = <<>> THEN reader' = "out" /\ UNCHANGED <<slots, calls, leak>>
     ELSE IF After(slots[1][1], bound) THEN calls' = 0 /\ PassRest
     ELSE /\ leak' = leak \cup Wrong(slots[1], TRUE) /\ slots' = Tail(slots)
          /\ reader' = "load" /\ UNCHANGED calls
  /\ UNCHANGED <<clock, age, ring, latched, at, bound, latch, register, how>>

\* g_suppress_posbuf_calls-- is a load ...
LoadCount ==
  /\ at = "game" /\ reader = "load" /\ reader' = "store" /\ register' = calls - 1
  /\ UNCHANGED <<clock, age, ring, latched, at, calls, bound, latch, slots, leak, how>>

\* ... and a store; at its end the count stays 0 and the rest passes.
StoreCount ==
  /\ at = "game" /\ reader = "store" /\ register' = 0
  /\ IF register <= 0 THEN calls' = 0 /\ PassRest
     ELSE calls' = register /\ reader' = "slot" /\ UNCHANGED <<slots, leak>>
  /\ UNCHANGED <<clock, age, ring, latched, at, bound, latch, how>>

\* sceCtrlReadLatch and PeekLatch: one armed read drains the latch and disarms.
ReadLatch ==
  /\ at = "game" /\ reader = "out" /\ latched' = {} /\ latch' = FALSE
  /\ leak' = IF "menu" \in latched /\ ~latch /\ "timer" \notin how
             THEN leak \cup {"menu press"} ELSE leak
  /\ UNCHANGED <<clock, age, ring, at, calls, bound, reader, slots, register, how>>

-----------------------------------------------------------------------------
\* Bound: nothing is followed beyond a torn count.
PadNext ==
  /\ "torn" \notin how
  /\ \/ Sample \/ Browse \/ Arm \/ SaveFreezes \/ LatchTimer \/ Read \/ Entry \/ Slot \/ LoadCount
     \/ StoreCount \/ ReadLatch

PadSpec == PadInit /\ [][PadNext]_padVars

-----------------------------------------------------------------------------
(* Properties *)

\* Nothing pressed in the browser or behind an operation reaches the game, in whatever
\* order samples, reads and resumes fall, and no input after the resume is lost, within
\* half a wrap of it (menu.c:247); the filters hold in both logics.
InputIsGames == leak = {}

\* A snapshot never captures an armed state (menu.c:2820-21), except a reader frozen between
\* load and store: it writes its old count when the game runs again.
SaveFindsNoneArmed == at = "save" /\ "torn" \notin how => calls = 0 /\ ~latch /\ reader = "out"

\* The game gets its own input, all of it and nothing else, and so does a loaded one.
PadsAreGames == InputIsGames /\ SaveFindsNoneArmed
=============================================================================
