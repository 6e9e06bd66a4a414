------------------------------- MODULE GammaPass -------------------------------
(***************************************************************************)
(* Screen tuning of a PSP game: a GE list of the plugin's own curves the   *)
(* pixels of a buffer.  It is queued by the present hook, by the hooks     *)
(* around the game's own GE submits (ahead of the composite of a game that *)
(* renders offscreen) and by the worker (for presents the hook could not   *)
(* serve, and for games that never present).  The GE runs lists in order.  *)
(* A frame must be curved once, and nothing of ours may reach the GE while *)
(* the pass is stood down.  A game either draws into the display buffer it *)
(* is about to present ("flip"), or draws a scene offscreen that its       *)
(* composite copies to the display ("comp").  The floors on the spacing of *)
(* passes are choices; the list buffers are never short.  A game begins a  *)
(* frame within the time presents must be absent before the worker looks.  *)
(***************************************************************************)
EXTENDS Integers, Sequences

CONSTANTS
  Ahead,    \* game lists that can be on the GE at a time
  Changes   \* changes of settings, menus, dialogs and power

ASSUME GammaAssumption == Ahead \in Nat \ {0} /\ Changes \in Nat

Displays == {"A", "B"}
Buffers  == Displays \cup {"off"}
NoBuf    == "none"

VARIABLES
  kind,      \* "flip" or "comp"
  active,    \* st_active: the curve is not the identity
  gate,      \* "open", "menu" (g_menu_open or g_st_op_hold) or "dialog" (st_dlg_blocked)
  susp,      \* "no", "down" (g_st_suspended) or "armed" (g_st_resume_pending too)
  grace,     \* within ST_RESUME_GRACE_US of the re-acquisition
  exiting,   \* g_quit
  changes,   \* changes of the surroundings so far
  ge,        \* lists on the GE, oldest first: <<what, buffer, who>>
  curved,    \* curves in the pixels of each buffer since it was drawn
  fbp,       \* the render target the GE's registers name
  shown,     \* the displayed buffer
  fresh,     \* g_st_ge_seq has moved since g_last_seq
  lastFb,    \* g_last_fb
  busy,      \* g_busy: who holds the claim
  stash,     \* g_pend_addr
  arm,       \* g_inject_arm
  offFb,     \* g_offscreen_fb
  dispFb,    \* g_disp_fb
  pending,   \* g_inject_pending
  parNext,   \* g_par_scene_next
  parValid,  \* g_par_valid
  injected,  \* g_inject_total # 0
  game,      \* where the game's thread is in a hook
  gbuf,      \* the buffer it works on
  phase,     \* "draw" or "show": what the game does next
  helper,    \* where st_worker is
  wbuf,      \* the buffer it works on
  wfresh,    \* the game has submitted since the helper sampled g_st_ge_seq
  anew,      \* a frame has been begun since the helper started
  raced      \* history: a frame can have been curved twice, see Washed

around == <<kind, active, gate, susp, grace, exiting, changes>>
screen == <<ge, curved, fbp, shown>>
guard  == <<fresh, lastFb>>
target == <<arm, offFb, dispFb, injected>>
role   == <<pending, parNext, parValid>>
gamev  == <<game, gbuf, phase>>
workv  == <<helper, wbuf, wfresh, anew>>
gammaVars == <<around, screen, guard, busy, stash, target, role, gamev, workv, raced>>

Window == {"claim", "build", "sync"}      \* inside st_apply, past its guards

GammaTypeOK ==
  /\ kind \in {"flip", "comp"} /\ gate \in {"open", "menu", "dialog"}
  /\ susp \in {"no", "down", "armed"}
  /\ {active, grace, exiting, fresh, arm, pending, parNext, parValid, injected, wfresh,
      anew, raced} \subseteq BOOLEAN
  /\ \A i \in DOMAIN ge :
       ge[i] \in {"draw", "copy", "curve"} \X Buffers \X {"game", "isr", "worker"}
  /\ curved \in [Buffers -> 0 .. 2] /\ fbp \in Buffers /\ shown \in Displays
  /\ {lastFb, offFb, dispFb, stash, gbuf, wbuf} \subseteq Buffers \cup {NoBuf}
  /\ busy \in {"free", "game", "worker"}
  /\ game \in {"idle", "enqueue", "after", "inject"} \cup Window
  /\ phase \in {"draw", "show"}
  /\ helper \in {"none", "loop", "drained", "sweep", "apply"} \cup Window
  /\ changes \in 0 .. Changes

GammaInit ==
  /\ kind \in {"flip", "comp"} /\ active = TRUE /\ gate = "open" /\ susp = "no"
  /\ grace = FALSE /\ exiting = FALSE /\ changes = 0
  /\ ge = <<>> /\ curved = [b \in Buffers |-> 0] /\ fbp = "A" /\ shown = "A"
  /\ fresh = TRUE /\ lastFb = NoBuf /\ busy = "free" /\ stash = NoBuf
  /\ arm = FALSE /\ offFb = NoBuf /\ dispFb = NoBuf /\ injected = FALSE
  /\ pending = FALSE /\ parNext = FALSE /\ parValid = FALSE
  /\ game = "idle" /\ gbuf = NoBuf /\ phase = "draw"
  /\ helper = "none" /\ wbuf = NoBuf /\ wfresh = FALSE /\ anew = FALSE
  /\ raced = FALSE

\* The buffer the game draws next: a flip game's back buffer.
Target == IF kind = "comp" THEN "off" ELSE IF shown = "A" THEN "B" ELSE "A"

Drained         == ge = <<>>               \* sceGeDrawSync(1)
GameLists       == Len(SelectSeq(ge, LAMBDA l : l[1] # "curve"))
Uncurved(q)     == \A i \in DOMAIN q : q[i][1] # "curve"
Waits(who)      == \E i \in DOMAIN ge : ge[i][1] = "curve" /\ ge[i][3] = who

\* A submit of the game moves g_st_ge_seq, whoever has sampled it.
Submits == fresh' = TRUE /\ wfresh' = (helper \in Window)

\* Something of the game reaches the GE between the moment a buffer is handed to the
\* worker, or read by it, and the worker's own list.
Late == raced \/ stash # NoBuf \/ helper \in {"drained", "sweep", "apply", "claim", "build"}

-----------------------------------------------------------------------------
(* The GE runs the oldest list; ours restores the registers when it ends. *)

GeRuns ==
  /\ ge # <<>>
  /\ LET what == Head(ge)[1]
         b    == Head(ge)[2] IN
     /\ curved' = [curved EXCEPT ![b] =
                     CASE what = "draw"  -> 0
                       [] what = "copy"  -> curved["off"]
                       [] what = "curve" -> IF @ = 2 THEN 2 ELSE @ + 1]
     /\ fbp' = IF what = "curve" THEN fbp ELSE b
  /\ ge' = Tail(ge)
  /\ UNCHANGED <<around, shown, guard, busy, stash, target, role, gamev, workv, raced>>

-----------------------------------------------------------------------------
(* The hooks around a game's GE submit *)

\* Which of the two submits this is: the register in thread context, the latch in
\* interrupt context.
Scene(intr) == IF intr THEN parValid /\ parNext ELSE fbp = dispFb

\* The guards of st_ge_on_submit ahead of the role.
Open == arm /\ gate # "menu" /\ busy = "free" /\ dispFb # NoBuf /\ offFb # NoBuf
Live == ~exiting /\ susp = "no" /\ active

\* The parity latch moves on every submit while the pass is active, and is set by what
\* the register shows where it can be read.
Latch(intr) ==
  /\ parNext'  = IF ~Live THEN parNext
                 ELSE IF Open /\ ~intr THEN fbp # dispFb ELSE ~parNext
  /\ parValid' = (parValid \/ (Live /\ Open /\ ~intr))

\* st_ge_on_submit: the decision before the real enqueue; the floors drop some.
Decision(intr) == IF Live /\ Open /\ Scene(intr) THEN BOOLEAN ELSE {FALSE}

\* The game's thread submits the lists of a frame.
SubmitDraw ==
  /\ game = "idle" /\ phase = "draw" /\ GameLists < Ahead
  /\ Latch(FALSE) /\ pending' \in Decision(FALSE)
  /\ Submits
  /\ game' = "enqueue" /\ gbuf' = Target
  /\ UNCHANGED <<around, screen, lastFb, busy, stash, target, phase, helper, wbuf, anew, raced>>

RealEnqueue ==
  /\ game = "enqueue"
  /\ ge' = Append(ge, <<"draw", gbuf, "game">>)
  /\ game' = "after" /\ gbuf' = NoBuf /\ phase' = "show"
  /\ anew' = TRUE /\ raced' = Late
  /\ UNCHANGED <<around, curved, fbp, shown, guard, busy, stash, target, role, helper, wbuf,
                 wfresh>>

\* st_ge_after_submit in thread context: the claim, then the list.
AfterSubmit ==
  /\ game = "after"
  /\ pending' = FALSE
  /\ IF pending /\ susp = "no" /\ busy = "free"
     THEN busy' = "game" /\ game' = "inject"
     ELSE game' = "idle" /\ UNCHANGED busy
  /\ UNCHANGED <<around, screen, guard, stash, target, parNext, parValid, gbuf, phase,
                 workv, raced>>

Inject ==
  /\ game = "inject"
  /\ ge' = Append(ge, <<"curve", offFb, "game">>)
  /\ lastFb' = offFb /\ fresh' = FALSE /\ busy' = "free" /\ injected' = TRUE
  /\ game' = "idle"
  /\ raced' = (raced \/ offFb = shown \/ ~arm)
  /\ UNCHANGED <<around, curved, fbp, shown, stash, arm, offFb, dispFb, role, gbuf, phase,
                 workv>>

\* An interrupt handler of the game submits: the composite, or under load the scene.
\* The two hooks and the list between them run as one.
InterruptSubmit ==
  /\ GameLists < Ahead
  /\ \/ phase = "draw" /\ game = "idle" /\ phase' = "show"
     \/ phase = "show" /\ kind = "comp" /\ phase' = "draw"
  /\ Latch(TRUE) /\ pending' = FALSE
  /\ LET own == IF phase = "draw" THEN <<"draw", Target, "isr">> ELSE <<"copy", "A", "isr">> IN
     \E hit \in Decision(TRUE) :
       IF hit
       THEN /\ ge' = ge \o <<own, <<"curve", offFb, "isr">>>>
            /\ lastFb' = offFb /\ fresh' = FALSE /\ injected' = TRUE
            /\ raced' = (Late \/ offFb = shown)
       ELSE /\ ge' = Append(ge, own) /\ raced' = Late
            /\ fresh' = TRUE /\ UNCHANGED <<lastFb, injected>>
  /\ wfresh' = (helper \in Window)
  /\ anew' = (anew \/ phase = "draw")
  /\ UNCHANGED <<around, curved, fbp, shown, busy, stash, arm, offFb, dispFb, game, gbuf,
                 helper, wbuf>>

-----------------------------------------------------------------------------
(* The present hook: st_on_present *)

MayApply == susp = "no" /\ active /\ gate = "open"

\* The double-apply guard: the buffer last curved, and nothing submitted since; the
\* floor on the spacing may skip one that has been.
Skips(b) == IF b # lastFb THEN {FALSE} ELSE IF fresh THEN BOOLEAN ELSE {TRUE}

Show(b) == shown' = b /\ phase' = "draw"

\* What a flip game presents when its frame is drawn, and what any game presents again.
Presented == IF phase = "show" /\ kind = "flip" THEN Target ELSE shown

CanPresent == game = "idle" /\ (phase = "draw" \/ kind = "flip")

\* A present of a game that the injection was armed for gives the injection up.
Disarm == arm' = FALSE /\ parValid' = (parValid /\ ~arm)

\* The hook in thread context, up to st_apply's claim: a busy GE hands the frame to the
\* worker, which will find it on the screen.  A game that was injected into presents again.
PresentThread ==
  /\ CanPresent
  /\ IF ~MayApply
     THEN Show(Presented) /\ UNCHANGED <<arm, parValid, raced, stash, game, gbuf>>
     ELSE /\ Disarm
          /\ raced' = (raced \/ arm \/ lastFb = "off" \/ helper = "sync")
          /\ \E skip \in Skips(Presented) :
               CASE skip \/ exiting -> Show(Presented) /\ UNCHANGED <<stash, game, gbuf>>
                 [] ~skip /\ ~exiting /\ ~Drained ->
                      Show(Presented) /\ stash' = Presented /\ UNCHANGED <<game, gbuf>>
                 [] OTHER -> game' = "claim" /\ gbuf' = Presented
                             /\ UNCHANGED <<shown, phase, stash>>
  /\ UNCHANGED <<around, ge, curved, fbp, guard, busy, offFb, dispFb, injected, pending, parNext,
                 workv>>

\* Variant: the claim is taken whoever holds it.
PresentSeizes ==
  /\ game = "claim"
  /\ busy' = "game" /\ game' = "build"
  /\ UNCHANGED <<around, screen, guard, stash, target, role, gbuf, phase, workv, raced>>

PresentClaim ==
  /\ game = "claim"
  /\ IF busy = "free"
     THEN busy' = "game" /\ game' = "build" /\ UNCHANGED <<shown, phase, gbuf>>
     ELSE Show(gbuf) /\ game' = "idle" /\ gbuf' = NoBuf /\ UNCHANGED busy
  /\ UNCHANGED <<around, ge, curved, fbp, guard, stash, target, role, workv, raced>>

\* The list of an inline present; the game waits for it, except in the grace after a
\* resume and once the game is exiting.
PresentBuild ==
  /\ game = "build"
  /\ ge' = Append(ge, <<"curve", gbuf, "game">>)
  /\ game' = "sync" /\ raced' = Late
  /\ UNCHANGED <<around, curved, fbp, shown, guard, busy, stash, target, role, gbuf,
                 phase, workv>>

PresentDone ==
  /\ game = "sync" /\ (grace \/ exiting \/ ~Waits("game"))
  /\ busy' = "free" /\ lastFb' = gbuf /\ fresh' = FALSE
  /\ Show(gbuf) /\ game' = "idle" /\ gbuf' = NoBuf
  /\ UNCHANGED <<around, ge, curved, fbp, stash, target, role, workv, raced>>

\* A present from an interrupt handler queues its list without waiting.  A game flips
\* there when the GE has told it that the frame is drawn.
PresentInterrupt ==
  /\ CanPresent /\ kind = "flip" /\ GameLists = 0
  /\ Show(Presented)
  /\ IF ~MayApply
     THEN UNCHANGED <<arm, parValid, raced, ge, guard>>
     ELSE /\ Disarm
          /\ \E skip \in Skips(Presented) :
               IF skip \/ busy # "free"
               THEN UNCHANGED <<ge, guard, raced>>
               ELSE /\ ge' = Append(ge, <<"curve", Presented, "isr">>)
                    /\ lastFb' = Presented /\ fresh' = FALSE
                    /\ raced' = (Late \/ arm)
  /\ UNCHANGED <<around, curved, fbp, busy, stash, offFb, dispFb, injected, pending, parNext,
                 game, gbuf, workv>>

-----------------------------------------------------------------------------
(* The worker *)

\* st_ensure_started: the quiet window is counted from here.
StartHelper ==
  /\ helper = "none" /\ active /\ ~exiting
  /\ helper' = "loop"
  /\ parNext' = FALSE /\ parValid' = FALSE /\ injected' = FALSE
  /\ anew' = FALSE
  /\ UNCHANGED <<around, screen, guard, busy, stash, arm, offFb, dispFb, pending, gamev, wbuf,
                 wfresh, raced>>

\* The two exits; the HUD can keep a worker with nothing to apply alive.
EndHelper ==
  /\ helper = "loop" /\ (exiting \/ ~active)
  /\ helper' = "none"
  /\ IF exiting THEN UNCHANGED <<arm, parValid>> ELSE arm' = FALSE /\ parValid' = FALSE
  /\ UNCHANGED <<around, screen, guard, busy, stash, offFb, dispFb, injected, pending, parNext,
                 gamev, wbuf, wfresh, anew, raced>>

\* An armed injection that never fires is given up.
Disprove ==
  /\ helper = "loop" /\ arm /\ ~injected
  /\ arm' = FALSE
  /\ UNCHANGED <<around, screen, guard, busy, stash, offFb, dispFb, injected, role, gamev, workv,
                 raced>>

\* st_reacquire: after a resume, and after lists enough that every hook has returned and
\* every buffer been drawn again (ST_RESUME_MIN_SEQ), every cached view is dropped.
ReacquireGe ==
  /\ helper = "loop" /\ ~exiting /\ active /\ susp = "armed"
  /\ game \in {"idle", "enqueue", "after"}
  /\ (\A b \in Buffers : curved[b] = 0) /\ Uncurved(ge)
  /\ susp' = "no" /\ grace' = TRUE
  /\ lastFb' = NoBuf /\ offFb' = NoBuf /\ dispFb' = NoBuf
  /\ arm' = FALSE /\ pending' = FALSE /\ parNext' = FALSE /\ parValid' = FALSE
  /\ UNCHANGED <<kind, active, gate, exiting, changes, screen, fresh, busy, stash, injected,
                 gamev, workv, raced>>

Works == helper = "loop" /\ ~exiting /\ susp = "no"

\* A stashed present; one older than ST_DEFER_MAX_US is dropped.
TakeStash ==
  /\ Works /\ stash # NoBuf
  /\ stash' = NoBuf
  /\ \/ helper' = "apply" /\ wbuf' = stash
     \/ UNCHANGED <<helper, wbuf>>
  /\ UNCHANGED <<around, screen, guard, busy, target, role, gamev, wfresh, anew, raced>>

\* Presents have been absent for ST_POLL_QUIET_US and as many ticks as ST_POLL_ARM_TICKS
\* since the worker started, so the game has begun a frame; it renders, and its frame has
\* left the GE: the register names its render target.
Poll ==
  /\ Works /\ gate = "open" /\ anew /\ Drained
  /\ helper' = "drained" /\ wbuf' = fbp
  /\ UNCHANGED <<around, screen, guard, busy, stash, target, role, gamev, wfresh, anew, raced>>

\* A target that is not the displayed buffer arms the injection; otherwise the displayed
\* buffer is curved here, unless a sweep finds a target.
Decide ==
  /\ helper = "drained"
  /\ dispFb' = shown
  /\ CASE wbuf # shown ->
            offFb' = wbuf /\ arm' = TRUE /\ helper' = "loop" /\ wbuf' = NoBuf
       [] wbuf = shown /\ arm ->
            helper' = "loop" /\ wbuf' = NoBuf /\ UNCHANGED <<offFb, arm>>
       [] OTHER -> helper' = "sweep" /\ UNCHANGED <<offFb, arm, wbuf>>
  /\ UNCHANGED <<around, screen, guard, busy, stash, injected, role, gamev, wfresh, anew, raced>>

Sweep ==
  /\ helper = "sweep"
  /\ \/ fbp # dispFb /\ offFb' = fbp /\ arm' = TRUE /\ helper' = "loop" /\ wbuf' = NoBuf
     \/ helper' = "apply" /\ UNCHANGED <<offFb, arm, wbuf>>
  /\ UNCHANGED <<around, screen, guard, busy, stash, dispFb, injected, role, gamev, wfresh,
                 anew, raced>>

\* Where the worker goes from a decision of st_apply, and what it keeps.
Goes(on) ==
  /\ helper' = IF on THEN "claim" ELSE "loop"
  /\ wbuf' = IF on THEN wbuf ELSE NoBuf
  /\ raced' = (raced \/ game # "idle")
  /\ UNCHANGED <<around, screen, guard, busy, stash, target, role, gamev, wfresh, anew>>

\* st_apply from the worker: the guards, the claim, the list, and its end.  With a hook
\* of the game under way the count of its submits runs ahead of its list.
Apply == helper = "apply" /\ \E skip \in Skips(wbuf) : Goes(MayApply /\ ~exiting /\ ~skip)

ApplyClaim ==
  /\ helper = "claim"
  /\ IF busy = "free"
     THEN busy' = "worker" /\ helper' = "build" /\ UNCHANGED <<wbuf, wfresh>>
     ELSE helper' = "loop" /\ wbuf' = NoBuf /\ wfresh' = FALSE /\ UNCHANGED busy
  /\ UNCHANGED <<around, screen, guard, stash, target, role, gamev, anew, raced>>

ApplyBuild ==
  /\ helper = "build"
  /\ ge' = Append(ge, <<"curve", wbuf, "worker">>)
  /\ helper' = "sync"
  /\ raced' = (raced \/ game \in {"claim", "build"})
  /\ UNCHANGED <<around, curved, fbp, shown, guard, busy, stash, target, role, gamev, wbuf,
                 wfresh, anew>>

ApplyDone ==
  /\ helper = "sync" /\ (grace \/ exiting \/ ~Waits("worker"))
  /\ busy' = "free" /\ lastFb' = wbuf /\ fresh' = wfresh
  /\ helper' = "loop" /\ wbuf' = NoBuf /\ wfresh' = FALSE
  /\ UNCHANGED <<around, screen, stash, target, role, gamev, anew, raced>>

-----------------------------------------------------------------------------
(* Around the pass: settings, browser and operations, dialogs, power, exit *)

Surroundings ==
  /\ changes < Changes /\ changes' = changes + 1
  /\ \/ active' = ~active /\ UNCHANGED <<gate, susp, exiting>>
     \/ gate' \in {"open", "menu", "dialog"} \ {gate} /\ UNCHANGED <<active, susp, exiting>>
     \/ susp = "no" /\ susp' = "down" /\ UNCHANGED <<active, gate, exiting>>
     \/ ~exiting /\ exiting' = TRUE /\ UNCHANGED <<active, gate, susp>>
  /\ UNCHANGED <<kind, grace, screen, guard, busy, stash, target, role, gamev, workv, raced>>

\* st_pwr_resume, and the end of the grace.
AfterResume ==
  /\ \/ susp = "down" /\ susp' = "armed" /\ UNCHANGED grace
     \/ grace /\ grace' = FALSE /\ UNCHANGED susp
  /\ UNCHANGED <<kind, active, gate, exiting, changes, screen, guard, busy, stash, target, role,
                 gamev, workv, raced>>

-----------------------------------------------------------------------------
GameThread ==
  SubmitDraw \/ RealEnqueue \/ AfterSubmit \/ Inject \/ PresentThread \/ PresentClaim
  \/ PresentBuild \/ PresentDone

Helper ==
  Disprove \/ ReacquireGe \/ TakeStash \/ Poll \/ Decide \/ Sweep \/ Apply
  \/ ApplyClaim \/ ApplyBuild \/ ApplyDone \/ StartHelper \/ EndHelper

GammaNext == ~raced /\
  (GeRuns \/ GameThread \/ InterruptSubmit \/ PresentInterrupt \/ Helper \/ Surroundings
  \/ AfterResume)

GammaSpec == GammaInit /\ [][GammaNext]_gammaVars

-----------------------------------------------------------------------------
(* Properties *)

\* No frame is curved twice, unless a game presents again after an injection, or another
\* list reached the GE between the worker's look and its own list (screen_tuning.c:1381).
Washed == curved[shown] = 2 => raced

\* One submit at a time: whoever builds a list holds the claim, whatever interrupts
\* submit in between (screen_tuning.c:1186).
OneBuilder ==
  /\ game \in {"inject", "build", "sync"} <=> busy = "game"
  /\ helper \in {"build", "sync"} <=> busy = "worker"

\* Three parties correct frames through one list, and a frame is corrected once.
CurveLaidOnce == OneBuilder /\ Washed
=============================================================================
