------------------------------ MODULE ScreenCurve -----------------------------
(***************************************************************************)
(* The picture correction itself: which pixels a pass touches and what it  *)
(* makes of them.  A game's frame is corrected by a display list of the    *)
(* GE, a PS1 game's by a table on the CPU; both must be the same curve.    *)
(* The settings may move by one step while a list is being built, and the  *)
(* GE keeps whatever registers the game left in it.                        *)
(***************************************************************************)
EXTENDS Integers, Sequences

CONSTANTS
  GammaSpan,  \* gammas looked at, times 100 (50 .. 200)
  TempSpan,   \* colour temperatures looked at (0 .. 200)
  Samples,    \* channel values looked at (0 .. 255)
  Offsets,    \* where in VRAM a game's buffer may begin, in bytes
  Strides,    \* words FBW may hold, in pixels
  Heights     \* lines REGION2 may give

Vram   == 2097152   \* 2 MB
Lines  == 272
CovMaxW == 1024     \* ST_COV_MAX_W
CovMaxH == 1023     \* ST_COV_MAX_H
Strips  == 15       \* ST_STRIPS

ASSUME CurveAssumption ==
  /\ GammaSpan \subseteq 50 .. 200 /\ TempSpan \subseteq 0 .. 200 /\ Samples \subseteq 0 .. 255
  /\ GammaSpan # {} /\ TempSpan # {}
  /\ Offsets \subseteq Nat /\ Strides \subseteq Nat /\ Heights \subseteq Nat

VARIABLES
  pops,          \* g_is_pops: the CPU corrects, not the GE
  gamma, temp,   \* g_st_gamma, g_st_temp
  moved,         \* the setting has moved since this pass began (one step at most)
  vtx,           \* what the vertices and both FIXB words were built for, or <<>>
  lut,           \* what the tables were built for, or <<>>
  cov,           \* g_cov_w, g_cov_h
  aim,        \* where the pass draws
  texture,       \* the list so far: whether it reads the texture
  pc,            \* "idle", "vertices", "list", "blend"
  began,         \* the settings when the pass began
  frame          \* the last frame: by whom, for which settings, and what became of Samples

curveVars == <<pops, gamma, temp, moved, vtx, lut, cov, aim, texture, pc, began, frame>>

(****************************** the two curves *****************************)

\* C's division: towards zero
Div(a, b) == IF a < 0 THEN -((-a) \div b) ELSE a \div b

\* st_gamma_t100: strength in percent, positive brightens
Strength(g) == IF g > 100 THEN g - 100 ELSE 2 * (g - 100)

\* channel gains: warm cuts blue, cool cuts red, both a little green
Gain(t, c) ==
  LET d == t - 100
  IN CASE c = "g" -> 255 + Div((IF d < 0 THEN d ELSE -d) * 12, 100)
       [] c = "b" /\ d < 0 -> 255 + Div(d * 64, 100)
       [] c = "r" /\ d > 0 -> 255 - Div(d * 64, 100)
       [] OTHER -> 255

Channels == {"r", "g", "b"}

\* st_lut_fmt: the largest value of a channel
MaxOf(pf, c) ==
  CASE pf = 0 -> IF c = "g" THEN 63 ELSE 31
    [] pf = 1 -> 31
    [] pf = 2 -> 15
    [] OTHER -> 255

\* st_build_lut, one entry
Table(g, t, pf, c, v) ==
  LET max  == MaxOf(pf, c)
      sq   == (v * v + max \div 2) \div max
      o    == v + Div((v - sq) * Strength(g), 100)
      out  == Div(o * Gain(t, c) + 127, 255)
  IN IF out < 0 THEN 0 ELSE IF out > max THEN max ELSE out

\* st_build_vertices: the colour of the strips, and the two FIXB words
Abs(n) == IF n < 0 THEN -n ELSE n
VertexColour(g, t, c) == Div(Abs(Strength(g)) * Gain(t, c), 100)
DarkFix(g, t, c) == IF Strength(g) < 0 THEN Div((100 + Strength(g)) * Gain(t, c), 100) ELSE Gain(t, c)

\* st_build_vertices: where the strips lie
StripsOf(cw) == [i \in 1 .. Strips |-> <<((i - 1) * cw) \div Strips, (i * cw) \div Strips>>]

(********************************* the list ********************************)

\* stages that would change the result if the game had left them on
Stages == {"LIGHTING", "FOG", "CULL", "AA", "ATEST", "ZTEST", "STENCIL", "CTEST", "LOGICOP", "CLEARMODE"}

\* Variant: the common part leaves the offsets to the game.
CommonKeepsOffset ==
  [r \in Stages \cup {"REGION1", "SCISSOR1", "PMSKC"} |-> 0]

\* st_emit_common: the registers it sets; the rest stay the game's
Common ==
  [r \in Stages \cup {"REGION1", "SCISSOR1", "OFFSETX", "OFFSETY", "PMSKC"} |-> 0]

\* registers that must hold 0 for a strip to land on its pixels and nowhere else
MustBeZero == Stages \cup {"REGION1", "SCISSOR1", "OFFSETX", "OFFSETY", "PMSKC"}

\* One pixel under the strips, with the vertices of `v`, by a list that reads the texture or
\* not and blends for gamma `g` (external: the GE's blending, in 8-bit steps).
Drawn(v, tex, g, c, x) ==
  LET fragment == IF tex THEN (x * VertexColour(v[1], v[2], c)) \div 255 ELSE VertexColour(v[1], v[2], c)
      out == IF g < 100 THEN (fragment * x + x * DarkFix(v[1], v[2], c)) \div 255
             ELSE (fragment * (255 - x) + x * Gain(v[2], c)) \div 255
  IN IF out > 255 THEN 255 ELSE out

(******************************** the target *******************************)

Bpp(pf) == IF pf = 3 THEN 4 ELSE 2

\* st_read_game_target and st_fb_in_vram: 272 lines of it lie in VRAM
Plausible(tg) ==
  /\ tg.stride \in 64 .. 1024
  /\ tg.off + tg.stride * Lines * Bpp(tg.pf) <= Vram

\* st_cov_from_buffer: as wide as the stride, as high as the region if that is plausible
Estimate(tg, rw, rh) ==
  LET h == IF rw \in 480 .. 1024 /\ rh \in Lines .. 512 THEN rh ELSE (tg.stride * Lines + 479) \div 480
  IN IF h > CovMaxH THEN CovMaxH ELSE h

\* ... and no higher than VRAM has room for
Coverage(tg, rw, rh) ==
  LET top  == Estimate(tg, rw, rh)
      room == Vram - tg.off
      fits == {h \in Lines .. top : h * tg.stride * Bpp(tg.pf) <= room}
  IN [w |-> IF tg.stride > CovMaxW THEN CovMaxW ELSE tg.stride,
      h |-> IF top <= Lines THEN top
            ELSE IF fits = {} THEN Lines ELSE CHOOSE h \in fits : \A k \in fits : k <= h]

(********************************* actions *********************************)

PassTargets == {tg \in [off : Offsets, stride : Strides, pf : 0 .. 3] : Plausible(tg)}

\* bound: gammas within a step of the span
Near     == {g \in 50 .. 200 : {g - 1, g, g + 1} \cap GammaSpan # {}}
NoFrame  == [by |-> "none", of |-> {}, pf |-> 3, out |-> <<>>]
NoTarget == [off |-> 0, stride |-> 512, pf |-> 3, w |-> 480, h |-> Lines]

CurveInit ==
  /\ pops \in BOOLEAN /\ gamma \in GammaSpan /\ temp \in TempSpan /\ moved = FALSE
  /\ vtx = <<>> /\ lut = <<>> /\ cov = [w |-> 480, h |-> Lines]
  /\ aim = NoTarget
  /\ texture = FALSE /\ pc = "idle" /\ began = <<gamma, temp>>
  /\ frame = NoFrame

\* another game's settings are loaded, or the menu's chart has set them
Load ==
  /\ pc = "idle" /\ gamma' \in GammaSpan /\ temp' \in TempSpan
  /\ began' = <<gamma', temp'>> /\ frame' = NoFrame
  /\ UNCHANGED <<pops, moved, vtx, lut, cov, aim, texture, pc>>

\* the HUD moves gamma by a step, also between two instructions of a pass
Tune ==
  /\ pc # "idle" /\ ~moved /\ moved' = TRUE
  /\ gamma' \in {gamma - 1, gamma + 1} \cap Near
  /\ UNCHANGED <<pops, temp, vtx, lut, cov, aim, texture, pc, began, frame>>

\* st_submit for a display buffer: 480 by 272, narrower if the buffer is
PassDisplay ==
  /\ pc = "idle" /\ ~pops
  /\ \E tg \in PassTargets :
       aim' = [off |-> tg.off, stride |-> tg.stride, pf |-> tg.pf,
                  w |-> IF tg.stride < 480 THEN tg.stride ELSE 480, h |-> Lines]
  /\ pc' = "vertices" /\ frame' = NoFrame
  /\ UNCHANGED <<pops, gamma, temp, moved, vtx, lut, cov, texture, began>>

\* the worker sizes the coverage by the game's own buffer, and the injection uses it; a new
\* size drops the vertices
PassOffscreen ==
  /\ pc = "idle" /\ ~pops
  /\ \E tg \in PassTargets, rw \in {479, 480}, rh \in Heights :
       /\ cov' = Coverage(tg, rw, rh)
       /\ aim' = [off |-> tg.off, stride |-> tg.stride, pf |-> tg.pf, w |-> cov'.w, h |-> cov'.h]
  /\ vtx' = IF cov' # cov THEN <<>> ELSE vtx
  /\ pc' = "vertices" /\ frame' = NoFrame
  /\ UNCHANGED <<pops, gamma, temp, moved, lut, texture, began>>

\* st_submit: the vertices are built again unless they are for these settings and this size
Vertices ==
  /\ pc = "vertices" /\ pc' = "list"
  /\ vtx' = <<gamma, temp, aim.w, aim.h>>
  /\ UNCHANGED <<pops, gamma, temp, moved, lut, cov, aim, texture, began, frame>>

\* st_build_list: no texture is fetched when only the temperature counts
List ==
  /\ pc = "list" /\ pc' = "blend" /\ texture' = (gamma # 100)
  /\ UNCHANGED <<pops, gamma, temp, moved, vtx, lut, cov, aim, began, frame>>

\* the rest of st_build_list: the blend for this side of gamma 1.00; then the GE runs it
Blend ==
  /\ pc = "blend" /\ pc' = "idle"
  /\ LET regs == Common
         ok   == \A r \in MustBeZero : r \in DOMAIN regs /\ regs[r] = 0
     IN frame' = [by |-> IF ok THEN "ge" ELSE "spoilt", of |-> {began, <<gamma, temp>>}, pf |-> 3,
                 out |-> [c \in Channels |-> [x \in Samples |-> Drawn(vtx, texture, gamma, c, x)]]]
  /\ began' = <<gamma, temp>> /\ moved' = FALSE /\ texture' = FALSE /\ aim' = NoTarget
  /\ UNCHANGED <<pops, gamma, temp, vtx, lut, cov>>

\* st_pops_curve_copy: the tables are built again unless they are for these settings and
\* this pixel format
Copy(pf) ==
  /\ pc = "idle" /\ pops
  /\ lut' = <<gamma, temp, pf>>
  /\ frame' = [by |-> "cpu", of |-> {<<gamma, temp>>}, pf |-> pf,
               out |-> [c \in Channels |-> [x \in {y \in Samples : y <= MaxOf(pf, c)} |->
                          Table(lut'[1], lut'[2], lut'[3], c, x)]]]
  /\ UNCHANGED <<pops, gamma, temp, moved, vtx, cov, aim, texture, pc, began>>

CurveNext ==
  Load \/ Tune \/ PassDisplay \/ PassOffscreen \/ Vertices \/ List \/ Blend \/ \E pf \in 0 .. 3 : Copy(pf)

CurveSpec == CurveInit /\ [][CurveNext]_curveVars

(******************************** properties *******************************)

CurveTypeOK ==
  /\ gamma \in 50 .. 200 /\ temp \in 0 .. 200 /\ pc \in {"idle", "vertices", "list", "blend"}
  /\ Len(vtx) \in {0, 4} /\ Len(lut) \in {0, 3} /\ cov.w \in 64 .. CovMaxW /\ cov.h \in 1 .. CovMaxH
  /\ \A c \in DOMAIN frame.out : \A x \in DOMAIN frame.out[c] : frame.out[c][x] \in 0 .. 255

\* the curve both stand for: C * (v + t * (v - v^2)), v of 0 .. max
Curve(g, t, pf, c, x) ==
  LET max == MaxOf(pf, c)
  IN (Gain(t, c) * (x * max * 100 + Strength(g) * x * (max - x))) \div (25500 * max)

\* Whoever corrects a frame, and even if gamma moves while the list is built, every channel
\* comes out as the curve of the settings before or after the move says: the GE within 5
\* steps of 255, the table within 2.  A table never swaps two brightnesses.
FrameIsCurve ==
  /\ frame.by # "spoilt"
  /\ \A c \in DOMAIN frame.out : \A x \in DOMAIN frame.out[c] :
       \E s \in frame.of :
         Abs(frame.out[c][x] - Curve(s[1], s[2], frame.pf, c, x)) <= IF frame.by = "ge" THEN 5 ELSE 2
  /\ frame.by = "cpu" =>
       \A c \in Channels : \A x, y \in DOMAIN frame.out[c] : x < y => frame.out[c][x] <= frame.out[c][y]

\* A pass writes inside the 2 MB of VRAM, whatever stride, format, place and drawing region
\* the game's registers gave: the address is read off the hardware and may be anything.
InsideVram ==
  pc # "idle" => /\ aim.off + aim.h * aim.stride * Bpp(aim.pf) <= Vram
                 /\ aim.w <= aim.stride

\* The strips cover every column of the target once, also when its width is no multiple of 15.
NoSeam ==
  pc = "list" => LET s == StripsOf(vtx[3])
                 IN /\ vtx[3] = aim.w
                    /\ s[1][1] = 0 /\ s[Strips][2] = aim.w
                    /\ \A i \in 1 .. Strips - 1 : s[i][2] = s[i + 1][1]

\* Every corrected frame is the curve, everywhere inside the frame and nowhere else.
CurveIsDrawn == FrameIsCurve /\ InsideVram /\ NoSeam
===============================================================================
