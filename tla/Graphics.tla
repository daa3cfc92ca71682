------------------------------ MODULE Graphics ------------------------------
(***************************************************************************)
(* The graphics controller (cc/backend/graphics): its clock, the modes it  *)
(* goes through, LY, the requests in IF, and when it draws.  What it draws *)
(* is the subject of Renderer.                                             *)
(*                                                                         *)
(* Memory::Tick calls Tick after each instruction; between two ticks the   *)
(* game may write the registers and acknowledge interrupts.                *)
(***************************************************************************)
EXTENDS Integers

CONSTANTS
  kSmallPeriod, kLargePeriod,                       \* ticks of a line, of a frame
  kVBlankLowerBound,                                \* end of the lines displayed
  kOAMLockedUpperBound, kVRAMOAMLockedUpperBound,   \* ends of modes 2 and 3 in a line
  LastLine,                                         \* greatest LY: 153
  CycleCounts,                                      \* what an instruction may take
  StatusWrites, CompareWrites                       \* what the game writes to STAT, LYC

(* A line has its three modes, a frame its blank lines, and no instruction  *)
(* is longer than a mode.                                                   *)
ASSUME GraphicsAssumption ==
  /\ {kSmallPeriod, kLargePeriod, kVBlankLowerBound, kOAMLockedUpperBound,
      kVRAMOAMLockedUpperBound} \subseteq Nat \ {0}
  /\ LastLine \in Nat \ {0}
  /\ CycleCounts \subseteq 1 .. kOAMLockedUpperBound
  /\ 2 * kOAMLockedUpperBound <= kVRAMOAMLockedUpperBound
  /\ kVRAMOAMLockedUpperBound + kOAMLockedUpperBound <= kSmallPeriod
  /\ kSmallPeriod <= kVBlankLowerBound
  /\ kVBlankLowerBound + kSmallPeriod < kLargePeriod
  /\ CompareWrites \subseteq 0 .. LastLine

Modes == {"MODE_0", "MODE_1", "MODE_2", "MODE_3"}

VARIABLES
  time_, previous_mode_,
  lcd_status,          \* mode, coincidence_flag and the four enables of STAT
  lcd_display_enable,  \* the bit of LCDC
  ly_coordinate, ly_compare,
  oam_enabled_, vram_enabled_,
  v_blank, lcd_stat,   \* the requests in InterruptFlag
  drawn,               \* history: the last step drew the screen,
  blanks, lines,       \*   V-blank requests and advances of LY in this frame,
  whole,               \*   which began when the frame before it ended,
  gap, touched         \*   and advances since the last Draw, if undisturbed

registers == <<ly_compare, lcd_display_enable>>
requests == <<v_blank, lcd_stat>>
history == <<drawn, blanks, lines, whole, gap, touched>>
vars == <<time_, previous_mode_, lcd_status, ly_coordinate, oam_enabled_, vram_enabled_,
          registers, requests, history>>

Enables == [coincidence_interrupt : BOOLEAN, oam_interrupt : BOOLEAN,
            v_blank_interrupt : BOOLEAN, h_blank_interrupt : BOOLEAN]
Status == [mode : Modes, coincidence_flag : BOOLEAN, enables : Enables]

(* No constructor sets previous_mode_, which may be no mode at all.         *)
Init ==
  /\ time_ = 0
  /\ previous_mode_ \in Modes \cup {"UNINITIALIZED"}
  /\ lcd_status = [mode |-> "MODE_0", coincidence_flag |-> FALSE,
                   enables |-> [coincidence_interrupt |-> FALSE, oam_interrupt |-> FALSE,
                                v_blank_interrupt |-> FALSE, h_blank_interrupt |-> FALSE]]
  /\ lcd_display_enable = FALSE
  /\ ly_coordinate = 0 /\ ly_compare = 0
  /\ oam_enabled_ = TRUE /\ vram_enabled_ = TRUE
  /\ v_blank = FALSE /\ lcd_stat = FALSE
  /\ drawn = FALSE /\ blanks = 0 /\ lines = 0 /\ whole = FALSE
  /\ gap = 0 /\ touched = TRUE

-----------------------------------------------------------------------------
Enters(mode) == previous_mode_ # mode

(* Mutant: line zero, which is drawn, is counted as the last of a pass.     *)
Increment_FromOne == IF ly_coordinate >= LastLine THEN 1 ELSE ly_coordinate + 1

(* LYCoordinate::Increment.                                                 *)
Increment == IF ly_coordinate >= LastLine THEN 0 ELSE ly_coordinate + 1

(* What every tick does first: compare, then move the clock on.  LY never   *)
(* asks for a reset of the clock: its Write leaves has_reset_ false.        *)
Coincides == ly_coordinate = ly_compare
CoincidenceRequest == Coincides /\ lcd_status.enables.coincidence_interrupt

Time(n) == (time_ + n) % kLargePeriod

SetMode(mode) ==
  lcd_status' = [lcd_status EXCEPT !.mode = mode,
                                   !.coincidence_flag = @ \/ Coincides]

(* Mode mode, with OAM and VRAM as enabled and a request of STAT if on.     *)
EnterMode(mode, oam, vram, request) ==
  /\ SetMode(mode)
  /\ oam_enabled_' = oam /\ vram_enabled_' = vram
  /\ lcd_stat' = (lcd_stat \/ CoincidenceRequest \/ (Enters(mode) /\ request))
  /\ previous_mode_' = mode
  /\ UNCHANGED registers

(* Bound on gap: no Draw for longer is all alike.                           *)
MaxGap == 3 * (LastLine + 1)

(* The history of a frame and of the lines since the last Draw.             *)
Record(n, blank, line, draw) ==
  LET over == time_ + n >= kLargePeriod IN
  /\ blanks' = (IF over THEN 0 ELSE blanks) + blank
  /\ lines' = (IF over THEN 0 ELSE lines) + line
  /\ whole' = (whole \/ over)
  /\ drawn' = draw
  /\ touched' = (touched /\ ~draw)
  /\ gap' = IF draw \/ touched THEN 0
            ELSE IF gap < MaxGap THEN gap + line ELSE gap

(* Mutant: every tick of the blank lines requests the interrupt.            *)
EntersVBlank_Always == TRUE

EntersVBlank == Enters("MODE_1")

TickVBlank(n) ==
  /\ Time(n) > kVBlankLowerBound
  /\ EnterMode("MODE_1", TRUE, TRUE, lcd_status.enables.v_blank_interrupt)
  /\ v_blank' = (v_blank \/ EntersVBlank)
  /\ UNCHANGED ly_coordinate
  /\ Record(n, IF EntersVBlank THEN 1 ELSE 0, 0, FALSE)

(* Mutant: LY advances at every tick of mode 2.                             *)
Advances_EveryTick == TRUE

Advances == Enters("MODE_2")

(* The end of the last line displayed still belongs to mode 2, should a     *)
(* tick fall on it.                                                         *)
TickOAMLocked(n) ==
  /\ Time(n) <= kVBlankLowerBound
  /\ Time(n) % kSmallPeriod < kOAMLockedUpperBound
  /\ EnterMode("MODE_2", FALSE, TRUE, lcd_status.enables.oam_interrupt)
  /\ ly_coordinate' = IF Advances THEN Increment ELSE ly_coordinate
  /\ UNCHANGED v_blank
  /\ Record(n, 0, IF Advances THEN 1 ELSE 0, FALSE)

(* Mutant: a line is drawn at each of its ticks.                            *)
Draws_EveryTick == lcd_display_enable /\ ly_coordinate = 0

Draws == lcd_display_enable /\ Enters("MODE_3") /\ ly_coordinate = 0

TickVRAMOAMLocked(n) ==
  /\ Time(n) <= kVBlankLowerBound
  /\ Time(n) % kSmallPeriod \in kOAMLockedUpperBound .. kVRAMOAMLockedUpperBound - 1
  /\ EnterMode("MODE_3", FALSE, FALSE, FALSE)
  /\ UNCHANGED <<ly_coordinate, v_blank>>
  /\ Record(n, 0, 0, Draws)

TickHBlank(n) ==
  /\ Time(n) <= kVBlankLowerBound
  /\ Time(n) % kSmallPeriod >= kVRAMOAMLockedUpperBound
  /\ EnterMode("MODE_0", TRUE, TRUE, lcd_status.enables.h_blank_interrupt)
  /\ UNCHANGED <<ly_coordinate, v_blank>>
  /\ Record(n, 0, 0, FALSE)

Tick ==
  \E n \in CycleCounts :
    /\ time_' = Time(n)
    /\ TickVBlank(n) \/ TickOAMLocked(n) \/ TickVRAMOAMLocked(n) \/ TickHBlank(n)

-----------------------------------------------------------------------------
(* The game writes the registers and acknowledges interrupts.               *)
ClockKept == UNCHANGED <<time_, previous_mode_, oam_enabled_, vram_enabled_>>
Undisturbed == drawn' = FALSE /\ UNCHANGED <<blanks, lines, whole, gap, touched>>
Disturbed == drawn' = FALSE /\ touched' = TRUE /\ gap' = 0 /\ UNCHANGED <<blanks, lines, whole>>

(* All eight bits are stored, those of the mode and of the coincidence too. *)
WriteStatus ==
  /\ lcd_status' \in StatusWrites
  /\ UNCHANGED <<ly_coordinate, registers, requests>> /\ ClockKept /\ Undisturbed

WriteControl ==
  /\ lcd_display_enable' \in BOOLEAN
  /\ UNCHANGED <<lcd_status, ly_coordinate, ly_compare, requests>> /\ ClockKept /\ Disturbed

WriteLY ==
  /\ ly_coordinate' = 0
  /\ UNCHANGED <<lcd_status, registers, requests>> /\ ClockKept /\ Disturbed

WriteCompare ==
  /\ ly_compare' \in CompareWrites
  /\ UNCHANGED <<lcd_status, ly_coordinate, lcd_display_enable, requests>>
  /\ ClockKept /\ Undisturbed

Acknowledge ==
  /\ \/ v_blank /\ v_blank' = FALSE /\ UNCHANGED lcd_stat
     \/ lcd_stat /\ lcd_stat' = FALSE /\ UNCHANGED v_blank
  /\ UNCHANGED <<lcd_status, ly_coordinate, registers>> /\ ClockKept /\ Undisturbed

Next ==
  \/ Tick
  \/ WriteStatus \/ WriteControl \/ WriteLY \/ WriteCompare \/ Acknowledge

(* Each instruction of the running emulation ends in a Tick.                *)
Spec == Init /\ [][Next]_vars /\ WF_vars(Tick)

-----------------------------------------------------------------------------
TypeOK ==
  /\ time_ \in 0 .. kLargePeriod - 1
  /\ previous_mode_ \in Modes \cup {"UNINITIALIZED"}
  /\ ly_coordinate \in 0 .. LastLine /\ ly_compare \in 0 .. LastLine
  /\ lcd_display_enable \in BOOLEAN
  /\ oam_enabled_ \in BOOLEAN /\ vram_enabled_ \in BOOLEAN
  /\ v_blank \in BOOLEAN /\ lcd_stat \in BOOLEAN
  /\ drawn \in BOOLEAN /\ whole \in BOOLEAN /\ touched \in BOOLEAN
  /\ blanks \in Nat /\ lines \in Nat /\ gap \in Nat

(* Whatever the instructions take and the game writes, a frame requests one *)
(* V-blank interrupt, when its blank lines begin.                           *)
OneVBlankPerFrame == blanks = IF time_ > kVBlankLowerBound THEN 1 ELSE 0

(* A frame advances LY once for each line displayed, and once more if a     *)
(* tick falls on the very end of the last.  LY counts the blank lines too,  *)
(* but does not advance in them: it is not the line the clock is in, but    *)
(* drifts against the frames.                                               *)
Displayed == kVBlankLowerBound \div kSmallPeriod

LinesPerFrame ==
  whole /\ time_ > kVBlankLowerBound => lines \in {Displayed, Displayed + 1}

(* LY runs over 154 lines, a frame over the 144 displayed: neither one more *)
(* than those nor more than twice as many.  Otherwise LY might reach zero   *)
(* at the end of the last line displayed in every pass, and be never drawn. *)
ASSUME PassAssumption == LastLine # Displayed /\ LastLine < 2 * Displayed

(* If the game leaves LY and the display alone, LY passes every line once,  *)
(* or twice, between two drawings: twice if it reached zero at the very end *)
(* of the last line, where mode 3 does not follow.                          *)
DrawsApart ==
  [][drawn' => touched \/ gap \in {LastLine + 1, 2 * (LastLine + 1)}]_vars

(* A display that is on, with LY left alone, is drawn again and again       *)
(* whatever the lengths of the instructions.                                *)
LYLeftAlone == [][ly_coordinate' # ly_coordinate => time_' # time_]_vars

DrawsRecur == <>[]lcd_display_enable /\ <>LYLeftAlone => []<>drawn
=============================================================================
