------------------------------- MODULE MainLoop -------------------------------
(***************************************************************************)
(* The main loop (gzx.c) and the clocks that follow the CPU's: the ULA and  *)
(* the Spec256 video generators, sound and tape samples, and the field in   *)
(* which keys are read.  Each generator requests the CPU's interrupt at the *)
(* end of a field, and that of the eight GPUs while they are on.            *)
(*                                                                          *)
(*   pc          where the loop is: "top", "keys", "catch" (the loop that   *)
(*               lets the video catch up), "exec", "debug" (the debugger is *)
(*               open), "quit"                                              *)
(*   ret         where the loop goes on when the debugger is left           *)
(*   clk         z80_clock                                                  *)
(*   snd_t, tapp_t, disp_t  the times of the last sound sample, tape sample *)
(*               and reading of keys                                        *)
(*   ula, spec   the generators' clocks                                     *)
(*   gpu_on, video_mode  the GPUs are on; 1 shows their memory              *)
(*   cpu, gpus   the pending interrupt request and, for the CPU, int_lock   *)
(*   dbg         itrap_enabled, stop_enabled, prev_int_lock                 *)
(*                                                                          *)
(* Remembered for the properties: lastInt, when an interrupt was requested  *)
(* last; forced, how many fields were drawn out of turn; late, whether the  *)
(* GPUs were turned off since then, when the ULA may be up to a field ahead *)
(* and draws the next one from there; pace, "changed" since the modes were  *)
(* changed or a field was drawn out of turn, "caught" when the picture has  *)
(* caught up since, and "regular" when a field has ended since that was not *)
(* drawn at once from its middle on; steps, how many instructions were      *)
(* executed since the debugger was left.                                    *)
(***************************************************************************)
EXTENDS Integers

CONSTANTS Field, Sound, Tape, \* the periods of clock.h
          Cell,               \* the T states of eight pixels
          Times,              \* the T states that an instruction may take
          MaxT,               \* the most of them, with interrupts
          Half, Wrap,         \* 2^31, and the values of unsigned long
          MaxClock,           \* a bound on the time of a behaviour
          MaxForced           \* a bound on fields drawn out of turn

ASSUME PeriodsAssumption ==
  /\ Field \in Nat \ {0} /\ Sound \in Nat \ {0} /\ Tape \in Nat \ {0}
  /\ Cell \in 1..Field /\ MaxT \in Nat \ {0} /\ Times \subseteq 1..MaxT
  /\ MaxT <= Sound /\ MaxT <= Tape /\ MaxT <= Field
ASSUME WrapAssumption ==
  /\ Half \in Nat /\ Wrap \in Nat \ {0}
  /\ 2 * Half <= Wrap
  /\ Field + MaxT <= Half /\ Sound + MaxT <= Half /\ Tape + MaxT <= Half
ASSUME BoundsAssumption ==
  /\ MaxClock \in Nat /\ MaxForced \in Nat
  /\ (Field * (1 + MaxForced)) + Cell <= Half
(* An unsigned long of 64 bits does not run out while the program runs.     *)
ASSUME LongAssumption == MaxClock + MaxT <= Wrap - Half

VARIABLES pc, ret, clk, snd_t, tapp_t, disp_t, ula, spec, gpu_on, video_mode,
          cpu, gpus, dbg, lastInt, forced, late, pace, steps

clocks == <<clk, snd_t, tapp_t, disp_t>>
video == <<ula, spec>>
modes == <<gpu_on, video_mode>>
requests == <<cpu, gpus, lastInt>>
counts == <<forced, late>>
vars == <<pc, ret, clocks, video, modes, requests, dbg, counts, pace, steps>>

(***************************************************************************)
(* CLOCK_LT and CLOCK_GE: unsigned long arithmetic, the difference shifted  *)
(* right by 31.                                                             *)
(***************************************************************************)
ClockLt_Long32(a, b) == (a - b) % (2 * Half) >= Half
ClockLt(a, b) == (a - b) % Wrap >= Half
ClockGe(a, b) == (a - b) % Wrap < Half

Init ==
  /\ pc = "top" /\ ret = "top"
  /\ clk = 0 /\ snd_t = 0 /\ tapp_t = 0 /\ disp_t = 0
  /\ ula = [cbase |-> 0, clock |-> 0]
  /\ spec = 0
  /\ gpu_on = FALSE /\ video_mode = 0
  /\ cpu = [pending |-> FALSE, lock |-> FALSE]
  /\ gpus = FALSE
  /\ dbg = [itrap |-> FALSE, stop |-> FALSE, prev |-> FALSE]
  /\ lastInt = 0 /\ forced = 0 /\ late = FALSE /\ pace = "regular" /\ steps = 0

(***************************************************************************)
(* Drawing.  zx_scr_disp() draws eight pixels, zx_scr_disp_fast() a field;  *)
(* at the end of a field z80_int() and z80_g_int() are called.              *)
(***************************************************************************)
VideoClock == IF video_mode = 1 THEN spec ELSE ula.cbase + ula.clock
NextField_Frame(u) == [cbase |-> u.cbase + (2 * Field), clock |-> 0]
NextField_SameBase(u) == [cbase |-> u.cbase, clock |-> 0]
NextField(u) == [cbase |-> u.cbase + Field, clock |-> 0]

RequestInt_CpuOnly ==
  /\ cpu' = [cpu EXCEPT !.pending = TRUE]
  /\ lastInt' = clk
  /\ UNCHANGED gpus
RequestInt ==
  /\ cpu' = [cpu EXCEPT !.pending = TRUE]
  /\ gpus' = (gpus \/ gpu_on)
  /\ lastInt' = clk

DispCell ==
  /\ UNCHANGED spec
  /\ IF ula.clock + Cell >= Field
     THEN ula' = NextField(ula) /\ RequestInt
     ELSE ula' = [ula EXCEPT !.clock = @ + Cell] /\ UNCHANGED requests

DispFast ==
  /\ RequestInt
  /\ IF video_mode = 1 THEN spec' = spec + Field /\ UNCHANGED ula
     ELSE ula' = NextField(ula) /\ UNCHANGED spec

(* The menus and the debugger draw a field at once, whatever the time.      *)
DrawNow ==
  /\ forced < MaxForced
  /\ forced' = forced + 1
  /\ DispFast
  /\ pace' = "changed"
  /\ UNCHANGED <<clocks, modes, dbg, late, steps>>

(***************************************************************************)
(* main(): keys are read once in a field.                                   *)
(***************************************************************************)
Top ==
  /\ pc = "top"
  /\ IF ClockGe(clk - disp_t, Field)
     THEN pc' = "keys" /\ disp_t' = disp_t + Field
     ELSE pc' = "catch" /\ UNCHANGED disp_t
  /\ UNCHANGED <<ret, clk, snd_t, tapp_t, video, modes, requests, dbg, counts, pace, steps>>

Key(A) == pc = "keys" /\ A /\ UNCHANGED <<pc, ret>>

(* zx_scr_mode() and the GPUs that it looks at.                             *)
ScrMode(mode, on) ==
  /\ gpu_on' = on
  /\ video_mode' = IF mode = 1 /\ on THEN 1 ELSE 0
  /\ pace' = IF modes' = modes THEN pace ELSE "changed"

ChooseMode(mode) ==
  Key(ScrMode(mode, gpu_on) /\ UNCHANGED <<clocks, video, requests, dbg, counts, steps>>)

(* gpu_set_allow() in the menu of hardware options: gpu_disable().          *)
GpusOff ==
  Key(/\ gpu_on
      /\ ScrMode(0, FALSE)
      /\ late' = TRUE
      /\ UNCHANGED <<clocks, video, requests, dbg, forced, steps>>)

(* zx_reset(): gpu_reset() and gpu_disable() if the GPUs are on, and        *)
(* z80_reset().                                                             *)
ResetCpu == cpu' = [pending |-> FALSE, lock |-> FALSE]
Reset ==
  Key(/\ ResetCpu
      /\ IF gpu_on THEN gpus' = FALSE /\ ScrMode(0, FALSE) ELSE UNCHANGED <<gpus, modes, pace>>
      /\ late' = (late \/ gpu_on)
      /\ UNCHANGED <<clocks, video, lastInt, dbg, forced, steps>>)

(* zx_load_snap(): a snapshot resets the machine; with a .gfx file beside   *)
(* it gpu_enable() follows.  Unless that file is looked for and missing,    *)
(* the CPU is copied to the GPUs and the mode is chosen.  A load that fails *)
(* behind the reset leaves here what Reset leaves.                          *)
LoadSnapshot(gfx, missing) ==
  Key(/\ gfx => ~missing
      /\ ResetCpu
      /\ gpus' = (gpus /\ ~gpu_on /\ missing)
      /\ ScrMode(1, gfx)
      /\ late' = (late \/ (gpu_on /\ ~gfx))
      /\ UNCHANGED <<clocks, video, lastInt, dbg, forced, steps>>)

(* zx_load_snap_ay() locks interrupts for an instruction, and no more.      *)
LoadAY ==
  Key(/\ cpu' = [cpu EXCEPT !.lock = TRUE]
      /\ UNCHANGED <<clocks, video, modes, gpus, lastInt, dbg, counts, pace, steps>>)

ToggleDblLn == Key(DrawNow)

Quit == pc = "keys" /\ pc' = "quit" /\ UNCHANGED <<ret, clocks, video, modes, requests, dbg, counts, pace, steps>>
KeysDone == pc = "keys" /\ pc' = "catch" /\ UNCHANGED <<ret, clocks, video, modes, requests, dbg, counts, pace, steps>>

(***************************************************************************)
(* debugger_run().  It is called for a key, for a stop address before the   *)
(* instruction, and for a step behind it.                                   *)
(***************************************************************************)
EnterDebugger(back) ==
  /\ pc' = "debug" /\ ret' = back
  /\ dbg' = [dbg EXCEPT !.itrap = FALSE, !.stop = FALSE]
  /\ UNCHANGED steps

DebugKey == pc = "keys" /\ EnterDebugger("keys") /\ UNCHANGED <<clocks, video, modes, requests, counts, pace>>

ViewScreen == pc = "debug" /\ DrawNow /\ UNCHANGED <<pc, ret>>

(* The user goes on, traces into an instruction, or runs up to an address.  *)
LeaveDebugger(itrap, stop) ==
  /\ pc = "debug"
  /\ pc' = IF ret = "trapped" THEN "top" ELSE ret
  /\ dbg' = [itrap |-> itrap, stop |-> stop, prev |-> IF ret = "trapped" THEN cpu.lock ELSE dbg.prev]
  /\ steps' = 0
  /\ UNCHANGED <<ret, clocks, video, modes, requests, counts, pace>>

(***************************************************************************)
(* zx_proc_instr(): the video catches up, one call of zx_scr_disp() or      *)
(* zx_scr_disp_fast() at a time, then at most one sample is taken of each   *)
(* kind, then the instruction is executed.                                  *)
(***************************************************************************)
FieldEnds == gpu_on \/ ula.clock + Cell >= Field
WholeField == gpu_on /\ video_mode = 0 => ula.clock = 0
CatchUp ==
  /\ pc = "catch"
  /\ ClockLt(VideoClock, clk)
  /\ IF gpu_on THEN DispFast ELSE DispCell
  /\ late' = (late /\ ~FieldEnds)
  /\ pace' = IF pace = "caught" /\ FieldEnds /\ WholeField THEN "regular" ELSE pace
  /\ UNCHANGED <<pc, ret, clocks, modes, dbg, forced, steps>>

Sampled_Late(t, period) == IF ClockGe(clk - t, period + 1) THEN t + period ELSE t
Sampled(t, period) == IF ClockGe(clk - t, period) THEN t + period ELSE t
Sample(hit) ==
  /\ pc = "catch"
  /\ ~ClockLt(VideoClock, clk)
  /\ snd_t' = Sampled(snd_t, Sound)
  /\ tapp_t' = Sampled(tapp_t, Tape)
  /\ IF dbg.stop /\ hit THEN EnterDebugger("exec")
     ELSE pc' = "exec" /\ UNCHANGED <<ret, dbg, steps>>
  /\ pace' = IF pace = "changed" THEN "caught" ELSE pace
  /\ UNCHANGED <<clk, disp_t, video, modes, requests, counts>>

(* z80_g_execinstr() gives the GPUs the CPU's lock, not its request.  Then, *)
(* on each, z80_execinstr() takes or drops a request that is not locked.    *)
Stops_AnyPrefix(lock) == dbg.itrap /\ ~lock
Stops(lock) == dbg.itrap /\ (~lock \/ dbg.prev)
Exec(t, lock) ==
  /\ pc = "exec"
  /\ clk < MaxClock
  /\ clk' = clk + t
  /\ cpu' = [pending |-> cpu.pending /\ cpu.lock, lock |-> lock]
  /\ gpus' = IF gpu_on THEN gpus /\ cpu.lock ELSE gpus
  /\ IF Stops(lock) THEN EnterDebugger("trapped")
     ELSE /\ pc' = "top"
          /\ dbg' = IF dbg.itrap THEN [dbg EXCEPT !.prev = lock] ELSE dbg
          /\ steps' = IF dbg.itrap THEN steps + 1 ELSE 0
          /\ UNCHANGED ret
  /\ UNCHANGED <<snd_t, tapp_t, disp_t, video, modes, lastInt, counts, pace>>

Next ==
  \/ Top \/ KeysDone \/ Quit
  \/ \E mode \in {0, 1} : ChooseMode(mode)
  \/ GpusOff \/ Reset \/ LoadAY
  \/ \E gfx, missing \in BOOLEAN : LoadSnapshot(gfx, missing)
  \/ ToggleDblLn
  \/ DebugKey \/ ViewScreen
  \/ \E itrap, stop \in BOOLEAN : LeaveDebugger(itrap, stop)
  \/ CatchUp
  \/ \E hit \in BOOLEAN : Sample(hit)
  \/ \E t \in Times, lock \in BOOLEAN : Exec(t, lock)

(* The loops of the C code run; the user has to do nothing.                 *)
Fairness == WF_vars(CatchUp) /\ WF_vars(\E hit \in BOOLEAN : Sample(hit))
Spec == Init /\ [][Next]_vars /\ Fairness

TypeOK ==
  /\ pc \in {"top", "keys", "catch", "exec", "debug", "quit"}
  /\ ret \in {"top", "keys", "exec", "trapped"}
  /\ clk \in Nat /\ snd_t \in Nat /\ tapp_t \in Nat /\ disp_t \in Nat
  /\ ula \in [cbase : Nat, clock : 0..(Field - 1)]
  /\ spec \in Nat
  /\ gpu_on \in BOOLEAN /\ video_mode \in {0, 1}
  /\ cpu \in [pending : BOOLEAN, lock : BOOLEAN] /\ gpus \in BOOLEAN
  /\ dbg \in [itrap : BOOLEAN, stop : BOOLEAN, prev : BOOLEAN]
  /\ lastInt \in Nat /\ forced \in Nat /\ late \in BOOLEAN
  /\ pace \in {"changed", "caught", "regular"} /\ steps \in Nat

(***************************************************************************)
(* Properties.                                                              *)
(***************************************************************************)

(* Sound and tape samples and the reading of keys never fall behind by more *)
(* than their period and an instruction, and never run ahead, although each *)
(* instruction makes up for one period only (zx_proc_instr(), main()).      *)
OnTime ==
  /\ clk - snd_t \in 0..(Sound + MaxT - 1)
  /\ clk - tapp_t \in 0..(Tape + MaxT - 1)
  /\ clk - disp_t \in 0..(Field + MaxT - 1)

(* No instruction is executed before the picture has been drawn up to it,   *)
(* whatever modes were chosen and however long the generator stood still.   *)
CaughtUp == pc = "exec" => VideoClock >= clk

(* Interrupts are requested once in a field, give or take an instruction    *)
(* and the cell with which a field ends.  Never later, whatever modes are   *)
(* chosen: a field drawn out of turn and turning off the GPUs, which draw   *)
(* fields ahead, delay the next request by a field each.  And never         *)
(* earlier or again, from the first whole field on after the picture has    *)
(* caught up with such a change; in between, the generator that goes on     *)
(* may be anywhere in its field or many of them behind, and requests come   *)
(* as it draws them (video_ula_disp(), video_spec256_disp_fast()).          *)
Due == 1 + forced + (IF late THEN 1 ELSE 0)
IntsDue == clk - lastInt < (Field * Due) + MaxT + Cell
NotAgain == CatchUp /\ FieldEnds /\ pace = "regular" => clk - lastInt > Field - MaxT - Cell
IntsRegular == []IntsDue /\ [][NotAgain]_vars

(* The GPUs have a pending request exactly when the CPU has one: they take  *)
(* interrupts at the same instruction (z80_g_execinstr() copies everything  *)
(* else, but not the request).                                              *)
GpuInStep == gpu_on => gpus = cpu.pending

(* A single step ends behind the second instruction at the latest, also in  *)
(* an endless sequence of prefixes or EI (gzx.c:533).                       *)
StepEnds == dbg.itrap => steps <= 1

(* The loop that lets the video catch up ends.                              *)
CatchUpEnds == (pc = "catch") ~> (pc # "catch")
===============================================================================
